----------------------------- MODULE CaclChain ------------------------------
(***************************************************************************)
(* The rules of caclmgrd that do not come from ACLs: BFD, VXLAN and        *)
(* DASH-HA.  The main thread inserts and deletes them one by one as the    *)
(* events arrive and remembers them in attributes; an update thread, which *)
(* flushes the INPUT chain, puts them back from those attributes.  The     *)
(* update thread holds the lock of its namespace, the main thread does     *)
(* not take it for these rules.  (CaclUpdate models what starts an update  *)
(* and that there is one at a time.)                                       *)
(***************************************************************************)
EXTENDS Naturals, Sequences, FiniteSets

CONSTANTS
    Ips,         \* source addresses of the VXLAN tunnel
    Dpus,        \* rows of the DPU table
    Ports,       \* swbus ports
    None,        \* no row
    Blank,       \* a row without the field of interest
    MaxChanges,  \* bound: changes of the databases and commands that fail
    MaxUpdates,    \* bound: updates of the ACLs
    MaxChainFaults \* bound: commands that fail, of those

ASSUME ChainAssumption ==
    /\ IsFiniteSet(Dpus)
    /\ None \notin Ips \union Ports
    /\ Blank \notin Ips \union Ports
    /\ None # Blank
    /\ MaxChanges \in Nat
    /\ MaxUpdates \in Nat
    /\ MaxChainFaults \in Nat

VARIABLES
    bfdRow,       \* STATE_DB has a BFD session
    vxlanRow,     \* CONFIG_DB VXLAN_TUNNEL: None, Blank or the src_ip
    dpuRow,       \* CONFIG_DB DPU: None, Blank or the swbus_port of each DPU
    bfdQ,         \* a BFD_SESSION_TABLE notification is waiting
    vxlanQ,       \* the waiting notifications of VXLAN_TUNNEL, "set" or "del"
    dpuQ,         \* the waiting notifications of DPU, <<dpu, "set" or "del">>
    bfdAllowed, bfdSubscribed,
    vxlanAllowed, vxlanSrcIP, \* "" is None here
    dashHaPortMap,
    mainCmds,     \* what the main thread has begun: rules to delete and insert, then a flag
    upc,          \* where the update thread is
    fvs,          \* the source address it has read
    cmds,         \* its iptables_cmds, as far as built or not yet run
    dashItems,    \* the entries it iterates over
    chain,        \* INPUT: how often each allow rule stands in it
    raced,        \* history: did a handler and an update overlap, "never", "now" or "before"
    cmdFailed,    \* history: has a command failed since the latest update began
    addrs,        \* history: the addresses the tunnel has had since it was created
    changes, updates, chainFaults

db      == <<bfdRow, vxlanRow, dpuRow>>
queues  == <<bfdQ, vxlanQ, dpuQ>>
attrs   == <<bfdAllowed, bfdSubscribed, vxlanAllowed, vxlanSrcIP, dashHaPortMap>>
thread  == <<upc, fvs, cmds, dashItems>>
bounds  == <<changes, updates, chainFaults>>
vars    == <<db, queues, attrs, mainCmds, thread, chain, raced, cmdFailed, addrs, bounds>>

Bfd       == <<"bfd", None>>
Vxlan(ip) == <<"vxlan", ip>>
Dash(p)   == <<"dash", p>>
Lo        == <<"lo", None>> \* the first rule of the chain, for the loopback
Rules     == {Bfd, Lo} \union {Vxlan(ip) : ip \in Ips} \union {Dash(p) : p \in Ports}

Empty == [r \in Rules |-> 0]

\* Mutant of Apply: a deletion counts on the rule being there.
ApplyBlindly(cmd, ch) ==
    CASE cmd[1] = "flush"  -> Empty
      [] cmd[1] \in {"append", "insert"} -> [ch EXCEPT ![cmd[2]] = @ + 1]
      [] cmd[1] = "delete" -> [ch EXCEPT ![cmd[2]] = @ - 1]
      [] OTHER -> ch

\* What a command does to the chain: -I INPUT 2 adds a copy and fails while the chain has
\* no first rule, -D takes a copy away and fails without one.  run_commands goes on, as it
\* does when a command fails for another reason (MainStepFails, RunCommandFails).
Apply(cmd, ch) ==
    CASE cmd[1] = "flush"  -> Empty
      [] cmd[1] = "append" -> [ch EXCEPT ![cmd[2]] = @ + 1]
      [] cmd[1] = "insert" /\ ch[Lo] > 0 -> [ch EXCEPT ![cmd[2]] = @ + 1]
      [] cmd[1] = "delete" /\ ch[cmd[2]] > 0 -> [ch EXCEPT ![cmd[2]] = @ - 1]
      [] OTHER -> ch

\* The rules the attributes stand for.
Wanted(bfd, vxlan, ip, ports) ==
    [r \in Rules |->
        IF r = Lo \/ (r = Bfd /\ bfd) \/ (r = Vxlan(ip) /\ vxlan) THEN 1
        ELSE Cardinality({d \in Dpus : r = Dash(ports[d])})]

Booted == [Empty EXCEPT ![Lo] = 1]
NoMap == [d \in Dpus |-> None]
Entries(map) == {d \in Dpus : map[d] # None}

\* What a new subscription replays of the DPUs: the rows there are, in any order.
DpuReplays ==
    {q \in [1..Cardinality(Entries(dpuRow)) -> Dpus \X {"set"}] :
        {q[i][1] : i \in DOMAIN q} = Entries(dpuRow)}

MainIdle == mainCmds = <<>>

\* A command exits nonzero, because another process holds the xtables lock or the kernel has
\* no memory: run_commands logs it and neither raises nor tries again.
CommandFails ==
    /\ changes < MaxChanges
    /\ chainFaults < MaxChainFaults
    /\ changes' = changes + 1
    /\ chainFaults' = chainFaults + 1
    /\ cmdFailed' = TRUE
-----------------------------------------------------------------------------
Init ==
    /\ bfdRow \in BOOLEAN
    /\ vxlanRow \in Ips \union {None, Blank}
    /\ dpuRow \in [Dpus -> Ports \union {None, Blank}]
    /\ bfdQ = bfdRow
    /\ vxlanQ = IF vxlanRow = None THEN <<>> ELSE <<"set">>
    /\ dpuQ \in DpuReplays
    /\ bfdAllowed = FALSE
    /\ bfdSubscribed = TRUE
    /\ vxlanAllowed = FALSE
    /\ vxlanSrcIP = None
    /\ dashHaPortMap = NoMap
    /\ mainCmds = <<>>
    /\ upc = "idle"
    /\ fvs = None
    /\ cmds = <<>>
    /\ dashItems = NoMap
    /\ cmdFailed \in BOOLEAN
    /\ cmdFailed => MaxChanges > 0 /\ MaxChainFaults > 0
    /\ chain = IF cmdFailed THEN Empty ELSE Booted
    /\ raced = "never"
    /\ addrs = {vxlanRow} \cap Ips
    /\ updates = 0
    /\ chainFaults = IF cmdFailed THEN 1 ELSE 0
    /\ changes = chainFaults
-----------------------------------------------------------------------------
(* The databases.  A deletion and a later creation leave two notifications.*)

DbStep ==
    /\ changes < MaxChanges
    /\ changes' = changes + 1
    /\ UNCHANGED <<attrs, mainCmds, thread, chain, raced, cmdFailed, updates, chainFaults>>

\* BFD sessions come and go; only the first one the daemon sees is of interest.
BfdSession ==
    /\ DbStep
    /\ bfdRow' = ~bfdRow
    /\ bfdQ' = (bfdSubscribed /\ (bfdQ \/ bfdRow'))
    /\ UNCHANGED <<vxlanRow, dpuRow, vxlanQ, dpuQ, addrs>>

\* A tunnel is created or deleted, or its source address is changed in place.
SetVxlan(row) ==
    /\ DbStep
    /\ row # vxlanRow
    /\ vxlanRow' = row
    /\ addrs' = (IF vxlanRow = None \/ row = None THEN {} ELSE addrs) \union ({row} \cap Ips)
    /\ vxlanQ' = Append(vxlanQ, IF row = None THEN "del" ELSE "set")
    /\ UNCHANGED <<bfdRow, dpuRow, bfdQ, dpuQ>>

\* A DPU may move to another port, or go.
SetDpu(d, row) ==
    /\ DbStep
    /\ row # dpuRow[d]
    /\ row = Blank => dpuRow[d] = None
    /\ dpuRow' = [dpuRow EXCEPT ![d] = row]
    /\ dpuQ' = Append(dpuQ, <<d, IF row = None THEN "del" ELSE "set">>)
    /\ UNCHANGED <<bfdRow, vxlanRow, bfdQ, vxlanQ, addrs>>
-----------------------------------------------------------------------------
(* The handlers of the main thread.  Each pops a notification, reading the *)
(* row of a "set" now; the commands and the assignments that it decides on *)
(* are then carried out one at a time.                                     *)

Begin(steps) == mainCmds' = steps

PopBfd ==
    /\ MainIdle
    /\ bfdQ
    /\ bfdQ' = FALSE
    /\ Begin(IF bfdAllowed \/ ~bfdRow THEN <<>> ELSE <<<<"insert", Bfd>>, <<"bfdAllowed", None>>>>)
    /\ UNCHANGED <<db, vxlanQ, dpuQ, attrs, thread, chain, raced, cmdFailed, addrs, bounds>>

\* Mutant of AllowVxlan: the flag is not set.
AllowVxlanUnnoted(ip) == IF ip = None THEN <<>> ELSE <<<<"insert", Vxlan(ip)>>>>

\* The steps of allow_vxlan_port after get_vxlan_port_iptable_commands set VxlanSrcIP;
\* without an address there is nothing to do.
AllowVxlan(ip) ==
    IF ip = None THEN <<>>
    ELSE <<<<"insert", Vxlan(ip)>>, <<"vxlanAllowed", None>>>>

PopVxlanSet ==
    /\ MainIdle
    /\ vxlanQ # <<>>
    /\ Head(vxlanQ) = "set"
    /\ vxlanQ' = Tail(vxlanQ)
    /\ vxlanSrcIP' = IF vxlanRow \in Ips /\ ~vxlanAllowed THEN vxlanRow ELSE vxlanSrcIP
    /\ Begin(IF vxlanAllowed \/ vxlanRow = None THEN <<>> ELSE AllowVxlan(vxlanSrcIP'))
    /\ UNCHANGED <<db, bfdQ, dpuQ, bfdAllowed, bfdSubscribed, vxlanAllowed, dashHaPortMap,
                   thread, chain, raced, cmdFailed, addrs, bounds>>

PopVxlanDel ==
    /\ MainIdle
    /\ vxlanQ # <<>>
    /\ Head(vxlanQ) = "del"
    /\ vxlanQ' = Tail(vxlanQ)
    /\ Begin(IF vxlanAllowed /\ vxlanSrcIP # None
             THEN <<<<"delete", Vxlan(vxlanSrcIP)>>, <<"vxlanBlocked", None>>,
                    <<"vxlanNoIP", None>>>>
             ELSE <<>>)
    /\ UNCHANGED <<db, bfdQ, dpuQ, attrs, thread, chain, raced, cmdFailed, addrs, bounds>>

\* Mutant of SetPort: the rule of the old port stays.
SetPortOnly(d, old, new) == <<<<"insert", Dash(new)>>, <<"map", d, new>>>>

SetPort(d, old, new) ==
    (IF old = None THEN <<>> ELSE <<<<"delete", Dash(old)>>>>)
    \o <<<<"insert", Dash(new)>>, <<"map", d, new>>>>

DropPort(d, old) ==
    IF old = None THEN <<>> ELSE <<<<"delete", Dash(old)>>, <<"pop", d>>>>

\* update_dash_ha_rules, on a device with the dash-ha feature; a row without swbus_port
\* is ignored.
PopDpu ==
    /\ MainIdle
    /\ dpuQ # <<>>
    /\ dpuQ' = Tail(dpuQ)
    /\ LET d   == Head(dpuQ)[1]
           old == dashHaPortMap[d]
           new == dpuRow[d]
       IN  Begin(CASE Head(dpuQ)[2] = "del" -> DropPort(d, old)
                   [] Head(dpuQ)[2] = "set" /\ new \in {None, Blank, old} -> <<>>
                   [] OTHER -> SetPort(d, old, new))
    /\ UNCHANGED <<db, bfdQ, vxlanQ, attrs, thread, chain, raced, cmdFailed, addrs, bounds>>

\* The next command or assignment of the handler.
MainStep ==
    /\ ~MainIdle
    /\ mainCmds' = Tail(mainCmds)
    /\ raced' = IF upc = "idle" THEN raced ELSE "now"
    /\ LET op == Head(mainCmds) IN
        /\ chain' = Apply(op, chain)
        /\ bfdAllowed' = (bfdAllowed \/ op[1] = "bfdAllowed")
        /\ bfdSubscribed' = (bfdSubscribed /\ op[1] # "bfdAllowed")
        /\ vxlanAllowed' = CASE op[1] = "vxlanAllowed" -> TRUE
                             [] op[1] = "vxlanBlocked" -> FALSE
                             [] OTHER -> vxlanAllowed
        /\ vxlanSrcIP' = IF op[1] = "vxlanNoIP" THEN None ELSE vxlanSrcIP
        /\ dashHaPortMap' = CASE op[1] = "pop" -> [dashHaPortMap EXCEPT ![op[2]] = None]
                              [] op[1] = "map" -> [dashHaPortMap EXCEPT ![op[2]] = op[3]]
                              [] OTHER -> dashHaPortMap
    /\ UNCHANGED <<db, queues, thread, cmdFailed, addrs, bounds>>

\* A command of the handler fails; its assignments follow all the same.
MainStepFails ==
    /\ ~MainIdle
    /\ Head(mainCmds)[1] \in {"insert", "delete"}
    /\ CommandFails
    /\ mainCmds' = Tail(mainCmds)
    /\ raced' = IF upc = "idle" THEN raced ELSE "now"
    /\ UNCHANGED <<db, queues, attrs, thread, chain, addrs, updates>>
-----------------------------------------------------------------------------
(* An update: the translation reads the attributes one after the other and *)
(* only then its commands run.                                             *)

StartUpdate ==
    /\ upc = "idle"
    /\ updates < MaxUpdates
    /\ updates' = updates + 1
    /\ upc' = "bfd"
    /\ cmds' = <<<<"flush", None>>, <<"append", Lo>>>>
    /\ raced' = IF ~MainIdle THEN "now" ELSE IF raced = "now" THEN "before" ELSE raced
    /\ cmdFailed' = (cmdFailed /\ ~MainIdle)
    /\ UNCHANGED <<db, queues, attrs, mainCmds, fvs, dashItems, chain, addrs, changes, chainFaults>>

ReadBfd ==
    /\ upc = "bfd"
    /\ cmds' = IF bfdAllowed THEN Append(cmds, <<"insert", Bfd>>) ELSE cmds
    /\ upc' = "vxlan"
    /\ UNCHANGED <<db, queues, attrs, mainCmds, fvs, dashItems, chain,
                   raced, cmdFailed, addrs, bounds>>

ReadVxlan ==
    /\ upc = "vxlan"
    /\ upc' = IF vxlanAllowed THEN "vxlanSrc" ELSE "dash"
    /\ UNCHANGED <<db, queues, attrs, mainCmds, fvs, cmds, dashItems, chain,
                   raced, cmdFailed, addrs, bounds>>

\* fvs = [("src_ip", self.VxlanSrcIP)]
ReadVxlanSrc ==
    /\ upc = "vxlanSrc"
    /\ fvs' = vxlanSrcIP
    /\ upc' = "vxlanCmd"
    /\ UNCHANGED <<db, queues, attrs, mainCmds, cmds, dashItems, chain,
                   raced, cmdFailed, addrs, bounds>>

\* get_vxlan_port_iptable_commands: VxlanSrcIP is assigned what was read from it, which
\* the main thread may have reset meanwhile.
VxlanCommand ==
    /\ upc = "vxlanCmd"
    /\ vxlanSrcIP' = fvs
    /\ cmds' = IF fvs = None THEN cmds ELSE Append(cmds, <<"insert", Vxlan(fvs)>>)
    /\ fvs' = None
    /\ upc' = "dash"
    /\ UNCHANGED <<db, queues, bfdAllowed, bfdSubscribed, vxlanAllowed, dashHaPortMap,
                   mainCmds, dashItems, chain, raced, cmdFailed, addrs, bounds>>

\* for dpu, port in self.dashHaPortMap.items()
ReadDash ==
    /\ upc = "dash"
    /\ dashItems' = dashHaPortMap
    /\ upc' = "dashEnd"
    /\ UNCHANGED <<db, queues, attrs, mainCmds, fvs, cmds, chain,
                   raced, cmdFailed, addrs, bounds>>

\* The iteration ends ...
DashDone ==
    /\ upc = "dashEnd"
    /\ Cardinality(Entries(dashItems)) = Cardinality(Entries(dashHaPortMap))
    /\ \E order \in [1..Cardinality(Entries(dashItems)) -> Entries(dashItems)] :
        /\ \A i, j \in DOMAIN order : i # j => order[i] # order[j]
        /\ cmds' = cmds \o [i \in DOMAIN order |-> <<"insert", Dash(dashItems[order[i]])>>]
    /\ dashItems' = NoMap
    /\ upc' = "run"
    /\ UNCHANGED <<db, queues, attrs, mainCmds, fvs, chain, raced, cmdFailed, addrs, bounds>>

\* ... or raises "dictionary changed size during iteration": the main thread then kills
\* the process.  The new one flushes the chain before it looks at any notification; one of
\* its two commands may fail.
DashRaises ==
    /\ upc = "dashEnd"
    /\ Entries(dashItems) # {}
    /\ Cardinality(Entries(dashItems)) # Cardinality(Entries(dashHaPortMap))
    /\ bfdQ' = bfdRow
    /\ vxlanQ' = IF vxlanRow = None THEN <<>> ELSE <<"set">>
    /\ dpuQ' \in DpuReplays
    /\ bfdAllowed' = FALSE
    /\ bfdSubscribed' = TRUE
    /\ vxlanAllowed' = FALSE
    /\ vxlanSrcIP' = None
    /\ dashHaPortMap' = NoMap
    /\ mainCmds' = <<>>
    /\ upc' = "idle"
    /\ fvs' = None
    /\ cmds' = <<>>
    /\ dashItems' = NoMap
    /\ \/ cmdFailed' = FALSE /\ chain' = Booted /\ UNCHANGED <<changes, chainFaults>>
       \/ CommandFails /\ chain' \in {Empty, Apply(<<"append", Lo>>, chain)}
    /\ raced' = "never"
    /\ UNCHANGED <<db, addrs, updates>>

RunCommand ==
    /\ upc = "run"
    /\ cmds # <<>>
    /\ cmds' = Tail(cmds)
    /\ chain' = Apply(Head(cmds), chain)
    /\ UNCHANGED <<db, queues, attrs, mainCmds, fvs, upc, dashItems,
                   raced, cmdFailed, addrs, bounds>>

\* A command of the update fails; the next ones run.
RunCommandFails ==
    /\ upc = "run"
    /\ cmds # <<>>
    /\ CommandFails
    /\ cmds' = Tail(cmds)
    /\ UNCHANGED <<db, queues, attrs, mainCmds, fvs, upc, dashItems, chain, raced, addrs, updates>>

EndUpdate ==
    /\ upc = "run"
    /\ cmds = <<>>
    /\ upc' = "idle"
    /\ UNCHANGED <<db, queues, attrs, mainCmds, fvs, cmds, dashItems, chain,
                   raced, cmdFailed, addrs, bounds>>
-----------------------------------------------------------------------------
Db ==
    \/ BfdSession
    \/ \E row \in Ips \union {None, Blank} : SetVxlan(row)
    \/ \E d \in Dpus, row \in Ports \union {None, Blank} : SetDpu(d, row)

Handler == PopBfd \/ PopVxlanSet \/ PopVxlanDel \/ PopDpu \/ MainStep \/ MainStepFails

Update ==
    ReadBfd \/ ReadVxlan \/ ReadVxlanSrc \/ VxlanCommand \/ ReadDash \/ DashDone \/ DashRaises
    \/ RunCommand \/ RunCommandFails \/ EndUpdate

Next == Db \/ Handler \/ StartUpdate \/ Update

Spec == Init /\ [][Next]_vars
-----------------------------------------------------------------------------
(* Properties *)

Steps ==
    ({"flush", "append", "insert", "delete"} \X (Rules \union {None}))
    \union ({"bfdAllowed", "vxlanAllowed", "vxlanBlocked", "vxlanNoIP"} \X {None})
    \union ({"pop"} \X Dpus) \union ({"map"} \X Dpus \X Ports)

\* The type of the state.
TypeOK ==
    /\ bfdRow \in BOOLEAN
    /\ vxlanRow \in Ips \union {None, Blank}
    /\ dpuRow \in [Dpus -> Ports \union {None, Blank}]
    /\ bfdQ \in BOOLEAN
    /\ vxlanQ \in Seq({"set", "del"})
    /\ dpuQ \in Seq(Dpus \X {"set", "del"})
    /\ bfdAllowed \in BOOLEAN
    /\ bfdSubscribed \in BOOLEAN
    /\ vxlanAllowed \in BOOLEAN
    /\ vxlanSrcIP \in Ips \union {None}
    /\ dashHaPortMap \in [Dpus -> Ports \union {None}]
    /\ mainCmds \in Seq(Steps)
    /\ upc \in {"idle", "bfd", "vxlan", "vxlanSrc", "vxlanCmd", "dash", "dashEnd", "run"}
    /\ fvs \in Ips \union {None}
    /\ cmds \in Seq(Steps)
    /\ dashItems \in [Dpus -> Ports \union {None}]
    /\ chain \in [Rules -> Nat]
    /\ raced \in {"never", "now", "before"}
    /\ cmdFailed \in BOOLEAN
    /\ addrs \in SUBSET Ips
    /\ changes \in 0..MaxChanges
    /\ updates \in 0..MaxUpdates
    /\ chainFaults \in 0..MaxChainFaults

AtRest == MainIdle /\ upc = "idle"

\* Unless a handler has overlapped the latest update or a command has failed since it began,
\* the chain holds exactly the rules that the attributes stand for: handlers and updates
\* program the same rules (no stale one, no duplicate), and an update repairs the chain after
\* a lost race or a failed command.
ChainFollowsAttributes ==
    AtRest /\ raced # "now" /\ ~cmdFailed
    => chain = Wanted(bfdAllowed, vxlanAllowed, vxlanSrcIP, dashHaPortMap)

\* Without an overlap since the start of the daemon and without a failed command, once every
\* notification has been handled the chain lets in what the databases ask for and nothing
\* else: the BFD sessions there are, the tunnel's source address, the swbus port of each DPU.
\* A tunnel whose address was changed in place may keep any of those it has had: caclmgrd
\* ignores a SET of VXLAN_TUNNEL while VxlanAllowed is true.
ChainFollowsDatabases ==
    AtRest /\ raced = "never" /\ ~cmdFailed /\ ~bfdQ /\ vxlanQ = <<>> /\ dpuQ = <<>>
    => \E ip \in addrs \union {None} :
         /\ vxlanRow \in Ips => ip # None
         /\ chain = Wanted(bfdRow \/ bfdAllowed, ip # None, ip,
                           [d \in Dpus |-> IF dpuRow[d] = Blank THEN None ELSE dpuRow[d]])

\* "allow all BFD singlehop and multihop sessions" (caclmgrd:1026): once the daemon has
\* allowed BFD, the rule is in the chain whenever nobody is at work.
BfdStaysAllowed ==
    AtRest /\ bfdAllowed => chain[Bfd] = 1
=============================================================================
