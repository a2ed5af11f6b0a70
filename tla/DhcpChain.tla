----------------------------- MODULE DhcpChain ------------------------------
(***************************************************************************)
(* The DHCP chain of caclmgrd on a dual ToR device: DHCP packets that come *)
(* in by an interface are dropped while the interface's mux cable is in    *)
(* standby.  The rule names the interface's packet mark, or the interface  *)
(* itself as long as it has no mark, so that it has to be replaced when    *)
(* the mark changes.  The main thread alone writes the chain; the updates  *)
(* of CaclChain leave it out, but they hold the xtables lock at times, so  *)
(* that any command of the main thread may fail.                           *)
(***************************************************************************)
EXTENDS Naturals, Sequences, FiniteSets

CONSTANTS
    Intfs,          \* interfaces with a mux cable
    Marks,          \* packet marks of an interface; those of two interfaces differ
    NoMark,         \* no row in DHCP_PACKET_MARK
    NoMux,          \* no row in MUX_CABLE_TABLE
    MaxDhcpChanges, \* bound: changes of the two tables
    MaxDhcpFaults   \* bound: failing commands and restarts of the daemon

MuxStates == {"active", "standby", "unknown", "error"}
Vanished  == "vanished" \* in a batch: a notification whose row has gone

ASSUME DhcpAssumption ==
    /\ IsFiniteSet(Intfs)
    /\ NoMark \notin Marks
    /\ Vanished \notin Marks \union {NoMark}
    /\ NoMux \notin MuxStates
    /\ MaxDhcpChanges \in Nat
    /\ MaxDhcpFaults \in Nat

VARIABLES
    markRow, muxRow, \* STATE_DB: the mark and the mux state of each interface
    markQ, muxQ,     \* notifications that wait, <<interface, "set" or "del">>
    phase,           \* of the main thread: "select", or draining "marks" or "muxes"
    buffer,          \* the notifications it drains, <<interface, what the row held>>
    muxLater,        \* the waiting notifications of the mux cables when it began to drain
    markTbl,         \* dhcp_packet_mark_tbl
    todo,            \* the rest of the handler: commands <<operation, interface, mark>>
    drops,           \* DHCP: how often each DROP rule stands in it
    missed,          \* history: the interfaces for which a command has failed
    dhcpChanges, dhcpFaults

dhcpDb   == <<markRow, muxRow>>
dhcpQs   == <<markQ, muxQ>>
drain    == <<phase, buffer, muxLater>>
dhcpVars == <<dhcpDb, dhcpQs, drain, markTbl, todo, drops, missed, dhcpChanges, dhcpFaults>>

MarksOrNone == Marks \union {NoMark}
DropRules   == Intfs \X MarksOrNone \* of the interface's mark, or of the interface itself
NoDrops     == [r \in DropRules |-> 0]
NoMarks     == [i \in Intfs |-> NoMark]

\* What a new subscription replays: the rows there are, in any order.
Replays(row, none) ==
    LET rows == {i \in Intfs : row[i] # none}
    IN  {q \in [1 .. Cardinality(rows) -> rows \X {"set"}] :
            {q[k][1] : k \in DOMAIN q} = rows}

DhcpInit ==
    /\ markRow \in [Intfs -> MarksOrNone]
    /\ muxRow \in [Intfs -> MuxStates \union {NoMux}]
    /\ markQ \in Replays(markRow, NoMark)
    /\ muxQ \in Replays(muxRow, NoMux)
    /\ phase = "select"
    /\ buffer = <<>>
    /\ muxLater = <<>>
    /\ markTbl = NoMarks
    /\ todo = <<>>
    /\ drops = NoDrops
    /\ missed = {}
    /\ dhcpChanges = 0
    /\ dhcpFaults = 0
-----------------------------------------------------------------------------
(* The tables, which other programs write.                                 *)

DhcpDbStep ==
    /\ dhcpChanges < MaxDhcpChanges
    /\ dhcpChanges' = dhcpChanges + 1
    /\ UNCHANGED <<drain, markTbl, todo, drops, missed, dhcpFaults>>

Note(i, new, none) == <<i, IF new = none THEN "del" ELSE "set">>

SetMark(i, m) ==
    /\ DhcpDbStep
    /\ m # markRow[i]
    /\ markRow' = [markRow EXCEPT ![i] = m]
    /\ markQ' = Append(markQ, Note(i, m, NoMark))
    /\ UNCHANGED <<muxRow, muxQ>>

SetMux(i, state) ==
    /\ DhcpDbStep
    /\ state # muxRow[i]
    /\ muxRow' = [muxRow EXCEPT ![i] = state]
    /\ muxQ' = Append(muxQ, Note(i, state, NoMux))
    /\ UNCHANGED <<markRow, markQ>>
-----------------------------------------------------------------------------
(* The main thread.  One select reads whatever notifications there are;    *)
(* those of the marks are handled before those of the mux cables.          *)

\* A batch of notifications as it is popped: a "set" comes with the row of now.  When the row
\* has gone it does not come; here it comes and nothing follows from it.
ReadRows(q, row, none) ==
    [k \in DOMAIN q |->
        <<q[k][1], IF q[k][2] = "del" THEN none
                   ELSE IF row[q[k][1]] = none THEN Vanished
                   ELSE row[q[k][1]]>>]

SelectReady ==
    /\ phase = "select"
    /\ markQ # <<>> \/ muxQ # <<>>
    /\ phase' = "marks"
    /\ buffer' = ReadRows(markQ, markRow, NoMark)
    /\ muxLater' = muxQ
    /\ markQ' = <<>>
    /\ muxQ' = <<>>
    /\ UNCHANGED <<dhcpDb, markTbl, todo, drops, missed, dhcpChanges, dhcpFaults>>

\* Mutant of MarkChange: the table is assigned before the old mark is looked up.
MarkChangeAssigned(i, pre, cur) ==
    <<<<"if_present", i, cur>>, <<"delete", i, cur>>, <<"insert", i, cur>>>>

\* update_dhcp_acl_for_mark_change
MarkChange(i, pre, cur) ==
    <<<<"if_present", i, pre>>, <<"delete", i, pre>>, <<"insert", i, cur>>>>

PopMark ==
    /\ phase = "marks"
    /\ todo = <<>>
    /\ buffer # <<>>
    /\ buffer' = Tail(buffer)
    /\ LET i == Head(buffer)[1]
           cur == Head(buffer)[2]
       IN  IF cur = Vanished
           THEN UNCHANGED <<todo, markTbl>>
           ELSE /\ todo' = MarkChange(i, markTbl[i], cur)
                /\ markTbl' = [markTbl EXCEPT ![i] = cur]
    /\ UNCHANGED <<dhcpDb, dhcpQs, phase, muxLater, drops, missed, dhcpChanges, dhcpFaults>>

MarksDone ==
    /\ phase = "marks"
    /\ todo = <<>>
    /\ buffer = <<>>
    /\ phase' = "muxes"
    /\ buffer' = ReadRows(muxLater, muxRow, NoMux)
    /\ muxLater' = <<>>
    /\ UNCHANGED <<dhcpDb, dhcpQs, markTbl, todo, drops, missed, dhcpChanges, dhcpFaults>>

\* update_dhcp_acl, update_dhcp_chain: a row that was deleted or has gone, an error and an
\* unexpected state change nothing.
MuxChange(i, state, mark) ==
    CASE state \in {"active", "unknown"} ->
           <<<<"if_present", i, mark>>, <<"delete", i, mark>>>>
      [] state = "standby" -> <<<<"if_absent", i, mark>>, <<"insert", i, mark>>>>
      [] OTHER -> <<>>

PopMux ==
    /\ phase = "muxes"
    /\ todo = <<>>
    /\ buffer # <<>>
    /\ buffer' = Tail(buffer)
    /\ LET i == Head(buffer)[1] IN todo' = MuxChange(i, Head(buffer)[2], markTbl[i])
    /\ UNCHANGED <<dhcpDb, dhcpQs, phase, muxLater, markTbl, drops, missed, dhcpChanges,
                   dhcpFaults>>

MuxesDone ==
    /\ phase = "muxes"
    /\ todo = <<>>
    /\ buffer = <<>>
    /\ phase' = "select"
    /\ UNCHANGED <<dhcpDb, dhcpQs, buffer, muxLater, markTbl, todo, drops, missed, dhcpChanges,
                   dhcpFaults>>

\* "iptables --check" decides whether the handler goes on, "--delete" takes a copy of the
\* rule away and "--insert" adds one.
DhcpCommand ==
    /\ todo # <<>>
    /\ LET op   == Head(todo)[1]
           rule == <<Head(todo)[2], Head(todo)[3]>>
       IN  /\ todo' = IF \/ op = "if_present" /\ drops[rule] = 0
                         \/ op = "if_absent" /\ drops[rule] > 0
                      THEN <<>> ELSE Tail(todo)
           /\ drops' = CASE op = "insert" -> [drops EXCEPT ![rule] = @ + 1]
                         [] op = "delete" -> [drops EXCEPT ![rule] = IF @ = 0 THEN 0 ELSE @ - 1]
                         [] OTHER -> drops
    /\ UNCHANGED <<dhcpDb, dhcpQs, drain, markTbl, missed, dhcpChanges, dhcpFaults>>

\* The xtables lock is taken: the check ends with neither 0 nor 1, which ends the handler;
\* of a deletion or an insertion the exit code is not looked at.
DhcpCommandFails ==
    /\ todo # <<>>
    /\ dhcpFaults < MaxDhcpFaults
    /\ dhcpFaults' = dhcpFaults + 1
    /\ missed' = missed \union {Head(todo)[2]}
    /\ todo' = IF Head(todo)[1] \in {"if_present", "if_absent"} THEN <<>> ELSE Tail(todo)
    /\ UNCHANGED <<dhcpDb, dhcpQs, drain, markTbl, drops, dhcpChanges>>

\* The daemon is killed and started again: setup_dhcp_chain, after the subscriptions,
\* empties the chain, unless a command of its fails.
DhcpRestart ==
    /\ dhcpFaults < MaxDhcpFaults
    /\ dhcpFaults' = dhcpFaults + 1
    /\ markQ' \in Replays(markRow, NoMark)
    /\ muxQ' \in Replays(muxRow, NoMux)
    /\ phase' = "select"
    /\ buffer' = <<>>
    /\ muxLater' = <<>>
    /\ markTbl' = NoMarks
    /\ todo' = <<>>
    /\ \/ drops' = NoDrops /\ missed' = {}
       \/ drops' = drops /\ missed' = Intfs
    /\ UNCHANGED <<dhcpDb, dhcpChanges>>
-----------------------------------------------------------------------------
DhcpNext ==
    \/ \E i \in Intfs, m \in MarksOrNone : SetMark(i, m)
    \/ \E i \in Intfs, state \in MuxStates \union {NoMux} : SetMux(i, state)
    \/ SelectReady
    \/ PopMark
    \/ MarksDone
    \/ PopMux
    \/ MuxesDone
    \/ DhcpCommand
    \/ DhcpCommandFails
    \/ DhcpRestart

DhcpSpec == DhcpInit /\ [][DhcpNext]_dhcpVars
-----------------------------------------------------------------------------
(* Properties *)

Notes == Intfs \X {"set", "del"}
Commands == {"if_present", "if_absent", "delete", "insert"} \X Intfs \X MarksOrNone

\* The type of the state.
DhcpTypeOK ==
    /\ markRow \in [Intfs -> MarksOrNone]
    /\ muxRow \in [Intfs -> MuxStates \union {NoMux}]
    /\ markQ \in Seq(Notes)
    /\ muxQ \in Seq(Notes)
    /\ phase \in {"select", "marks", "muxes"}
    /\ buffer \in Seq(Intfs \X ((IF phase = "muxes" THEN MuxStates \union {NoMux}
                                                   ELSE MarksOrNone) \union {Vanished}))
    /\ muxLater \in Seq(Notes)
    /\ markTbl \in [Intfs -> MarksOrNone]
    /\ todo \in Seq(Commands)
    /\ drops \in [DropRules -> Nat]
    /\ missed \subseteq Intfs
    /\ dhcpChanges \in 0..MaxDhcpChanges
    /\ dhcpFaults \in 0..MaxDhcpFaults

DhcpAtRest == phase = "select" /\ markQ = <<>> /\ muxQ = <<>>

\* Once the notifications are handled, whatever their order, an interface in standby has
\* one DROP rule and an active or unknown one has none; the rule bears the mark of the
\* table, none is left under an earlier mark and none stands twice.  Excepted are
\* interfaces for which a command has failed since the chain was emptied: the code does
\* not try again, and a rule whose deletion failed is never found again.
DropsFollowTables ==
    DhcpAtRest => \A i \in Intfs \ missed :
        /\ \A m \in MarksOrNone \ {markRow[i]} : drops[<<i, m>>] = 0
        /\ drops[<<i, markRow[i]>>] \in
             CASE muxRow[i] = "standby" -> {1}
               [] muxRow[i] \in {"active", "unknown"} -> {0}
               [] OTHER -> {0, 1}
=============================================================================
