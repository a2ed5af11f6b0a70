-------------------------------- MODULE AclRules --------------------------------
(***************************************************************************)
(* scripts/caclmgrd: how an update translates the rules of control plane   *)
(* ACL tables into rules of iptables.  A rule is matched with the ports of *)
(* its table's services; for EXTERNAL_CLIENT they come from the rules and  *)
(* are written into ACL_SERVICES, which every later update reads.          *)
(*                                                                         *)
(* An update reads all rows at once, so that a change during a translation *)
(* is one after it; what comes between its readings is in CaclUpdate.  The *)
(* action of a rule is its identity, and the final DROP, which the chain   *)
(* gets with its first rule, is left out.                                  *)
(***************************************************************************)
EXTENDS Naturals, Sequences, FiniteSets

CONSTANTS
    Tables,
    AclIds,       \* keys of rules
    TableOf,      \* of each key
    Services,     \* of each table, a sequence: those that are known and allowed
    WellKnown,    \* the ports of services but EXTERNAL_CLIENT
    Offers,       \* what each rule may be: [priority, version, ports]
    None,         \* no rule, no table
    MaxAclChanges \* bound: changes of rules, restarts of caclmgrd

\* A priority is the sequence of its digits; version is 4 or 6, or 0 for a rule without addresses;
\* ports is empty for a rule that names none.
Rows     == UNION {Offers[r] : r \in AclIds}
Lists(t) == {Services[t][i] : i \in DOMAIN Services[t]}

VARIABLES
    aclRule,          \* CONFIG_DB, ACL_RULE
    dst_ports,        \* ACL_SERVICES["EXTERNAL_CLIENT"]["dst_ports"]
    entries,          \* the rules of iptables; in an update, what it has translated so far
    current,          \* the rules are still those of the last update
    named,            \* history: what dst_ports may have been since caclmgrd started
    stage,            \* "idle", an update that is between two tables, or at the services of one
    left,             \* tables the update has still to come to
    table_name,
    service,          \* how many services of the table have been begun
    order,            \* the table's rules, as the dictionary has them
    read,             \* how many of them have been read for the service
    table_ip_version,
    acl_rules,        \* the rules read for the service that have still to become one of iptables
    aclChanges

walk    == <<left, table_name, service, order, read, table_ip_version, acl_rules>>
aclVars == <<aclRule, dst_ports, entries, current, named, stage, walk, aclChanges>>

AclInit ==
    /\ aclRule \in {f \in [AclIds -> Rows \cup {None}] : \A r \in AclIds : f[r] \in Offers[r] \cup {None}}
    /\ dst_ports = {}
    /\ entries = <<>>
    /\ current = FALSE
    /\ named = {}
    /\ stage = "idle"
    /\ left = {}
    /\ table_name = None
    /\ service = 0
    /\ order = <<>>
    /\ read = 0
    /\ table_ip_version = 0
    /\ acl_rules = {}
    /\ aclChanges = 0

Present == {r \in AclIds : aclRule[r] # None}
Own(t)  == {r \in Present : TableOf[r] = t}

ChangeBound == aclChanges < MaxAclChanges /\ aclChanges' = aclChanges + 1

SetAclRule(r) ==
    /\ stage = "idle"
    /\ ChangeBound
    /\ \E row \in Offers[r] \cup {None} :
          row # aclRule[r] /\ aclRule' = [aclRule EXCEPT ![r] = row]
    /\ current' = FALSE
    /\ UNCHANGED <<dst_ports, entries, named, stage, walk>>

\* What an update has translated so far is lost with it.
AclRestart ==
    /\ stage = "idle"
    /\ ChangeBound
    /\ dst_ports' = {}
    /\ named' = {}
    /\ current' = FALSE
    /\ UNCHANGED <<aclRule, entries, stage, walk>>
-----------------------------------------------------------------------------
(* get_acl_rules_and_translate_to_iptables_commands                        *)

StartAcls ==
    /\ stage = "idle"
    /\ stage' = "tables"
    /\ left' = Tables
    /\ entries' = <<>>
    /\ current' = FALSE
    /\ named' = named \cup ({aclRule[r].ports : r \in Present} \ {{}})
    /\ UNCHANGED <<aclRule, dst_ports, table_name, service, order, read, table_ip_version, acl_rules,
                   aclChanges>>

\* Tables and rules come in the order of dictionaries.
Orders(S) == {f \in [1 .. Cardinality(S) -> S] : \A i, j \in DOMAIN f : f[i] = f[j] => i = j}

NextTable(t) ==
    /\ stage = "tables"
    /\ t \in left
    /\ left' = left \ {t}
    /\ IF Services[t] = <<>>
       THEN UNCHANGED <<stage, table_name, service, order>>
       ELSE /\ stage' = "services"
            /\ table_name' = t
            /\ service' = 1
            /\ order' \in Orders(Own(t))
    /\ UNCHANGED <<aclRule, dst_ports, entries, current, named, read, table_ip_version, acl_rules,
                   aclChanges>>

acl_service == Services[table_name][service]
DstPorts    == IF acl_service = "EXTERNAL_CLIENT" THEN dst_ports ELSE WellKnown[acl_service]

\* Mutant of Reads: a rule of the other IP version stays.
ReadsAll(r) ==
    LET row     == aclRule[r]
        version == IF table_ip_version = 0 THEN row.version ELSE table_ip_version
    IN  /\ table_ip_version' = version
        /\ dst_ports' = IF acl_service = "EXTERNAL_CLIENT" /\ row.ports # {} THEN row.ports
                                                                             ELSE dst_ports
        /\ acl_rules' = {k \in acl_rules : aclRule[k].priority # row.priority} \cup {r}

\* A rule takes the place of an earlier one of its priority, even when it is then thrown out
\* because the table has been found to be of the other IP version.
Reads(r) ==
    LET row     == aclRule[r]
        version == IF table_ip_version = 0 THEN row.version ELSE table_ip_version
    IN  /\ table_ip_version' = version
        /\ dst_ports' = IF acl_service = "EXTERNAL_CLIENT" /\ row.ports # {} THEN row.ports
                                                                             ELSE dst_ports
        /\ acl_rules' = {k \in acl_rules : aclRule[k].priority # row.priority}
                        \cup (IF {row.version, version} = {4, 6} THEN {} ELSE {r})

ReadRule ==
    /\ stage = "services"
    /\ read < Len(order)
    /\ read' = read + 1
    /\ Reads(order[read + 1])
    /\ UNCHANGED <<aclRule, entries, current, named, stage, left, table_name, service, order,
                   aclChanges>>

\* p > q, compared as strings.
Above(p, q) ==
    \E n \in 0 .. Len(p) - 1 :
        /\ n <= Len(q)
        /\ SubSeq(p, 1, n) = SubSeq(q, 1, n)
        /\ n = Len(q) \/ p[n + 1] > q[n + 1]

AllRead == stage = "services" /\ read = Len(order)
Skipped == table_ip_version = 0 \/ DstPorts = {}

AddRule(r) ==
    /\ AllRead
    /\ ~Skipped
    /\ r \in acl_rules
    /\ \A k \in acl_rules : ~Above(aclRule[k].priority, aclRule[r].priority)
    /\ entries' = Append(entries, [table |-> table_name, service |-> acl_service, rule |-> r,
                                   version |-> table_ip_version, ports |-> DstPorts])
    /\ acl_rules' = acl_rules \ {r}
    /\ UNCHANGED <<aclRule, dst_ports, current, named, stage, left, table_name, service, order, read,
                   table_ip_version, aclChanges>>

\* The next service starts from the version that has been found.
NextService ==
    /\ AllRead
    /\ Skipped \/ acl_rules = {}
    /\ read' = 0
    /\ acl_rules' = {}
    /\ IF service < Len(Services[table_name])
       THEN /\ service' = service + 1
            /\ UNCHANGED <<stage, table_name, order, table_ip_version>>
       ELSE /\ stage' = "tables"
            /\ table_name' = None
            /\ service' = 0
            /\ order' = <<>>
            /\ table_ip_version' = 0
    /\ UNCHANGED <<aclRule, dst_ports, entries, current, named, left, aclChanges>>

EndAcls ==
    /\ stage = "tables"
    /\ left = {}
    /\ stage' = "idle"
    /\ current' = TRUE
    /\ UNCHANGED <<aclRule, dst_ports, entries, named, walk, aclChanges>>

UpdateAcls ==
    \/ StartAcls
    \/ \E t \in Tables : NextTable(t)
    \/ ReadRule
    \/ \E r \in AclIds : AddRule(r)
    \/ NextService
    \/ EndAcls

AclNext == (\E r \in AclIds : SetAclRule(r)) \/ AclRestart \/ UpdateAcls

AclSpec == AclInit /\ [][AclNext]_aclVars
-----------------------------------------------------------------------------
AllServices == UNION {Lists(t) : t \in Tables}
AllPorts    == {row.ports : row \in Rows} \cup {WellKnown[s] : s \in DOMAIN WellKnown}

\* The type of the state.
AclTypeOK ==
    /\ aclRule \in [AclIds -> Rows \cup {None}]
    /\ dst_ports \in {row.ports : row \in Rows} \cup {{}}
    /\ entries \in Seq([table : Tables, service : AllServices, rule : AclIds, version : {4, 6},
                        ports : AllPorts])
    /\ current \in BOOLEAN
    /\ named \subseteq {row.ports : row \in Rows}
    /\ stage \in {"idle", "tables", "services"}
    /\ left \subseteq Tables
    /\ table_name \in Tables \cup {None}
    /\ service \in Nat
    /\ stage = "services" => table_name \in Tables /\ service \in DOMAIN Services[table_name]
    /\ order \in Seq(AclIds)
    /\ read \in 0 .. Len(order)
    /\ table_ip_version \in {0, 4, 6}
    /\ acl_rules \subseteq AclIds
    /\ aclChanges \in 0 .. MaxAclChanges

Named(t)    == {aclRule[r].ports : r \in Own(t)} \ {{}}
Versions(t) == {aclRule[r].version : r \in Own(t)} \ {0}
Alone(r)    == \A k \in Own(TableOf[r]) : aclRule[k].priority = aclRule[r].priority => k = r

PortsFor(t, s) ==
    IF s # "EXTERNAL_CLIENT" THEN {WellKnown[s]}
    ELSE IF Named(t) # {} THEN Named(t) ELSE named

Number(digits) ==
    LET value[n \in 0 .. Len(digits)] == IF n = 0 THEN 0 ELSE 10 * value[n - 1] + digits[n]
    IN  value[Len(digits)]

Made(t, s)  == {i \in DOMAIN entries : entries[i].table = t /\ entries[i].service = s}
Priority(i) == aclRule[entries[i].rule].priority

\* The rules of service s are those of table t, with a version and ports for all of them.
FollowsTable(t, s) ==
    \/ \E v \in Versions(t), ports \in PortsFor(t, s) :
          LET fits   == {r \in Own(t) : aclRule[r].version \in {0, v}}
              listed == {entries[i].rule : i \in Made(t, s)}
          IN  /\ \A i \in Made(t, s) : entries[i].version = v /\ entries[i].ports = ports
              /\ {r \in fits : Alone(r)} \subseteq listed
              /\ listed \subseteq fits
    \/ Made(t, s) = {} /\ (Versions(t) = {} \/ (s = "EXTERNAL_CLIENT" /\ Named(t) = {}))

InOrder(t, s) ==
    \A i, j \in Made(t, s) :
        i < j /\ Len(Priority(i)) = Len(Priority(j)) => Number(Priority(i)) > Number(Priority(j))

\* After an update each service of a table has the table's rules, all of one IP version and with
\* one set of ports, in descending order of their priorities, whatever the order of tables and
\* rules, and whatever earlier updates have left in dst_ports.  The exceptions: of rules with one
\* priority one is left, or none (797, 827); a table of both versions is taken for either (805);
\* of different ports those of one rule count for all of the table (813), and a table whose rules
\* name none has none, or what another table's rules have named (814); and priorities of
\* different lengths are in the order of strings (848).
RulesFollowRows ==
    current => \A t \in Tables : \A s \in Lists(t) : FollowsTable(t, s) /\ InOrder(t, s)
=============================================================================
