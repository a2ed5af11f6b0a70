----------------------------- MODULE MCCaclRules ----------------------------
(***************************************************************************)
(* What caclmgrd makes of databases: the two chains its main thread writes *)
(* rule by rule, INPUT and, on a dual ToR device, DHCP, and the rules of   *)
(* control plane ACLs that an update translates.  None of the three reads  *)
(* or writes anything of another, so that each behaviour of this           *)
(* specification is about one of them, while the others rest.              *)
(***************************************************************************)
EXTENDS MCCaclChain, DhcpChain

CONSTANTS i1, i2, m1, ra, rb, rc, ta, tb, q1, q2

\* Of AclRules.
CONSTANTS Tables, AclIds, TableOf, Services, WellKnown, Offers, MaxAclChanges

VARIABLES
    subject, \* what this behaviour is about
    aclRule, dst_ports, entries, current, named, stage, left, table_name, service, order, read,
    table_ip_version, acl_rules, aclChanges

MCIntfs == {i1, i2}
MCMarks == {m1}

MCTables   == {ta, tb}
MCAclIds   == {ra, rb, rc}
MCTableOf  == ra :> ta @@ rb :> ta @@ rc :> tb
MCServices == ta :> <<"SSH", "EXTERNAL_CLIENT">> @@ tb :> <<"EXTERNAL_CLIENT">>
MCKnown    == "SSH" :> {22}

\* The priorities 10, 9 and 8, whose order as strings is another one.
AclOffer(priorities, versions, ports) ==
    [priority : priorities, version : versions, ports : ports]
MCOffers ==
    ra :> AclOffer({<<9>>, <<1, 0>>}, {0, 4, 6}, {{}, {q1}})
    @@ rb :> AclOffer({<<9>>, <<8>>}, {0, 4, 6}, {{}, {q2}})
    @@ rc :> AclOffer({<<9>>}, {4}, {{}, {q2}})

Acl == INSTANCE AclRules

\* A table lists a service once.
ASSUME AclAssumption ==
    /\ IsFiniteSet(AclIds)
    /\ TableOf \in [AclIds -> Tables]
    /\ None \notin Acl!Rows \cup Tables
    /\ \A row \in Acl!Rows : row.priority \in Seq(0 .. 9) /\ row.version \in {0, 4, 6}
    /\ \A t \in Tables : /\ Services[t] \in Seq(DOMAIN WellKnown \cup {"EXTERNAL_CLIENT"})
                         /\ \A i, j \in DOMAIN Services[t] : Services[t][i] = Services[t][j] => i = j
    /\ "EXTERNAL_CLIENT" \notin DOMAIN WellKnown
    /\ \A s \in DOMAIN WellKnown : WellKnown[s] # {}
    /\ MaxAclChanges \in Nat

aclVars   == <<aclRule, dst_ports, entries, current, named, stage, left, table_name, service, order,
               read, table_ip_version, acl_rules, aclChanges>>
rulesVars == <<vars, dhcpVars, aclVars, subject>>

\* Of the rows for INPUT one is missing at the start, and none has to be completed.
FewRows ==
    /\ ~bfdRow \/ vxlanRow = None \/ \E d \in Dpus : dpuRow[d] = None
    /\ Blank # vxlanRow /\ \A d \in Dpus : Blank # dpuRow[d]

\* The tables that this behaviour is not about do not matter.
RulesInit ==
    /\ subject \in {"INPUT", "DHCP", "ACL"}
    /\ subject # "INPUT" => /\ bfdRow = FALSE
                            /\ cmdFailed = FALSE
                            /\ vxlanRow = None
                            /\ dpuRow = [d \in Dpus |-> None]
    /\ subject # "DHCP" => /\ markRow = [i \in Intfs |-> NoMark]
                           /\ muxRow = [i \in Intfs |-> NoMux]
    /\ subject # "ACL" => aclRule = [r \in AclIds |-> None]
    /\ Init
    /\ FewRows
    /\ DhcpInit
    /\ Acl!AclInit

RulesNext ==
    /\ UNCHANGED subject
    /\ \/ subject = "INPUT" /\ Next /\ UNCHANGED <<dhcpVars, aclVars>>
       \/ subject = "DHCP" /\ DhcpNext /\ UNCHANGED <<vars, aclVars>>
       \/ subject = "ACL" /\ Acl!AclNext /\ UNCHANGED <<vars, dhcpVars>>

RulesSpec == RulesInit /\ [][RulesNext]_rulesVars
-----------------------------------------------------------------------------
\* The type of the state.
RulesTypeOK == TypeOK /\ DhcpTypeOK /\ Acl!AclTypeOK

\* After an update the rules of iptables are those of the tables, in the order of their
\* priorities, but for the exceptions that AclRules names.
RulesFollowRows == Acl!RulesFollowRows
=============================================================================
