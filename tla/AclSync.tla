------------------------------ MODULE AclSync ------------------------------
(***************************************************************************)
(* What caclmgrd promises about the control plane ACLs of one namespace:   *)
(* iptables may lag behind CONFIG_DB, and an update may program something  *)
(* that is already out of date, but only while another update is owed, or  *)
(* after a loss that nobody makes good.                                    *)
(***************************************************************************)
CONSTANTS
    Views,     \* the rule sets CONFIG_DB can ask for
    Broken     \* what a half-executed list of iptables commands leaves behind

VARIABLES
    view,      \* the rule set CONFIG_DB asks for now
    installed, \* the rule set iptables holds
    owed,      \* an update is still to come
    lost       \* the last programming failed in part, or did not see every change

vars == <<view, installed, owed, lost>>

Init ==
    /\ view \in Views
    /\ installed \in Views \union {Broken}
    /\ owed = TRUE
    /\ lost = FALSE

\* CONFIG_DB changes; from then on an update is owed.
Change ==
    /\ view' \in Views
    /\ owed' = TRUE
    /\ UNCHANGED <<installed, lost>>

\* An update becomes owed without a change of the view: a change that does not
\* touch the control plane, a daemon that dies.
Owe ==
    /\ owed' = TRUE
    /\ UNCHANGED <<view, installed, lost>>

\* iptables is reprogrammed, possibly from an outdated or torn reading; it then
\* stays owed.
Program ==
    /\ owed
    /\ installed' \in Views \union {Broken}
    /\ owed' = TRUE
    /\ lost' \in BOOLEAN
    /\ UNCHANGED view

\* The debt is only cleared by holding what CONFIG_DB asks for ...
Settle ==
    /\ owed
    /\ installed' = view
    /\ owed' = FALSE
    /\ lost' = FALSE
    /\ UNCHANGED view

\* ... or by a loss nobody notices.
Lose ==
    /\ owed
    /\ installed' \in Views \union {Broken}
    /\ owed' = FALSE
    /\ lost' = TRUE
    /\ UNCHANGED view

Next == Change \/ Owe \/ Program \/ Settle \/ Lose

Spec == Init /\ [][Next]_vars
=============================================================================
