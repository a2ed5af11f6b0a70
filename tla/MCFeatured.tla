------------------------------ MODULE MCFeatured ------------------------------
(***************************************************************************)
(* featured and hostcfgd for TLC.  Both follow CONFIG_DB, but no table of  *)
(* the one is of interest to the other, and a system service belongs to    *)
(* one of them, so that each behaviour of ConfigSpec is about one daemon,  *)
(* while the other rests.                                                  *)
(*                                                                         *)
(* There is one feature that waits for the ports, until the delayed        *)
(* services are enabled; from then on, and after an advanced boot, it is   *)
(* like any other.  Of hostcfgd's items those change whose handlers or     *)
(* services are the same, one such group in a behaviour.                   *)
(***************************************************************************)
EXTENDS Featured

CONSTANTS f1, Settings, None, Unread, MaxSettings, MaxConfigFaults

VARIABLES
    setting, news, hpc, init_data, remembered, tasks, told, applied, astray, settings,
    configFaults,
    subject \* "featured", or the items of hostcfgd this behaviour is about

MCFeatures == {f1}
MCRendered == [f \in MCFeatures |-> "enabled"]

Host == INSTANCE HostCfg

\* The names of the parameters that stand for no value are none of the values.
ASSUME ConfigAssumption ==
    /\ None # Unread
    /\ {None, Unread} \cap Settings = {}

hostVars == <<setting, news, hpc, init_data, remembered, tasks, told, applied, astray, settings,
              configFaults>>

configVars == <<vars, hostVars, subject>>

Groups == {{"hostname", "timezone", "osversion", "syslog"},
           {"iface", "vrf", "ntp"},
           {"logging", "banner", "dns"}}

\* The rows of a daemon this behaviour is not about do not matter, nor when services boot whose
\* rows stay as they are.
ConfigInit ==
    /\ subject \in {{"featured"}} \cup Groups
    /\ Init
    /\ subject # {"featured"} => /\ row = [f \in Features |-> Absent]
                                 /\ unit = [f \in Features |-> "disabled"]
                                 /\ ~delayedOn
    /\ Host!Init
    /\ setting["dns"] = CHOOSE s \in Settings : TRUE
    /\ \A i \in Host!Items \ subject : applied[i] # Unread

FeaturedStep == subject = {"featured"} /\ Next /\ UNCHANGED hostVars

HostStep ==
    /\ subject # {"featured"}
    /\ Host!Next
    /\ \A i \in Host!Items \ subject : setting'[i] = setting[i]
    /\ UNCHANGED vars

ConfigNext ==
    /\ UNCHANGED subject
    /\ FeaturedStep \/ HostStep

\* FairSpec's fairness, of the behaviours that are about featured.
ConfigSpec ==
    /\ ConfigInit
    /\ [][ConfigNext]_configVars
    /\ WF_vars(subject = {"featured"} /\ Daemon)
-----------------------------------------------------------------------------
\* The type of the state.
ConfigTypeOK ==
    /\ TypeOK
    /\ Host!TypeOK
    /\ subject \in {{"featured"}} \cup Groups

\* Between two notifications hostcfgd's services are made of their rows.
ServicesFollowRows == Host!ServicesFollowRows

\* featured comes to rest, in the behaviours that are about it.
FeaturedSettles == subject = {"featured"} => Settles
=============================================================================
