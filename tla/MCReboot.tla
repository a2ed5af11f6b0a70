------------------------------ MODULE MCReboot ------------------------------
(***************************************************************************)
(* The reboot service and the two programs that account for a reboot after *)
(* it.  The service starts anew with the device and reads none of their    *)
(* files, so that each behaviour of this specification is about the one or *)
(* the other.  There is room for a second thread of the service beside the *)
(* one that should be alone.                                               *)
(***************************************************************************)
EXTENDS Reboot, RebootCause

CONSTANTS x1, x2

VARIABLE about \* what this behaviour is about

MCThreads == {x1, x2}

MCVars == <<vars, causeVars, about>>

MCInit ==
    /\ Init
    /\ CauseInit
    /\ about \in {"reboot", "cause"}
    /\ about = "reboot" => platform = None

MCNext ==
    /\ UNCHANGED about
    /\ \/ about = "reboot" /\ Next /\ UNCHANGED causeVars
       \/ about = "cause" /\ CauseNext /\ UNCHANGED vars

MCSpec == MCInit /\ [][MCNext]_MCVars /\ RebootFairness
=============================================================================
