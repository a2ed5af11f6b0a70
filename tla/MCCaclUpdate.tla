---------------------------- MODULE MCCaclUpdate ----------------------------
(* One ACL table (for REDFISH, so that the feature matters) and two update *)
(* thread identities, on a single-ASIC device (MCNS) and on one with an    *)
(* ASIC namespace besides the host (MCTwoNS).                              *)
EXTENDS CaclUpdate
CONSTANTS h, a, t1, c1, w1, w2

MCNS == {h}
MCTwoNS == {h, a}
MCTables == {t1}
MCRedfishTables == {t1}
MCNoTables == {}
MCContents == {NoRules, c1}
MCWorkers == {w1, w2}
=============================================================================
