---------------------------- MODULE MCCaclChain -----------------------------
(* Two source addresses, one of them replacing the other, two DPUs that    *)
(* may share a port or swap ports.                                         *)
EXTENDS CaclChain, TLC
CONSTANTS ip1, ip2, d1, d2, p1, p2

MCIps == {ip1, ip2}
MCDpus == {d1, d2}
MCPorts == {p1, p2}
MCOneDpu == {d1}
MCSymmetry == Permutations(MCIps) \union Permutations(MCDpus) \union Permutations(MCPorts)
=============================================================================
