----------------------------- MODULE MCGnsiConsole -----------------------------
(* Two accounts, the first of which has a name the second's name begins with. *)
EXTENDS GnsiConsole
CONSTANTS root, rootadmin, h1, h2

MCUsers    == {root, rootadmin}
MCHashes   == {h1, h2}
MCPrefixes == {<<root, rootadmin>>}
=============================================================================
