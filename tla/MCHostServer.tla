----------------------------- MODULE MCHostServer -----------------------------
(***************************************************************************)
(* Services of sonic-host-server for TLC.  They live in one process, whose *)
(* D-Bus loop runs one method at a time, and share no file and no variable *)
(* with each other, so that the behaviours of the server are those of its  *)
(* services side by side: each behaviour of this specification is one of   *)
(* one service, while the others rest.                                     *)
(***************************************************************************)
EXTENDS DebugExecutor, SshMgmt

CONSTANTS
    Torn,
    u1, u2, Users, Hashes, Prefixes, MaxConsoleCalls, MaxConsoleFaults,
    Configs, MaxGlomeCalls, MaxGlomeFaults,
    Artifacts, NoArtifact, ListedCommands, MaxInfoFaults,
    Paths, Bodies, NoFile, Part, NoPath, MaxTransfers, MaxTransferFaults

VARIABLES
    shadow, checkpoint, temp, cstep, buffer, asked, canswer, kept, unannounced, overtaken,
    consoleCalls, consoleFaults,
    conf, backup, gstep, payload, ganswer, before, backed, tainted, glomeCalls, glomeFaults,
    istep, current, left, tarFailed, persist, workdirs, archive, flag, stored, stray, used,
    offered, broken, secured, infoFaults,
    file, temps, tstep, path, body, told, botched, displaced, leaked, transfers, transferFaults,
    service  \* the service this behaviour is about

Console  == INSTANCE GnsiConsole
Glome    == INSTANCE Glome
Info     == INSTANCE DebugInfo
Transfer == INSTANCE FileTransfer

Services == {"debug", "ssh", "console", "glome", "info", "transfer"}

consoleVars == <<shadow, checkpoint, temp, cstep, buffer, asked, canswer, kept, unannounced,
                 overtaken, consoleCalls, consoleFaults>>
glomeVars   == <<conf, backup, gstep, payload, ganswer, before, backed, tainted, glomeCalls,
                 glomeFaults>>
infoVars    == <<istep, current, left, tarFailed, persist, workdirs, archive, flag, stored, stray,
                 used, offered, broken, secured, infoFaults>>
transferVars == <<file, temps, tstep, path, displaced, body, told, botched, leaked, transfers,
                  transferFaults>>

hostVars == <<debugVars, sshVars, consoleVars, glomeVars, infoVars, transferVars, service>>

\* The names of the parameters that stand for no value are none of the values; what begins the
\* beginning of a name begins the name.
ASSUME HostAssumption ==
    /\ Absent # Torn
    /\ {Absent, Torn} \cap (Configs \cup [Users -> Users \X Hashes]) = {}
    /\ Prefixes \subseteq Users \X Users
    /\ \A u, v, w \in Users :
          <<u, v>> \in Prefixes /\ <<v, w>> \in Prefixes => <<u, w>> \in Prefixes
    /\ NoArtifact \notin Artifacts
    /\ ListedCommands \in Nat
    /\ NoPath \notin Paths
    /\ NoFile # Part
    /\ {NoFile, Part} \cap Bodies = {}

\* The first account's name begins the second's.
MCUsers    == {u1, u2}
MCPrefixes == {<<u1, u2>>}

\* The files of a service this behaviour is not about do not matter.
OnlyOneVaries ==
    /\ service # "ssh" => live = Nothing
    /\ service # "console" => \A u \in Users : shadow[u][2] = CHOOSE h \in Hashes : TRUE
    /\ service # "glome" => conf = Absent
    /\ service # "transfer" => \A p \in Paths : file[p] = NoFile

HostInit ==
    /\ Init
    /\ SshInit
    /\ Console!Init
    /\ Glome!Init
    /\ Info!Init
    /\ Transfer!Init
    /\ service \in Services
    /\ OnlyOneVaries

DebugRests    == UNCHANGED debugVars
SshRests      == UNCHANGED sshVars
ConsoleRests  == UNCHANGED consoleVars
GlomeRests    == UNCHANGED glomeVars
InfoRests     == UNCHANGED infoVars
TransferRests == UNCHANGED transferVars

DebugStep ==
    /\ service = "debug" /\ Next
    /\ SshRests /\ ConsoleRests /\ GlomeRests /\ InfoRests /\ TransferRests

SshStep ==
    /\ service = "ssh" /\ SshNext
    /\ DebugRests /\ ConsoleRests /\ GlomeRests /\ InfoRests /\ TransferRests

ConsoleStep ==
    /\ service = "console" /\ Console!Next
    /\ DebugRests /\ SshRests /\ GlomeRests /\ InfoRests /\ TransferRests

GlomeStep ==
    /\ service = "glome" /\ Glome!Next
    /\ DebugRests /\ SshRests /\ ConsoleRests /\ InfoRests /\ TransferRests

InfoStep ==
    /\ service = "info" /\ Info!Next
    /\ DebugRests /\ SshRests /\ ConsoleRests /\ GlomeRests /\ TransferRests

TransferStep ==
    /\ service = "transfer" /\ Transfer!Next
    /\ DebugRests /\ SshRests /\ ConsoleRests /\ GlomeRests /\ InfoRests

HostNext ==
    /\ UNCHANGED service
    /\ \/ DebugStep \/ SshStep \/ ConsoleStep
       \/ GlomeStep \/ InfoStep \/ TransferStep

HostSpec == HostInit /\ [][HostNext]_hostVars /\ Fairness
-----------------------------------------------------------------------------
\* The type of the state.
HostTypeOK ==
    /\ TypeOK
    /\ SshTypeOK
    /\ Console!TypeOK
    /\ Glome!TypeOK
    /\ Info!TypeOK
    /\ Transfer!TypeOK
    /\ service \in Services

(* The properties of the services under names of this module.              *)

\* Failures and crashes leave /etc/shadow whole, and the GLOME configuration or its backup, unless
\* a client goes on with a torn checkpoint or file.
FilesWhole == Console!ShadowWhole /\ Glome!OneFileWhole

\* A set changes no lines but those its accounts' names begin, as set has read them.
SetKeepsOthers == Console!SetKeepsOthers

\* A successful restore of the GLOME configuration undoes the last push that was backed up.
RestoreUndoesPush == Glome!RestoreUndoesPush

\* Debug artifacts clients were told of are whole, and no working directory, no temporary and no
\* incomplete file is left behind, but of calls that broke off.
LeftoversAccounted == Info!ArtifactsAccounted /\ Transfer!LeftoversAccounted

\* A debug artifact on the persistent partition outlives every later call of the same boot.
StoredKept == Info!StoredKept
=============================================================================
