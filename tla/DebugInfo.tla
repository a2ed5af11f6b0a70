------------------------------ MODULE DebugInfo ------------------------------
(***************************************************************************)
(* host_modules/debug_info.py: collect fills a work directory under        *)
(* /tmp/dump by a list of commands, packs it into an archive and saves the *)
(* archive, if asked to, in /var/log/dump as well, which outlives the      *)
(* device's boots; that is done once in a boot, remembered by a file in    *)
(* /tmp.  ack removes an archive the client has fetched.                   *)
(***************************************************************************)
EXTENDS Integers, FiniteSets

CONSTANTS
    Artifacts,      \* names of artifacts, each used once: this bounds the calls of collect
    NoArtifact,
    ListedCommands, \* how many commands are run
    MaxInfoFaults   \* bound: errors, commands that time out, crashes and boots

VARIABLES
    istep,     \* the step of collect
    current,   \* the artifact it works on
    left,      \* commands it has still to run
    tarFailed, \* rc # 0
    persist,   \* use_persistent_storage
    workdirs,  \* directories in ARTIFACT_DIR
    archive,   \* files in ARTIFACT_DIR
    flag,      \* NONVOLATILE_TMP_FLAG exists
    stored,    \* NONVOLATILE_ARTIFACT_DIR: the artifact and whether it is whole
    stray,     \* commands that have timed out and run on
    used,      \* history: artifacts collect was called for
    offered,   \* history: artifacts a client was told of and has not acknowledged
    broken,    \* history: work directories nobody removes any more
    secured,   \* history: an artifact was stored in this boot
    infoFaults

icall    == <<current, left, tarFailed, persist>>
volatile == <<workdirs, archive, flag>>
ihist    == <<used, offered, broken, secured>>
infoVars == <<istep, icall, volatile, stored, stray, ihist, infoFaults>>

Nothing == [name |-> NoArtifact, whole |-> FALSE]

Init ==
    /\ istep = "none"
    /\ current = NoArtifact
    /\ left = 0
    /\ tarFailed = FALSE
    /\ persist = FALSE
    /\ workdirs = {}
    /\ archive = [a \in Artifacts |-> "none"]
    /\ flag = FALSE
    /\ stored = Nothing
    /\ stray = 0
    /\ used = {}
    /\ offered = {}
    /\ broken = {}
    /\ secured = FALSE
    /\ infoFaults = 0

Fault == infoFaults < MaxInfoFaults /\ infoFaults' = infoFaults + 1

Idle ==
    /\ istep' = "none"
    /\ current' = NoArtifact
    /\ left' = 0
    /\ tarFailed' = FALSE
    /\ persist' = FALSE

AnswerError == Idle /\ UNCHANGED offered
AnswerOk    == Idle /\ offered' = offered \cup {current}
-----------------------------------------------------------------------------
(* collect_artifacts                                                       *)

Collect(a) ==
    /\ istep = "none"
    /\ a \notin used
    /\ used' = used \cup {a}
    /\ istep' = "commands"
    /\ current' = a
    /\ left' = ListedCommands
    /\ persist' \in BOOLEAN
    /\ workdirs' = workdirs \cup {a}
    /\ UNCHANGED <<tarFailed, archive, flag, stored, stray, offered, broken, secured, infoFaults>>

\* One command, which may fail: the collection goes on.  They are all redirected, and a
\* redirected command that times out is not killed.
Command ==
    /\ istep = "commands"
    /\ left > 0
    /\ left' = left - 1
    /\ \/ UNCHANGED <<stray, infoFaults>>
       \/ Fault /\ stray' = stray + 1
    /\ UNCHANGED <<istep, current, tarFailed, persist, volatile, stored, ihist>>

\* An inner directory cannot be made: the exception leaves the work directory behind.
CollectRaises ==
    /\ istep = "commands"
    /\ Fault
    /\ broken' = broken \cup {current}
    /\ AnswerError
    /\ UNCHANGED <<volatile, stored, stray, used, secured>>

\* tar fails, too, if a stray command changes a file while it is read; it is killed after
\* sixty seconds.
Tar ==
    /\ istep = "commands"
    /\ left = 0
    /\ istep' = "tidy"
    /\ \/ /\ archive' = [archive EXCEPT ![current] = "whole"]
          /\ tarFailed' = FALSE
          /\ UNCHANGED infoFaults
       \/ /\ \E left_behind \in {"none", "torn"} :
                archive' = [archive EXCEPT ![current] = left_behind]
          /\ tarFailed' = TRUE
          /\ Fault
       \/ /\ stray > 0
          /\ archive' = [archive EXCEPT ![current] = "torn"]
          /\ tarFailed' = TRUE
          /\ UNCHANGED infoFaults
    /\ UNCHANGED <<current, left, persist, workdirs, flag, stored, stray, ihist>>

\* Mutant of Tidy: the return on an error comes before the removal.
TidyLate ==
    /\ istep = "tidy"
    /\ IF tarFailed
       THEN UNCHANGED <<workdirs, broken, infoFaults>>
       ELSE workdirs' = workdirs \ {current} /\ UNCHANGED <<broken, infoFaults>>
    /\ IF tarFailed THEN AnswerError
       ELSE IF persist THEN istep' = "flag" /\ UNCHANGED <<icall, offered>>
       ELSE AnswerOk
    /\ UNCHANGED <<archive, flag, stored, stray, used, secured>>

\* The work directory is removed; errors of that are ignored.
Tidy ==
    /\ istep = "tidy"
    /\ \/ workdirs' = workdirs \ {current} /\ UNCHANGED <<broken, infoFaults>>
       \/ UNCHANGED workdirs /\ broken' = broken \cup {current} /\ Fault
    /\ IF tarFailed THEN AnswerError
       ELSE IF persist THEN istep' = "flag" /\ UNCHANGED <<icall, offered>>
       ELSE AnswerOk
    /\ UNCHANGED <<archive, flag, stored, stray, used, secured>>
-----------------------------------------------------------------------------
(* _save_persistent_storage                                                *)

\* Mutant of SetFlag: the flag is not looked at.
SetFlagAgain ==
    /\ istep = "flag"
    /\ flag' = TRUE
    /\ istep' = "discard"
    /\ UNCHANGED <<icall, workdirs, archive, stored, stray, ihist, infoFaults>>

SetFlag ==
    /\ istep = "flag"
    /\ \/ /\ ~flag
          /\ flag' = TRUE
          /\ istep' = "discard"
          /\ UNCHANGED <<icall, offered, infoFaults>>
       \/ flag /\ UNCHANGED <<flag, infoFaults>> /\ AnswerOk
       \/ ~flag /\ UNCHANGED flag /\ Fault /\ AnswerOk
    /\ UNCHANGED <<workdirs, archive, stored, stray, used, broken, secured>>

\* What an earlier boot has stored goes before it is known whether there is room.
Discard ==
    /\ istep = "discard"
    /\ stored' = Nothing
    /\ istep' = "room"
    /\ UNCHANGED <<icall, volatile, stray, ihist, infoFaults>>

\* The archive is gone, there is no room, or the copy cannot begin: the answer is still success.
NoRoom ==
    /\ istep = "room"
    /\ Fault
    /\ AnswerOk
    /\ UNCHANGED <<volatile, stored, stray, used, broken, secured>>

\* disk_usage or makedirs raises.
StoreRaises ==
    /\ istep = "room"
    /\ Fault
    /\ AnswerError
    /\ UNCHANGED <<volatile, stored, stray, used, broken, secured>>

Copy ==
    /\ istep = "room"
    /\ stored' = [name |-> current, whole |-> FALSE]
    /\ istep' = "copy"
    /\ UNCHANGED <<icall, volatile, stray, ihist, infoFaults>>

CopyDone ==
    /\ istep = "copy"
    /\ stored' = [stored EXCEPT !.whole = archive[current] = "whole"]
    /\ secured' = TRUE
    /\ AnswerOk
    /\ UNCHANGED <<volatile, stray, used, broken, infoFaults>>

CopyFails ==
    /\ istep = "copy"
    /\ Fault
    /\ AnswerOk
    /\ UNCHANGED <<volatile, stored, stray, used, broken, secured>>
-----------------------------------------------------------------------------
\* The file is there and goes; otherwise, and if that fails, the answer is an error.
Ack(a) ==
    /\ istep = "none"
    /\ archive[a] # "none"
    /\ archive' = [archive EXCEPT ![a] = "none"]
    /\ offered' = offered \ {a}
    /\ UNCHANGED <<istep, icall, workdirs, flag, stored, stray, used, broken, secured, infoFaults>>

StrayEnds ==
    /\ stray > 0
    /\ stray' = stray - 1
    /\ UNCHANGED <<istep, icall, volatile, stored, ihist, infoFaults>>

\* The service dies, and its commands with it.
Crash ==
    /\ istep # "none"
    /\ Fault
    /\ broken' = broken \cup (workdirs \cap {current})
    /\ stray' = 0
    /\ AnswerError
    /\ UNCHANGED <<volatile, stored, used, secured>>

\* The device boots: /tmp is empty again.
Boot ==
    /\ Fault
    /\ workdirs' = {}
    /\ archive' = [a \in Artifacts |-> "none"]
    /\ flag' = FALSE
    /\ stray' = 0
    /\ Idle
    /\ offered' = {}
    /\ broken' = {}
    /\ secured' = FALSE
    /\ UNCHANGED <<stored, used>>

Next ==
    \/ \E a \in Artifacts : Collect(a) \/ Ack(a)
    \/ Command \/ CollectRaises \/ Tar \/ Tidy
    \/ SetFlag \/ Discard \/ NoRoom \/ StoreRaises \/ Copy \/ CopyDone \/ CopyFails
    \/ StrayEnds \/ Crash \/ Boot

Spec == Init /\ [][Next]_infoVars
-----------------------------------------------------------------------------
\* The type of the state.
TypeOK ==
    /\ istep \in {"none", "commands", "tidy", "flag", "discard", "room", "copy"}
    /\ current \in Artifacts \cup {NoArtifact}
    /\ left \in 0..ListedCommands
    /\ tarFailed \in BOOLEAN
    /\ persist \in BOOLEAN
    /\ workdirs \in SUBSET Artifacts
    /\ archive \in [Artifacts -> {"none", "torn", "whole"}]
    /\ flag \in BOOLEAN
    /\ stored \in [name : Artifacts \cup {NoArtifact}, whole : BOOLEAN]
    /\ stray \in Nat
    /\ used \in SUBSET Artifacts
    /\ offered \in SUBSET Artifacts
    /\ broken \in SUBSET Artifacts
    /\ secured \in BOOLEAN
    /\ infoFaults \in Nat

\* An artifact a client was told of is there, whole, until the client acknowledges it or the
\* device boots: storing, and the removal of the work directory, leave it alone (335-349).
\* Between two calls no work directory is left but for exceptions, crashes and failed removals,
\* for the removal comes before the return on an error of tar (341-344).
ArtifactsAccounted ==
    /\ \A a \in offered : archive[a] = "whole"
    /\ istep = "none" => workdirs \subseteq broken

\* An artifact stored in this boot is neither replaced nor lost in this boot: the flag goes only
\* with the boot, which ends the call, too (170-183).
StoredKept == [][secured => stored' = stored]_infoVars
=============================================================================
