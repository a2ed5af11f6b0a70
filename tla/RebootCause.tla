---------------------------- MODULE RebootCause -----------------------------
(***************************************************************************)
(* determine-reboot-cause and process-reboot-cause, which run one after    *)
(* the other when the device boots.  The first decides why the device was  *)
(* rebooted, from reboot-cause.txt, the kernel's command line and the      *)
(* platform, files that as a new history file with a link to it, and       *)
(* resets reboot-cause.txt; the second copies the newest history files to  *)
(* STATE_DB and removes the oldest.  The device may go down at any step.   *)
(***************************************************************************)
EXTENDS Naturals, Sequences, FiniteSets

CONSTANTS
    MaxHistory, \* MAX_HISTORY_FILES
    MaxBoots    \* bound: boots of the device

ASSUME CauseAssumption ==
    /\ MaxHistory \in Nat \ {0}
    /\ MaxBoots \in Nat

None == "N/A"

\* What reboot-cause.txt may hold; "" after its opening, "Unknown" by default.
SoftwareCauses == {"User issued", "Kernel Panic", "Heartbeat loss"}
Contents       == SoftwareCauses \union {"", "Unknown", None}
Causes         == Contents \union {"First boot", "fast-reboot", "Hardware"}

VARIABLES
    boot,      \* number of the boot, which stands for the time in the name of its file
    causeFile, \* reboot-cause.txt: None or what it holds
    firstBoot, \* notify_firstboot_to_platform exists
    cmdline,   \* the kernel's command line: None or "fast-reboot" (a warm boot is alike)
    platform,  \* the platform's answer: None or "Hardware"
    history,   \* the history files, the oldest first
    previous,  \* the file that previous-reboot-cause.json links to, 0 for none
    step,      \* of the two programs
    decided,   \* previous_reboot_cause and additional_reboot_info
    inStateDb, \* the boots whose causes are in STATE_DB
    read,      \* history: what determine-reboot-cause read from the two files of this boot
    lastCause, \* history: the cause written last into reboot-cause.txt, None once filed
    overtaken  \* history: that cause was written between the reading and the reset

inputs    == <<firstBoot, cmdline, platform>>
causeHist == <<read, lastCause, overtaken>>
causeVars == <<boot, causeFile, inputs, history, previous, step, decided, inStateDb, causeHist>>

Undecided == [cause |-> None, comment |-> None]
Unread    == [file |-> None, first |-> FALSE]

CauseInit ==
    /\ boot = 1
    /\ causeFile = None
    /\ firstBoot = TRUE
    /\ cmdline = None
    /\ platform \in {None, "Hardware"}
    /\ history = <<>>
    /\ previous = 0
    /\ step = "determine"
    /\ decided = Undecided
    /\ inStateDb = {}
    /\ read = Unread
    /\ lastCause = None
    /\ overtaken = FALSE
-----------------------------------------------------------------------------
(* The device.                                                             *)

\* Steps of determine-reboot-cause between its reading of reboot-cause.txt and the reset.
Deciding == {"create", "write", "unlink", "link", "remove", "open", "default"}

\* A reboot command, the crash kernel or the watchdog of the supervisor leaves its cause.
WriteCause(c) ==
    /\ causeFile' = c
    /\ lastCause' = c
    /\ overtaken' = (step \in Deciding)
    /\ UNCHANGED <<boot, inputs, history, previous, step, decided, inStateDb, read>>

\* The device goes down, at any step, and boots.
Boot(cmd, hw) ==
    /\ boot < MaxBoots
    /\ boot' = boot + 1
    /\ cmdline' = cmd
    /\ platform' = hw
    /\ step' = "determine"
    /\ decided' = Undecided
    /\ inStateDb' = {}
    /\ read' = Unread
    /\ UNCHANGED <<causeFile, firstBoot, history, previous, lastCause, overtaken>>
-----------------------------------------------------------------------------
(* determine-reboot-cause *)

\* find_software_reboot_cause
Software ==
    IF causeFile \notin {None, "Unknown"} THEN causeFile
    ELSE IF firstBoot THEN "First boot" ELSE "Unknown"

\* "is not REBOOT_CAUSE_UNKNOWN" compares identities: it holds of a text that was read from
\* the file even if that is "Unknown".
IsNotUnknown == causeFile # None \/ firstBoot

\* The decision of determine_reboot_cause.
Decision ==
    IF Software \notin {"Kernel Panic", "Heartbeat loss"} /\ platform # None
    THEN [cause |-> platform, comment |-> IF IsNotUnknown THEN Software ELSE cmdline]
    ELSE [cause |-> IF IsNotUnknown \/ cmdline = None THEN Software ELSE cmdline, comment |-> None]

Determine ==
    /\ step = "determine"
    /\ decided' = Decision
    /\ firstBoot' = (firstBoot /\ causeFile \notin {None, "Unknown"})
    /\ read' = [file |-> causeFile, first |-> firstBoot]
    /\ step' = "create"
    /\ UNCHANGED <<boot, causeFile, cmdline, platform, history, previous, inStateDb, lastCause,
                   overtaken>>

\* The platform raises what is not caught: the service has failed, the next one waits.
DetermineRaises ==
    /\ step = "determine"
    /\ step' = "failed"
    /\ UNCHANGED <<boot, causeFile, inputs, history, previous, decided, inStateDb, causeHist>>

\* Mutant of CreateHistory: the cause's file is removed first.
CreateHistoryLate ==
    /\ step = "create"
    /\ history' = Append(history, [boot |-> boot, whole |-> FALSE, filed |-> Undecided])
    /\ causeFile' = None
    /\ step' = "write"
    /\ UNCHANGED <<boot, inputs, previous, decided, inStateDb, causeHist>>

\* reboot-cause-<time>.json is opened ...
CreateHistory ==
    /\ step = "create"
    /\ history' = Append(history, [boot |-> boot, whole |-> FALSE, filed |-> Undecided])
    /\ step' = "write"
    /\ UNCHANGED <<boot, causeFile, inputs, previous, decided, inStateDb, causeHist>>

\* ... and written: get_reboot_cause_dict.
WriteHistory ==
    /\ step = "write"
    /\ history' = [history EXCEPT ![Len(history)] = [@ EXCEPT !.whole = TRUE, !.filed = decided]]
    /\ lastCause' = IF overtaken THEN lastCause ELSE None
    /\ step' = "unlink"
    /\ UNCHANGED <<boot, causeFile, inputs, previous, decided, inStateDb, read, overtaken>>

Unlink ==
    /\ step = "unlink"
    /\ previous' = 0
    /\ step' = "link"
    /\ UNCHANGED <<boot, causeFile, inputs, history, decided, inStateDb, causeHist>>

Link ==
    /\ step = "link"
    /\ previous' = boot
    /\ step' = "remove"
    /\ UNCHANGED <<boot, causeFile, inputs, history, decided, inStateDb, causeHist>>

\* reboot-cause.txt is removed, created and filled with the default.
ResetCause(from, content, to) ==
    /\ step = from
    /\ causeFile' = content
    /\ step' = to
    /\ UNCHANGED <<boot, inputs, history, previous, decided, inStateDb, causeHist>>

RemoveCause  == ResetCause("remove", None, "open")
OpenCause    == ResetCause("open", "", "default")
DefaultCause == ResetCause("default", "Unknown", "process")
-----------------------------------------------------------------------------
(* process-reboot-cause *)

\* The history files are taken from the newest on; one that is no JSON is passed over.
Publish ==
    /\ step = "process"
    /\ inStateDb' = {history[k].boot : k \in {n \in DOMAIN history :
                        history[n].whole /\ n + MaxHistory > Len(history)}}
    /\ step' = "prune"
    /\ UNCHANGED <<boot, causeFile, inputs, history, previous, decided, causeHist>>

Prune ==
    /\ step = "prune"
    /\ Len(history) > MaxHistory
    /\ history' = Tail(history)
    /\ UNCHANGED <<boot, causeFile, inputs, previous, step, decided, inStateDb, causeHist>>

PruneDone ==
    /\ step = "prune"
    /\ Len(history) <= MaxHistory
    /\ step' = "done"
    /\ UNCHANGED <<boot, causeFile, inputs, history, previous, decided, inStateDb, causeHist>>
-----------------------------------------------------------------------------
CauseNext ==
    \/ \E c \in SoftwareCauses : WriteCause(c)
    \/ \E cmd \in {None, "fast-reboot"}, hw \in {None, "Hardware"} : Boot(cmd, hw)
    \/ Determine \/ DetermineRaises
    \/ CreateHistory \/ WriteHistory \/ Unlink \/ Link
    \/ RemoveCause \/ OpenCause \/ DefaultCause
    \/ Publish \/ Prune \/ PruneDone

CauseSpec == CauseInit /\ [][CauseNext]_causeVars
-----------------------------------------------------------------------------
(* Properties *)

Decisions == [cause : Causes, comment : Causes]
Files     == [boot : Nat, whole : BOOLEAN, filed : Decisions]
Finished  == {"process", "prune", "done"}

\* The type of the state.
CauseTypeOK ==
    /\ boot \in Nat
    /\ causeFile \in Contents
    /\ firstBoot \in BOOLEAN
    /\ cmdline \in {None, "fast-reboot"}
    /\ platform \in {None, "Hardware"}
    /\ history \in Seq(Files)
    /\ previous \in Nat
    /\ step \in Deciding \union Finished \union {"determine", "failed"}
    /\ decided \in Decisions
    /\ inStateDb \subseteq Nat
    /\ read \in [file : Contents, first : BOOLEAN]
    /\ lastCause \in SoftwareCauses \union {None}
    /\ overtaken \in BOOLEAN

\* The whole file of a boot.
FileOf(b) == {k \in DOMAIN history : history[k].boot = b /\ history[k].whole}

\* The link, where there is one, names a whole history file, which process-reboot-cause can
\* read: it never points to one that was removed or is torn.
LinkNamesFile == previous # 0 => FileOf(previous) # {}

\* A cause that was written stays in its file until a history file holds it, unless it was
\* written while the file was being reset.
CauseNotLost == lastCause # None /\ ~overtaken => causeFile = lastCause

\* The main decision logic as its comment (determine-reboot-cause:187) puts it: a cause is
\* known unless the file says otherwise.
CauseKnown == read.first \/ read.file \in SoftwareCauses
CauseText  == IF read.file \in SoftwareCauses THEN read.file
              ELSE IF read.first THEN "First boot" ELSE "Unknown"
Documented ==
    IF CauseText \notin {"Kernel Panic", "Heartbeat loss"} /\ platform # None
    THEN [cause |-> platform, comment |-> IF CauseKnown THEN CauseText ELSE cmdline]
    ELSE [cause |-> IF CauseKnown \/ cmdline = None THEN CauseText ELSE cmdline, comment |-> None]

\* Once the cause of a boot has been filed, the link names that file, STATE_DB is to get it,
\* and the file says what the comment on the decision says.  The exception: a
\* reboot-cause.txt that held "Unknown", the default, or nothing, after a power cut during
\* its writing, counts as a known cause and displaces the command line's.
FiledAsDocumented ==
    step \in Finished =>
        /\ previous = boot
        /\ step # "process" => boot \in inStateDb
        /\ \A k \in FileOf(boot) :
              LET filed == history[k].filed IN
              \/ filed = Documented
              \/ read.file \in {"", "Unknown"} /\ read.file \in {filed.cause, filed.comment}

\* The cause of a reboot is neither lost nor misfiled by a device that goes down at any
\* step of the two programs, but for the exceptions its parts name.
RebootCauseKept == LinkNamesFile /\ CauseNotLost /\ FiledAsDocumented
=============================================================================
