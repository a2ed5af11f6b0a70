-------------------------------- MODULE Glome --------------------------------
(***************************************************************************)
(* host_modules/glome.py: push_config copies the configuration to a backup *)
(* file and then writes the new one, restore_checkpoint copies the backup  *)
(* back.  Both are written in place: a file whose writing fails, or during *)
(* which the service dies, stays torn.  Both files are on /host and        *)
(* survive a crash of the device.                                          *)
(***************************************************************************)
EXTENDS Naturals

CONSTANTS
    Configs,       \* configurations a client may push
    Absent, Torn,  \* no such file, a file written in part
    MaxGlomeCalls, \* bound: calls of the D-Bus methods
    MaxGlomeFaults \* bound: errors of the file system and crashes

States == Configs \cup {Absent, Torn}

VARIABLES
    conf,     \* _GLOME_PATH
    backup,   \* _GLOME_BACKUP_PATH
    gstep,    \* what the method is doing
    payload,  \* the configuration to write, Absent to remove the file
    ganswer,  \* the code of the last call, 9 while there is none
    before,   \* history: conf when the last push_config was called
    backed,   \* history: backup has held before ever since
    tainted,  \* history: a push found conf torn, or a restore found backup torn
    glomeCalls, glomeFaults

ghist     == <<before, backed, tainted>>
glomeVars == <<conf, backup, gstep, payload, ganswer, ghist, glomeCalls, glomeFaults>>

NoAnswer == 9
Raised   == 5

Init ==
    /\ conf \in Configs \cup {Absent}
    /\ backup = Absent
    /\ gstep = "none"
    /\ payload = Absent
    /\ ganswer = NoAnswer
    /\ before = Absent
    /\ backed = FALSE
    /\ tainted = FALSE
    /\ glomeCalls = 0
    /\ glomeFaults = 0

Called == gstep = "none" /\ glomeCalls < MaxGlomeCalls /\ glomeCalls' = glomeCalls + 1

Fault == glomeFaults < MaxGlomeFaults /\ glomeFaults' = glomeFaults + 1

Return(code) == gstep' = "none" /\ payload' = Absent /\ ganswer' = code

\* PermissionError and any other OSError
OSErrors == {1, 2}
-----------------------------------------------------------------------------
(* push_config: first the backup.                                          *)

\* Mutant of Push: a missing configuration leaves the old backup.
PushKeepsBackup ==
    /\ Called
    /\ before' = conf
    /\ tainted' = (tainted \/ conf = Torn)
    /\ ganswer' = NoAnswer
    /\ IF conf = Absent
       THEN UNCHANGED backup /\ gstep' = "request" /\ backed' = TRUE
       ELSE backup' = Torn /\ gstep' = "backup" /\ backed' = FALSE
    /\ UNCHANGED <<conf, payload, glomeFaults>>

\* shutil.copy truncates the backup; without a configuration it is removed.
Push ==
    /\ Called
    /\ before' = conf
    /\ tainted' = (tainted \/ conf = Torn)
    /\ ganswer' = NoAnswer
    /\ IF conf = Absent
       THEN backup' = Absent /\ gstep' = "request" /\ backed' = TRUE
       ELSE backup' = Torn /\ gstep' = "backup" /\ backed' = FALSE
    /\ UNCHANGED <<conf, payload, glomeFaults>>

\* The backup cannot be opened or removed.
PushRefused ==
    /\ Called
    /\ Fault
    /\ before' = conf
    /\ backed' = FALSE
    /\ \E code \in OSErrors : Return(code)
    /\ UNCHANGED <<conf, backup, tainted>>

\* Mutant of BackupDone: the new configuration is written before the backup is complete.
BackupUnfinished ==
    /\ gstep = "backup"
    /\ backed' = TRUE
    /\ gstep' = "request"
    /\ UNCHANGED <<conf, backup, payload, ganswer, before, tainted, glomeCalls, glomeFaults>>

BackupDone ==
    /\ gstep = "backup"
    /\ backup' = conf
    /\ backed' = TRUE
    /\ gstep' = "request"
    /\ UNCHANGED <<conf, payload, ganswer, before, tainted, glomeCalls, glomeFaults>>

\* The copy breaks off, or the mode cannot be copied: conf is left alone.
BackupFails ==
    /\ gstep = "backup"
    /\ Fault
    /\ backup' \in {Torn, conf}
    /\ \E code \in OSErrors : Return(code)
    /\ UNCHANGED <<conf, ghist, glomeCalls>>
-----------------------------------------------------------------------------
(* ... then the request.                                                   *)

\* No JSON, no "enabled", a missing key, which is noticed before the file is opened, or
\* another exception, which the D-Bus library answers.
RequestRefused ==
    /\ gstep = "request"
    /\ \E code \in {3, 4, Raised} : Return(code)
    /\ UNCHANGED <<conf, backup, ghist, glomeCalls, glomeFaults>>

Disable ==
    /\ gstep = "request"
    /\ \/ conf' = Absent /\ Return(0) /\ UNCHANGED glomeFaults
       \/ UNCHANGED conf /\ Fault /\ \E code \in OSErrors : Return(code)
    /\ UNCHANGED <<backup, ghist, glomeCalls>>

\* _write_config_file: open truncates the file.
Enable(c) ==
    /\ gstep = "request"
    /\ \/ /\ conf' = Torn
          /\ payload' = c
          /\ gstep' = "write"
          /\ UNCHANGED <<ganswer, glomeFaults>>
       \/ UNCHANGED conf /\ Fault /\ \E code \in OSErrors : Return(code)
    /\ UNCHANGED <<backup, ghist, glomeCalls>>

WriteDone ==
    /\ gstep = "write"
    /\ conf' = payload
    /\ Return(0)
    /\ UNCHANGED <<backup, ghist, glomeCalls, glomeFaults>>

\* The writing, or the chmod after it, fails.
WriteFails ==
    /\ gstep = "write"
    /\ Fault
    /\ conf' \in {Torn, payload}
    /\ \E code \in OSErrors : Return(code)
    /\ UNCHANGED <<backup, ghist, glomeCalls>>
-----------------------------------------------------------------------------
(* restore_checkpoint                                                      *)

RestoreRemoves ==
    /\ Called
    /\ backup = Absent
    /\ \/ conf' = Absent /\ Return(0) /\ UNCHANGED glomeFaults
       \/ UNCHANGED conf /\ Fault /\ \E code \in OSErrors : Return(code)
    /\ UNCHANGED <<backup, ghist>>

Restore ==
    /\ Called
    /\ backup # Absent
    /\ tainted' = (tainted \/ backup = Torn)
    /\ \/ /\ conf' = Torn
          /\ gstep' = "restore"
          /\ ganswer' = NoAnswer
          /\ UNCHANGED <<payload, glomeFaults>>
       \/ UNCHANGED conf /\ Fault /\ \E code \in OSErrors : Return(code)
    /\ UNCHANGED <<backup, before, backed>>

RestoreDone ==
    /\ gstep = "restore"
    /\ conf' = backup
    /\ Return(0)
    /\ UNCHANGED <<backup, ghist, glomeCalls, glomeFaults>>

RestoreFails ==
    /\ gstep = "restore"
    /\ Fault
    /\ conf' \in {Torn, backup}
    /\ \E code \in OSErrors : Return(code)
    /\ UNCHANGED <<backup, ghist, glomeCalls>>

Crash ==
    /\ gstep # "none"
    /\ Fault
    /\ Return(NoAnswer)
    /\ UNCHANGED <<conf, backup, ghist, glomeCalls>>

Next ==
    \/ Push \/ PushRefused \/ BackupDone \/ BackupFails
    \/ RequestRefused \/ Disable \/ (\E c \in Configs : Enable(c)) \/ WriteDone \/ WriteFails
    \/ RestoreRemoves \/ Restore \/ RestoreDone \/ RestoreFails
    \/ Crash

Spec == Init /\ [][Next]_glomeVars
-----------------------------------------------------------------------------
\* The type of the state.
TypeOK ==
    /\ {conf, backup, payload, before} \subseteq States
    /\ gstep \in {"none", "backup", "request", "write", "restore"}
    /\ ganswer \in 0..Raised \cup {NoAnswer}
    /\ backed \in BOOLEAN
    /\ tainted \in BOOLEAN
    /\ glomeCalls \in Nat
    /\ glomeFaults \in Nat

\* Wherever a method fails or the service dies, one of the two files is whole, unless a client
\* goes on with a torn one: push_config backs up a torn configuration over a good backup, and
\* restore_checkpoint puts back a torn backup, which both look only whether the file is there
\* (51-55, 82-86).
OneFileWhole == conf = Torn /\ backup = Torn => tainted

\* A restore_checkpoint that reports success undoes the last push_config whose backup was made,
\* whatever came of that push and of restores in between (51-55, 82-86).
RestoreUndoesPush ==
    [][(glomeCalls' # glomeCalls \/ gstep = "restore")
            /\ gstep \in {"none", "restore"} /\ ganswer' = 0 /\ backed
                => conf' = before]_glomeVars
=============================================================================
