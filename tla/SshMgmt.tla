------------------------------- MODULE SshMgmt -------------------------------
(***************************************************************************)
(* host_modules/ssh_mgmt.py: the files of the gNSI ssh rotation are set    *)
(* between create_checkpoint and restore_checkpoint or delete_checkpoint.  *)
(* The checkpoint is a directory in /tmp; nothing else remembers it, so it *)
(* is found again after a crash of the service, complete or not.           *)
(***************************************************************************)
EXTENDS Naturals, Sequences

CONSTANTS
    Values,       \* contents of a file
    Absent,       \* there is no such file
    MaxSshCalls,  \* bound: calls of the D-Bus methods
    MaxSshFaults  \* bound: files and directories that fail, crashes

ASSUME SshAssumption ==
    /\ Absent \notin Values
    /\ MaxSshCalls \in Nat
    /\ MaxSshFaults \in Nat

\* In the order in which they are saved and restored.
FileOrder == <<"SshCaPublicKey", "SshAccountKeys", "SshAccountUsers">>
Files == {FileOrder[i] : i \in DOMAIN FileOrder}

Contents == [Files -> Values \cup {Absent}]
Nothing  == [f \in Files |-> Absent]

VARIABLES
    live,       \* the files under /etc/sonic/ssh
    dir,        \* CHECKPOINT_DIR exists
    saved,      \* the files in it
    method,     \* the method that runs
    todo,       \* the files it still has to copy
    wanted,     \* what set was asked for, Absent where nothing
    code,       \* its code so far
    reply,      \* what the last call was answered
    announced,  \* history: the last create_checkpoint succeeded, no method has removed it since
    original,   \* history: the files at that time
    masked,     \* history: set has overwritten the code of a failed copy
    sshCalls, sshFaults

call    == <<method, todo, wanted, code, reply>>
hist    == <<announced, original, masked>>
sshVars == <<live, dir, saved, call, hist, sshCalls, sshFaults>>

SshInit ==
    /\ live \in Contents
    /\ dir = FALSE
    /\ saved = Nothing
    /\ method = "none"
    /\ todo = <<>>
    /\ wanted = Nothing
    /\ code = 0
    /\ reply = "none"
    /\ announced = FALSE
    /\ original = Nothing
    /\ masked = FALSE
    /\ sshCalls = 0
    /\ sshFaults = 0

Called == method = "none" /\ sshCalls < MaxSshCalls /\ sshCalls' = sshCalls + 1

Fault == sshFaults < MaxSshFaults /\ sshFaults' = sshFaults + 1

Begin(m, files, w) ==
    /\ method' = m
    /\ todo' = files
    /\ wanted' = w
    /\ code' = 0
    /\ reply' = "none"

Return(result) ==
    /\ method' = "none"
    /\ todo' = <<>>
    /\ wanted' = Nothing
    /\ code' = 0
    /\ reply' = result

\* The checkpoint is about to go: from here on it is no longer what was announced.
Forget == announced' = FALSE /\ original' = Nothing

\* shutil.rmtree(CHECKPOINT_DIR)
Removed == dir' = FALSE /\ saved' = Nothing

\* It raises after it has removed some of the files.
RemovedInPart ==
    /\ Fault
    /\ \E kept \in SUBSET Files : saved' = [f \in Files |-> IF f \in kept THEN saved[f] ELSE Absent]
    /\ UNCHANGED dir
-----------------------------------------------------------------------------
\* Mutant of Create: an old checkpoint is kept, as exist_ok=True would have it.
CreateOver ==
    /\ Called
    /\ Begin("create", FileOrder, Nothing)
    /\ Forget
    /\ dir' = TRUE
    /\ UNCHANGED <<live, saved, masked, sshFaults>>

Create ==
    /\ Called
    /\ Begin("create", FileOrder, Nothing)
    /\ Forget
    /\ dir' = TRUE
    /\ saved' = Nothing
    /\ UNCHANGED <<live, masked, sshFaults>>

\* rmtree of the old checkpoint or makedirs of the new one raises.
CreateRefused ==
    /\ Called
    /\ \/ dir /\ RemovedInPart
       \/ Removed /\ Fault
    /\ Forget
    /\ Return("error")
    /\ UNCHANGED <<live, masked>>

\* What dest holds after _copy_file: a source that does not exist leaves it alone and succeeds.
Copied(src, dest) == IF src = Absent THEN dest ELSE src

SaveFile ==
    /\ method = "create"
    /\ todo # <<>>
    /\ saved' = [saved EXCEPT ![Head(todo)] = Copied(live[Head(todo)], @)]
    /\ todo' = Tail(todo)
    /\ UNCHANGED <<live, dir, method, wanted, code, reply, hist, sshCalls, sshFaults>>

SaveFails ==
    /\ method = "create"
    /\ todo # <<>>
    /\ live[Head(todo)] # Absent
    /\ Fault
    /\ code' = 1
    /\ todo' = Tail(todo)
    /\ UNCHANGED <<live, dir, saved, method, wanted, reply, hist, sshCalls>>

CreateDone ==
    /\ method = "create"
    /\ todo = <<>>
    /\ code = 0
    /\ announced' = TRUE
    /\ original' = live
    /\ Return("ok")
    /\ UNCHANGED <<live, dir, saved, masked, sshCalls, sshFaults>>

\* The half-made checkpoint is removed, if that works.
CreateFails ==
    /\ method = "create"
    /\ todo = <<>>
    /\ code = 1
    /\ \/ Removed /\ UNCHANGED sshFaults
       \/ RemovedInPart
    /\ Return("error")
    /\ UNCHANGED <<live, hist, sshCalls>>
-----------------------------------------------------------------------------
Restore ==
    /\ Called
    /\ dir
    /\ Begin("restore", FileOrder, Nothing)
    /\ UNCHANGED <<live, dir, saved, hist, sshFaults>>

\* Mutant of RestoreFile: a copy that works takes the place of an earlier failure.
RestoreFileLastCode ==
    /\ method = "restore"
    /\ todo # <<>>
    /\ live' = [live EXCEPT ![Head(todo)] = Copied(saved[Head(todo)], @)]
    /\ code' = 0
    /\ todo' = Tail(todo)
    /\ UNCHANGED <<dir, saved, method, wanted, reply, hist, sshCalls, sshFaults>>

\* A file that is not in the checkpoint stays as it is.
RestoreFile ==
    /\ method = "restore"
    /\ todo # <<>>
    /\ live' = [live EXCEPT ![Head(todo)] = Copied(saved[Head(todo)], @)]
    /\ todo' = Tail(todo)
    /\ UNCHANGED <<dir, saved, method, wanted, code, reply, hist, sshCalls, sshFaults>>

\* Every file is copied to its place twice: one failure makes the code 1, but only two keep
\* the file from being replaced.
TwiceCopied(f, v) == live' \in {live, [live EXCEPT ![f] = v]}

RestoreFileFails ==
    /\ method = "restore"
    /\ todo # <<>>
    /\ saved[Head(todo)] # Absent
    /\ Fault
    /\ TwiceCopied(Head(todo), saved[Head(todo)])
    /\ code' = 1
    /\ todo' = Tail(todo)
    /\ UNCHANGED <<dir, saved, method, wanted, reply, hist, sshCalls>>

\* The checkpoint is removed whether the files were restored or not.
RestoreDone ==
    /\ method = "restore"
    /\ todo = <<>>
    /\ \/ Removed /\ UNCHANGED sshFaults /\ Return(IF code = 0 THEN "ok" ELSE "error")
       \/ RemovedInPart /\ Return("error")
    /\ Forget
    /\ UNCHANGED <<live, masked, sshCalls>>

Delete ==
    /\ Called
    /\ dir
    /\ \/ Removed /\ UNCHANGED sshFaults /\ Return("ok")
       \/ RemovedInPart /\ Return("error")
    /\ Forget
    /\ UNCHANGED <<live, masked>>

\* restore_checkpoint, delete_checkpoint and set without a checkpoint, set with invalid JSON
Refuse ==
    /\ Called
    /\ Return("error")
    /\ UNCHANGED <<live, dir, saved, hist, sshFaults>>
-----------------------------------------------------------------------------
\* The keys of a JSON object come in any order; those of no meaning are left out.
Orders ==
    {s \in UNION {[1..n -> Files] : n \in 0..Len(FileOrder)} :
        \A i, j \in DOMAIN s : s[i] = s[j] => i = j}

Set ==
    /\ Called
    /\ dir
    /\ \E order \in Orders, v \in [Files -> Values] :
          Begin("set", order, [f \in Files |-> IF \E i \in DOMAIN order : order[i] = f
                                               THEN v[f] ELSE Absent])
    /\ masked' = FALSE
    /\ UNCHANGED <<live, dir, saved, announced, original, sshFaults>>

\* Written to a file in the checkpoint and copied from there.
SetFile ==
    /\ method = "set"
    /\ todo # <<>>
    /\ live' = [live EXCEPT ![Head(todo)] = wanted[Head(todo)]]
    /\ code' = 0
    /\ masked' = (masked \/ code = 1)
    /\ todo' = Tail(todo)
    /\ UNCHANGED <<dir, saved, method, wanted, reply, announced, original, sshCalls, sshFaults>>

SetFileFails ==
    /\ method = "set"
    /\ todo # <<>>
    /\ Fault
    /\ TwiceCopied(Head(todo), wanted[Head(todo)])
    /\ code' = 1
    /\ todo' = Tail(todo)
    /\ UNCHANGED <<dir, saved, method, wanted, reply, hist, sshCalls>>

\* open or write raises: the files before it are set, those after it are not.
SetRaises ==
    /\ method = "set"
    /\ todo # <<>>
    /\ Fault
    /\ Return("raised")
    /\ UNCHANGED <<live, dir, saved, hist, sshCalls>>

SetDone ==
    /\ method = "set"
    /\ todo = <<>>
    /\ method' = "none"
    /\ reply' = (IF code = 0 THEN "ok" ELSE "error")
    /\ code' = 0
    /\ UNCHANGED <<live, dir, saved, todo, wanted, hist, sshCalls, sshFaults>>
-----------------------------------------------------------------------------
\* The service dies in a method; with the device, /tmp goes too.
Crash ==
    /\ Fault
    /\ Return("none")
    /\ \/ UNCHANGED <<dir, saved, announced, original>>
       \/ Removed /\ Forget
    /\ UNCHANGED <<live, masked, sshCalls>>

\* The operator removes a file between two calls.
Lose(f) ==
    /\ method = "none"
    /\ live[f] # Absent
    /\ Fault
    /\ live' = [live EXCEPT ![f] = Absent]
    /\ reply' = "none"
    /\ UNCHANGED <<dir, saved, method, todo, wanted, code, hist, sshCalls>>

SshNext ==
    \/ Create \/ CreateRefused \/ SaveFile \/ SaveFails \/ CreateDone \/ CreateFails
    \/ Restore \/ RestoreFile \/ RestoreFileFails \/ RestoreDone
    \/ Delete \/ Refuse
    \/ Set \/ SetFile \/ SetFileFails \/ SetRaises \/ SetDone
    \/ Crash
    \/ \E f \in Files : Lose(f)

SshSpec == SshInit /\ [][SshNext]_sshVars
-----------------------------------------------------------------------------
\* The type of the state.
SshTypeOK ==
    /\ live \in Contents
    /\ dir \in BOOLEAN
    /\ saved \in Contents
    /\ method \in {"none", "create", "restore", "set"}
    /\ todo \in Seq(Files)
    /\ wanted \in Contents
    /\ code \in {0, 1}
    /\ reply \in {"none", "ok", "error", "raised"}
    /\ announced \in BOOLEAN
    /\ original \in Contents
    /\ masked \in BOOLEAN
    /\ sshCalls \in Nat
    /\ sshFaults \in Nat

\* An announced checkpoint is there and holds the files of its time, whatever was set, failed
\* or crashed since; no file of an older checkpoint is among them (create_checkpoint 112-145).
CheckpointFaithful == announced => dir /\ saved = original

\* A restore_checkpoint that reports success has put back every file an announced checkpoint
\* was made of; a file that did not exist then is left alone (149-188, _copy_file 71-89).
RestoreRestores ==
    [][(method = "restore" /\ announced /\ reply' = "ok")
            => \A f \in Files : original[f] # Absent => live'[f] = original[f]]_sshVars

\* A set that reports success has set every file it was asked for, except when the code of a
\* failed copy was overwritten by that of a later one (226, 252, 279).
SetReported ==
    (method = "none" /\ reply = "ok" /\ ~masked)
        => \A f \in Files : wanted[f] # Absent => live[f] = wanted[f]
=============================================================================
