----------------------------- MODULE GnsiConsole -----------------------------
(***************************************************************************)
(* host_modules/gnsi_console.py: the passwords of /etc/shadow are set      *)
(* between create_checkpoint and restore_checkpoint or delete_checkpoint.  *)
(* A copy is written in place and may be torn, a move replaces its target  *)
(* at once.  Other programs change passwords, too, and take no notice of   *)
(* this service; they replace the file as a whole.                         *)
(***************************************************************************)
EXTENDS Naturals, Sequences

CONSTANTS
    Users,           \* the accounts, one line each
    Hashes,          \* hashed passwords
    Prefixes,        \* pairs of accounts: the first's name is a prefix of the second's
    Absent, Torn,    \* no such file, a file written in part
    MaxConsoleCalls, \* bound: calls of the D-Bus methods
    MaxConsoleFaults \* bound: failures, crashes and changes by other programs

\* Which name and which password stand in the line that was made for an account.
Lines == [Users -> Users \X Hashes]

VARIABLES
    shadow,      \* PASSWD_FILE
    checkpoint,  \* PASSWD_FILE_CHECKPOINT_FILE
    temp,        \* PASSWD_FILE_TEMP
    cstep,       \* the step a method has come to
    buffer,      \* what it has read
    asked,       \* the accounts set was asked for
    canswer,     \* what the last call was answered
    kept,        \* history: what an announced checkpoint holds, Absent while there is none
    unannounced, \* history: restore_checkpoint took a checkpoint that was not announced
    overtaken,   \* history: shadow has changed since set read it
    consoleCalls, consoleFaults

files       == <<shadow, checkpoint, temp>>
chist       == <<kept, unannounced, overtaken>>
consoleVars == <<files, cstep, buffer, asked, canswer, chist, consoleCalls, consoleFaults>>

Init ==
    /\ shadow \in {l \in Lines : \A u \in Users : l[u][1] = u}
    /\ checkpoint = Absent
    /\ temp = Absent
    /\ cstep = "none"
    /\ buffer = Absent
    /\ asked = {}
    /\ canswer = "none"
    /\ kept = Absent
    /\ unannounced = FALSE
    /\ overtaken = FALSE
    /\ consoleCalls = 0
    /\ consoleFaults = 0

Called ==
    cstep = "none" /\ consoleCalls < MaxConsoleCalls /\ consoleCalls' = consoleCalls + 1

Fault == consoleFaults < MaxConsoleFaults /\ consoleFaults' = consoleFaults + 1

Return(result) ==
    /\ cstep' = "none"
    /\ buffer' = Absent
    /\ asked' = {}
    /\ canswer' = result
-----------------------------------------------------------------------------
(* create_checkpoint: shutil.copy truncates its target and fills it.       *)

Create ==
    /\ Called
    /\ buffer' = shadow
    /\ checkpoint' = Torn
    /\ cstep' = "create"
    /\ canswer' = "none"
    /\ kept' = Absent
    /\ UNCHANGED <<shadow, temp, asked, unannounced, overtaken, consoleFaults>>

CreateDone ==
    /\ cstep = "create"
    /\ checkpoint' = buffer
    /\ kept' = buffer
    /\ Return("ok")
    /\ UNCHANGED <<shadow, temp, unannounced, overtaken, consoleCalls, consoleFaults>>

\* While it copies, or before or after that: what there is then stays.
CreateFails ==
    /\ \/ /\ Called
          /\ UNCHANGED checkpoint
       \/ /\ cstep = "create"
          /\ checkpoint' \in {Torn, buffer}
          /\ UNCHANGED consoleCalls
    /\ Fault
    /\ Return("error")
    /\ kept' = Absent
    /\ UNCHANGED <<shadow, temp, unannounced, overtaken>>
-----------------------------------------------------------------------------
(* restore_checkpoint and delete_checkpoint.                               *)

Restore ==
    /\ Called
    /\ checkpoint # Absent
    /\ shadow' = checkpoint
    /\ checkpoint' = Absent
    /\ unannounced' = (unannounced \/ kept = Absent)
    /\ kept' = Absent
    /\ Return("ok")
    /\ UNCHANGED <<temp, overtaken, consoleFaults>>

\* The checkpoint is removed although it was not put back, unless that fails, too.
RestoreFails ==
    /\ Called
    /\ checkpoint # Absent
    /\ Fault
    /\ checkpoint' \in {Absent, checkpoint}
    /\ kept' = Absent
    /\ Return("error")
    /\ UNCHANGED <<shadow, temp, unannounced, overtaken>>

Delete ==
    /\ Called
    /\ checkpoint # Absent
    /\ \/ checkpoint' = Absent /\ Return("ok") /\ UNCHANGED consoleFaults
       \/ UNCHANGED checkpoint /\ Return("error") /\ Fault
    /\ kept' = Absent
    /\ UNCHANGED <<shadow, temp, unannounced, overtaken>>

\* No checkpoint for restore_checkpoint, delete_checkpoint or set; no request in the JSON;
\* /etc/shadow cannot be read
Refuse ==
    /\ Called
    /\ Return("error")
    /\ UNCHANGED <<files, chist, consoleFaults>>
-----------------------------------------------------------------------------
(* set                                                                     *)

\* Mutant of Matches: every line is taken for the account's.
MatchesAny(line, u) == TRUE

\* line.startswith(user_name)
Matches(line, u) == line[1] = u \/ <<u, line[1]>> \in Prefixes

\* update_password_if_user_found for one account; a torn file stays torn.
Updated(lines, u, hash) ==
    IF lines = Torn THEN Torn
    ELSE [v \in Users |-> IF Matches(lines[v], u) THEN <<u, hash>> ELSE lines[v]]

\* An account whose password could not be hashed is left out.
Set(u, hash) ==
    /\ Called
    /\ checkpoint # Absent
    /\ buffer' = Updated(shadow, u, hash)
    /\ asked' = {u}
    /\ overtaken' = FALSE
    /\ cstep' = "write"
    /\ canswer' = "none"
    /\ UNCHANGED <<files, kept, unannounced, consoleFaults>>

\* The next request of the same call.
SetMore(u, hash) ==
    /\ cstep = "write"
    /\ u \notin asked
    /\ buffer' = Updated(buffer, u, hash)
    /\ asked' = asked \cup {u}
    /\ UNCHANGED <<files, cstep, canswer, chist, consoleCalls, consoleFaults>>

\* create_temp_passwd_file
WriteTemp ==
    /\ cstep = "write"
    /\ temp' = Torn
    /\ cstep' = "fill"
    /\ UNCHANGED <<shadow, checkpoint, buffer, asked, canswer, chist, consoleCalls, consoleFaults>>

\* Mutant of FillTemp: the move does not wait for the writing.
FillTempPartly ==
    /\ cstep = "fill"
    /\ cstep' = "move"
    /\ UNCHANGED <<files, buffer, asked, canswer, chist, consoleCalls, consoleFaults>>

FillTemp ==
    /\ cstep = "fill"
    /\ temp' = buffer
    /\ cstep' = "move"
    /\ UNCHANGED <<shadow, checkpoint, buffer, asked, canswer, chist, consoleCalls, consoleFaults>>

\* update_password_file
MoveTemp ==
    /\ cstep = "move"
    /\ shadow' = temp
    /\ temp' = Absent
    /\ Return("ok")
    /\ UNCHANGED <<checkpoint, chist, consoleCalls, consoleFaults>>

\* The writing or the move fails; the temporary file is removed, unless that fails, too.
SetFails ==
    /\ cstep \in {"write", "fill", "move"}
    /\ Fault
    /\ temp' \in {Absent, temp}
    /\ Return("error")
    /\ UNCHANGED <<shadow, checkpoint, chist, consoleCalls>>
-----------------------------------------------------------------------------
Crash ==
    /\ cstep # "none"
    /\ Fault
    /\ Return("none")
    /\ UNCHANGED <<files, chist, consoleCalls>>

\* Another program sets a password.
Passwd(u, hash) ==
    /\ shadow # Torn
    /\ Fault
    /\ shadow' = [shadow EXCEPT ![u] = <<@[1], hash>>]
    /\ shadow' # shadow
    /\ overtaken' = TRUE
    /\ canswer' = "none"
    /\ UNCHANGED <<checkpoint, temp, cstep, buffer, asked, kept, unannounced, consoleCalls>>

Next ==
    \/ Create \/ CreateDone \/ CreateFails
    \/ Restore \/ RestoreFails \/ Delete \/ Refuse
    \/ \E u \in Users, hash \in Hashes :
          Set(u, hash) \/ SetMore(u, hash) \/ Passwd(u, hash)
    \/ WriteTemp \/ FillTemp \/ MoveTemp \/ SetFails
    \/ Crash

Spec == Init /\ [][Next]_consoleVars
-----------------------------------------------------------------------------
\* The type of the state.
TypeOK ==
    /\ shadow \in Lines \cup {Torn}
    /\ {checkpoint, temp, buffer, kept} \subseteq Lines \cup {Absent, Torn}
    /\ cstep \in {"none", "create", "write", "fill", "move"}
    /\ asked \in SUBSET Users
    /\ canswer \in {"none", "ok", "error"}
    /\ unannounced \in BOOLEAN
    /\ overtaken \in BOOLEAN
    /\ consoleCalls \in Nat
    /\ consoleFaults \in Nat

\* /etc/shadow is never torn, wherever a method fails or the service dies, unless a client
\* restores a checkpoint whose making failed or crashed: restore_checkpoint looks only whether
\* the file exists (46), and create_checkpoint leaves it behind (36-38).
ShadowWhole == shadow = Torn => unannounced

\* What set replaces the file by differs from it in the accounts it was asked for only, except
\* in the lines whose accounts' names begin with such a name (startswith in 92), and except when
\* another program has changed a password since set has read the file (173-202).
SetKeepsOthers ==
    [][cstep = "move" /\ shadow' # shadow /\ cstep' = "none" /\ ~overtaken /\ shadow # Torn
            => \A u \in Users \ asked :
                  (\A a \in asked : <<a, u>> \notin Prefixes) => shadow'[u] = shadow[u]]_consoleVars

\* "This API does not support creation or deletion of new user accounts" (150): every account
\* keeps its line.
AccountsKept == shadow # Torn => \A u \in Users : shadow[u][1] = u
=============================================================================
