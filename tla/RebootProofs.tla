---------------------------- MODULE RebootProofs ----------------------------
(***************************************************************************)
(* Theorems about what takes a device down and accounts for it. For any    *)
(* number of requests and failures one reboot at a time is executed, it is *)
(* the one the flag announces, and success means what it says; for any     *)
(* number of boots and of history files kept, the cause of a reboot is     *)
(* neither lost nor misfiled but in the ways RebootCauseKept names.        *)
(***************************************************************************)
EXTENDS Reboot, RebootCause, TLAPS
-----------------------------------------------------------------------------
(* The reboot service.                                                     *)

\* No execute_reboot thread is alive.
NoThread == \A t \in Threads : tpc[t] = "none"

\* While issue_reboot validates, nothing is announced and there is a request; while it
\* spawns, its own request is announced, and the thread is still to come.
CallInv ==
    /\ rpc = "validate" => ~flag.active /\ request # ""
    /\ rpc = "spawn" => /\ NoThread
                        /\ request \in Methods
                        /\ flag.active
                        /\ flag.method = request
                        /\ flag.status = "UNKNOWN"

\* Only a halt is waited for by looking at the services.
HaltPolls ==
    \A t \in Threads :
        /\ tpc[t] # "none" => tmethod[t] \in Methods
        /\ tpc[t] \in {"poll", "pollPmon", "last", "lastPmon"} => tmethod[t] = "HALT"

\* The inductive invariant.
RebootIInv == TypeOK /\ CallInv /\ OneReboot /\ HaltPolls /\ SuccessMeansHalted

(* What the end of a thread changes (reboot.py:84-98, called at the end of                *)
(* execute_reboot): the flag is inactive, of its method and with the outcome.             *)
LEMMA ConcludeWrites ==
  ASSUME TypeOK, NEW t \in Threads, NEW s \in Statuses, Conclude(t, s)
  PROVE  /\ flag' \in [active : BOOLEAN, method : Methods \union {""},
                      status : Statuses, count : Nat]
         /\ ~flag'.active
         /\ flag'.method = tmethod[t]
         /\ flag'.status = s
         /\ tpc' \in [Threads -> ThreadPCs]
         /\ tmethod' \in [Threads -> Methods \union {""}]
         /\ tpc'[t] = "none"
         /\ \A u \in Threads \ {t} : tpc'[u] = tpc[u] /\ tmethod'[u] = tmethod[u]
<1>1. tmethod[t] \in Methods \union {""} /\ reboot_count \in Nat
  BY DEF TypeOK
<1>2. flag' = [active |-> FALSE, method |-> tmethod[t], status |-> s, count |-> reboot_count]
  BY DEF Conclude, Populate
<1>3. flag' \in [active : BOOLEAN, method : Methods \union {""}, status : Statuses, count : Nat]
  BY <1>1, <1>2, Zenon
<1>4. ~flag'.active /\ flag'.method = tmethod[t] /\ flag'.status = s
  BY <1>2, Zenon
<1>5. /\ tpc' \in [Threads -> ThreadPCs]
      /\ tmethod' \in [Threads -> Methods \union {""}]
      /\ tpc'[t] = "none"
      /\ \A u \in Threads \ {t} : tpc'[u] = tpc[u] /\ tmethod'[u] = tmethod[u]
  BY DEF TypeOK, Conclude, ThreadPCs
<1>6. QED
  BY <1>3, <1>4, <1>5

(* The thread that ends was the only one. *)
LEMMA ConcludeLeavesNone ==
  ASSUME TypeOK, OneReboot, NEW t \in Threads, tpc[t] # "none", NEW s \in Statuses, Conclude(t, s)
  PROVE  NoThread'
<1>1. ASSUME NEW u \in Threads PROVE tpc'[u] = "none"
  <2>1. CASE u = t
    BY <2>1, ConcludeWrites
  <2>2. CASE u # t
    <3>1. tpc[u] = "none"
      BY <2>2 DEF OneReboot
    <3>2. QED
      BY <2>2, <3>1, ConcludeWrites
  <2>3. QED
    BY <2>1, <2>2
<1>2. QED
  BY <1>1 DEF NoThread

(* A look at the device counts its failure, and is blind from then on. *)
LEMMA AnswersKeep ==
  ASSUME faults \in Nat, blind \in BOOLEAN, NEW fact \in BOOLEAN, NEW answer \in BOOLEAN,
         Answers(fact, answer)
  PROVE  /\ faults' \in Nat
         /\ blind' \in BOOLEAN
         /\ blind => blind'
         /\ ~answer => ~fact \/ blind'
<1>1. faults' \in Nat
  BY SMT DEF Answers
<1>2. blind' \in BOOLEAN /\ (blind => blind') /\ (~answer => ~fact \/ blind')
  BY Zenon DEF Answers
<1>3. QED
  BY <1>1, <1>2

(* The flag of a process that has not rebooted anything. *)
LEMMA DefaultType ==
  Default \in [active : BOOLEAN, method : Methods \union {""}, status : Statuses, count : Nat]
<1>1. "UNKNOWN" \in Statuses /\ 0 \in Nat
  BY DEF Statuses
<1>2. QED
  BY <1>1, Zenon DEF Default

(* What Accept announces. *)
LEMMA AcceptWrites ==
  ASSUME TypeOK, CallInv, Accept
  PROVE  /\ flag' \in [active : BOOLEAN, method : Methods \union {""},
                      status : Statuses, count : Nat]
         /\ flag'.active
         /\ flag'.method = request
         /\ flag'.status = "UNKNOWN"
         /\ request \in Methods
<1>1. request \in Methods
  BY DEF TypeOK, CallInv, Accept
<1>2. flag' = [active |-> TRUE, method |-> request, status |-> "UNKNOWN", count |-> reboot_count]
  BY DEF Accept, Populate
<1>3. reboot_count \in Nat /\ "UNKNOWN" \in Statuses
  BY DEF TypeOK, Statuses
<1>4. flag' \in [active : BOOLEAN, method : Methods \union {""}, status : Statuses, count : Nat]
  BY <1>1, <1>2, <1>3, Zenon
<1>5. flag'.active /\ flag'.method = request /\ flag'.status = "UNKNOWN"
  BY <1>2, Zenon
<1>6. QED
  BY <1>1, <1>4, <1>5

(* One step keeps the types; a request that is spawned is a method. *)
LEMMA RebootTypeStep == TypeOK /\ CallInv /\ HaltPolls /\ [Next]_vars => TypeOK'
<1>1. SUFFICES ASSUME TypeOK /\ CallInv /\ HaltPolls, [Next]_vars PROVE TypeOK'
  OBVIOUS
<1>2. ASSUME NEW r \in Methods \union {"bad"}, Call(r) PROVE TypeOK'
  <2>1. reboot_count' \in Nat /\ requests' \in Nat
    <3>1. reboot_count \in Nat /\ requests \in Nat
      BY <1>1 DEF TypeOK
    <3>2. reboot_count' = reboot_count + 1 /\ requests' = requests + 1
      BY <1>2, Zenon DEF Call
    <3>3. QED
      BY <3>1, <3>2
  <2>2. rpc' \in {"idle", "validate"} /\ request' \in Methods \union {"", "bad"}
    BY <1>2, Zenon DEF Call
  <2>3. UNCHANGED <<flag, exec, env, hist, faults>>
    BY <1>2 DEF Call
  <2>4. QED
    BY <1>1, <2>1, <2>2, <2>3 DEF TypeOK, exec, env, hist
<1>3. CASE Refuse
  BY <1>1, <1>3 DEF Refuse, TypeOK, CallInv, HaltPolls, ThreadPCs, Methods, exec, env, hist
<1>4. CASE Accept
  <2>1. /\ rpc' = "spawn" /\ request \in Methods
        /\ UNCHANGED <<reboot_count, request, exec, env, hist, requests, faults>>
    BY <1>1, <1>4, AcceptWrites DEF Accept
  <2>2. QED
    BY <1>1, <1>4, <2>1, AcceptWrites
    DEF TypeOK, CallInv, HaltPolls, ThreadPCs, Methods, exec, env, hist
<1>5. ASSUME NEW t \in Threads, Spawn(t) PROVE TypeOK'
  BY <1>1, <1>5 DEF Spawn, TypeOK, CallInv, HaltPolls, ThreadPCs, Methods, env, hist
<1>6. CASE SpawnFails
  <2>1. faults' \in Nat
    <3>1. faults \in Nat
      BY <1>1 DEF TypeOK
    <3>2. faults' = faults + 1
      BY <1>6, Zenon DEF SpawnFails
    <3>3. QED
      BY <3>1, <3>2
  <2>2. QED
    BY <1>1, <1>6, <2>1, Zenon DEF SpawnFails, TypeOK, exec, env
<1>7. ASSUME NEW t \in Threads, RunCommand(t) PROVE TypeOK'
  BY <1>1, <1>7 DEF RunCommand, TypeOK, CallInv, HaltPolls, ThreadPCs, Methods, Goto, hist
<1>8. ASSUME NEW t \in Threads, CommandFails(t) PROVE TypeOK'
  <2>1. Conclude(t, "FAILURE")
    BY <1>8 DEF CommandFails
  <2>2. QED
    BY <1>1, <1>8, <2>1, ConcludeWrites
    DEF CommandFails, Statuses, TypeOK, CallInv, HaltPolls, ThreadPCs, Methods, hist
<1>9. ASSUME NEW t \in Threads, CommandReturns(t) PROVE TypeOK'
  BY <1>1, <1>9
  DEF CommandReturns, TypeOK, CallInv, HaltPolls, ThreadPCs, Methods, Goto, env, hist
<1>10. ASSUME NEW t \in Threads, SleepOver(t) PROVE TypeOK'
  <2>1. Conclude(t, "FAILURE")
    BY <1>10 DEF SleepOver
  <2>2. QED
    BY <1>1, <1>10, <2>1, ConcludeWrites
    DEF SleepOver, Statuses, TypeOK, CallInv, HaltPolls, ThreadPCs, Methods, env, hist
<1>11. ASSUME NEW t \in Threads, PollCommand(t) PROVE TypeOK'
  <2>1. faults' \in Nat /\ blind' \in BOOLEAN /\ (blind => blind')
    BY <1>1, <1>11, AnswersKeep DEF TypeOK, PollCommand
  <2>2. QED
    BY <1>1, <1>11, <2>1
    DEF PollCommand, TypeOK, CallInv, HaltPolls, ThreadPCs, Methods, Goto, env
<1>12. ASSUME NEW t \in Threads, PollPmon(t) PROVE TypeOK'
  <2>1. PICK running \in BOOLEAN :
            /\ Answers(pmon, running)
            /\ IF running THEN Goto(t, "poll") ELSE Conclude(t, "SUCCESS")
    BY <1>12 DEF PollPmon
  <2>2. faults' \in Nat /\ blind' \in BOOLEAN /\ (blind => blind')
    BY <1>1, <2>1, AnswersKeep DEF TypeOK
  <2>3. ~running => ~pmon \/ blind'
    BY <1>1, <2>1, AnswersKeep DEF TypeOK
  <2>4. CASE running
    <3>1. Goto(t, "poll")
      BY <2>1, <2>4
    <3>2. QED
      BY <1>1, <1>12, <2>2, <2>3, <2>4, <3>1
      DEF PollPmon, TypeOK, CallInv, HaltPolls, ThreadPCs, Methods, env, Goto
  <2>5. CASE ~running
    <3>1. Conclude(t, "SUCCESS")
      BY <2>1, <2>5
    <3>2. QED
      BY <1>1, <1>12, <2>2, <2>3, <2>5, <3>1, ConcludeWrites
      DEF PollPmon, Statuses, TypeOK, CallInv, HaltPolls, ThreadPCs, Methods, env
  <2>6. QED
    BY <2>4, <2>5
<1>13. ASSUME NEW t \in Threads, PollOver(t) PROVE TypeOK'
  BY <1>1, <1>13 DEF PollOver, TypeOK, CallInv, HaltPolls, ThreadPCs, Methods, Goto, env, hist
<1>14. ASSUME NEW t \in Threads, LastCommand(t) PROVE TypeOK'
  <2>1. PICK running \in BOOLEAN :
            /\ Answers(haltCmd, running)
            /\ IF running THEN Conclude(t, "FAILURE") ELSE Goto(t, "lastPmon")
    BY <1>14 DEF LastCommand
  <2>2. faults' \in Nat /\ blind' \in BOOLEAN /\ (blind => blind')
    BY <1>1, <2>1, AnswersKeep DEF TypeOK
  <2>3. ~running => ~haltCmd \/ blind'
    BY <1>1, <2>1, AnswersKeep DEF TypeOK
  <2>4. CASE running
    <3>1. Conclude(t, "FAILURE")
      BY <2>1, <2>4
    <3>2. QED
      BY <1>1, <1>14, <2>2, <2>3, <2>4, <3>1, ConcludeWrites
      DEF LastCommand, Statuses, TypeOK, CallInv, HaltPolls, ThreadPCs, Methods, env
  <2>5. CASE ~running
    <3>1. Goto(t, "lastPmon")
      BY <2>1, <2>5
    <3>2. QED
      BY <1>1, <1>14, <2>2, <2>3, <2>5, <3>1
      DEF LastCommand, TypeOK, CallInv, HaltPolls, ThreadPCs, Methods, env, Goto
  <2>6. QED
    BY <2>4, <2>5
<1>15. ASSUME NEW t \in Threads, LastPmon(t) PROVE TypeOK'
  <2>1. PICK running \in BOOLEAN :
            /\ Answers(pmon, running)
            /\ Conclude(t, IF running THEN "FAILURE" ELSE "SUCCESS")
    BY <1>15 DEF LastPmon
  <2>2. faults' \in Nat /\ blind' \in BOOLEAN /\ (blind => blind')
    BY <1>1, <2>1, AnswersKeep DEF TypeOK
  <2>3. ~running => ~pmon \/ blind'
    BY <1>1, <2>1, AnswersKeep DEF TypeOK
  <2>4. CASE running
    <3>1. Conclude(t, "FAILURE")
      BY <2>1, <2>4
    <3>2. QED
      BY <1>1, <1>15, <2>2, <2>3, <2>4, <3>1, ConcludeWrites
      DEF LastPmon, Statuses, TypeOK, CallInv, HaltPolls, ThreadPCs, Methods, env
  <2>5. CASE ~running
    <3>1. Conclude(t, "SUCCESS")
      BY <2>1, <2>5
    <3>2. QED
      BY <1>1, <1>15, <2>2, <2>3, <2>5, <3>1, ConcludeWrites
      DEF LastPmon, Statuses, TypeOK, CallInv, HaltPolls, ThreadPCs, Methods, env
  <2>6. QED
    BY <2>4, <2>5
<1>16. CASE PmonStops
  BY <1>1, <1>16 DEF PmonStops, TypeOK, CallInv, HaltPolls, ThreadPCs, Methods, exec, hist
<1>17. CASE HaltCmdEnds
  BY <1>1, <1>17 DEF HaltCmdEnds, TypeOK, CallInv, HaltPolls, ThreadPCs, Methods, exec, hist
<1>18. CASE DeviceReboots
  <2>1. Default \in [active : BOOLEAN, method : Methods \union {""},
                     status : Statuses, count : Nat]
    BY DefaultType
  <2>2. QED
    BY <1>1, <1>18, <2>1 DEF DeviceReboots, TypeOK, ThreadPCs
<1>19. CASE UNCHANGED vars
  BY <1>1, <1>19 DEF vars, exec, env, hist, TypeOK, CallInv, HaltPolls, ThreadPCs
<1>20. QED
  BY <1>1, <1>2, <1>3, <1>4, <1>5, <1>6, <1>7, <1>8, <1>9, <1>10, <1>11, <1>12, <1>13, <1>14,
     <1>15, <1>16, <1>17, <1>18, <1>19
  DEF Next, IssueReboot, ExecuteReboot, Device

(* One step keeps what issue_reboot relies on: its thread is the only writer to come. *)
LEMMA CallStep == TypeOK /\ CallInv /\ OneReboot /\ [Next]_vars => CallInv'
<1>1. SUFFICES ASSUME TypeOK /\ CallInv /\ OneReboot, [Next]_vars PROVE CallInv'
  OBVIOUS
<1>2. ASSUME NEW r \in Methods \union {"bad"}, Call(r) PROVE CallInv'
  BY <1>1, <1>2 DEF Call, CallInv, OneReboot, NoThread, TypeOK, Methods, exec, env
<1>3. CASE Refuse
  BY <1>1, <1>3 DEF Refuse, CallInv, OneReboot, NoThread, TypeOK, Methods, exec, env
<1>4. CASE Accept
  <2>1. NoThread
    BY <1>1, <1>4 DEF Accept, CallInv, OneReboot, NoThread
  <2>2. NoThread'
    BY <1>4, <2>1 DEF Accept, NoThread, exec
  <2>3. rpc' = "spawn" /\ request' = request
    BY <1>4 DEF Accept
  <2>4. QED
    BY <1>1, <1>4, <2>2, <2>3, AcceptWrites DEF CallInv, OneReboot
<1>5. ASSUME NEW t \in Threads, Spawn(t) PROVE CallInv'
  BY <1>1, <1>5 DEF Spawn, CallInv, OneReboot, NoThread, TypeOK, Methods, env
<1>6. CASE SpawnFails
  BY <1>1, <1>6 DEF SpawnFails, CallInv, OneReboot, NoThread, TypeOK, Methods, exec
<1>7. ASSUME NEW t \in Threads, RunCommand(t) PROVE CallInv'
  BY <1>1, <1>7 DEF RunCommand, CallInv, OneReboot, NoThread, TypeOK, Methods, Goto
<1>8. ASSUME NEW t \in Threads, CommandFails(t) PROVE CallInv'
  <2>1. Conclude(t, "FAILURE")
    BY <1>8 DEF CommandFails
  <2>2. QED
    BY <1>1, <1>8, <2>1, ConcludeWrites
    DEF CommandFails, Statuses, CallInv, OneReboot, NoThread, TypeOK, Methods
<1>9. ASSUME NEW t \in Threads, CommandReturns(t) PROVE CallInv'
  BY <1>1, <1>9 DEF CommandReturns, CallInv, OneReboot, NoThread, TypeOK, Methods, Goto, env
<1>10. ASSUME NEW t \in Threads, SleepOver(t) PROVE CallInv'
  <2>1. Conclude(t, "FAILURE")
    BY <1>10 DEF SleepOver
  <2>2. QED
    BY <1>1, <1>10, <2>1, ConcludeWrites
    DEF SleepOver, Statuses, CallInv, OneReboot, NoThread, TypeOK, Methods, env
<1>11. ASSUME NEW t \in Threads, PollCommand(t) PROVE CallInv'
  <2>1. faults' \in Nat /\ blind' \in BOOLEAN /\ (blind => blind')
    BY <1>1, <1>11, AnswersKeep DEF TypeOK, PollCommand
  <2>2. QED
    BY <1>1, <1>11, <2>1 DEF PollCommand, CallInv, OneReboot, NoThread, TypeOK, Methods, Goto
<1>12. ASSUME NEW t \in Threads, PollPmon(t) PROVE CallInv'
  <2>1. PICK running \in BOOLEAN :
            /\ Answers(pmon, running)
            /\ IF running THEN Goto(t, "poll") ELSE Conclude(t, "SUCCESS")
    BY <1>12 DEF PollPmon
  <2>2. faults' \in Nat /\ blind' \in BOOLEAN /\ (blind => blind')
    BY <1>1, <2>1, AnswersKeep DEF TypeOK
  <2>3. ~running => ~pmon \/ blind'
    BY <1>1, <2>1, AnswersKeep DEF TypeOK
  <2>4. CASE running
    <3>1. Goto(t, "poll")
      BY <2>1, <2>4
    <3>2. QED
      BY <1>1, <1>12, <2>2, <2>3, <2>4, <3>1
      DEF PollPmon, CallInv, OneReboot, NoThread, TypeOK, Methods, env
  <2>5. CASE ~running
    <3>1. Conclude(t, "SUCCESS")
      BY <2>1, <2>5
    <3>2. QED
      BY <1>1, <1>12, <2>2, <2>3, <2>5, <3>1, ConcludeWrites
      DEF PollPmon, Statuses, CallInv, OneReboot, NoThread, TypeOK, Methods
  <2>6. QED
    BY <2>4, <2>5
<1>13. ASSUME NEW t \in Threads, PollOver(t) PROVE CallInv'
  BY <1>1, <1>13 DEF PollOver, CallInv, OneReboot, NoThread, TypeOK, Methods, Goto, env
<1>14. ASSUME NEW t \in Threads, LastCommand(t) PROVE CallInv'
  <2>1. PICK running \in BOOLEAN :
            /\ Answers(haltCmd, running)
            /\ IF running THEN Conclude(t, "FAILURE") ELSE Goto(t, "lastPmon")
    BY <1>14 DEF LastCommand
  <2>2. faults' \in Nat /\ blind' \in BOOLEAN /\ (blind => blind')
    BY <1>1, <2>1, AnswersKeep DEF TypeOK
  <2>3. ~running => ~haltCmd \/ blind'
    BY <1>1, <2>1, AnswersKeep DEF TypeOK
  <2>4. CASE running
    <3>1. Conclude(t, "FAILURE")
      BY <2>1, <2>4
    <3>2. QED
      BY <1>1, <1>14, <2>2, <2>3, <2>4, <3>1, ConcludeWrites
      DEF LastCommand, Statuses, CallInv, OneReboot, NoThread, TypeOK, Methods
  <2>5. CASE ~running
    <3>1. Goto(t, "lastPmon")
      BY <2>1, <2>5
    <3>2. QED
      BY <1>1, <1>14, <2>2, <2>3, <2>5, <3>1
      DEF LastCommand, CallInv, OneReboot, NoThread, TypeOK, Methods, env
  <2>6. QED
    BY <2>4, <2>5
<1>15. ASSUME NEW t \in Threads, LastPmon(t) PROVE CallInv'
  <2>1. PICK running \in BOOLEAN :
            /\ Answers(pmon, running)
            /\ Conclude(t, IF running THEN "FAILURE" ELSE "SUCCESS")
    BY <1>15 DEF LastPmon
  <2>2. faults' \in Nat /\ blind' \in BOOLEAN /\ (blind => blind')
    BY <1>1, <2>1, AnswersKeep DEF TypeOK
  <2>3. ~running => ~pmon \/ blind'
    BY <1>1, <2>1, AnswersKeep DEF TypeOK
  <2>4. CASE running
    <3>1. Conclude(t, "FAILURE")
      BY <2>1, <2>4
    <3>2. QED
      BY <1>1, <1>15, <2>2, <2>3, <2>4, <3>1, ConcludeWrites
      DEF LastPmon, Statuses, CallInv, OneReboot, NoThread, TypeOK, Methods
  <2>5. CASE ~running
    <3>1. Conclude(t, "SUCCESS")
      BY <2>1, <2>5
    <3>2. QED
      BY <1>1, <1>15, <2>2, <2>3, <2>5, <3>1, ConcludeWrites
      DEF LastPmon, Statuses, CallInv, OneReboot, NoThread, TypeOK, Methods
  <2>6. QED
    BY <2>4, <2>5
<1>16. CASE PmonStops
  BY <1>1, <1>16 DEF PmonStops, CallInv, OneReboot, NoThread, TypeOK, Methods, exec
<1>17. CASE HaltCmdEnds
  BY <1>1, <1>17 DEF HaltCmdEnds, CallInv, OneReboot, NoThread, TypeOK, Methods, exec
<1>18. CASE DeviceReboots
  BY <1>1, <1>18 DEF DeviceReboots, CallInv, OneReboot, NoThread, TypeOK, Methods
<1>19. CASE UNCHANGED vars
  BY <1>1, <1>19 DEF vars, exec, env, hist, CallInv, OneReboot, NoThread, TypeOK
<1>20. QED
  BY <1>1, <1>2, <1>3, <1>4, <1>5, <1>6, <1>7, <1>8, <1>9, <1>10, <1>11, <1>12, <1>13, <1>14,
     <1>15, <1>16, <1>17, <1>18, <1>19
  DEF Next, IssueReboot, ExecuteReboot, Device

(* One step keeps the single thread and its announcement. *)
LEMMA OneRebootStep == TypeOK /\ CallInv /\ OneReboot /\ [Next]_vars => OneReboot'
<1>1. SUFFICES ASSUME TypeOK /\ CallInv /\ OneReboot, [Next]_vars PROVE OneReboot'
  OBVIOUS
<1>2. ASSUME NEW r \in Methods \union {"bad"}, Call(r) PROVE OneReboot'
  BY <1>1, <1>2 DEF Call, CallInv, OneReboot, NoThread, TypeOK, exec, env
<1>3. CASE Refuse
  BY <1>1, <1>3 DEF Refuse, CallInv, OneReboot, NoThread, TypeOK, exec, env
<1>4. CASE Accept
  <2>1. NoThread
    BY <1>1, <1>4 DEF Accept, CallInv, OneReboot, NoThread
  <2>2. NoThread'
    BY <1>4, <2>1 DEF Accept, NoThread, exec
  <2>3. rpc' = "spawn" /\ request' = request
    BY <1>4 DEF Accept
  <2>4. QED
    BY <1>1, <1>4, <2>2, <2>3, AcceptWrites DEF CallInv, OneReboot, NoThread
<1>5. ASSUME NEW t \in Threads, Spawn(t) PROVE OneReboot'
  BY <1>1, <1>5 DEF Spawn, CallInv, OneReboot, NoThread, TypeOK, env
<1>6. CASE SpawnFails
  BY <1>1, <1>6 DEF SpawnFails, CallInv, OneReboot, NoThread, TypeOK, exec
<1>7. ASSUME NEW t \in Threads, RunCommand(t) PROVE OneReboot'
  BY <1>1, <1>7 DEF RunCommand, CallInv, OneReboot, NoThread, TypeOK, Goto
<1>8. ASSUME NEW t \in Threads, CommandFails(t) PROVE OneReboot'
  <2>1. tpc[t] # "none" /\ Conclude(t, "FAILURE")
    BY <1>8 DEF CommandFails
  <2>2. NoThread'
    BY <1>1, <2>1, ConcludeLeavesNone DEF Statuses
  <2>3. QED
    BY <2>2 DEF NoThread, OneReboot
<1>9. ASSUME NEW t \in Threads, CommandReturns(t) PROVE OneReboot'
  BY <1>1, <1>9 DEF CommandReturns, CallInv, OneReboot, NoThread, TypeOK, Goto, env
<1>10. ASSUME NEW t \in Threads, SleepOver(t) PROVE OneReboot'
  <2>1. tpc[t] # "none" /\ Conclude(t, "FAILURE")
    BY <1>10 DEF SleepOver
  <2>2. NoThread'
    BY <1>1, <2>1, ConcludeLeavesNone DEF Statuses
  <2>3. QED
    BY <2>2 DEF NoThread, OneReboot
<1>11. ASSUME NEW t \in Threads, PollCommand(t) PROVE OneReboot'
  <2>1. faults' \in Nat /\ blind' \in BOOLEAN /\ (blind => blind')
    BY <1>1, <1>11, AnswersKeep DEF TypeOK, PollCommand
  <2>2. QED
    BY <1>1, <1>11, <2>1 DEF PollCommand, CallInv, OneReboot, NoThread, TypeOK, Goto
<1>12. ASSUME NEW t \in Threads, PollPmon(t) PROVE OneReboot'
  <2>1. PICK running \in BOOLEAN :
            /\ Answers(pmon, running)
            /\ IF running THEN Goto(t, "poll") ELSE Conclude(t, "SUCCESS")
    BY <1>12 DEF PollPmon
  <2>2. faults' \in Nat /\ blind' \in BOOLEAN /\ (blind => blind')
    BY <1>1, <2>1, AnswersKeep DEF TypeOK
  <2>3. ~running => ~pmon \/ blind'
    BY <1>1, <2>1, AnswersKeep DEF TypeOK
  <2>4. CASE running
    <3>1. Goto(t, "poll")
      BY <2>1, <2>4
    <3>2. QED
      BY <1>1, <1>12, <2>2, <2>3, <2>4, <3>1
      DEF PollPmon, CallInv, OneReboot, NoThread, TypeOK, env, Goto
  <2>5. CASE ~running
    <3>1. Conclude(t, "SUCCESS")
      BY <2>1, <2>5
    <3>2. NoThread'
      BY <1>1, <1>12, <3>1, ConcludeLeavesNone DEF PollPmon, Statuses
    <3>3. QED
      BY <3>2 DEF NoThread, OneReboot
  <2>6. QED
    BY <2>4, <2>5
<1>13. ASSUME NEW t \in Threads, PollOver(t) PROVE OneReboot'
  BY <1>1, <1>13 DEF PollOver, CallInv, OneReboot, NoThread, TypeOK, Goto, env
<1>14. ASSUME NEW t \in Threads, LastCommand(t) PROVE OneReboot'
  <2>1. PICK running \in BOOLEAN :
            /\ Answers(haltCmd, running)
            /\ IF running THEN Conclude(t, "FAILURE") ELSE Goto(t, "lastPmon")
    BY <1>14 DEF LastCommand
  <2>2. faults' \in Nat /\ blind' \in BOOLEAN /\ (blind => blind')
    BY <1>1, <2>1, AnswersKeep DEF TypeOK
  <2>3. ~running => ~haltCmd \/ blind'
    BY <1>1, <2>1, AnswersKeep DEF TypeOK
  <2>4. CASE running
    <3>1. Conclude(t, "FAILURE")
      BY <2>1, <2>4
    <3>2. NoThread'
      BY <1>1, <1>14, <3>1, ConcludeLeavesNone DEF LastCommand, Statuses
    <3>3. QED
      BY <3>2 DEF NoThread, OneReboot
  <2>5. CASE ~running
    <3>1. Goto(t, "lastPmon")
      BY <2>1, <2>5
    <3>2. QED
      BY <1>1, <1>14, <2>2, <2>3, <2>5, <3>1
      DEF LastCommand, CallInv, OneReboot, NoThread, TypeOK, env, Goto
  <2>6. QED
    BY <2>4, <2>5
<1>15. ASSUME NEW t \in Threads, LastPmon(t) PROVE OneReboot'
  <2>1. PICK running \in BOOLEAN :
            /\ Answers(pmon, running)
            /\ Conclude(t, IF running THEN "FAILURE" ELSE "SUCCESS")
    BY <1>15 DEF LastPmon
  <2>4. CASE running
    <3>1. Conclude(t, "FAILURE")
      BY <2>1, <2>4
    <3>2. NoThread'
      BY <1>1, <1>15, <3>1, ConcludeLeavesNone DEF LastPmon, Statuses
    <3>3. QED
      BY <3>2 DEF NoThread, OneReboot
  <2>5. CASE ~running
    <3>1. Conclude(t, "SUCCESS")
      BY <2>1, <2>5
    <3>2. NoThread'
      BY <1>1, <1>15, <3>1, ConcludeLeavesNone DEF LastPmon, Statuses
    <3>3. QED
      BY <3>2 DEF NoThread, OneReboot
  <2>6. QED
    BY <2>4, <2>5
<1>16. CASE PmonStops
  BY <1>1, <1>16 DEF PmonStops, CallInv, OneReboot, NoThread, TypeOK, exec
<1>17. CASE HaltCmdEnds
  BY <1>1, <1>17 DEF HaltCmdEnds, CallInv, OneReboot, NoThread, TypeOK, exec
<1>18. CASE DeviceReboots
  BY <1>1, <1>18 DEF DeviceReboots, CallInv, OneReboot, NoThread, TypeOK
<1>19. CASE UNCHANGED vars
  BY <1>1, <1>19 DEF vars, exec, env, hist, CallInv, OneReboot, NoThread
<1>20. QED
  BY <1>1, <1>2, <1>3, <1>4, <1>5, <1>6, <1>7, <1>8, <1>9, <1>10, <1>11, <1>12, <1>13, <1>14,
     <1>15, <1>16, <1>17, <1>18, <1>19
  DEF Next, IssueReboot, ExecuteReboot, Device

(* One step keeps the threads to their methods. *)
LEMMA HaltPollsStep == TypeOK /\ CallInv /\ HaltPolls /\ [Next]_vars => HaltPolls'
<1>1. SUFFICES ASSUME TypeOK /\ CallInv /\ HaltPolls, [Next]_vars PROVE HaltPolls'
  OBVIOUS
<1>2. ASSUME NEW r \in Methods \union {"bad"}, Call(r) PROVE HaltPolls'
  BY <1>1, <1>2 DEF Call, CallInv, HaltPolls, TypeOK, Methods, exec, env
<1>3. CASE Refuse
  BY <1>1, <1>3 DEF Refuse, CallInv, HaltPolls, TypeOK, Methods, exec, env
<1>4. CASE Accept
  BY <1>1, <1>4 DEF Accept, CallInv, HaltPolls, TypeOK, Methods, Populate, exec, env
<1>5. ASSUME NEW t \in Threads, Spawn(t) PROVE HaltPolls'
  BY <1>1, <1>5 DEF Spawn, CallInv, HaltPolls, TypeOK, Methods, env
<1>6. CASE SpawnFails
  BY <1>1, <1>6 DEF SpawnFails, CallInv, HaltPolls, TypeOK, Methods, exec
<1>7. ASSUME NEW t \in Threads, RunCommand(t) PROVE HaltPolls'
  BY <1>1, <1>7 DEF RunCommand, CallInv, HaltPolls, TypeOK, Methods, Goto
<1>8. ASSUME NEW t \in Threads, CommandFails(t) PROVE HaltPolls'
  <2>1. Conclude(t, "FAILURE")
    BY <1>8 DEF CommandFails
  <2>2. QED
    BY <1>1, <1>8, <2>1, ConcludeWrites
    DEF CommandFails, Statuses, CallInv, HaltPolls, TypeOK, Methods
<1>9. ASSUME NEW t \in Threads, CommandReturns(t) PROVE HaltPolls'
  BY <1>1, <1>9 DEF CommandReturns, CallInv, HaltPolls, TypeOK, Methods, Goto, env
<1>10. ASSUME NEW t \in Threads, SleepOver(t) PROVE HaltPolls'
  <2>1. Conclude(t, "FAILURE")
    BY <1>10 DEF SleepOver
  <2>2. QED
    BY <1>1, <1>10, <2>1, ConcludeWrites
    DEF SleepOver, Statuses, CallInv, HaltPolls, TypeOK, Methods, env
<1>11. ASSUME NEW t \in Threads, PollCommand(t) PROVE HaltPolls'
  <2>1. faults' \in Nat /\ blind' \in BOOLEAN /\ (blind => blind')
    BY <1>1, <1>11, AnswersKeep DEF TypeOK, PollCommand
  <2>2. QED
    BY <1>1, <1>11, <2>1 DEF PollCommand, CallInv, HaltPolls, TypeOK, Methods, Goto
<1>12. ASSUME NEW t \in Threads, PollPmon(t) PROVE HaltPolls'
  <2>1. PICK running \in BOOLEAN :
            /\ Answers(pmon, running)
            /\ IF running THEN Goto(t, "poll") ELSE Conclude(t, "SUCCESS")
    BY <1>12 DEF PollPmon
  <2>2. faults' \in Nat /\ blind' \in BOOLEAN /\ (blind => blind')
    BY <1>1, <2>1, AnswersKeep DEF TypeOK
  <2>3. ~running => ~pmon \/ blind'
    BY <1>1, <2>1, AnswersKeep DEF TypeOK
  <2>4. CASE running
    <3>1. Goto(t, "poll")
      BY <2>1, <2>4
    <3>2. QED
      BY <1>1, <1>12, <2>2, <2>3, <2>4, <3>1
      DEF PollPmon, CallInv, HaltPolls, TypeOK, Methods, env, Goto
  <2>5. CASE ~running
    <3>1. Conclude(t, "SUCCESS")
      BY <2>1, <2>5
    <3>2. QED
      BY <1>1, <1>12, <2>2, <2>3, <2>5, <3>1, ConcludeWrites
      DEF PollPmon, Statuses, CallInv, HaltPolls, TypeOK, Methods
  <2>6. QED
    BY <2>4, <2>5
<1>13. ASSUME NEW t \in Threads, PollOver(t) PROVE HaltPolls'
  BY <1>1, <1>13 DEF PollOver, CallInv, HaltPolls, TypeOK, Methods, Goto, env
<1>14. ASSUME NEW t \in Threads, LastCommand(t) PROVE HaltPolls'
  <2>1. PICK running \in BOOLEAN :
            /\ Answers(haltCmd, running)
            /\ IF running THEN Conclude(t, "FAILURE") ELSE Goto(t, "lastPmon")
    BY <1>14 DEF LastCommand
  <2>2. faults' \in Nat /\ blind' \in BOOLEAN /\ (blind => blind')
    BY <1>1, <2>1, AnswersKeep DEF TypeOK
  <2>3. ~running => ~haltCmd \/ blind'
    BY <1>1, <2>1, AnswersKeep DEF TypeOK
  <2>4. CASE running
    <3>1. Conclude(t, "FAILURE")
      BY <2>1, <2>4
    <3>2. QED
      BY <1>1, <1>14, <2>2, <2>3, <2>4, <3>1, ConcludeWrites
      DEF LastCommand, Statuses, CallInv, HaltPolls, TypeOK, Methods
  <2>5. CASE ~running
    <3>1. Goto(t, "lastPmon")
      BY <2>1, <2>5
    <3>2. QED
      BY <1>1, <1>14, <2>2, <2>3, <2>5, <3>1
      DEF LastCommand, CallInv, HaltPolls, TypeOK, Methods, env, Goto
  <2>6. QED
    BY <2>4, <2>5
<1>15. ASSUME NEW t \in Threads, LastPmon(t) PROVE HaltPolls'
  <2>1. PICK running \in BOOLEAN :
            /\ Answers(pmon, running)
            /\ Conclude(t, IF running THEN "FAILURE" ELSE "SUCCESS")
    BY <1>15 DEF LastPmon
  <2>2. faults' \in Nat /\ blind' \in BOOLEAN /\ (blind => blind')
    BY <1>1, <2>1, AnswersKeep DEF TypeOK
  <2>3. ~running => ~pmon \/ blind'
    BY <1>1, <2>1, AnswersKeep DEF TypeOK
  <2>4. CASE running
    <3>1. Conclude(t, "FAILURE")
      BY <2>1, <2>4
    <3>2. QED
      BY <1>1, <1>15, <2>2, <2>3, <2>4, <3>1, ConcludeWrites
      DEF LastPmon, Statuses, CallInv, HaltPolls, TypeOK, Methods
  <2>5. CASE ~running
    <3>1. Conclude(t, "SUCCESS")
      BY <2>1, <2>5
    <3>2. QED
      BY <1>1, <1>15, <2>2, <2>3, <2>5, <3>1, ConcludeWrites
      DEF LastPmon, Statuses, CallInv, HaltPolls, TypeOK, Methods
  <2>6. QED
    BY <2>4, <2>5
<1>16. CASE PmonStops
  BY <1>1, <1>16 DEF PmonStops, CallInv, HaltPolls, TypeOK, Methods, exec
<1>17. CASE HaltCmdEnds
  BY <1>1, <1>17 DEF HaltCmdEnds, CallInv, HaltPolls, TypeOK, Methods, exec
<1>18. CASE DeviceReboots
  BY <1>1, <1>18 DEF DeviceReboots, CallInv, HaltPolls, TypeOK, Methods
<1>19. CASE UNCHANGED vars
  BY <1>1, <1>19 DEF vars, exec, env, hist, CallInv, HaltPolls, TypeOK
<1>20. QED
  BY <1>1, <1>2, <1>3, <1>4, <1>5, <1>6, <1>7, <1>8, <1>9, <1>10, <1>11, <1>12, <1>13, <1>14,
     <1>15, <1>16, <1>17, <1>18, <1>19
  DEF Next, IssueReboot, ExecuteReboot, Device

(* One step keeps success to halts that were seen. *)
LEMMA SuccessStep ==
  TypeOK /\ HaltPolls /\ SuccessMeansHalted /\ [Next]_vars => SuccessMeansHalted'
<1>1. SUFFICES ASSUME TypeOK /\ HaltPolls /\ SuccessMeansHalted, [Next]_vars
      PROVE  SuccessMeansHalted'
  OBVIOUS
<1>2. ASSUME NEW r \in Methods \union {"bad"}, Call(r) PROVE SuccessMeansHalted'
  BY <1>1, <1>2 DEF Call, HaltPolls, SuccessMeansHalted, TypeOK, exec, env, hist
<1>3. CASE Refuse
  BY <1>1, <1>3 DEF Refuse, HaltPolls, SuccessMeansHalted, TypeOK, exec, env, hist
<1>4. CASE Accept
  <2>1. flag'.status = "UNKNOWN"
    BY <1>4, Zenon DEF Accept, Populate
  <2>2. QED
    BY <2>1 DEF SuccessMeansHalted
<1>5. ASSUME NEW t \in Threads, Spawn(t) PROVE SuccessMeansHalted'
  BY <1>1, <1>5 DEF Spawn, HaltPolls, SuccessMeansHalted, TypeOK, env, hist
<1>6. CASE SpawnFails
  BY <1>1, <1>6 DEF SpawnFails, HaltPolls, SuccessMeansHalted, TypeOK, exec, env
<1>7. ASSUME NEW t \in Threads, RunCommand(t) PROVE SuccessMeansHalted'
  BY <1>1, <1>7 DEF RunCommand, HaltPolls, SuccessMeansHalted, TypeOK, Goto, hist
<1>8. ASSUME NEW t \in Threads, CommandFails(t) PROVE SuccessMeansHalted'
  <2>1. Conclude(t, "FAILURE")
    BY <1>8 DEF CommandFails
  <2>2. QED
    BY <1>1, <1>8, <2>1, ConcludeWrites
    DEF CommandFails, Statuses, HaltPolls, SuccessMeansHalted, TypeOK
<1>9. ASSUME NEW t \in Threads, CommandReturns(t) PROVE SuccessMeansHalted'
  BY <1>1, <1>9 DEF CommandReturns, HaltPolls, SuccessMeansHalted, TypeOK, Goto, env, hist
<1>10. ASSUME NEW t \in Threads, SleepOver(t) PROVE SuccessMeansHalted'
  <2>1. Conclude(t, "FAILURE")
    BY <1>10 DEF SleepOver
  <2>2. QED
    BY <1>1, <1>10, <2>1, ConcludeWrites
    DEF SleepOver, Statuses, HaltPolls, SuccessMeansHalted, TypeOK, env
<1>11. ASSUME NEW t \in Threads, PollCommand(t) PROVE SuccessMeansHalted'
  <2>1. faults' \in Nat /\ blind' \in BOOLEAN /\ (blind => blind')
    BY <1>1, <1>11, AnswersKeep DEF TypeOK, PollCommand
  <2>2. QED
    BY <1>1, <1>11, <2>1 DEF PollCommand, HaltPolls, SuccessMeansHalted, TypeOK, Goto, env
<1>12. ASSUME NEW t \in Threads, PollPmon(t) PROVE SuccessMeansHalted'
  <2>1. PICK running \in BOOLEAN :
            /\ Answers(pmon, running)
            /\ IF running THEN Goto(t, "poll") ELSE Conclude(t, "SUCCESS")
    BY <1>12 DEF PollPmon
  <2>2. faults' \in Nat /\ blind' \in BOOLEAN /\ (blind => blind')
    BY <1>1, <2>1, AnswersKeep DEF TypeOK
  <2>3. ~running => ~pmon \/ blind'
    BY <1>1, <2>1, AnswersKeep DEF TypeOK
  <2>4. CASE running
    <3>1. Goto(t, "poll")
      BY <2>1, <2>4
    <3>2. QED
      BY <1>1, <1>12, <2>2, <2>3, <2>4, <3>1
      DEF PollPmon, HaltPolls, SuccessMeansHalted, TypeOK, env, Goto
  <2>5. CASE ~running
    <3>1. Conclude(t, "SUCCESS")
      BY <2>1, <2>5
    <3>2. QED
      BY <1>1, <1>12, <2>2, <2>3, <2>5, <3>1, ConcludeWrites
      DEF PollPmon, Statuses, HaltPolls, SuccessMeansHalted, TypeOK, env
  <2>6. QED
    BY <2>4, <2>5
<1>13. ASSUME NEW t \in Threads, PollOver(t) PROVE SuccessMeansHalted'
  BY <1>1, <1>13 DEF PollOver, HaltPolls, SuccessMeansHalted, TypeOK, Goto, env, hist
<1>14. ASSUME NEW t \in Threads, LastCommand(t) PROVE SuccessMeansHalted'
  <2>1. PICK running \in BOOLEAN :
            /\ Answers(haltCmd, running)
            /\ IF running THEN Conclude(t, "FAILURE") ELSE Goto(t, "lastPmon")
    BY <1>14 DEF LastCommand
  <2>2. faults' \in Nat /\ blind' \in BOOLEAN /\ (blind => blind')
    BY <1>1, <2>1, AnswersKeep DEF TypeOK
  <2>3. ~running => ~haltCmd \/ blind'
    BY <1>1, <2>1, AnswersKeep DEF TypeOK
  <2>4. CASE running
    <3>1. Conclude(t, "FAILURE")
      BY <2>1, <2>4
    <3>2. QED
      BY <1>1, <1>14, <2>2, <2>3, <2>4, <3>1, ConcludeWrites
      DEF LastCommand, Statuses, HaltPolls, SuccessMeansHalted, TypeOK
  <2>5. CASE ~running
    <3>1. Goto(t, "lastPmon")
      BY <2>1, <2>5
    <3>2. QED
      BY <1>1, <1>14, <2>2, <2>3, <2>5, <3>1
      DEF LastCommand, HaltPolls, SuccessMeansHalted, TypeOK, env, Goto
  <2>6. QED
    BY <2>4, <2>5
<1>15. ASSUME NEW t \in Threads, LastPmon(t) PROVE SuccessMeansHalted'
  <2>1. PICK running \in BOOLEAN :
            /\ Answers(pmon, running)
            /\ Conclude(t, IF running THEN "FAILURE" ELSE "SUCCESS")
    BY <1>15 DEF LastPmon
  <2>2. faults' \in Nat /\ blind' \in BOOLEAN /\ (blind => blind')
    BY <1>1, <2>1, AnswersKeep DEF TypeOK
  <2>3. ~running => ~pmon \/ blind'
    BY <1>1, <2>1, AnswersKeep DEF TypeOK
  <2>4. CASE running
    <3>1. Conclude(t, "FAILURE")
      BY <2>1, <2>4
    <3>2. QED
      BY <1>1, <1>15, <2>2, <2>3, <2>4, <3>1, ConcludeWrites
      DEF LastPmon, Statuses, HaltPolls, SuccessMeansHalted, TypeOK
  <2>5. CASE ~running
    <3>1. Conclude(t, "SUCCESS")
      BY <2>1, <2>5
    <3>2. QED
      BY <1>1, <1>15, <2>2, <2>3, <2>5, <3>1, ConcludeWrites
      DEF LastPmon, Statuses, HaltPolls, SuccessMeansHalted, TypeOK, env
  <2>6. QED
    BY <2>4, <2>5
<1>16. CASE PmonStops
  BY <1>1, <1>16 DEF PmonStops, HaltPolls, SuccessMeansHalted, TypeOK, exec
<1>17. CASE HaltCmdEnds
  BY <1>1, <1>17 DEF HaltCmdEnds, HaltPolls, SuccessMeansHalted, TypeOK, exec, hist
<1>18. CASE DeviceReboots
  BY <1>1, <1>18 DEF DeviceReboots, HaltPolls, SuccessMeansHalted, TypeOK, Default
<1>19. CASE UNCHANGED vars
  BY <1>1, <1>19 DEF vars, exec, env, hist, HaltPolls, SuccessMeansHalted
<1>20. QED
  BY <1>1, <1>2, <1>3, <1>4, <1>5, <1>6, <1>7, <1>8, <1>9, <1>10, <1>11, <1>12, <1>13, <1>14,
     <1>15, <1>16, <1>17, <1>18, <1>19
  DEF Next, IssueReboot, ExecuteReboot, Device

(* The invariant is inductive. *)
THEOREM RebootInvariant == Spec => []RebootIInv
<1>1. Init => RebootIInv
  <2>1. SUFFICES ASSUME Init PROVE RebootIInv
    OBVIOUS
  <2>2. Default \in [active : BOOLEAN, method : Methods \union {""},
                     status : Statuses, count : Nat]
    BY DefaultType
  <2>3. TypeOK
    BY <2>1, <2>2 DEF Init, TypeOK, ThreadPCs
  <2>4. CallInv /\ OneReboot /\ HaltPolls /\ SuccessMeansHalted
    BY <2>1 DEF Init, CallInv, OneReboot, HaltPolls, SuccessMeansHalted, Default
  <2>5. QED
    BY <2>3, <2>4 DEF RebootIInv
<1>2. RebootIInv /\ [Next]_vars => RebootIInv'
  <2>1. SUFFICES ASSUME TypeOK, CallInv, OneReboot, HaltPolls, SuccessMeansHalted, [Next]_vars
                 PROVE RebootIInv'
    BY DEF RebootIInv
  <2>2. TypeOK'
    BY <2>1, RebootTypeStep
  <2>3. CallInv' /\ OneReboot'
    BY <2>1, CallStep, OneRebootStep
  <2>4. HaltPolls' /\ SuccessMeansHalted'
    BY <2>1, HaltPollsStep, SuccessStep
  <2>5. QED
    BY <2>2, <2>3, <2>4 DEF RebootIInv
<1>3. QED
  BY <1>1, <1>2, PTL DEF Spec

(* The state of the service and of the device is typed, however many requests and          *)
(* failures there are (host_modules/reboot.py:69-97).                                      *)
THEOREM TypeCorrect == Spec => []TypeOK
<1>1. RebootIInv => TypeOK
  BY DEF RebootIInv
<1>2. QED
  BY <1>1, RebootInvariant, PTL

(* One reboot at a time is executed, and reboot_status_flag is about that one, however     *)
(* the calls of issue_reboot interleave with the threads (host_modules/reboot.py:205-243). *)
THEOREM OneRebootHolds == Spec => []OneReboot
<1>1. RebootIInv => OneReboot
  BY DEF RebootIInv
<1>2. QED
  BY <1>1, RebootInvariant, PTL

(* SUCCESS is reported of halts only, of which the daemon has seen pmon stopped or failed  *)
(* to look (host_modules/reboot.py:179-198).                                               *)
THEOREM SuccessIsHalted == Spec => []SuccessMeansHalted
<1>1. RebootIInv => SuccessMeansHalted
  BY DEF RebootIInv
<1>2. QED
  BY <1>1, RebootInvariant, PTL
-----------------------------------------------------------------------------
(* The filing of reboot causes.                                            *)

\* The steps after the history file of this boot was opened, and after it was written.
Opened == {"write", "unlink", "link", "remove", "open", "default"} \union Finished
Filed  == Opened \ {"write"}

\* Only the newest file can be of this boot, and it is once it was opened.
NewestFile ==
    /\ boot > 0
    /\ \A k \in DOMAIN history : history[k].boot <= boot
    /\ \A k \in DOMAIN history : k < Len(history) => history[k].boot < boot
    /\ step \notin Opened => \A k \in DOMAIN history : history[k].boot < boot
    /\ step \in Opened => Len(history) > 0 /\ history[Len(history)].boot = boot
    /\ step \in Filed => history[Len(history)].whole

\* The link of this boot, from its making on.
LinkInv ==
    /\ LinkNamesFile
    /\ step \in {"remove", "open", "default"} \union Finished => previous = boot

\* From the filing to the reset a cause that is not filed came too late.
ResetInv ==
    step \in {"unlink", "link", "remove", "open", "default"} => lastCause = None \/ overtaken

AsDocumented(filed) ==
    \/ filed = Documented
    \/ read.file \in {"", "Unknown"} /\ read.file \in {filed.cause, filed.comment}

DecidedInv ==
    /\ step \notin {"determine", "failed"} => AsDocumented(decided)
    /\ step \in Filed => history[Len(history)].filed = decided

PublishInv == step \in {"prune", "done"} => boot \in inStateDb

CauseIInv ==
    /\ CauseTypeOK
    /\ NewestFile
    /\ LinkInv
    /\ CauseNotLost
    /\ ResetInv
    /\ DecidedInv
    /\ PublishInv

(* The decision that was not taken yet, and what was not read yet. *)
LEMMA UndecidedType == Undecided \in Decisions /\ Unread \in [file : Contents, first : BOOLEAN]
<1>1. None \in Causes /\ None \in Contents
  BY DEF Causes, Contents
<1>2. QED
  BY <1>1 DEF Undecided, Unread, Decisions

(* A decision has its type. *)
LEMMA DecisionType == CauseTypeOK => Decision \in Decisions
<1>1. SUFFICES ASSUME CauseTypeOK PROVE Decision \in Decisions
  OBVIOUS
<1>2. Software \in Causes /\ cmdline \in Causes /\ platform \in Causes /\ None \in Causes
  BY <1>1 DEF CauseTypeOK, Software, Causes, Contents
<1>3. QED
  BY <1>2, Zenon DEF Decision, Decisions

(* What the type of the history says of its files. *)
LEMMA FilesTyped ==
  ASSUME CauseTypeOK
  PROVE  /\ DOMAIN history = 1..Len(history)
         /\ Len(history) \in Nat
         /\ \A k \in DOMAIN history : /\ history[k].boot \in Nat
                                      /\ history[k].whole \in BOOLEAN
                                      /\ history[k].filed \in Decisions
<1>1. DOMAIN history = 1..Len(history) /\ Len(history) \in Nat
  OBVIOUS
<1>2. \A k \in DOMAIN history : history[k] \in Files
  BY DEF CauseTypeOK
<1>3. QED
  BY <1>2 DEF Files

(* The files that pruning leaves, one place further to the front. *)
LEMMA PruneLeaves ==
  ASSUME CauseTypeOK, Prune
  PROVE  /\ Len(history) > 1
         /\ Len(history') = Len(history) - 1
         /\ DOMAIN history' = 1..Len(history')
         /\ \A k \in DOMAIN history' : k + 1 \in DOMAIN history /\ history'[k] = history[k + 1]
<1>1. Len(history) \in Nat /\ Len(history) > 1
  BY CauseAssumption DEF Prune
<1>2. QED
  BY <1>1 DEF Prune

(* The files after the newest was written. *)
LEMMA WriteLeaves ==
  ASSUME CauseTypeOK, NewestFile, WriteHistory
  PROVE  /\ Len(history) > 0
         /\ Len(history') = Len(history)
         /\ DOMAIN history' = DOMAIN history
         /\ \A k \in DOMAIN history : /\ history'[k].boot = history[k].boot
                                      /\ k < Len(history) => history'[k] = history[k]
         /\ history'[Len(history)].whole
         /\ history'[Len(history)].filed = decided
<1>1. Len(history) \in Nat /\ Len(history) > 0 /\ DOMAIN history = 1..Len(history)
  BY DEF NewestFile, Opened, WriteHistory
<1>2. history[Len(history)] \in Files
  BY <1>1 DEF CauseTypeOK
<1>3. history' = [history EXCEPT ![Len(history)] = [@ EXCEPT !.whole = TRUE, !.filed = decided]]
  BY DEF WriteHistory
<1>4. QED
  BY <1>1, <1>3

(* The decision of the code is that of its comment, but for a file that held "Unknown" or *)
(* nothing.                                                                               *)
LEMMA DecisionDocumented ==
  ASSUME CauseTypeOK, Determine
  PROVE  AsDocumented(decided)'
<1>1. read' = [file |-> causeFile, first |-> firstBoot] /\ decided' = Decision
  BY DEF Determine
<1>2. cmdline' = cmdline /\ platform' = platform
  BY DEF Determine
<1>3. read'.file = causeFile /\ read'.first = firstBoot
  BY <1>1
<1>4. CauseKnown' <=> firstBoot \/ causeFile \in SoftwareCauses
  BY <1>3 DEF CauseKnown
<1>5. CauseText' = IF causeFile \in SoftwareCauses THEN causeFile
                   ELSE IF firstBoot THEN "First boot" ELSE "Unknown"
  BY <1>3 DEF CauseText
<1>6. CASE causeFile \in SoftwareCauses
  <2>1. Software = causeFile /\ IsNotUnknown
    BY <1>6 DEF Software, IsNotUnknown, SoftwareCauses, None
  <2>2. CauseText' = Software /\ (CauseKnown' <=> IsNotUnknown)
    BY <1>4, <1>5, <1>6, <2>1
  <2>3. QED
    BY <1>1, <1>2, <2>2 DEF AsDocumented, Documented, Decision
<1>7. CASE causeFile = None
  <2>1. causeFile \notin SoftwareCauses
    BY <1>7 DEF SoftwareCauses, None
  <2>2. CauseText' = Software /\ (CauseKnown' <=> IsNotUnknown)
    BY <1>4, <1>5, <1>7, <2>1 DEF Software, IsNotUnknown
  <2>3. QED
    BY <1>1, <1>2, <2>2 DEF AsDocumented, Documented, Decision
<1>8. CASE causeFile = "Unknown" /\ firstBoot
  <2>1. causeFile \notin SoftwareCauses
    BY <1>8 DEF SoftwareCauses
  <2>2. CauseText' = Software /\ (CauseKnown' <=> IsNotUnknown)
    BY <1>4, <1>5, <1>8, <2>1 DEF Software, IsNotUnknown
  <2>3. QED
    BY <1>1, <1>2, <2>2 DEF AsDocumented, Documented, Decision
<1>9. CASE (causeFile = "Unknown" /\ ~firstBoot) \/ causeFile = ""
  <2>1. Software = causeFile /\ IsNotUnknown
    BY <1>9 DEF Software, IsNotUnknown, None
  <2>2. Software \in {decided'.cause, decided'.comment}
    BY <1>1, <2>1 DEF Decision
  <2>3. QED
    BY <1>3, <1>9, <2>1, <2>2 DEF AsDocumented
<1>10. QED
  BY <1>6, <1>7, <1>8, <1>9 DEF CauseTypeOK, Contents

(* One step keeps the types. *)
LEMMA CauseTypeStep == CauseIInv /\ [CauseNext]_causeVars => CauseTypeOK'
<1>1. SUFFICES ASSUME CauseIInv, [CauseNext]_causeVars PROVE CauseTypeOK'
  OBVIOUS
<1>2. ASSUME NEW c \in SoftwareCauses, WriteCause(c) PROVE CauseTypeOK'
  <2>1. c \in Contents
    BY DEF Contents
  <2>2. QED
    BY <1>1, <1>2, <2>1 DEF WriteCause, inputs, CauseIInv, CauseTypeOK
<1>3. ASSUME NEW cmd \in {None, "fast-reboot"}, NEW hw \in {None, "Hardware"}, Boot(cmd, hw)
      PROVE  CauseTypeOK'
  <2>1. Undecided \in Decisions /\ Unread \in [file : Contents, first : BOOLEAN]
    BY UndecidedType
  <2>2. QED
    BY <1>1, <1>3, <2>1 DEF Boot, CauseIInv, CauseTypeOK
<1>4. CASE Determine
  <2>1. decided' \in Decisions
    BY <1>1, <1>4, DecisionType DEF CauseIInv, Determine
  <2>2. QED
    BY <1>1, <1>4, <2>1 DEF Determine, CauseIInv, CauseTypeOK, Deciding
<1>5. CASE DetermineRaises
  BY <1>1, <1>5 DEF DetermineRaises, inputs, causeHist, CauseIInv, CauseTypeOK
<1>6. CASE CreateHistory
  <2>1. [boot |-> boot, whole |-> FALSE, filed |-> Undecided] \in Files
    BY <1>1, UndecidedType DEF CauseIInv, CauseTypeOK, Files
  <2>2. history' \in Seq(Files)
    BY <1>1, <1>6, <2>1 DEF CauseIInv, CauseTypeOK, CreateHistory
  <2>3. QED
    BY <1>1, <1>6, <2>2 DEF CreateHistory, inputs, causeHist, CauseIInv, CauseTypeOK, Deciding
<1>7. CASE WriteHistory
  <2>1. Len(history) \in 1..Len(history)
    BY <1>1, <1>7 DEF CauseIInv, NewestFile, Opened, WriteHistory
  <2>2. history[Len(history)] \in Files
    BY <1>1, <2>1 DEF CauseIInv, CauseTypeOK
  <2>3. [history[Len(history)] EXCEPT !.whole = TRUE, !.filed = decided] \in Files
    BY <1>1, <2>2 DEF CauseIInv, CauseTypeOK, Files
  <2>4. history' \in Seq(Files)
    BY <1>1, <1>7, <2>1, <2>3 DEF CauseIInv, CauseTypeOK, WriteHistory
  <2>5. QED
    BY <1>1, <1>7, <2>4 DEF WriteHistory, inputs, CauseIInv, CauseTypeOK, Deciding
<1>8. CASE Unlink
  BY <1>1, <1>8 DEF Unlink, inputs, causeHist, CauseIInv, CauseTypeOK, Deciding
<1>9. CASE Link
  BY <1>1, <1>9 DEF Link, inputs, causeHist, CauseIInv, CauseTypeOK, Deciding
<1>10. CASE RemoveCause
  BY <1>1, <1>10
  DEF RemoveCause, ResetCause, inputs, causeHist, CauseIInv, CauseTypeOK, Contents, Deciding
<1>11. CASE OpenCause
  BY <1>1, <1>11
  DEF OpenCause, ResetCause, inputs, causeHist, CauseIInv, CauseTypeOK, Contents, Deciding
<1>12. CASE DefaultCause
  BY <1>1, <1>12
  DEF DefaultCause, ResetCause, inputs, causeHist, CauseIInv, CauseTypeOK, Contents, Finished
<1>13. CASE Publish
  <2>1. \A k \in DOMAIN history : history[k].boot \in Nat
    BY <1>1, FilesTyped DEF CauseIInv
  <2>2. QED
    BY <1>1, <1>13, <2>1 DEF Publish, inputs, causeHist, CauseIInv, CauseTypeOK, Finished
<1>14. CASE Prune
  <2>1. history' \in Seq(Files)
    BY <1>1, <1>14, CauseAssumption DEF CauseIInv, CauseTypeOK, Prune
  <2>2. QED
    BY <1>1, <1>14, <2>1 DEF Prune, inputs, causeHist, CauseIInv, CauseTypeOK
<1>15. CASE PruneDone
  BY <1>1, <1>15 DEF PruneDone, inputs, causeHist, CauseIInv, CauseTypeOK, Finished
<1>16. CASE UNCHANGED causeVars
  BY <1>1, <1>16 DEF causeVars, inputs, causeHist, CauseIInv, CauseTypeOK
<1>17. QED
  BY <1>1, <1>2, <1>3, <1>4, <1>5, <1>6, <1>7, <1>8, <1>9, <1>10, <1>11, <1>12, <1>13, <1>14,
     <1>15, <1>16
  DEF CauseNext

(* The file of this boot is the newest, and whole once it was written. *)
LEMMA NewestStep == CauseIInv /\ [CauseNext]_causeVars => NewestFile'
<1>1. SUFFICES ASSUME CauseIInv, [CauseNext]_causeVars PROVE NewestFile'
  OBVIOUS
<1>2. ASSUME NEW c \in SoftwareCauses, WriteCause(c) PROVE NewestFile'
  BY <1>1, <1>2 DEF WriteCause, CauseIInv, NewestFile
<1>3. ASSUME NEW cmd \in {None, "fast-reboot"}, NEW hw \in {None, "Hardware"}, Boot(cmd, hw)
      PROVE  NewestFile'
  BY <1>1, <1>3, FilesTyped DEF Boot, CauseIInv, CauseTypeOK, NewestFile, Filed, Opened, Finished
<1>4. CASE Determine
  BY <1>1, <1>4 DEF Determine, CauseIInv, NewestFile, Filed, Opened, Finished
<1>5. CASE DetermineRaises
  BY <1>1, <1>5 DEF DetermineRaises, CauseIInv, NewestFile, Filed, Opened, Finished
<1>6. CASE CreateHistory
  BY <1>1, <1>6 DEF CreateHistory, CauseIInv, CauseTypeOK, NewestFile, Filed, Opened, Finished
<1>7. CASE WriteHistory
  <2>1. CauseTypeOK /\ NewestFile /\ boot' = boot
    BY <1>1, <1>7 DEF CauseIInv, WriteHistory
  <2>2. QED
    BY <1>7, <2>1 DEF WriteHistory, NewestFile, Opened
<1>8. CASE Unlink
  BY <1>1, <1>8 DEF Unlink, CauseIInv, NewestFile, Filed, Opened
<1>9. CASE Link
  BY <1>1, <1>9 DEF Link, CauseIInv, NewestFile, Filed, Opened
<1>10. CASE RemoveCause
  BY <1>1, <1>10 DEF RemoveCause, ResetCause, CauseIInv, NewestFile, Filed, Opened
<1>11. CASE OpenCause
  BY <1>1, <1>11 DEF OpenCause, ResetCause, CauseIInv, NewestFile, Filed, Opened
<1>12. CASE DefaultCause
  BY <1>1, <1>12 DEF DefaultCause, ResetCause, CauseIInv, NewestFile, Filed, Opened, Finished
<1>13. CASE Publish
  BY <1>1, <1>13 DEF Publish, CauseIInv, NewestFile, Filed, Opened, Finished
<1>14. CASE Prune
  <2>1. CauseTypeOK /\ NewestFile /\ boot' = boot
    BY <1>1, <1>14 DEF CauseIInv, Prune
  <2>2. QED
    BY <1>14, <2>1, PruneLeaves DEF Prune, NewestFile
<1>15. CASE PruneDone
  BY <1>1, <1>15 DEF PruneDone, CauseIInv, NewestFile, Filed, Opened, Finished
<1>16. CASE UNCHANGED causeVars
  BY <1>1, <1>16 DEF causeVars, CauseIInv, NewestFile
<1>17. QED
  BY <1>1, <1>2, <1>3, <1>4, <1>5, <1>6, <1>7, <1>8, <1>9, <1>10, <1>11, <1>12, <1>13, <1>14,
     <1>15, <1>16
  DEF CauseNext

(* The link is made to the newest file, which pruning spares. *)
LEMMA LinkStep == CauseIInv /\ [CauseNext]_causeVars => LinkInv'
<1>1. SUFFICES ASSUME CauseIInv, [CauseNext]_causeVars PROVE LinkInv'
  OBVIOUS
<1>2. ASSUME NEW c \in SoftwareCauses, WriteCause(c) PROVE LinkInv'
  BY <1>1, <1>2 DEF WriteCause, CauseIInv, LinkInv, LinkNamesFile, FileOf
<1>3. ASSUME NEW cmd \in {None, "fast-reboot"}, NEW hw \in {None, "Hardware"}, Boot(cmd, hw)
      PROVE  LinkInv'
  BY <1>1, <1>3 DEF Boot, CauseIInv, LinkInv, LinkNamesFile, FileOf, Finished
<1>4. CASE Determine
  BY <1>1, <1>4 DEF Determine, CauseIInv, LinkInv, LinkNamesFile, FileOf, Finished
<1>5. CASE DetermineRaises
  BY <1>1, <1>5 DEF DetermineRaises, CauseIInv, LinkInv, LinkNamesFile, FileOf, Finished
<1>6. CASE CreateHistory
  BY <1>1, <1>6 DEF CreateHistory, CauseIInv, LinkInv, LinkNamesFile, FileOf, Finished
<1>7. CASE WriteHistory
  <2>1. CauseTypeOK /\ NewestFile /\ LinkInv /\ boot' = boot /\ previous' = previous
    BY <1>1, <1>7 DEF CauseIInv, WriteHistory
  <2>2. QED
    BY <1>7, <2>1 DEF WriteHistory, Finished, LinkInv, LinkNamesFile, FileOf
<1>8. CASE Unlink
  BY <1>8 DEF Unlink, LinkInv, LinkNamesFile, Finished
<1>9. CASE Link
  BY <1>1, <1>9 DEF Link, CauseIInv, NewestFile, Filed, Opened, LinkInv, LinkNamesFile, FileOf
<1>10. CASE RemoveCause
  BY <1>1, <1>10 DEF RemoveCause, ResetCause, CauseIInv, LinkInv, LinkNamesFile, FileOf
<1>11. CASE OpenCause
  BY <1>1, <1>11 DEF OpenCause, ResetCause, CauseIInv, LinkInv, LinkNamesFile, FileOf
<1>12. CASE DefaultCause
  BY <1>1, <1>12 DEF DefaultCause, ResetCause, CauseIInv, LinkInv, LinkNamesFile, FileOf
<1>13. CASE Publish
  BY <1>1, <1>13 DEF Publish, CauseIInv, LinkInv, LinkNamesFile, FileOf, Finished
<1>14. CASE Prune
  <2>1. CauseTypeOK /\ NewestFile /\ LinkInv /\ boot' = boot /\ previous' = previous
    BY <1>1, <1>14 DEF CauseIInv, Prune
  <2>2. step \in Finished /\ step' = step
    BY <1>14 DEF Prune, Finished
  <2>3. previous = boot
    BY <2>1, <2>2 DEF LinkInv
  <2>4. history[Len(history)].boot = boot /\ history[Len(history)].whole
    BY <2>1, <2>2 DEF NewestFile, Filed, Opened, Finished
  <2>5. /\ Len(history') \in DOMAIN history'
        /\ history'[Len(history')] = history[Len(history)]
    BY <1>14, <2>1, PruneLeaves
  <2>6. Len(history') \in FileOf(previous)'
    BY <2>1, <2>3, <2>4, <2>5 DEF FileOf
  <2>7. QED
    BY <2>1, <2>2, <2>6 DEF LinkInv, LinkNamesFile
<1>15. CASE PruneDone
  BY <1>1, <1>15 DEF PruneDone, CauseIInv, LinkInv, LinkNamesFile, FileOf, Finished
<1>16. CASE UNCHANGED causeVars
  BY <1>1, <1>16 DEF causeVars, CauseIInv, LinkInv, LinkNamesFile, FileOf
<1>17. QED
  BY <1>1, <1>2, <1>3, <1>4, <1>5, <1>6, <1>7, <1>8, <1>9, <1>10, <1>11, <1>12, <1>13, <1>14,
     <1>15, <1>16
  DEF CauseNext

(* A cause is reset only after it was filed, or when it came too late for that. *)
LEMMA CauseStep == CauseIInv /\ [CauseNext]_causeVars => (CauseNotLost /\ ResetInv)'
<1>1. SUFFICES ASSUME CauseIInv, [CauseNext]_causeVars PROVE (CauseNotLost /\ ResetInv)'
  OBVIOUS
<1>2. ASSUME NEW c \in SoftwareCauses, WriteCause(c) PROVE (CauseNotLost /\ ResetInv)'
  BY <1>2 DEF WriteCause, CauseNotLost, ResetInv, Deciding
<1>3. ASSUME NEW cmd \in {None, "fast-reboot"}, NEW hw \in {None, "Hardware"}, Boot(cmd, hw)
      PROVE  (CauseNotLost /\ ResetInv)'
  BY <1>1, <1>3 DEF Boot, CauseIInv, CauseNotLost, ResetInv
<1>4. CASE Determine
  BY <1>1, <1>4 DEF Determine, CauseIInv, CauseNotLost, ResetInv
<1>5. CASE DetermineRaises
  BY <1>1, <1>5 DEF DetermineRaises, causeHist, CauseIInv, CauseNotLost, ResetInv
<1>6. CASE CreateHistory
  BY <1>1, <1>6 DEF CreateHistory, causeHist, CauseIInv, CauseNotLost, ResetInv
<1>7. CASE WriteHistory
  BY <1>7 DEF WriteHistory, CauseNotLost, ResetInv
<1>8. CASE Unlink
  BY <1>1, <1>8 DEF Unlink, causeHist, CauseIInv, CauseNotLost, ResetInv
<1>9. CASE Link
  BY <1>1, <1>9 DEF Link, causeHist, CauseIInv, CauseNotLost, ResetInv
<1>10. CASE RemoveCause
  BY <1>1, <1>10 DEF RemoveCause, ResetCause, causeHist, CauseIInv, CauseNotLost, ResetInv
<1>11. CASE OpenCause
  BY <1>1, <1>11 DEF OpenCause, ResetCause, causeHist, CauseIInv, CauseNotLost, ResetInv
<1>12. CASE DefaultCause
  BY <1>1, <1>12 DEF DefaultCause, ResetCause, causeHist, CauseIInv, CauseNotLost, ResetInv
<1>13. CASE Publish
  BY <1>1, <1>13 DEF Publish, causeHist, CauseIInv, CauseNotLost, ResetInv
<1>14. CASE Prune
  BY <1>1, <1>14 DEF Prune, causeHist, CauseIInv, CauseNotLost, ResetInv
<1>15. CASE PruneDone
  BY <1>1, <1>15 DEF PruneDone, causeHist, CauseIInv, CauseNotLost, ResetInv
<1>16. CASE UNCHANGED causeVars
  BY <1>1, <1>16 DEF causeVars, causeHist, CauseIInv, CauseNotLost, ResetInv
<1>17. QED
  BY <1>1, <1>2, <1>3, <1>4, <1>5, <1>6, <1>7, <1>8, <1>9, <1>10, <1>11, <1>12, <1>13, <1>14,
     <1>15, <1>16
  DEF CauseNext

(* What was decided is what the comment says, and what the file holds. *)
LEMMA DecidedStep == CauseIInv /\ [CauseNext]_causeVars => DecidedInv'
<1>1. SUFFICES ASSUME CauseIInv, [CauseNext]_causeVars PROVE DecidedInv'
  OBVIOUS
<1>2. ASSUME NEW c \in SoftwareCauses, WriteCause(c) PROVE DecidedInv'
  BY <1>1, <1>2
  DEF WriteCause, inputs, CauseIInv, DecidedInv, AsDocumented, Documented, CauseKnown, CauseText
<1>3. ASSUME NEW cmd \in {None, "fast-reboot"}, NEW hw \in {None, "Hardware"}, Boot(cmd, hw)
      PROVE  DecidedInv'
  BY <1>3 DEF Boot, Filed, Opened, DecidedInv, Finished
<1>4. CASE Determine
  <2>1. CauseTypeOK
    BY <1>1 DEF CauseIInv
  <2>2. AsDocumented(decided)'
    BY <1>4, <2>1, DecisionDocumented
  <2>3. QED
    BY <1>4, <2>2 DEF Determine, DecidedInv, Filed, Opened, Finished
<1>5. CASE DetermineRaises
  BY <1>5 DEF DetermineRaises, Filed, Opened, DecidedInv, Finished
<1>6. CASE CreateHistory
  BY <1>1, <1>6
  DEF CreateHistory, inputs, causeHist, CauseIInv, Filed, DecidedInv, AsDocumented, Documented,
      CauseKnown, CauseText
<1>7. CASE WriteHistory
  <2>1. CauseTypeOK /\ NewestFile /\ DecidedInv /\ decided' = decided
    BY <1>1, <1>7 DEF CauseIInv, WriteHistory
  <2>2. AsDocumented(decided)'
    BY <1>7, <2>1
    DEF WriteHistory, inputs, DecidedInv, AsDocumented, Documented, CauseKnown, CauseText
  <2>3. QED
    BY <1>7, <2>1, <2>2, WriteLeaves DEF DecidedInv
<1>8. CASE Unlink
  BY <1>1, <1>8
  DEF Unlink, inputs, causeHist, CauseIInv, Filed, Opened, DecidedInv, AsDocumented, Documented,
      CauseKnown, CauseText
<1>9. CASE Link
  BY <1>1, <1>9
  DEF Link, inputs, causeHist, CauseIInv, Filed, Opened, DecidedInv, AsDocumented, Documented,
      CauseKnown, CauseText
<1>10. CASE RemoveCause
  BY <1>1, <1>10
  DEF RemoveCause, ResetCause, inputs, causeHist, CauseIInv, Filed, Opened, DecidedInv, AsDocumented,
      Documented, CauseKnown, CauseText
<1>11. CASE OpenCause
  BY <1>1, <1>11
  DEF OpenCause, ResetCause, inputs, causeHist, CauseIInv, Filed, Opened, DecidedInv, AsDocumented,
      Documented, CauseKnown, CauseText
<1>12. CASE DefaultCause
  BY <1>1, <1>12
  DEF DefaultCause, ResetCause, inputs, causeHist, CauseIInv, Filed, Opened, DecidedInv,
      AsDocumented, Documented, CauseKnown, CauseText
<1>13. CASE Publish
  BY <1>1, <1>13
  DEF Publish, inputs, causeHist, CauseIInv, CauseTypeOK, Filed, Opened, DecidedInv, AsDocumented,
      Documented, CauseKnown, CauseText, Deciding
<1>14. CASE Prune
  <2>1. CauseTypeOK /\ NewestFile /\ DecidedInv /\ decided' = decided
    BY <1>1, <1>14 DEF CauseIInv, Prune
  <2>2. AsDocumented(decided)'
    BY <1>14, <2>1
    DEF Prune, inputs, causeHist, DecidedInv, AsDocumented, Documented, CauseKnown, CauseText
  <2>3. QED
    BY <1>14, <2>1, <2>2, PruneLeaves DEF Prune, DecidedInv
<1>15. CASE PruneDone
  BY <1>1, <1>15
  DEF PruneDone, inputs, causeHist, CauseIInv, CauseTypeOK, Filed, Opened, DecidedInv, AsDocumented,
      Documented, CauseKnown, CauseText, Deciding
<1>16. CASE UNCHANGED causeVars
  BY <1>1, <1>16
  DEF causeVars, inputs, causeHist, CauseIInv, DecidedInv, AsDocumented, Documented, CauseKnown,
      CauseText
<1>17. QED
  BY <1>1, <1>2, <1>3, <1>4, <1>5, <1>6, <1>7, <1>8, <1>9, <1>10, <1>11, <1>12, <1>13, <1>14,
     <1>15, <1>16
  DEF CauseNext

(* STATE_DB gets the newest file among others. *)
LEMMA PublishStep == CauseIInv /\ [CauseNext]_causeVars => PublishInv'
<1>1. SUFFICES ASSUME CauseIInv, [CauseNext]_causeVars PROVE PublishInv'
  OBVIOUS
<1>2. ASSUME NEW c \in SoftwareCauses, WriteCause(c) PROVE PublishInv'
  BY <1>1, <1>2 DEF WriteCause, CauseIInv, PublishInv
<1>3. ASSUME NEW cmd \in {None, "fast-reboot"}, NEW hw \in {None, "Hardware"}, Boot(cmd, hw)
      PROVE  PublishInv'
  BY <1>3 DEF Boot, PublishInv
<1>4. CASE Determine
  BY <1>4 DEF Determine, PublishInv
<1>5. CASE DetermineRaises
  BY <1>5 DEF DetermineRaises, PublishInv
<1>6. CASE CreateHistory
  BY <1>6 DEF CreateHistory, PublishInv
<1>7. CASE WriteHistory
  BY <1>7 DEF WriteHistory, PublishInv
<1>8. CASE Unlink
  BY <1>8 DEF Unlink, PublishInv
<1>9. CASE Link
  BY <1>9 DEF Link, PublishInv
<1>10. CASE RemoveCause
  BY <1>10 DEF RemoveCause, ResetCause, PublishInv
<1>11. CASE OpenCause
  BY <1>11 DEF OpenCause, ResetCause, PublishInv
<1>12. CASE DefaultCause
  BY <1>12 DEF DefaultCause, ResetCause, PublishInv
<1>13. CASE Publish
  BY <1>1, <1>13, CauseAssumption
  DEF Publish, CauseIInv, NewestFile, Filed, Opened, PublishInv, Finished
<1>14. CASE Prune
  BY <1>1, <1>14 DEF Prune, CauseIInv, PublishInv
<1>15. CASE PruneDone
  BY <1>1, <1>15 DEF PruneDone, CauseIInv, PublishInv
<1>16. CASE UNCHANGED causeVars
  BY <1>1, <1>16 DEF causeVars, CauseIInv, PublishInv
<1>17. QED
  BY <1>1, <1>2, <1>3, <1>4, <1>5, <1>6, <1>7, <1>8, <1>9, <1>10, <1>11, <1>12, <1>13, <1>14,
     <1>15, <1>16
  DEF CauseNext

(* The inductive invariant: the types, the newest file as that of this boot, the link to   *)
(* it, the cause that stays until it was filed, the decision and its publication.          *)
THEOREM CauseInvariant == CauseSpec => []CauseIInv
<1>1. CauseInit => CauseIInv
  <2>1. SUFFICES ASSUME CauseInit PROVE CauseIInv
    OBVIOUS
  <2>2. CauseTypeOK
    <3>1. None \in Contents
      BY DEF Contents
    <3>2. <<>> \in Seq(Files)
      OBVIOUS
    <3>3. /\ boot \in Nat /\ causeFile \in Contents /\ firstBoot \in BOOLEAN
          /\ cmdline \in {None, "fast-reboot"} /\ platform \in {None, "Hardware"}
          /\ history \in Seq(Files) /\ previous \in Nat /\ overtaken \in BOOLEAN
      BY <2>1, <3>1, <3>2 DEF CauseInit
    <3>4. /\ step \in Deciding \union Finished \union {"determine", "failed"}
          /\ decided \in Decisions /\ inStateDb \subseteq Nat
          /\ read \in [file : Contents, first : BOOLEAN]
          /\ lastCause \in SoftwareCauses \union {None}
      BY <2>1, UndecidedType DEF CauseInit
    <3>5. QED
      BY <3>3, <3>4 DEF CauseTypeOK
  <2>3. NewestFile /\ LinkInv
    BY <2>1 DEF CauseInit, NewestFile, LinkInv, LinkNamesFile, Filed, Opened, Finished
  <2>4. CauseNotLost /\ ResetInv /\ DecidedInv /\ PublishInv
    BY <2>1
    DEF CauseInit, CauseNotLost, ResetInv, DecidedInv, PublishInv, Filed, Opened, Finished
  <2>5. QED
    BY <2>2, <2>3, <2>4 DEF CauseIInv
<1>2. CauseIInv /\ [CauseNext]_causeVars => CauseIInv'
  <2>1. SUFFICES ASSUME CauseIInv, [CauseNext]_causeVars PROVE CauseIInv'
    OBVIOUS
  <2>2. QED
    BY <2>1, CauseTypeStep, NewestStep, LinkStep, CauseStep, DecidedStep, PublishStep DEF CauseIInv
<1>3. QED
  BY <1>1, <1>2, PTL DEF CauseSpec

(* Every variable has its type. *)
THEOREM CauseTypeCorrect == CauseSpec => []CauseTypeOK
<1>1. CauseIInv => CauseTypeOK
  BY DEF CauseIInv
<1>2. QED
  BY <1>1, CauseInvariant, PTL

(* The cause of a reboot is neither lost nor misfiled by a device that goes down at any    *)
(* step of determine-reboot-cause and process-reboot-cause.                                *)
THEOREM CauseKept == CauseSpec => []RebootCauseKept
<1>1. CauseIInv => RebootCauseKept
  <2>1. SUFFICES ASSUME CauseIInv PROVE RebootCauseKept
    OBVIOUS
  <2>2. ASSUME step \in Finished PROVE \A k \in FileOf(boot) : k = Len(history)
    BY <2>1 DEF CauseIInv, CauseTypeOK, NewestFile, FileOf
  <2>3. FiledAsDocumented
    <3>1. SUFFICES ASSUME step \in Finished PROVE FiledAsDocumented
      BY DEF FiledAsDocumented
    <3>2. previous = boot /\ (step # "process" => boot \in inStateDb)
      BY <2>1, <3>1 DEF CauseIInv, LinkInv, PublishInv, Finished
    <3>3. AsDocumented(decided) /\ history[Len(history)].filed = decided
      BY <2>1, <3>1 DEF CauseIInv, DecidedInv, Filed, Opened, Finished
    <3>4. QED
      BY <2>2, <3>2, <3>3 DEF FiledAsDocumented, AsDocumented
  <2>4. QED
    BY <2>1, <2>3 DEF RebootCauseKept, CauseIInv, LinkInv
<1>2. QED
  BY <1>1, CauseInvariant, PTL
=============================================================================
