---------------------------- MODULE HostServerProofs ----------------------------
(***************************************************************************)
(* Theorems about services of the host's D-Bus server. For any number of   *)
(* calls and failures one debug command at a time runs and is over when    *)
(* its caller is told so, what is heard of a command that was given up is  *)
(* bounded, and no descriptor is lost but those of a failed start; for any *)
(* contents and any number of calls, failures and crashes an announced     *)
(* checkpoint of the ssh files stays what it was, and restore and set have *)
(* done what they report; the account file and the GLOME configuration     *)
(* stay whole, what set and restore leave alone or put back they do; and   *)
(* what collections and downloads leave behind is accounted for.           *)
(***************************************************************************)
EXTENDS MCHostServer, TLAPS
-----------------------------------------------------------------------------
(* The debug command executor.                                             *)

\* RunCommand has been called for this call.
Begun(c) == serving = c \/ answer[c] # "none"

Queued(c) == \E i \in DOMAIN queue : queue[i] = c

\* The thread has a call whenever it is at work, and only its call has a process.
ThreadInv ==
    /\ (running = None) = (wpc = "idle")
    /\ \A c \in alive : c = running /\ wpc \notin {"idle", "spawn"}

\* A call waits once, for the thread or in it, and has no outcome before that is over.
QueueInv ==
    /\ \A i, j \in DOMAIN queue : queue[i] = queue[j] => i = j
    /\ \A c \in Commands : Queued(c) => c # running
    /\ \A c \in Commands : Queued(c) \/ running = c => future[c] = "pending" /\ Begun(c)
    /\ \A c \in Commands : future[c] # "pending" => Begun(c)

\* Answers say what the future said; a call that is given up is cancelled.
AnswerInv ==
    \A c \in Commands :
        /\ answer[c] = "exited" => future[c] = "result"
        /\ answer[c] = "failed" => future[c] = "exception"
        /\ answer[c] = "timeout" => c \in cancelled

\* How much of a cancelled call the thread can still pass on from where it is.
LateInv ==
    /\ LateOutputBounded
    /\ \A c \in Commands : late[c] > 0 => c \in cancelled
    /\ running # None /\ wpc = "pty" => late[running] = 0
    /\ running # None /\ wpc = "stderr" => late[running] <= 1

DebugIInv == TypeOK /\ ThreadInv /\ QueueInv /\ AnswerInv /\ DescriptorsReturned

(* The work queue after a call has joined it. *)
LEMMA JoinQueue ==
  ASSUME NEW q \in Seq(Commands), NEW c \in Commands
  PROVE  /\ Append(q, c) \in Seq(Commands)
         /\ DOMAIN Append(q, c) = DOMAIN q \cup {Len(q) + 1}
         /\ Len(q) + 1 \notin DOMAIN q
         /\ Append(q, c)[Len(q) + 1] = c
         /\ \A i \in DOMAIN q : Append(q, c)[i] = q[i]
OBVIOUS

(* The work queue after the thread has taken its first call. *)
LEMMA LeaveQueue ==
  ASSUME NEW q \in Seq(Commands), q # <<>>
  PROVE  /\ Tail(q) \in Seq(Commands)
         /\ Head(q) \in Commands
         /\ 1 \in DOMAIN q
         /\ Head(q) = q[1]
         /\ \A i \in DOMAIN Tail(q) : i + 1 \in DOMAIN q /\ i + 1 # 1 /\ Tail(q)[i] = q[i + 1]
OBVIOUS

(* One step keeps the types; descriptors are only given back when they are held. *)
LEMMA DebugTypeStep == TypeOK /\ ThreadInv /\ DescriptorsReturned /\ [Next]_debugVars => TypeOK'
<1>1. SUFFICES ASSUME TypeOK /\ ThreadInv /\ DescriptorsReturned, [Next]_debugVars PROVE TypeOK'
  OBVIOUS
<1>2. ASSUME NEW c \in Commands, RunCommand(c) PROVE TypeOK'
  <2>1. queue' \in Seq(Commands)
    BY <1>1, <1>2 DEF RunCommand, TypeOK
  <2>2. QED
    BY <1>1, <1>2 DEF RunCommand, TypeOK, thread, process, past
<1>3. ASSUME NEW c \in Commands, AnswerExited(c) PROVE TypeOK'
  BY <1>1, <1>3 DEF AnswerExited, Reply, TypeOK, thread, process, past
<1>4. ASSUME NEW c \in Commands, AnswerFailed(c) PROVE TypeOK'
  BY <1>1, <1>4 DEF AnswerFailed, Reply, TypeOK, thread, process, past
<1>5. ASSUME NEW c \in Commands, AnswerTimeout(c) PROVE TypeOK'
  BY <1>1, <1>5 DEF AnswerTimeout, Reply, TypeOK, thread, process, past
<1>6. CASE Take
  <2>1. running' \in Commands /\ queue' \in Seq(Commands)
    BY <1>1, <1>6 DEF Take, TypeOK
  <2>2. QED
    BY <1>1, <1>6 DEF Take, TypeOK, loop, process, past
<1>7. CASE Spawn
  BY <1>1, <1>7 DEF Spawn, TypeOK, ThreadInv, loop, past
<1>8. CASE SpawnFails
  BY <1>1, <1>8 DEF SpawnFails, Finish, TypeOK, ThreadInv, loop, process
<1>9. CASE Select
  BY <1>1, <1>9 DEF Select, TypeOK, loop, process, past
<1>10. CASE Check
  BY <1>1, <1>10 DEF Check, Ends, TypeOK, loop, process, past
<1>11. ASSUME NEW e \in Ends, Emit(e) PROVE TypeOK'
  BY <1>1, <1>11 DEF Emit, After, Ends, MaxLate, TypeOK, ThreadInv, loop
<1>12. ASSUME NEW e \in Ends, SeeClosed(e) PROVE TypeOK'
  BY <1>1, <1>12 DEF SeeClosed, After, Ends, TypeOK, loop, process, past
<1>13. ASSUME NEW e \in Ends, PassOver(e) PROVE TypeOK'
  BY <1>1, <1>13 DEF PassOver, After, Ends, TypeOK, loop, process, past
<1>14. ASSUME NEW e \in Ends, ReadRaises(e) PROVE TypeOK'
  BY <1>1, <1>14 DEF ReadRaises, TypeOK, loop, process, past
<1>15. CASE Stop
  <2>1. descriptors' \in Nat
    <3>1. unspawned \in Nat /\ descriptors = 2 * unspawned + 2
      BY <1>1, <1>15, Zenon DEF Stop, TypeOK, DescriptorsReturned
    <3>2. descriptors' = descriptors - 2
      BY <1>15 DEF Stop
    <3>3. QED
      BY <3>1, <3>2
  <2>2. QED
    BY <1>1, <1>15, <2>1 DEF Stop, Finish, TypeOK, loop, past
<1>16. CASE WaitOver
  BY <1>1, <1>16 DEF WaitOver, Finish, TypeOK, loop, past
<1>17. ASSUME NEW c \in Commands, NEW e \in Ends, Write(c, e) PROVE TypeOK'
  BY <1>1, <1>17 DEF Write, TypeOK, loop, thread, past
<1>18. ASSUME NEW c \in Commands, NEW e \in Ends, CloseEnd(c, e) PROVE TypeOK'
  BY <1>1, <1>18 DEF CloseEnd, TypeOK, loop, thread, past
<1>19. ASSUME NEW c \in Commands, Exit(c) PROVE TypeOK'
  BY <1>1, <1>19 DEF Exit, TypeOK, loop, thread, past
<1>20. CASE UNCHANGED debugVars
  BY <1>1, <1>20 DEF debugVars, TypeOK, loop, thread, process, past
<1>21. QED
  BY <1>1, <1>2, <1>3, <1>4, <1>5, <1>6, <1>7, <1>8, <1>9, <1>10, <1>11, <1>12, <1>13, <1>14,
     <1>15, <1>16, <1>17, <1>18, <1>19, <1>20
  DEF Next, Answer, Worker, ReadStep, CommandStep

(* One step of the thread leaves no process behind but that of its call. *)
LEMMA ThreadStep == TypeOK /\ ThreadInv /\ [Next]_debugVars => ThreadInv'
<1>1. SUFFICES ASSUME TypeOK /\ ThreadInv, [Next]_debugVars PROVE ThreadInv'
  OBVIOUS
<1>2. ASSUME NEW c \in Commands, RunCommand(c) PROVE ThreadInv'
  BY <1>1, <1>2 DEF RunCommand, ThreadInv, thread, process
<1>3. ASSUME NEW c \in Commands, AnswerExited(c) PROVE ThreadInv'
  BY <1>1, <1>3 DEF AnswerExited, ThreadInv, thread, process
<1>4. ASSUME NEW c \in Commands, AnswerFailed(c) PROVE ThreadInv'
  BY <1>1, <1>4 DEF AnswerFailed, ThreadInv, thread, process
<1>5. ASSUME NEW c \in Commands, AnswerTimeout(c) PROVE ThreadInv'
  BY <1>1, <1>5 DEF AnswerTimeout, ThreadInv, thread, process
<1>6. CASE Take
  <2>1. running' \in Commands
    BY <1>1, <1>6 DEF Take, TypeOK
  <2>2. QED
    BY <1>1, <1>6, <2>1, DebugAssumption DEF Take, ThreadInv, process
<1>7. CASE Spawn
  BY <1>1, <1>7 DEF Spawn, ThreadInv
<1>8. CASE SpawnFails
  BY <1>1, <1>8 DEF SpawnFails, Finish, ThreadInv, process
<1>9. CASE Select
  BY <1>1, <1>9 DEF Select, ThreadInv, process
<1>10. CASE Check
  BY <1>1, <1>10 DEF Check, ThreadInv, process
<1>11. ASSUME NEW e \in Ends, Emit(e) PROVE ThreadInv'
  BY <1>1, <1>11 DEF Emit, After, Ends, ThreadInv
<1>12. ASSUME NEW e \in Ends, SeeClosed(e) PROVE ThreadInv'
  BY <1>1, <1>12 DEF SeeClosed, After, Ends, ThreadInv, process
<1>13. ASSUME NEW e \in Ends, PassOver(e) PROVE ThreadInv'
  BY <1>1, <1>13 DEF PassOver, After, Ends, ThreadInv, process
<1>14. ASSUME NEW e \in Ends, ReadRaises(e) PROVE ThreadInv'
  BY <1>1, <1>14 DEF ReadRaises, Ends, ThreadInv, process
<1>15. CASE Stop
  BY <1>1, <1>15 DEF Stop, Finish, ThreadInv
<1>16. CASE WaitOver
  BY <1>1, <1>16 DEF WaitOver, Finish, ThreadInv
<1>17. ASSUME NEW c \in Commands, NEW e \in Ends, Write(c, e) PROVE ThreadInv'
  BY <1>1, <1>17 DEF Write, ThreadInv, thread
<1>18. ASSUME NEW c \in Commands, NEW e \in Ends, CloseEnd(c, e) PROVE ThreadInv'
  BY <1>1, <1>18 DEF CloseEnd, ThreadInv, thread
<1>19. ASSUME NEW c \in Commands, Exit(c) PROVE ThreadInv'
  BY <1>1, <1>19 DEF Exit, ThreadInv, thread
<1>20. CASE UNCHANGED debugVars
  BY <1>1, <1>20 DEF debugVars, ThreadInv, thread, process
<1>21. QED
  BY <1>1, <1>2, <1>3, <1>4, <1>5, <1>6, <1>7, <1>8, <1>9, <1>10, <1>11, <1>12, <1>13, <1>14,
     <1>15, <1>16, <1>17, <1>18, <1>19, <1>20
  DEF Next, Answer, Worker, ReadStep, CommandStep

(* An answer, once given, goes on to agree with the future, which is set once. *)
LEMMA AnswerStep == DebugIInv /\ [Next]_debugVars => AnswerInv'
<1>1. SUFFICES ASSUME DebugIInv, [Next]_debugVars PROVE AnswerInv'
  OBVIOUS
<1>2. ASSUME NEW c \in Commands, RunCommand(c) PROVE AnswerInv'
  BY <1>1, <1>2 DEF RunCommand, AnswerInv, DebugIInv
<1>3. ASSUME NEW c \in Commands, AnswerExited(c) PROVE AnswerInv'
  BY <1>1, <1>3 DEF AnswerExited, Reply, AnswerInv, DebugIInv
<1>4. ASSUME NEW c \in Commands, AnswerFailed(c) PROVE AnswerInv'
  BY <1>1, <1>4 DEF AnswerFailed, Reply, AnswerInv, DebugIInv
<1>5. ASSUME NEW c \in Commands, AnswerTimeout(c) PROVE AnswerInv'
  BY <1>1, <1>5 DEF AnswerTimeout, Reply, AnswerInv, DebugIInv
<1>6. CASE Take
  BY <1>1, <1>6 DEF Take, AnswerInv, DebugIInv, loop
<1>7. CASE Spawn
  BY <1>1, <1>7 DEF Spawn, AnswerInv, DebugIInv, loop
<1>8. CASE SpawnFails
  BY <1>1, <1>8 DEF SpawnFails, Finish, AnswerInv, DebugIInv, QueueInv, loop
<1>9. CASE Select
  BY <1>1, <1>9 DEF Select, AnswerInv, DebugIInv, loop
<1>10. CASE Check
  BY <1>1, <1>10 DEF Check, AnswerInv, DebugIInv, loop
<1>11. ASSUME NEW e \in Ends, Emit(e) PROVE AnswerInv'
  BY <1>1, <1>11 DEF Emit, AnswerInv, DebugIInv, loop
<1>12. ASSUME NEW e \in Ends, SeeClosed(e) PROVE AnswerInv'
  BY <1>1, <1>12 DEF SeeClosed, AnswerInv, DebugIInv, loop
<1>13. ASSUME NEW e \in Ends, PassOver(e) PROVE AnswerInv'
  BY <1>1, <1>13 DEF PassOver, AnswerInv, DebugIInv, loop
<1>14. ASSUME NEW e \in Ends, ReadRaises(e) PROVE AnswerInv'
  BY <1>1, <1>14 DEF ReadRaises, AnswerInv, DebugIInv, loop
<1>15. CASE Stop
  BY <1>1, <1>15 DEF Stop, Finish, AnswerInv, DebugIInv, QueueInv, TypeOK, loop
<1>16. CASE WaitOver
  BY <1>1, <1>16 DEF WaitOver, Finish, AnswerInv, DebugIInv, QueueInv, loop
<1>17. ASSUME NEW c \in Commands, NEW e \in Ends, Write(c, e) PROVE AnswerInv'
  BY <1>1, <1>17 DEF Write, AnswerInv, DebugIInv, loop
<1>18. ASSUME NEW c \in Commands, NEW e \in Ends, CloseEnd(c, e) PROVE AnswerInv'
  BY <1>1, <1>18 DEF CloseEnd, AnswerInv, DebugIInv, loop
<1>19. ASSUME NEW c \in Commands, Exit(c) PROVE AnswerInv'
  BY <1>1, <1>19 DEF Exit, AnswerInv, DebugIInv, loop
<1>20. CASE UNCHANGED debugVars
  BY <1>1, <1>20 DEF debugVars, AnswerInv, DebugIInv, loop
<1>21. QED
  BY <1>1, <1>2, <1>3, <1>4, <1>5, <1>6, <1>7, <1>8, <1>9, <1>10, <1>11, <1>12, <1>13, <1>14,
     <1>15, <1>16, <1>17, <1>18, <1>19, <1>20
  DEF Next, Answer, Worker, ReadStep, CommandStep

(* Between the look at the event and the next one lie at most two outputs. *)
LEMMA LateStep == DebugIInv /\ LateInv /\ [Next]_debugVars => LateInv'
<1>1. SUFFICES ASSUME DebugIInv /\ LateInv, [Next]_debugVars PROVE LateInv'
  OBVIOUS
<1>2. ASSUME NEW c \in Commands, RunCommand(c) PROVE LateInv'
  BY <1>1, <1>2 DEF RunCommand, LateInv, LateOutputBounded, thread, past
<1>3. ASSUME NEW c \in Commands, AnswerExited(c) PROVE LateInv'
  BY <1>1, <1>3 DEF AnswerExited, LateInv, LateOutputBounded, thread, past
<1>4. ASSUME NEW c \in Commands, AnswerFailed(c) PROVE LateInv'
  BY <1>1, <1>4 DEF AnswerFailed, LateInv, LateOutputBounded, thread, past
<1>5. ASSUME NEW c \in Commands, AnswerTimeout(c) PROVE LateInv'
  BY <1>1, <1>5 DEF AnswerTimeout, LateInv, LateOutputBounded, thread, past
<1>6. CASE Take
  BY <1>1, <1>6 DEF Take, LateInv, LateOutputBounded, loop, past
<1>7. CASE Spawn
  BY <1>1, <1>7 DEF Spawn, LateInv, LateOutputBounded, loop, past
<1>8. CASE SpawnFails
  BY <1>1, <1>8 DEF SpawnFails, Finish, LateInv, LateOutputBounded, loop
<1>9. CASE Select
  BY <1>1, <1>9 DEF Select, LateInv, LateOutputBounded, loop, past
<1>10. CASE Check
  BY <1>1, <1>10 DEF Check, LateInv, LateOutputBounded, DebugIInv, TypeOK, loop, past
<1>11. ASSUME NEW e \in Ends, Emit(e) PROVE LateInv'
  BY <1>1, <1>11
  DEF Emit, After, Ends, MaxLate, LateInv, LateOutputBounded, DebugIInv, AnswerInv, QueueInv,
      ThreadInv, TypeOK, loop
<1>12. ASSUME NEW e \in Ends, SeeClosed(e) PROVE LateInv'
  BY <1>1, <1>12 DEF SeeClosed, After, LateInv, LateOutputBounded, loop, past
<1>13. ASSUME NEW e \in Ends, PassOver(e) PROVE LateInv'
  BY <1>1, <1>13 DEF PassOver, After, LateInv, LateOutputBounded, loop, past
<1>14. ASSUME NEW e \in Ends, ReadRaises(e) PROVE LateInv'
  BY <1>1, <1>14 DEF ReadRaises, LateInv, LateOutputBounded, loop, past
<1>15. CASE Stop
  BY <1>1, <1>15 DEF Stop, Finish, LateInv, LateOutputBounded, loop, past
<1>16. CASE WaitOver
  BY <1>1, <1>16 DEF WaitOver, Finish, LateInv, LateOutputBounded, loop, past
<1>17. ASSUME NEW c \in Commands, NEW e \in Ends, Write(c, e) PROVE LateInv'
  BY <1>1, <1>17 DEF Write, LateInv, LateOutputBounded, loop, thread, past
<1>18. ASSUME NEW c \in Commands, NEW e \in Ends, CloseEnd(c, e) PROVE LateInv'
  BY <1>1, <1>18 DEF CloseEnd, LateInv, LateOutputBounded, loop, thread, past
<1>19. ASSUME NEW c \in Commands, Exit(c) PROVE LateInv'
  BY <1>1, <1>19 DEF Exit, LateInv, LateOutputBounded, loop, thread, past
<1>20. CASE UNCHANGED debugVars
  BY <1>1, <1>20 DEF debugVars, LateInv, LateOutputBounded, loop, thread, past
<1>21. QED
  BY <1>1, <1>2, <1>3, <1>4, <1>5, <1>6, <1>7, <1>8, <1>9, <1>10, <1>11, <1>12, <1>13, <1>14,
     <1>15, <1>16, <1>17, <1>18, <1>19, <1>20
  DEF Next, Answer, Worker, ReadStep, CommandStep

(* Every way out of a command gives its descriptors back once, but for a failed start. *)
LEMMA DescriptorStep ==
  TypeOK /\ ThreadInv /\ DescriptorsReturned /\ [Next]_debugVars => DescriptorsReturned'
<1>1. SUFFICES ASSUME TypeOK /\ ThreadInv /\ DescriptorsReturned, [Next]_debugVars
               PROVE  DescriptorsReturned'
  OBVIOUS
<1>2. ASSUME NEW c \in Commands, RunCommand(c) PROVE DescriptorsReturned'
  BY <1>1, <1>2 DEF RunCommand, DescriptorsReturned, thread, past
<1>3. ASSUME NEW c \in Commands, AnswerExited(c) PROVE DescriptorsReturned'
  BY <1>1, <1>3 DEF AnswerExited, DescriptorsReturned, thread, past
<1>4. ASSUME NEW c \in Commands, AnswerFailed(c) PROVE DescriptorsReturned'
  BY <1>1, <1>4 DEF AnswerFailed, DescriptorsReturned, thread, past
<1>5. ASSUME NEW c \in Commands, AnswerTimeout(c) PROVE DescriptorsReturned'
  BY <1>1, <1>5 DEF AnswerTimeout, DescriptorsReturned, thread, past
<1>6. CASE Take
  BY <1>1, <1>6 DEF Take, DescriptorsReturned, ThreadInv, past
<1>7. CASE Spawn
  BY <1>1, <1>7 DEF Spawn, DescriptorsReturned, TypeOK, past
<1>8. CASE SpawnFails
  BY <1>1, <1>8 DEF SpawnFails, Finish, DescriptorsReturned, TypeOK
<1>9. CASE Select
  BY <1>1, <1>9 DEF Select, DescriptorsReturned, past
<1>10. CASE Check
  BY <1>1, <1>10 DEF Check, DescriptorsReturned, past
<1>11. ASSUME NEW e \in Ends, Emit(e) PROVE DescriptorsReturned'
  BY <1>1, <1>11 DEF Emit, After, Ends, DescriptorsReturned
<1>12. ASSUME NEW e \in Ends, SeeClosed(e) PROVE DescriptorsReturned'
  BY <1>1, <1>12 DEF SeeClosed, After, Ends, DescriptorsReturned, past
<1>13. ASSUME NEW e \in Ends, PassOver(e) PROVE DescriptorsReturned'
  BY <1>1, <1>13 DEF PassOver, After, Ends, DescriptorsReturned, past
<1>14. ASSUME NEW e \in Ends, ReadRaises(e) PROVE DescriptorsReturned'
  BY <1>1, <1>14 DEF ReadRaises, Ends, DescriptorsReturned, past
<1>15. CASE Stop
  BY <1>1, <1>15 DEF Stop, Finish, DescriptorsReturned, TypeOK, past
<1>16. CASE WaitOver
  BY <1>1, <1>16 DEF WaitOver, Finish, DescriptorsReturned, past
<1>17. ASSUME NEW c \in Commands, NEW e \in Ends, Write(c, e) PROVE DescriptorsReturned'
  BY <1>1, <1>17 DEF Write, DescriptorsReturned, thread, past
<1>18. ASSUME NEW c \in Commands, NEW e \in Ends, CloseEnd(c, e) PROVE DescriptorsReturned'
  BY <1>1, <1>18 DEF CloseEnd, DescriptorsReturned, thread, past
<1>19. ASSUME NEW c \in Commands, Exit(c) PROVE DescriptorsReturned'
  BY <1>1, <1>19 DEF Exit, DescriptorsReturned, thread, past
<1>20. CASE UNCHANGED debugVars
  BY <1>1, <1>20 DEF debugVars, DescriptorsReturned, thread, past
<1>21. QED
  BY <1>1, <1>2, <1>3, <1>4, <1>5, <1>6, <1>7, <1>8, <1>9, <1>10, <1>11, <1>12, <1>13, <1>14,
     <1>15, <1>16, <1>17, <1>18, <1>19, <1>20
  DEF Next, Answer, Worker, ReadStep, CommandStep

(* A call joins the queue once and leaves it for the thread, which ends with its outcome. *)
LEMMA QueueStep == DebugIInv /\ [Next]_debugVars => QueueInv'
<1>1. SUFFICES ASSUME DebugIInv, [Next]_debugVars PROVE QueueInv'
  OBVIOUS
<1>2. ASSUME NEW c \in Commands, RunCommand(c) PROVE QueueInv'
  <2>1. /\ queue' = Append(queue, c)
        /\ DOMAIN queue' = DOMAIN queue \cup {Len(queue) + 1}
        /\ Len(queue) + 1 \notin DOMAIN queue
        /\ queue'[Len(queue) + 1] = c
        /\ \A i \in DOMAIN queue : queue'[i] = queue[i]
    BY <1>2 DEF RunCommand
  <2>2. UNCHANGED <<answer, future, running>>
    BY <1>2 DEF RunCommand, thread
  <2>3. ~Queued(c) /\ running # c /\ future[c] = "pending"
    BY <1>1, <1>2, DebugAssumption DEF RunCommand, DebugIInv, QueueInv, Begun
  <2>4. serving = None /\ serving' = c
    BY <1>2 DEF RunCommand
  <2>5. \A i \in DOMAIN queue : queue[i] # c
    BY <2>3 DEF Queued
  <2>6. \A d \in Commands : (Queued(d))' <=> (Queued(d) \/ d = c)
    BY <2>1 DEF Queued
  <2>7. \A d \in Commands : (Begun(d))' <=> (Begun(d) \/ d = c)
    BY <2>2, <2>4, DebugAssumption DEF Begun
  <2>8. \A i, j \in DOMAIN queue' : queue'[i] = queue'[j] => i = j
    BY <1>1, <2>1, <2>5 DEF DebugIInv, QueueInv
  <2>9. QED
    BY <1>1, <2>2, <2>3, <2>6, <2>7, <2>8 DEF DebugIInv, QueueInv
<1>3. ASSUME NEW c \in Commands, AnswerExited(c) PROVE QueueInv'
  BY <1>1, <1>3 DEF AnswerExited, Reply, QueueInv, Queued, Begun, DebugIInv, TypeOK, thread
<1>4. ASSUME NEW c \in Commands, AnswerFailed(c) PROVE QueueInv'
  BY <1>1, <1>4 DEF AnswerFailed, Reply, QueueInv, Queued, Begun, DebugIInv, TypeOK, thread
<1>5. ASSUME NEW c \in Commands, AnswerTimeout(c) PROVE QueueInv'
  BY <1>1, <1>5 DEF AnswerTimeout, Reply, QueueInv, Queued, Begun, DebugIInv, TypeOK, thread
<1>6. CASE Take
  <2>1. /\ running' = queue[1]
        /\ running' \in Commands
        /\ 1 \in DOMAIN queue
        /\ \A i \in DOMAIN queue' : /\ i + 1 \in DOMAIN queue
                                     /\ i + 1 # 1
                                     /\ queue'[i] = queue[i + 1]
    BY <1>1, <1>6 DEF Take, DebugIInv, TypeOK
  <2>2. UNCHANGED <<answer, future, serving>> /\ running = None
    BY <1>6 DEF Take, loop
  <2>3. \A i, j \in DOMAIN queue' : queue'[i] = queue'[j] => i = j
    <3>1. SUFFICES ASSUME NEW i \in DOMAIN queue', NEW j \in DOMAIN queue', queue'[i] = queue'[j]
                   PROVE  i = j
      OBVIOUS
    <3>2. i + 1 = j + 1
      BY <1>1, <2>1, <3>1 DEF DebugIInv, QueueInv
    <3>3. queue' \in Seq(Commands)
      BY <1>1, <1>6 DEF Take, DebugIInv, TypeOK
    <3>4. QED
      BY <3>2, <3>3
  <2>4. \A d \in Commands : (Queued(d))' => Queued(d) /\ d # running'
    BY <1>1, <2>1 DEF Queued, DebugIInv, QueueInv
  <2>5. Queued(running')
    BY <2>1 DEF Queued
  <2>6. \A d \in Commands : (Begun(d))' <=> Begun(d)
    BY <2>2 DEF Begun
  <2>7. QED
    BY <1>1, <2>2, <2>3, <2>4, <2>5, <2>6 DEF DebugIInv, QueueInv
<1>7. CASE Spawn
  BY <1>1, <1>7 DEF Spawn, QueueInv, Queued, Begun, DebugIInv, loop
<1>8. CASE SpawnFails
  <2>1. running \in Commands
    BY <1>1, <1>8 DEF SpawnFails, DebugIInv, ThreadInv, TypeOK
  <2>2. UNCHANGED <<queue, serving, answer>>
    BY <1>8 DEF SpawnFails, loop
  <2>3. \A d \in Commands :
           /\ d # running => future'[d] = future[d]
           /\ running' = d => running = d /\ future'[d] = future[d]
    BY <1>8, DebugAssumption DEF SpawnFails, Finish
  <2>4. \A d \in Commands : ((Queued(d))' <=> Queued(d)) /\ ((Begun(d))' <=> Begun(d))
    BY <2>2 DEF Queued, Begun
  <2>5. ~Queued(running) /\ Begun(running)
    BY <1>1, <2>1 DEF DebugIInv, QueueInv
  <2>6. QED
    BY <1>1, <2>2, <2>3, <2>4 DEF DebugIInv, QueueInv
<1>9. CASE Select
  BY <1>1, <1>9 DEF Select, QueueInv, Queued, Begun, DebugIInv, loop
<1>10. CASE Check
  BY <1>1, <1>10 DEF Check, QueueInv, Queued, Begun, DebugIInv, loop
<1>11. ASSUME NEW e \in Ends, Emit(e) PROVE QueueInv'
  BY <1>1, <1>11 DEF Emit, QueueInv, Queued, Begun, DebugIInv, loop
<1>12. ASSUME NEW e \in Ends, SeeClosed(e) PROVE QueueInv'
  BY <1>1, <1>12 DEF SeeClosed, QueueInv, Queued, Begun, DebugIInv, loop
<1>13. ASSUME NEW e \in Ends, PassOver(e) PROVE QueueInv'
  BY <1>1, <1>13 DEF PassOver, QueueInv, Queued, Begun, DebugIInv, loop
<1>14. ASSUME NEW e \in Ends, ReadRaises(e) PROVE QueueInv'
  BY <1>1, <1>14 DEF ReadRaises, QueueInv, Queued, Begun, DebugIInv, loop
<1>15. CASE Stop
  <2>1. running \in Commands
    BY <1>1, <1>15 DEF Stop, DebugIInv, ThreadInv, TypeOK
  <2>2. UNCHANGED <<queue, serving, answer>>
    BY <1>15 DEF Stop, loop
  <2>3. \A d \in Commands :
           /\ d # running => future'[d] = future[d]
           /\ running' = d => running = d /\ future'[d] = future[d]
    BY <1>1, <1>15, DebugAssumption DEF Stop, Finish, DebugIInv, TypeOK
  <2>4. \A d \in Commands : ((Queued(d))' <=> Queued(d)) /\ ((Begun(d))' <=> Begun(d))
    BY <2>2 DEF Queued, Begun
  <2>5. ~Queued(running) /\ Begun(running)
    BY <1>1, <2>1 DEF DebugIInv, QueueInv
  <2>6. QED
    BY <1>1, <2>2, <2>3, <2>4 DEF DebugIInv, QueueInv
<1>16. CASE WaitOver
  <2>1. running \in Commands
    BY <1>1, <1>16 DEF WaitOver, DebugIInv, ThreadInv, TypeOK
  <2>2. UNCHANGED <<queue, serving, answer>>
    BY <1>16 DEF WaitOver, loop
  <2>3. \A d \in Commands :
           /\ d # running => future'[d] = future[d]
           /\ running' = d => running = d /\ future'[d] = future[d]
    BY <1>16, DebugAssumption DEF WaitOver, Finish
  <2>4. \A d \in Commands : ((Queued(d))' <=> Queued(d)) /\ ((Begun(d))' <=> Begun(d))
    BY <2>2 DEF Queued, Begun
  <2>5. ~Queued(running) /\ Begun(running)
    BY <1>1, <2>1 DEF DebugIInv, QueueInv
  <2>6. QED
    BY <1>1, <2>2, <2>3, <2>4 DEF DebugIInv, QueueInv
<1>17. ASSUME NEW c \in Commands, NEW e \in Ends, Write(c, e) PROVE QueueInv'
  BY <1>1, <1>17 DEF Write, QueueInv, Queued, Begun, DebugIInv, loop, thread
<1>18. ASSUME NEW c \in Commands, NEW e \in Ends, CloseEnd(c, e) PROVE QueueInv'
  BY <1>1, <1>18 DEF CloseEnd, QueueInv, Queued, Begun, DebugIInv, loop, thread
<1>19. ASSUME NEW c \in Commands, Exit(c) PROVE QueueInv'
  BY <1>1, <1>19 DEF Exit, QueueInv, Queued, Begun, DebugIInv, loop, thread
<1>20. CASE UNCHANGED debugVars
  BY <1>1, <1>20 DEF debugVars, QueueInv, Queued, Begun, DebugIInv, loop, thread
<1>21. QED
  BY <1>1, <1>2, <1>3, <1>4, <1>5, <1>6, <1>7, <1>8, <1>9, <1>10, <1>11, <1>12, <1>13, <1>14,
     <1>15, <1>16, <1>17, <1>18, <1>19, <1>20
  DEF Next, Answer, Worker, ReadStep, CommandStep

(* DebugIInv is inductive: it is what a pool of one thread, one outcome per future and the      *)
(* waiting for the answer in the D-Bus loop amount to (debug_service.py:28, 122-157).       *)
THEOREM DebugInvariant == Spec => []DebugIInv
<1>1. Init => DebugIInv
  BY DebugAssumption
  DEF Init, DebugIInv, TypeOK, ThreadInv, QueueInv, AnswerInv, Queued, MaxLate, DescriptorsReturned
<1>2. DebugIInv /\ [Next]_debugVars => DebugIInv'
  BY DebugTypeStep, ThreadStep, QueueStep, AnswerStep, DescriptorStep DEF DebugIInv
<1>3. QED
  BY <1>1, <1>2, PTL DEF Spec

(* The state of the executor is typed, whatever calls, failures and commands there are.     *)
THEOREM TypeCorrect == Spec => []TypeOK
<1>1. DebugIInv => TypeOK
  BY DEF DebugIInv
<1>2. QED
  BY <1>1, DebugInvariant, PTL

(* One command runs at a time, and a caller is told of the end of its command only after it *)
(* (max_workers = 1 in line 28, the waiting in lines 91-104).                               *)
THEOREM OneCommandHolds == Spec => []OneCommandAtATime
<1>1. DebugIInv => OneCommandAtATime
  BY DEF DebugIInv, ThreadInv, QueueInv, AnswerInv, OneCommandAtATime
<1>2. QED
  BY <1>1, DebugInvariant, PTL

(* At most two outputs of a command are heard after its caller was told it is over (the     *)
(* event is looked at in line 62, once for both ends).                                      *)
THEOREM LateOutputHolds == Spec => []LateOutputBounded
<1>1. Init => LateInv
  BY DEF Init, LateInv, LateOutputBounded
<1>2. DebugIInv /\ LateInv /\ [Next]_debugVars => LateInv'
  BY LateStep
<1>3. LateInv => LateOutputBounded
  BY DEF LateInv
<1>4. QED
  BY <1>1, <1>2, <1>3, DebugInvariant, PTL DEF Spec

(* Descriptors are lost by commands that cannot be started and by nothing else (34-49, 88). *)
THEOREM DescriptorsHold == Spec => []DescriptorsReturned
<1>1. DebugIInv => DescriptorsReturned
  BY DEF DebugIInv
<1>2. QED
  BY <1>1, DebugInvariant, PTL
-----------------------------------------------------------------------------
(* The checkpoints of the ssh files.                                       *)

\* The files the method that runs has still to copy.
Left == {todo[i] : i \in DOMAIN todo}

Distinct(q) == \A i, j \in DOMAIN q : q[i] = q[j] => i = j

\* A method that runs has not answered; create and restore visit each file once.
CallInv ==
    /\ method # "none" => reply = "none"
    /\ method \in {"create", "restore"} => Distinct(todo)

\* A checkpoint in the making has what was visited, and nothing else.
CreateInv ==
    method = "create" =>
        /\ dir
        /\ ~announced
        /\ code = 0 => \A f \in Files : saved[f] = IF f \in Left THEN Absent ELSE live[f]

\* What restore and set have visited is in its place as long as nothing has failed.
RestoreInv ==
    method = "restore" /\ code = 0 =>
        \A f \in Files \ Left : saved[f] # Absent => live[f] = saved[f]

SetInv ==
    method = "set" /\ code = 0 /\ ~masked =>
        \A f \in Files \ Left : wanted[f] # Absent => live[f] = wanted[f]

SshIInv ==
    /\ SshTypeOK
    /\ CallInv
    /\ CreateInv
    /\ RestoreInv
    /\ SetInv
    /\ CheckpointFaithful
    /\ SetReported

(* The visit of the next file. *)
LEMMA NextFile ==
  ASSUME NEW q \in Seq(Files), q # <<>>
  PROVE  /\ Tail(q) \in Seq(Files)
         /\ Head(q) \in Files
         /\ Head(q) \in {q[i] : i \in DOMAIN q}
         /\ {q[i] : i \in DOMAIN q} \subseteq {Tail(q)[i] : i \in DOMAIN Tail(q)} \cup {Head(q)}
         /\ Distinct(q) => /\ Distinct(Tail(q))
                           /\ {Tail(q)[i] : i \in DOMAIN Tail(q)}
                                  = {q[i] : i \in DOMAIN q} \ {Head(q)}
<1>1. /\ Tail(q) \in Seq(Files)
      /\ Head(q) = q[1]
      /\ 1 \in DOMAIN q
      /\ \A i \in DOMAIN Tail(q) : i + 1 \in DOMAIN q /\ i # 0 /\ Tail(q)[i] = q[i + 1]
      /\ \A i \in DOMAIN q : i = 1 \/ (i - 1 \in DOMAIN Tail(q) /\ q[i] = Tail(q)[i - 1])
      /\ DOMAIN q \subseteq Nat /\ DOMAIN Tail(q) \subseteq Nat
  OBVIOUS
<1>2. q[1] \in Files
  OBVIOUS
<1>3. {q[i] : i \in DOMAIN q} \subseteq {Tail(q)[i] : i \in DOMAIN Tail(q)} \cup {Head(q)}
  <2>1. SUFFICES ASSUME NEW i \in DOMAIN q
                 PROVE  q[i] = q[1] \/ \E j \in DOMAIN Tail(q) : q[i] = Tail(q)[j]
    OBVIOUS
  <2>2. i = 1 \/ (i - 1 \in DOMAIN Tail(q) /\ q[i] = Tail(q)[i - 1])
    OBVIOUS
  <2>3. QED
    BY <2>2
<1>4. ASSUME Distinct(q)
      PROVE  /\ Distinct(Tail(q))
             /\ {Tail(q)[i] : i \in DOMAIN Tail(q)}
                    = {q[i] : i \in DOMAIN q} \ {Head(q)}
  <2>1. ASSUME NEW i \in DOMAIN Tail(q), NEW j \in DOMAIN Tail(q), Tail(q)[i] = Tail(q)[j]
        PROVE  i = j
    <3>1. i + 1 = j + 1
      BY <1>4, <2>1 DEF Distinct
    <3>2. QED
      BY <3>1
  <2>2. ASSUME NEW i \in DOMAIN Tail(q)
        PROVE  Tail(q)[i] # q[1] /\ Tail(q)[i] \in {q[j] : j \in DOMAIN q}
    <3>1. i + 1 # 1
      OBVIOUS
    <3>2. i + 1 \in DOMAIN q /\ Tail(q)[i] = q[i + 1]
      OBVIOUS
    <3>3. QED
      BY <1>4 DEF Distinct
  <2>3. Distinct(Tail(q))
    BY <2>1 DEF Distinct
  <2>4. {Tail(q)[i] : i \in DOMAIN Tail(q)} \subseteq {q[i] : i \in DOMAIN q} \ {Head(q)}
    BY <2>2
  <2>5. QED
    BY <1>3, <2>3, <2>4
<1>5. QED
  BY <1>1, <1>2, <1>3, <1>4, Zenon

(* The order of create and restore names every file once. *)
LEMMA FileOrderNamesAll ==
  /\ FileOrder \in Seq(Files)
  /\ Distinct(FileOrder)
  /\ {FileOrder[i] : i \in DOMAIN FileOrder} = Files
<1>1. FileOrder \in Seq(Files)
  BY DEF FileOrder, Files
<1>2. Distinct(FileOrder)
  BY DEF FileOrder, Distinct
<1>3. QED
  BY <1>1, <1>2 DEF Files

(* The sequences a set may come in are sequences of files. *)
LEMMA OrdersAreSequences == \A order \in Orders : order \in Seq(Files)
<1>1. ASSUME NEW n \in 0..Len(FileOrder), NEW s \in [1..n -> Files] PROVE s \in Seq(Files)
  <2>1. n \in Nat
    OBVIOUS
  <2>2. QED
    OBVIOUS
<1>2. QED
  BY DEF Orders

(* What is left of the checkpoint when it is removed. *)
LEMMA RemovedLeaves ==
  ASSUME saved \in Contents, dir \in BOOLEAN, Removed \/ RemovedInPart
  PROVE  saved' \in Contents /\ dir' \in BOOLEAN
<1>1. CASE Removed
  BY <1>1 DEF Removed, Nothing, Contents
<1>2. CASE RemovedInPart
  <2>1. PICK spared \in SUBSET Files : saved' = [f \in Files |-> IF f \in spared THEN saved[f]
                                                               ELSE Absent]
    BY <1>2 DEF RemovedInPart
  <2>2. \A f \in Files : (IF f \in spared THEN saved[f] ELSE Absent) \in Values \cup {Absent}
    BY DEF Contents
  <2>3. QED
    BY <1>2, Zenon DEF RemovedInPart, Contents
<1>3. QED
  BY <1>1, <1>2

(* Contents without any file are contents. *)
LEMMA NoContents == Nothing \in Contents
BY DEF Nothing, Contents

(* One step keeps the types. *)
LEMMA SshTypeStep == SshTypeOK /\ [SshNext]_sshVars => SshTypeOK'
<1>1. SUFFICES ASSUME SshTypeOK, [SshNext]_sshVars PROVE SshTypeOK'
  OBVIOUS
<1>2. CASE Create
  <2>1. method' = "create" /\ todo' = FileOrder /\ wanted' = Nothing /\ code' = 0
        /\ reply' = "none"
    BY <1>2, Zenon DEF Create, Begin
  <2>2. sshCalls' \in Nat /\ sshFaults' \in Nat
    BY <1>1, <1>2 DEF Create, Called, SshTypeOK
  <2>3. /\ dir' \in BOOLEAN /\ announced' \in BOOLEAN
        /\ saved' \in Contents /\ original' \in Contents
        /\ UNCHANGED <<live, masked>>
    BY <1>2, NoContents, Zenon DEF Create, Forget
  <2>4. QED
    BY <1>1, <2>1, <2>2, <2>3, FileOrderNamesAll, NoContents DEF SshTypeOK
<1>3. CASE CreateRefused
  <2>1. dir' \in BOOLEAN /\ saved' \in Contents
    BY <1>1, <1>3, RemovedLeaves DEF CreateRefused, SshTypeOK
  <2>2. sshCalls' \in Nat /\ sshFaults' \in Nat
    <3>1. sshCalls \in Nat /\ sshFaults \in Nat
      BY <1>1 DEF SshTypeOK
    <3>2. sshCalls' \in {sshCalls, sshCalls + 1} /\ sshFaults' \in {sshFaults, sshFaults + 1}
      BY <1>3, Zenon DEF CreateRefused, Called, Fault, RemovedInPart
    <3>3. QED
      BY <3>1, <3>2
  <2>3. /\ method' = "none" /\ todo' = <<>> /\ wanted' = Nothing /\ code' = 0
        /\ reply' \in {"none", "ok", "error"}
    BY <1>3, Zenon DEF CreateRefused, Return
  <2>4. announced' \in BOOLEAN /\ original' \in Contents /\ UNCHANGED <<live, masked>>
    BY <1>3, NoContents, Zenon DEF CreateRefused, Forget
  <2>5. QED
    BY <1>1, <2>1, <2>2, <2>3, <2>4, NoContents DEF SshTypeOK
<1>4. CASE SaveFile
  BY <1>1, <1>4 DEF SaveFile, Copied, SshTypeOK, Contents, hist
<1>5. CASE SaveFails
  BY <1>1, <1>5 DEF SaveFails, Fault, SshTypeOK, hist
<1>6. CASE CreateDone
  BY <1>1, <1>6 DEF CreateDone, Return, SshTypeOK, Contents, Nothing
<1>7. CASE CreateFails
  <2>1. dir' \in BOOLEAN /\ saved' \in Contents
    BY <1>1, <1>7, RemovedLeaves DEF CreateFails, SshTypeOK
  <2>2. sshCalls' \in Nat /\ sshFaults' \in Nat
    <3>1. sshCalls \in Nat /\ sshFaults \in Nat
      BY <1>1 DEF SshTypeOK
    <3>2. sshCalls' \in {sshCalls, sshCalls + 1} /\ sshFaults' \in {sshFaults, sshFaults + 1}
      BY <1>7, Zenon DEF CreateFails, Fault, RemovedInPart
    <3>3. QED
      BY <3>1, <3>2
  <2>3. /\ method' = "none" /\ todo' = <<>> /\ wanted' = Nothing /\ code' = 0
        /\ reply' \in {"none", "ok", "error"}
    BY <1>7, Zenon DEF CreateFails, Return
  <2>4. announced' \in BOOLEAN /\ original' \in Contents /\ UNCHANGED <<live, masked>>
    BY <1>1, <1>7, Zenon DEF CreateFails, SshTypeOK, hist
  <2>5. QED
    BY <1>1, <2>1, <2>2, <2>3, <2>4, NoContents DEF SshTypeOK
<1>8. CASE Restore
  <2>1. method' = "restore" /\ todo' = FileOrder /\ wanted' = Nothing /\ code' = 0
        /\ reply' = "none"
    BY <1>8, Zenon DEF Restore, Begin
  <2>2. sshCalls' \in Nat /\ sshFaults' \in Nat
    BY <1>1, <1>8 DEF Restore, Called, SshTypeOK
  <2>3. /\ dir' \in BOOLEAN /\ announced' \in BOOLEAN
        /\ saved' \in Contents /\ original' \in Contents
        /\ UNCHANGED <<live, masked>>
    BY <1>1, <1>8, Zenon DEF Restore, SshTypeOK, hist
  <2>4. QED
    BY <1>1, <2>1, <2>2, <2>3, FileOrderNamesAll, NoContents DEF SshTypeOK
<1>9. CASE RestoreFile
  BY <1>1, <1>9 DEF RestoreFile, Copied, SshTypeOK, Contents, hist
<1>10. CASE RestoreFileFails
  <2>1. todo' \in Seq(Files) /\ Head(todo) \in Files
    BY <1>1, <1>10 DEF RestoreFileFails, SshTypeOK
  <2>2. saved[Head(todo)] \in Values \cup {Absent}
    BY <1>1, <2>1 DEF SshTypeOK, Contents
  <2>3. live' \in Contents
    BY <1>1, <1>10 DEF RestoreFileFails, TwiceCopied, SshTypeOK, Contents
  <2>4. QED
    BY <1>1, <1>10, <2>3 DEF RestoreFileFails, Fault, SshTypeOK, hist
<1>11. CASE RestoreDone
  <2>1. dir' \in BOOLEAN /\ saved' \in Contents
    BY <1>1, <1>11, RemovedLeaves DEF RestoreDone, SshTypeOK
  <2>2. sshCalls' \in Nat /\ sshFaults' \in Nat
    <3>1. sshCalls \in Nat /\ sshFaults \in Nat
      BY <1>1 DEF SshTypeOK
    <3>2. sshCalls' \in {sshCalls, sshCalls + 1} /\ sshFaults' \in {sshFaults, sshFaults + 1}
      BY <1>11, Zenon DEF RestoreDone, Fault, RemovedInPart
    <3>3. QED
      BY <3>1, <3>2
  <2>3. /\ method' = "none" /\ todo' = <<>> /\ wanted' = Nothing /\ code' = 0
        /\ reply' \in {"none", "ok", "error"}
    BY <1>11, Zenon DEF RestoreDone, Return
  <2>4. announced' \in BOOLEAN /\ original' \in Contents /\ UNCHANGED <<live, masked>>
    BY <1>11, NoContents, Zenon DEF RestoreDone, Forget
  <2>5. QED
    BY <1>1, <2>1, <2>2, <2>3, <2>4, NoContents DEF SshTypeOK
<1>12. CASE Delete
  <2>1. dir' \in BOOLEAN /\ saved' \in Contents
    BY <1>1, <1>12, RemovedLeaves DEF Delete, SshTypeOK
  <2>2. sshCalls' \in Nat /\ sshFaults' \in Nat
    <3>1. sshCalls \in Nat /\ sshFaults \in Nat
      BY <1>1 DEF SshTypeOK
    <3>2. sshCalls' \in {sshCalls, sshCalls + 1} /\ sshFaults' \in {sshFaults, sshFaults + 1}
      BY <1>12, Zenon DEF Delete, Called, Fault, RemovedInPart
    <3>3. QED
      BY <3>1, <3>2
  <2>3. /\ method' = "none" /\ todo' = <<>> /\ wanted' = Nothing /\ code' = 0
        /\ reply' \in {"none", "ok", "error"}
    BY <1>12, Zenon DEF Delete, Return
  <2>4. announced' \in BOOLEAN /\ original' \in Contents /\ UNCHANGED <<live, masked>>
    BY <1>12, NoContents, Zenon DEF Delete, Forget
  <2>5. QED
    BY <1>1, <2>1, <2>2, <2>3, <2>4, NoContents DEF SshTypeOK
<1>13. CASE Refuse
  BY <1>1, <1>13 DEF Refuse, Called, Return, SshTypeOK, Contents, Nothing, hist
<1>14. CASE Set
  <2>1. PICK order \in Orders, v \in [Files -> Values] :
           Begin("set", order, [f \in Files |-> IF \E i \in DOMAIN order : order[i] = f
                                                THEN v[f] ELSE Absent])
    BY <1>14, Zenon DEF Set
  <2>2. wanted' \in Contents
    BY <2>1 DEF Begin, Contents
  <2>3. todo' \in Seq(Files) /\ method' = "set" /\ code' = 0 /\ reply' = "none"
    BY <2>1, OrdersAreSequences DEF Begin
  <2>4. sshCalls' \in Nat
    BY <1>1, <1>14 DEF Set, Called, SshTypeOK
  <2>5. masked' = FALSE /\ UNCHANGED <<live, dir, saved, announced, original, sshFaults>>
    BY <1>14, Zenon DEF Set
  <2>6. QED
    BY <1>1, <2>2, <2>3, <2>4, <2>5 DEF SshTypeOK
<1>15. CASE SetFile
  BY <1>1, <1>15 DEF SetFile, SshTypeOK, Contents
<1>16. CASE SetFileFails
  <2>1. todo' \in Seq(Files) /\ Head(todo) \in Files
    BY <1>1, <1>16 DEF SetFileFails, SshTypeOK
  <2>2. wanted[Head(todo)] \in Values \cup {Absent}
    BY <1>1, <2>1 DEF SshTypeOK, Contents
  <2>3. live' \in Contents
    BY <1>1, <1>16 DEF SetFileFails, TwiceCopied, SshTypeOK, Contents
  <2>4. QED
    BY <1>1, <1>16, <2>3 DEF SetFileFails, Fault, SshTypeOK, hist
<1>17. CASE SetRaises
  BY <1>1, <1>17 DEF SetRaises, Fault, Return, SshTypeOK, Contents, Nothing, hist
<1>18. CASE SetDone
  BY <1>1, <1>18 DEF SetDone, SshTypeOK, hist
<1>19. CASE Crash
  <2>1. dir' \in BOOLEAN /\ saved' \in Contents
    BY <1>1, <1>19, RemovedLeaves DEF Crash, SshTypeOK
  <2>2. sshCalls' \in Nat /\ sshFaults' \in Nat
    <3>1. sshCalls \in Nat /\ sshFaults \in Nat
      BY <1>1 DEF SshTypeOK
    <3>2. sshCalls' \in {sshCalls, sshCalls + 1} /\ sshFaults' \in {sshFaults, sshFaults + 1}
      BY <1>19, Zenon DEF Crash, Fault
    <3>3. QED
      BY <3>1, <3>2
  <2>3. /\ method' = "none" /\ todo' = <<>> /\ wanted' = Nothing /\ code' = 0
        /\ reply' \in {"none", "ok", "error"}
    BY <1>19, Zenon DEF Crash, Return
  <2>4. announced' \in BOOLEAN /\ original' \in Contents /\ UNCHANGED <<live, masked>>
    BY <1>1, <1>19, NoContents, Zenon DEF Crash, Forget, SshTypeOK
  <2>5. QED
    BY <1>1, <2>1, <2>2, <2>3, <2>4, NoContents DEF SshTypeOK
<1>20. ASSUME NEW g \in Files, Lose(g) PROVE SshTypeOK'
  BY <1>1, <1>20 DEF Lose, Fault, SshTypeOK, Contents, hist
<1>21. CASE UNCHANGED sshVars
  BY <1>1, <1>21 DEF sshVars, SshTypeOK, call, hist
<1>22. QED
  BY <1>1, <1>2, <1>3, <1>4, <1>5, <1>6, <1>7, <1>8, <1>9, <1>10, <1>11, <1>12, <1>13, <1>14,
     <1>15, <1>16, <1>17, <1>18, <1>19, <1>20, <1>21
  DEF SshNext

(* A method answers when it ends, and visits each file once. *)
LEMMA CallStep == SshTypeOK /\ CallInv /\ [SshNext]_sshVars => CallInv'
<1>1. SUFFICES ASSUME SshTypeOK /\ CallInv, [SshNext]_sshVars PROVE CallInv'
  OBVIOUS
<1>2. CASE Create
  BY <1>2, FileOrderNamesAll DEF Create, Begin, CallInv
<1>3. CASE CreateRefused
  BY <1>3 DEF CreateRefused, Return, CallInv
<1>4. CASE SaveFile
  BY <1>1, <1>4, NextFile DEF SaveFile, SshTypeOK, CallInv
<1>5. CASE SaveFails
  BY <1>1, <1>5, NextFile DEF SaveFails, SshTypeOK, CallInv
<1>6. CASE CreateDone
  BY <1>6 DEF CreateDone, Return, CallInv
<1>7. CASE CreateFails
  BY <1>7 DEF CreateFails, Return, CallInv
<1>8. CASE Restore
  BY <1>8, FileOrderNamesAll DEF Restore, Begin, CallInv
<1>9. CASE RestoreFile
  BY <1>1, <1>9, NextFile DEF RestoreFile, SshTypeOK, CallInv
<1>10. CASE RestoreFileFails
  BY <1>1, <1>10, NextFile DEF RestoreFileFails, SshTypeOK, CallInv
<1>11. CASE RestoreDone
  BY <1>11 DEF RestoreDone, Return, CallInv
<1>12. CASE Delete
  BY <1>12 DEF Delete, Return, CallInv
<1>13. CASE Refuse
  BY <1>13 DEF Refuse, Return, CallInv
<1>14. CASE Set
  BY <1>14 DEF Set, Begin, CallInv
<1>15. CASE SetFile
  BY <1>1, <1>15 DEF SetFile, CallInv
<1>16. CASE SetFileFails
  BY <1>1, <1>16 DEF SetFileFails, CallInv
<1>17. CASE SetRaises
  BY <1>17 DEF SetRaises, Return, CallInv
<1>18. CASE SetDone
  BY <1>18 DEF SetDone, CallInv
<1>19. CASE Crash
  BY <1>19 DEF Crash, Return, CallInv
<1>20. ASSUME NEW g \in Files, Lose(g) PROVE CallInv'
  BY <1>20 DEF Lose, CallInv
<1>21. CASE UNCHANGED sshVars
  BY <1>1, <1>21 DEF sshVars, CallInv, call
<1>22. QED
  BY <1>1, <1>2, <1>3, <1>4, <1>5, <1>6, <1>7, <1>8, <1>9, <1>10, <1>11, <1>12, <1>13, <1>14,
     <1>15, <1>16, <1>17, <1>18, <1>19, <1>20, <1>21
  DEF SshNext

(* A checkpoint is filled file by file. *)
LEMMA CreateStep == SshIInv /\ [SshNext]_sshVars => CreateInv'
<1>1. SUFFICES ASSUME SshIInv, [SshNext]_sshVars PROVE CreateInv'
  OBVIOUS
<1>2. CASE Create
  BY <1>2, FileOrderNamesAll DEF Create, Begin, Forget, CreateInv, Left, Nothing
<1>3. CASE CreateRefused
  <2>1. method' # "create"
    BY <1>3 DEF CreateRefused, Return
  <2>2. QED
    BY <2>1 DEF CreateInv
<1>4. CASE SaveFile
  <2>1. Head(todo) \in Left /\ Left' = Left \ {Head(todo)}
    BY <1>1, <1>4, NextFile DEF SaveFile, SshIInv, SshTypeOK, CallInv, Left
  <2>2. /\ Head(todo) \in Files
        /\ \A f \in Files : saved'[f] = IF f = Head(todo) THEN Copied(live[f], saved[f])
                                        ELSE saved[f]
    BY <1>1, <1>4 DEF SaveFile, SshIInv, SshTypeOK, Contents
  <2>3. UNCHANGED <<live, dir, announced, code>> /\ method = "create"
    BY <1>4 DEF SaveFile, hist
  <2>4. QED
    BY <1>1, <2>1, <2>2, <2>3 DEF SshIInv, CreateInv, Copied
<1>5. CASE SaveFails
  BY <1>1, <1>5 DEF SaveFails, SshIInv, CreateInv, hist
<1>6. CASE CreateDone
  BY <1>6 DEF CreateDone, Return, CreateInv
<1>7. CASE CreateFails
  BY <1>7 DEF CreateFails, Return, CreateInv
<1>8. CASE Restore
  BY <1>8 DEF Restore, Begin, CreateInv
<1>9. CASE RestoreFile
  BY <1>9 DEF RestoreFile, CreateInv
<1>10. CASE RestoreFileFails
  BY <1>10 DEF RestoreFileFails, CreateInv
<1>11. CASE RestoreDone
  BY <1>11 DEF RestoreDone, Return, CreateInv
<1>12. CASE Delete
  BY <1>12 DEF Delete, Return, CreateInv
<1>13. CASE Refuse
  BY <1>13 DEF Refuse, Return, CreateInv
<1>14. CASE Set
  BY <1>14 DEF Set, Begin, CreateInv
<1>15. CASE SetFile
  BY <1>15 DEF SetFile, CreateInv
<1>16. CASE SetFileFails
  BY <1>16 DEF SetFileFails, CreateInv
<1>17. CASE SetRaises
  BY <1>17 DEF SetRaises, Return, CreateInv
<1>18. CASE SetDone
  BY <1>18 DEF SetDone, CreateInv
<1>19. CASE Crash
  BY <1>19 DEF Crash, Return, CreateInv
<1>20. ASSUME NEW g \in Files, Lose(g) PROVE CreateInv'
  BY <1>20 DEF Lose, CreateInv
<1>21. CASE UNCHANGED sshVars
  BY <1>1, <1>21 DEF sshVars, SshIInv, CreateInv, Left, call, hist
<1>22. QED
  BY <1>1, <1>2, <1>3, <1>4, <1>5, <1>6, <1>7, <1>8, <1>9, <1>10, <1>11, <1>12, <1>13, <1>14,
     <1>15, <1>16, <1>17, <1>18, <1>19, <1>20, <1>21
  DEF SshNext

(* Files are put back one by one. *)
LEMMA RestoreStep == SshIInv /\ [SshNext]_sshVars => RestoreInv'
<1>1. SUFFICES ASSUME SshIInv, [SshNext]_sshVars PROVE RestoreInv'
  OBVIOUS
<1>2. CASE Create
  BY <1>2 DEF Create, Begin, RestoreInv
<1>3. CASE CreateRefused
  BY <1>3 DEF CreateRefused, Return, RestoreInv
<1>4. CASE SaveFile
  BY <1>4 DEF SaveFile, RestoreInv
<1>5. CASE SaveFails
  BY <1>5 DEF SaveFails, RestoreInv
<1>6. CASE CreateDone
  BY <1>6 DEF CreateDone, Return, RestoreInv
<1>7. CASE CreateFails
  BY <1>7 DEF CreateFails, Return, RestoreInv
<1>8. CASE Restore
  <2>1. Left' = Files
    BY <1>8, FileOrderNamesAll DEF Restore, Begin, Left
  <2>2. QED
    BY <2>1 DEF RestoreInv
<1>9. CASE RestoreFile
  <2>1. Left' = Left \ {Head(todo)}
    BY <1>1, <1>9, NextFile DEF RestoreFile, SshIInv, SshTypeOK, CallInv, Left
  <2>2. \A f \in Files : live'[f] = IF f = Head(todo) THEN Copied(saved[f], live[f])
                                    ELSE live[f]
    BY <1>1, <1>9 DEF RestoreFile, SshIInv, SshTypeOK, Contents
  <2>3. UNCHANGED <<saved, code>> /\ method = "restore"
    BY <1>9 DEF RestoreFile
  <2>4. QED
    BY <1>1, <2>1, <2>2, <2>3 DEF SshIInv, RestoreInv, Copied
<1>10. CASE RestoreFileFails
  BY <1>10 DEF RestoreFileFails, RestoreInv
<1>11. CASE RestoreDone
  BY <1>11 DEF RestoreDone, Return, RestoreInv
<1>12. CASE Delete
  BY <1>12 DEF Delete, Return, RestoreInv
<1>13. CASE Refuse
  BY <1>13 DEF Refuse, Return, RestoreInv
<1>14. CASE Set
  BY <1>14 DEF Set, Begin, RestoreInv
<1>15. CASE SetFile
  BY <1>15 DEF SetFile, RestoreInv
<1>16. CASE SetFileFails
  BY <1>16 DEF SetFileFails, RestoreInv
<1>17. CASE SetRaises
  BY <1>17 DEF SetRaises, Return, RestoreInv
<1>18. CASE SetDone
  BY <1>18 DEF SetDone, RestoreInv
<1>19. CASE Crash
  BY <1>19 DEF Crash, Return, RestoreInv
<1>20. ASSUME NEW g \in Files, Lose(g) PROVE RestoreInv'
  BY <1>20 DEF Lose, RestoreInv
<1>21. CASE UNCHANGED sshVars
  BY <1>1, <1>21 DEF sshVars, SshIInv, RestoreInv, Left, call
<1>22. QED
  BY <1>1, <1>2, <1>3, <1>4, <1>5, <1>6, <1>7, <1>8, <1>9, <1>10, <1>11, <1>12, <1>13, <1>14,
     <1>15, <1>16, <1>17, <1>18, <1>19, <1>20, <1>21
  DEF SshNext

(* Files are set one by one. *)
LEMMA SetStep == SshIInv /\ [SshNext]_sshVars => SetInv'
<1>1. SUFFICES ASSUME SshIInv, [SshNext]_sshVars PROVE SetInv'
  OBVIOUS
<1>2. CASE Create
  BY <1>2 DEF Create, Begin, SetInv
<1>3. CASE CreateRefused
  BY <1>3 DEF CreateRefused, Return, SetInv
<1>4. CASE SaveFile
  BY <1>4 DEF SaveFile, SetInv
<1>5. CASE SaveFails
  BY <1>5 DEF SaveFails, SetInv
<1>6. CASE CreateDone
  BY <1>6 DEF CreateDone, Return, SetInv
<1>7. CASE CreateFails
  BY <1>7 DEF CreateFails, Return, SetInv
<1>8. CASE Restore
  BY <1>8 DEF Restore, Begin, SetInv
<1>9. CASE RestoreFile
  BY <1>9 DEF RestoreFile, SetInv
<1>10. CASE RestoreFileFails
  BY <1>10 DEF RestoreFileFails, SetInv
<1>11. CASE RestoreDone
  BY <1>11 DEF RestoreDone, Return, SetInv
<1>12. CASE Delete
  BY <1>12 DEF Delete, Return, SetInv
<1>13. CASE Refuse
  BY <1>13 DEF Refuse, Return, SetInv
<1>14. CASE Set
  <2>1. PICK order \in Orders, v \in [Files -> Values] :
           Begin("set", order, [f \in Files |-> IF \E i \in DOMAIN order : order[i] = f
                                                THEN v[f] ELSE Absent])
    BY <1>14, Zenon DEF Set
  <2>2. \A f \in Files \ Left' : wanted'[f] = Absent
    BY <2>1 DEF Begin, Left
  <2>3. QED
    BY <2>2 DEF SetInv
<1>15. CASE SetFile
  <2>1. Left \subseteq Left' \cup {Head(todo)}
    BY <1>1, <1>15, NextFile DEF SetFile, SshIInv, SshTypeOK, Left
  <2>2. \A f \in Files : live'[f] = IF f = Head(todo) THEN wanted[f] ELSE live[f]
    BY <1>1, <1>15 DEF SetFile, SshIInv, SshTypeOK, Contents
  <2>3. UNCHANGED wanted /\ method = "set" /\ (~masked' => code = 0 /\ ~masked)
    BY <1>1, <1>15 DEF SetFile, SshIInv, SshTypeOK
  <2>4. QED
    BY <1>1, <2>1, <2>2, <2>3 DEF SshIInv, SetInv
<1>16. CASE SetFileFails
  BY <1>16 DEF SetFileFails, SetInv
<1>17. CASE SetRaises
  BY <1>17 DEF SetRaises, Return, SetInv
<1>18. CASE SetDone
  BY <1>18 DEF SetDone, SetInv
<1>19. CASE Crash
  BY <1>19 DEF Crash, Return, SetInv
<1>20. ASSUME NEW g \in Files, Lose(g) PROVE SetInv'
  BY <1>20 DEF Lose, SetInv
<1>21. CASE UNCHANGED sshVars
  BY <1>1, <1>21 DEF sshVars, SshIInv, SetInv, Left, call, hist
<1>22. QED
  BY <1>1, <1>2, <1>3, <1>4, <1>5, <1>6, <1>7, <1>8, <1>9, <1>10, <1>11, <1>12, <1>13, <1>14,
     <1>15, <1>16, <1>17, <1>18, <1>19, <1>20, <1>21
  DEF SshNext

(* Nothing touches an announced checkpoint but what takes it back. *)
LEMMA FaithStep == SshIInv /\ [SshNext]_sshVars => CheckpointFaithful'
<1>1. SUFFICES ASSUME SshIInv, [SshNext]_sshVars PROVE CheckpointFaithful'
  OBVIOUS
<1>2. CASE Create
  BY <1>2 DEF Create, Forget, CheckpointFaithful
<1>3. CASE CreateRefused
  BY <1>3 DEF CreateRefused, Forget, CheckpointFaithful
<1>4. CASE SaveFile
  BY <1>1, <1>4 DEF SaveFile, SshIInv, CreateInv, CheckpointFaithful, hist
<1>5. CASE SaveFails
  BY <1>1, <1>5 DEF SaveFails, SshIInv, CheckpointFaithful, hist
<1>6. CASE CreateDone
  BY <1>1, <1>6 DEF CreateDone, SshIInv, SshTypeOK, CreateInv, CheckpointFaithful, Left, Contents
<1>7. CASE CreateFails
  BY <1>1, <1>7 DEF CreateFails, SshIInv, CreateInv, CheckpointFaithful, hist
<1>8. CASE Restore
  BY <1>1, <1>8 DEF Restore, SshIInv, CheckpointFaithful, hist
<1>9. CASE RestoreFile
  BY <1>1, <1>9 DEF RestoreFile, SshIInv, CheckpointFaithful, hist
<1>10. CASE RestoreFileFails
  BY <1>1, <1>10 DEF RestoreFileFails, SshIInv, CheckpointFaithful, hist
<1>11. CASE RestoreDone
  BY <1>11 DEF RestoreDone, Forget, CheckpointFaithful
<1>12. CASE Delete
  BY <1>12 DEF Delete, Forget, CheckpointFaithful
<1>13. CASE Refuse
  BY <1>1, <1>13 DEF Refuse, SshIInv, CheckpointFaithful, hist
<1>14. CASE Set
  BY <1>1, <1>14 DEF Set, SshIInv, CheckpointFaithful
<1>15. CASE SetFile
  BY <1>1, <1>15 DEF SetFile, SshIInv, CheckpointFaithful
<1>16. CASE SetFileFails
  BY <1>1, <1>16 DEF SetFileFails, SshIInv, CheckpointFaithful, hist
<1>17. CASE SetRaises
  BY <1>1, <1>17 DEF SetRaises, SshIInv, CheckpointFaithful, hist
<1>18. CASE SetDone
  <2>1. UNCHANGED <<dir, saved, announced, original>>
    BY <1>18 DEF SetDone, hist
  <2>2. QED
    BY <1>1, <2>1 DEF SshIInv, CheckpointFaithful
<1>19. CASE Crash
  <2>1. announced' = FALSE \/ UNCHANGED <<dir, saved, announced, original>>
    BY <1>19, Zenon DEF Crash, Forget
  <2>2. QED
    BY <1>1, <2>1 DEF SshIInv, CheckpointFaithful
<1>20. ASSUME NEW g \in Files, Lose(g) PROVE CheckpointFaithful'
  BY <1>1, <1>20 DEF Lose, SshIInv, CheckpointFaithful, hist
<1>21. CASE UNCHANGED sshVars
  BY <1>1, <1>21 DEF sshVars, SshIInv, CheckpointFaithful, hist
<1>22. QED
  BY <1>1, <1>2, <1>3, <1>4, <1>5, <1>6, <1>7, <1>8, <1>9, <1>10, <1>11, <1>12, <1>13, <1>14,
     <1>15, <1>16, <1>17, <1>18, <1>19, <1>20, <1>21
  DEF SshNext

(* A set answers when all its files are set. *)
LEMMA ReportStep == SshIInv /\ [SshNext]_sshVars => SetReported'
<1>1. SUFFICES ASSUME SshIInv, [SshNext]_sshVars PROVE SetReported'
  OBVIOUS
<1>2. CASE Create
  BY <1>2 DEF Create, Begin, SetReported
<1>3. CASE CreateRefused
  BY <1>3 DEF CreateRefused, Return, SetReported
<1>4. CASE SaveFile
  BY <1>4 DEF SaveFile, SetReported
<1>5. CASE SaveFails
  BY <1>5 DEF SaveFails, SetReported
<1>6. CASE CreateDone
  BY <1>6 DEF CreateDone, Return, SetReported, Nothing
<1>7. CASE CreateFails
  BY <1>7 DEF CreateFails, Return, SetReported
<1>8. CASE Restore
  BY <1>8 DEF Restore, Begin, SetReported
<1>9. CASE RestoreFile
  BY <1>9 DEF RestoreFile, SetReported
<1>10. CASE RestoreFileFails
  BY <1>10 DEF RestoreFileFails, SetReported
<1>11. CASE RestoreDone
  BY <1>11 DEF RestoreDone, Return, SetReported, Nothing
<1>12. CASE Delete
  BY <1>12 DEF Delete, Return, SetReported, Nothing
<1>13. CASE Refuse
  BY <1>13 DEF Refuse, Return, SetReported
<1>14. CASE Set
  BY <1>14 DEF Set, Begin, SetReported
<1>15. CASE SetFile
  BY <1>15 DEF SetFile, SetReported
<1>16. CASE SetFileFails
  BY <1>16 DEF SetFileFails, SetReported
<1>17. CASE SetRaises
  BY <1>17 DEF SetRaises, Return, SetReported
<1>18. CASE SetDone
  BY <1>1, <1>18 DEF SetDone, SshIInv, SetInv, SetReported, Left, hist
<1>19. CASE Crash
  BY <1>19 DEF Crash, Return, SetReported
<1>20. ASSUME NEW g \in Files, Lose(g) PROVE SetReported'
  BY <1>20 DEF Lose, SetReported
<1>21. CASE UNCHANGED sshVars
  BY <1>1, <1>21 DEF sshVars, SshIInv, SetReported, call, hist
<1>22. QED
  BY <1>1, <1>2, <1>3, <1>4, <1>5, <1>6, <1>7, <1>8, <1>9, <1>10, <1>11, <1>12, <1>13, <1>14,
     <1>15, <1>16, <1>17, <1>18, <1>19, <1>20, <1>21
  DEF SshNext

(* SshIInv is inductive: what a method has visited is in its place, if nothing has failed.     *)
THEOREM SshInvariant == SshSpec => []SshIInv
<1>1. SshInit => SshIInv
  <2>1. SshInit => SshTypeOK
    <3>1. <<>> \in Seq(Files) /\ 0 \in Nat
      OBVIOUS
    <3>2. QED
      BY <3>1, NoContents DEF SshInit, SshTypeOK
  <2>2. SshInit => CallInv /\ CreateInv /\ RestoreInv /\ SetInv
    BY DEF SshInit, CallInv, CreateInv, RestoreInv, SetInv
  <2>3. SshInit => CheckpointFaithful /\ SetReported
    BY DEF SshInit, CheckpointFaithful, SetReported
  <2>4. QED
    BY <2>1, <2>2, <2>3 DEF SshIInv
<1>2. SshIInv /\ [SshNext]_sshVars => SshIInv'
  BY SshTypeStep, CallStep, CreateStep, RestoreStep, SetStep, FaithStep, ReportStep DEF SshIInv
<1>3. QED
  BY <1>1, <1>2, PTL DEF SshSpec

(* The state of the service is typed.                                                      *)
THEOREM SshTypeCorrect == SshSpec => []SshTypeOK
<1>1. SshIInv => SshTypeOK
  BY DEF SshIInv
<1>2. QED
  BY <1>1, SshInvariant, PTL

(* An announced checkpoint is there and holds the files of its time, through every later   *)
(* call, failure and crash (create_checkpoint, ssh_mgmt.py:112-145).                        *)
THEOREM CheckpointHolds == SshSpec => []CheckpointFaithful
<1>1. SshIInv => CheckpointFaithful
  BY DEF SshIInv
<1>2. QED
  BY <1>1, SshInvariant, PTL

(* A set that reports success has set what it was asked for, unless the code of a failed   *)
(* copy was overwritten (ssh_mgmt.py:226, 252, 279).                                       *)
THEOREM SetHolds == SshSpec => []SetReported
<1>1. SshIInv => SetReported
  BY DEF SshIInv
<1>2. QED
  BY <1>1, SshInvariant, PTL

(* Only a restore that has put back all files of the checkpoint answers "ok".              *)
LEMMA RestoreReports ==
  SshIInv /\ [SshNext]_sshVars =>
    [(method = "restore" /\ announced /\ reply' = "ok")
         => \A f \in Files : original[f] # Absent => live'[f] = original[f]]_sshVars
<1>1. SUFFICES ASSUME SshIInv, [SshNext]_sshVars, method = "restore", announced, reply' = "ok"
               PROVE  \A f \in Files : original[f] # Absent => live'[f] = original[f]
  OBVIOUS
<1>2. CASE RestoreDone
  <2>1. todo = <<>> /\ code = 0 /\ live' = live
    BY <1>1, <1>2, Zenon DEF RestoreDone, Return
  <2>2. Left = {}
    BY <2>1 DEF Left
  <2>3. saved = original
    BY <1>1 DEF SshIInv, CheckpointFaithful
  <2>4. QED
    BY <1>1, <2>1, <2>2, <2>3 DEF SshIInv, RestoreInv
<1>3. CASE ~RestoreDone
  <2>1. reply = "none"
    BY <1>1 DEF SshIInv, CallInv
  <2>2. reply' # "ok"
    BY <1>1, <1>3, <2>1
    DEF SshNext, sshVars, call, Create, CreateRefused, SaveFile, SaveFails, CreateDone,
        CreateFails, Restore, RestoreFile, RestoreFileFails, Delete, Refuse, Set, SetFile,
        SetFileFails, SetRaises, SetDone, Crash, Lose, Called, Return
  <2>3. QED
    BY <1>1, <2>2
<1>4. QED
  BY <1>2, <1>3

(* A restore_checkpoint that reports success has put back every file of an announced       *)
(* checkpoint (ssh_mgmt.py:149-188).                                                       *)
THEOREM RestoreHolds == SshSpec => RestoreRestores
<1>1. QED
  BY SshInvariant, RestoreReports, PTL DEF SshSpec, RestoreRestores
-----------------------------------------------------------------------------
(* The console accounts.                                                   *)

\* The line that was made for an account carries its name, or one its name begins with.
Kin == {l \in Console!Lines : \A u \in Users : l[u][1] = u \/ <<l[u][1], u>> \in Prefixes}

\* What set has read.
Setting == cstep \in {"write", "fill", "move"}

\* Each file holds lines of this kind, is torn or absent; a torn one comes from an unannounced
\* checkpoint that was restored, or is being written.
LinesInv ==
    /\ shadow \in Kin \cup {Torn}
    /\ {checkpoint, temp, buffer, kept} \subseteq Kin \cup {Absent, Torn}
    /\ cstep # "none" => buffer # Absent
    /\ cstep = "move" => temp = buffer

\* Torn lines are read from a torn file only.
TornInv ==
    /\ Torn \in {shadow, buffer, kept} => unannounced
    /\ kept \in {Absent, checkpoint}

\* What set is about to write differs from the file in the accounts it was asked for, and those
\* their names begin.
OthersInv ==
    Setting /\ ~overtaken /\ shadow # Torn
        => /\ buffer # Torn
           /\ \A u \in Users \ asked :
                 (\A a \in asked : <<a, u>> \notin Prefixes) => buffer[u] = shadow[u]

ConsoleIInv == Console!TypeOK /\ LinesInv /\ TornInv /\ OthersInv

\* What neither holds lines nor is a flag has its type, and so have the flags.
CallsType ==
    /\ cstep \in {"none", "create", "write", "fill", "move"}
    /\ asked \in SUBSET Users
    /\ canswer \in {"none", "ok", "error"}
    /\ consoleCalls \in Nat
    /\ consoleFaults \in Nat

FlagsType == unannounced \in BOOLEAN /\ overtaken \in BOOLEAN

\* Lines of this kind are lines, and a file that is absent or torn has none.
LEMMA KinLines ==
    Kin \subseteq Console!Lines /\ Absent \notin Kin /\ Torn \notin Kin /\ Absent # Torn
  BY HostAssumption DEF Kin, Console!Lines, HostAssumption

\* The types, put together.
LEMMA ConsoleTypeParts ==
    LinesInv /\ CallsType /\ FlagsType => Console!TypeOK
  BY KinLines DEF LinesInv, CallsType, FlagsType, Console!TypeOK

\* A name that begins the name in an account's line begins the account's name, so that a set
\* leaves the other accounts' lines alone.
LEMMA UpdatedLines ==
    ASSUME NEW l \in Kin, NEW u \in Users, NEW hash \in Hashes
    PROVE  /\ Console!Updated(l, u, hash) \in Kin
           /\ \A v \in Users \ {u} :
                 <<u, v>> \notin Prefixes => Console!Updated(l, u, hash)[v] = l[v]
<1> DEFINE new == [v \in Users |-> IF Console!Matches(l[v], u) THEN <<u, hash>> ELSE l[v]]
<1>1. Console!Updated(l, u, hash) = new
  BY KinLines DEF Console!Updated
<1>2. \A v \in Users : l[v] \in Users \X Hashes /\ l[v][1] \in Users
  BY DEF Kin, Console!Lines
<1>3. \A v \in Users : Console!Matches(l[v], u) => u = v \/ <<u, v>> \in Prefixes
  <2> SUFFICES ASSUME NEW v \in Users, Console!Matches(l[v], u)
               PROVE  u = v \/ <<u, v>> \in Prefixes
    OBVIOUS
  <2>1. l[v][1] = u \/ <<u, l[v][1]>> \in Prefixes
    BY DEF Console!Matches
  <2>2. l[v][1] = v \/ <<l[v][1], v>> \in Prefixes
    BY DEF Kin
  <2>3. \A x \in Users : <<u, x>> \in Prefixes /\ <<x, v>> \in Prefixes => <<u, v>> \in Prefixes
    BY HostAssumption DEF HostAssumption
  <2> QED
    BY <1>2, <2>1, <2>2, <2>3
<1>4. new \in Console!Lines
  BY <1>2 DEF Console!Lines
<1>5. \A v \in Users : new[v][1] = v \/ <<new[v][1], v>> \in Prefixes
  <2> SUFFICES ASSUME NEW v \in Users PROVE new[v][1] = v \/ <<new[v][1], v>> \in Prefixes
    OBVIOUS
  <2>1. CASE Console!Matches(l[v], u)
    <3>1. new[v] = <<u, hash>>
      BY <2>1
    <3> QED
      BY <1>3, <2>1, <3>1
  <2>2. CASE ~Console!Matches(l[v], u)
    <3>1. new[v] = l[v]
      BY <2>2
    <3> QED
      BY <3>1 DEF Kin
  <2> QED
    BY <2>1, <2>2
<1>6. new \in Kin
  BY <1>4, <1>5 DEF Kin
<1>7. \A v \in Users \ {u} : <<u, v>> \notin Prefixes => new[v] = l[v]
  BY <1>3
<1> HIDE DEF new
<1> QED
  BY <1>1, <1>6, <1>7

\* A password changes, the names stay.
LEMMA ChangedLines ==
    ASSUME NEW l \in Kin, NEW u \in Users, NEW hash \in Hashes
    PROVE  [l EXCEPT ![u] = <<@[1], hash>>] \in Kin
<1> DEFINE new == [l EXCEPT ![u] = <<@[1], hash>>]
<1>1. \A v \in Users : l[v] \in Users \X Hashes /\ l[v][1] \in Users
  BY DEF Kin, Console!Lines
<1>2. l \in [Users -> Users \X Hashes]
  BY DEF Kin, Console!Lines
<1>3. new \in [Users -> Users \X Hashes]
  BY <1>1, <1>2
<1>4. \A v \in Users : new[v][1] = l[v][1]
  BY <1>2
<1> HIDE DEF new
<1>5. new \in Kin
  BY <1>3, <1>4 DEF Kin, Console!Lines
<1> QED
  BY <1>5 DEF new

\* The steps of a method keep the types.
LEMMA CallsStep == ConsoleIInv /\ [Console!Next]_Console!consoleVars => CallsType'
<1> SUFFICES ASSUME ConsoleIInv, [Console!Next]_Console!consoleVars PROVE CallsType'
  OBVIOUS
<1> USE DEF CallsType
<1> USE DEF Console!Return, Console!files, Console!chist
<1>0. CallsType
  BY DEF ConsoleIInv, Console!TypeOK, CallsType, FlagsType
<1>1. /\ Console!Called => consoleCalls' \in Nat
      /\ Console!Fault => consoleFaults' \in Nat
  BY <1>0 DEF Console!Called, Console!Fault
<1>3. CASE Console!Create
  BY <1>0, <1>1, <1>3 DEF Console!Create
<1>4. CASE Console!CreateDone
  BY <1>0, <1>1, <1>4 DEF Console!CreateDone
<1>5. CASE Console!CreateFails
  BY <1>0, <1>1, <1>5 DEF Console!CreateFails
<1>6. CASE Console!Restore
  BY <1>0, <1>1, <1>6 DEF Console!Restore
<1>7. CASE Console!RestoreFails
  BY <1>0, <1>1, <1>7 DEF Console!RestoreFails
<1>8. CASE Console!Delete
  BY <1>0, <1>1, <1>8 DEF Console!Delete
<1>9. CASE Console!Refuse
  BY <1>0, <1>1, <1>9 DEF Console!Refuse
<1>10. ASSUME NEW u \in Users, NEW hash \in Hashes, Console!Set(u, hash) PROVE CallsType'
  BY <1>0, <1>1, <1>10 DEF Console!Set
<1>11. ASSUME NEW u \in Users, NEW hash \in Hashes, Console!SetMore(u, hash) PROVE CallsType'
  BY <1>0, <1>1, <1>11 DEF Console!SetMore
<1>12. ASSUME NEW u \in Users, NEW hash \in Hashes, Console!Passwd(u, hash) PROVE CallsType'
  BY <1>0, <1>1, <1>12 DEF Console!Passwd
<1>13. CASE Console!WriteTemp
  BY <1>0, <1>1, <1>13 DEF Console!WriteTemp
<1>14. CASE Console!FillTemp
  BY <1>0, <1>1, <1>14 DEF Console!FillTemp
<1>15. CASE Console!MoveTemp
  BY <1>0, <1>1, <1>15 DEF Console!MoveTemp
<1>16. CASE Console!SetFails
  BY <1>0, <1>1, <1>16 DEF Console!SetFails
<1>17. CASE Console!Crash
  BY <1>0, <1>1, <1>17 DEF Console!Crash
<1>18. CASE UNCHANGED Console!consoleVars
  BY <1>0, <1>18 DEF Console!consoleVars
<1> QED
  BY <1>3, <1>4, <1>5, <1>6, <1>7, <1>8, <1>9, <1>10, <1>11, <1>12, <1>13, <1>14, <1>15,
     <1>16, <1>17, <1>18
  DEF Console!Next

\* So do those of other programs.
LEMMA FlagsStep == ConsoleIInv /\ [Console!Next]_Console!consoleVars => FlagsType'
<1> SUFFICES ASSUME ConsoleIInv, [Console!Next]_Console!consoleVars PROVE FlagsType'
  OBVIOUS
<1> USE DEF FlagsType
<1> USE DEF Console!Return, Console!files, Console!chist
<1>0. FlagsType
  BY DEF ConsoleIInv, Console!TypeOK, CallsType, FlagsType
<1>1. Console!Called => cstep = "none"
  BY DEF Console!Called
<1>2. Absent \notin Kin /\ Torn \notin Kin /\ Absent # Torn
  BY KinLines
<1>3. CASE Console!Create
  BY <1>0, <1>1, <1>2, <1>3 DEF Console!Create
<1>4. CASE Console!CreateDone
  BY <1>0, <1>1, <1>2, <1>4 DEF Console!CreateDone
<1>5. CASE Console!CreateFails
  BY <1>0, <1>1, <1>2, <1>5 DEF Console!CreateFails
<1>6. CASE Console!Restore
  BY <1>0, <1>1, <1>2, <1>6 DEF Console!Restore
<1>7. CASE Console!RestoreFails
  BY <1>0, <1>1, <1>2, <1>7 DEF Console!RestoreFails
<1>8. CASE Console!Delete
  BY <1>0, <1>1, <1>2, <1>8 DEF Console!Delete
<1>9. CASE Console!Refuse
  BY <1>0, <1>1, <1>2, <1>9 DEF Console!Refuse
<1>10. ASSUME NEW u \in Users, NEW hash \in Hashes, Console!Set(u, hash) PROVE FlagsType'
  BY <1>0, <1>1, <1>2, <1>10 DEF Console!Set
<1>11. ASSUME NEW u \in Users, NEW hash \in Hashes, Console!SetMore(u, hash) PROVE FlagsType'
  BY <1>0, <1>1, <1>2, <1>11 DEF Console!SetMore
<1>12. ASSUME NEW u \in Users, NEW hash \in Hashes, Console!Passwd(u, hash) PROVE FlagsType'
  BY <1>0, <1>1, <1>2, <1>12 DEF Console!Passwd
<1>13. CASE Console!WriteTemp
  BY <1>0, <1>1, <1>2, <1>13 DEF Console!WriteTemp
<1>14. CASE Console!FillTemp
  BY <1>0, <1>1, <1>2, <1>14 DEF Console!FillTemp
<1>15. CASE Console!MoveTemp
  BY <1>0, <1>1, <1>2, <1>15 DEF Console!MoveTemp
<1>16. CASE Console!SetFails
  BY <1>0, <1>1, <1>2, <1>16 DEF Console!SetFails
<1>17. CASE Console!Crash
  BY <1>0, <1>1, <1>2, <1>17 DEF Console!Crash
<1>18. CASE UNCHANGED Console!consoleVars
  BY <1>0, <1>18 DEF Console!consoleVars
<1> QED
  BY <1>3, <1>4, <1>5, <1>6, <1>7, <1>8, <1>9, <1>10, <1>11, <1>12, <1>13, <1>14, <1>15,
     <1>16, <1>17, <1>18
  DEF Console!Next

\* A torn file is one that is being written, or was restored; set works on what it has read.
LEMMA LinesStep == ConsoleIInv /\ [Console!Next]_Console!consoleVars => LinesInv'
<1> SUFFICES ASSUME ConsoleIInv, [Console!Next]_Console!consoleVars PROVE LinesInv'
  OBVIOUS
<1> USE DEF LinesInv, CallsType
<1> USE DEF Console!Return, Console!files, Console!chist
<1>0. LinesInv /\ CallsType
  BY DEF ConsoleIInv, Console!TypeOK, CallsType, FlagsType
<1>1. Console!Called => cstep = "none"
  BY DEF Console!Called
<1>2. Absent \notin Kin /\ Torn \notin Kin /\ Absent # Torn
  BY KinLines
<1>3. CASE Console!Create
  BY <1>0, <1>1, <1>2, <1>3 DEF Console!Create
<1>4. CASE Console!CreateDone
  BY <1>0, <1>1, <1>2, <1>4 DEF Console!CreateDone
<1>5. CASE Console!CreateFails
  BY <1>0, <1>1, <1>2, <1>5 DEF Console!CreateFails
<1>6. CASE Console!Restore
  BY <1>0, <1>1, <1>2, <1>6 DEF Console!Restore
<1>7. CASE Console!RestoreFails
  BY <1>0, <1>1, <1>2, <1>7 DEF Console!RestoreFails
<1>8. CASE Console!Delete
  BY <1>0, <1>1, <1>2, <1>8 DEF Console!Delete
<1>9. CASE Console!Refuse
  BY <1>0, <1>1, <1>2, <1>9 DEF Console!Refuse
<1>10. ASSUME NEW u \in Users, NEW hash \in Hashes, Console!Set(u, hash) PROVE LinesInv'
  <2>1. shadow \in Kin \cup {Torn}
    BY <1>0, <1>10 DEF Console!Set
  <2>2. shadow \in Kin => Console!Updated(shadow, u, hash) \in Kin
    BY UpdatedLines
  <2>3. shadow = Torn => Console!Updated(shadow, u, hash) = Torn
    BY DEF Console!Updated
  <2> QED
    BY <1>0, <1>1, <1>2, <1>10, <2>1, <2>2, <2>3 DEF Console!Set
<1>11. ASSUME NEW u \in Users, NEW hash \in Hashes, Console!SetMore(u, hash) PROVE LinesInv'
  <2>1. buffer \in Kin \cup {Torn}
    BY <1>0, <1>11 DEF Console!SetMore
  <2>2. buffer \in Kin => Console!Updated(buffer, u, hash) \in Kin
    BY UpdatedLines
  <2>3. buffer = Torn => Console!Updated(buffer, u, hash) = Torn
    BY DEF Console!Updated
  <2> QED
    BY <1>0, <1>1, <1>2, <1>11, <2>1, <2>2, <2>3 DEF Console!SetMore
<1>12. ASSUME NEW u \in Users, NEW hash \in Hashes, Console!Passwd(u, hash) PROVE LinesInv'
  <2>1. shadow' \in Kin
    BY <1>0, <1>12, ChangedLines DEF Console!Passwd
  <2> QED
    BY <1>0, <1>1, <1>2, <1>12, <2>1 DEF Console!Passwd
<1>13. CASE Console!WriteTemp
  BY <1>0, <1>1, <1>2, <1>13 DEF Console!WriteTemp
<1>14. CASE Console!FillTemp
  BY <1>0, <1>1, <1>2, <1>14 DEF Console!FillTemp
<1>15. CASE Console!MoveTemp
  BY <1>0, <1>1, <1>2, <1>15 DEF Console!MoveTemp
<1>16. CASE Console!SetFails
  BY <1>0, <1>1, <1>2, <1>16 DEF Console!SetFails
<1>17. CASE Console!Crash
  BY <1>0, <1>1, <1>2, <1>17 DEF Console!Crash
<1>18. CASE UNCHANGED Console!consoleVars
  BY <1>0, <1>18 DEF Console!consoleVars
<1> QED
  BY <1>3, <1>4, <1>5, <1>6, <1>7, <1>8, <1>9, <1>10, <1>11, <1>12, <1>13, <1>14, <1>15,
     <1>16, <1>17, <1>18
  DEF Console!Next

\* A checkpoint that was announced is whole if the file was.
LEMMA TornStep == ConsoleIInv /\ [Console!Next]_Console!consoleVars => TornInv'
<1> SUFFICES ASSUME ConsoleIInv, [Console!Next]_Console!consoleVars PROVE TornInv'
  OBVIOUS
<1> USE DEF TornInv, LinesInv, FlagsType
<1> USE DEF Console!Return, Console!files, Console!chist
<1>0. TornInv /\ LinesInv /\ FlagsType
  BY DEF ConsoleIInv, Console!TypeOK, CallsType, FlagsType
<1>1. Console!Called => cstep = "none"
  BY DEF Console!Called
<1>2. Absent \notin Kin /\ Torn \notin Kin /\ Absent # Torn
  BY KinLines
<1>3. CASE Console!Create
  BY <1>0, <1>1, <1>2, <1>3 DEF Console!Create
<1>4. CASE Console!CreateDone
  BY <1>0, <1>1, <1>2, <1>4 DEF Console!CreateDone
<1>5. CASE Console!CreateFails
  BY <1>0, <1>1, <1>2, <1>5 DEF Console!CreateFails
<1>6. CASE Console!Restore
  BY <1>0, <1>1, <1>2, <1>6 DEF Console!Restore
<1>7. CASE Console!RestoreFails
  BY <1>0, <1>1, <1>2, <1>7 DEF Console!RestoreFails
<1>8. CASE Console!Delete
  BY <1>0, <1>1, <1>2, <1>8 DEF Console!Delete
<1>9. CASE Console!Refuse
  BY <1>0, <1>1, <1>2, <1>9 DEF Console!Refuse
<1>10. ASSUME NEW u \in Users, NEW hash \in Hashes, Console!Set(u, hash) PROVE TornInv'
  <2>1. shadow \in Kin \cup {Torn}
    BY <1>0, <1>10 DEF Console!Set
  <2>2. shadow \in Kin => Console!Updated(shadow, u, hash) \in Kin
    BY UpdatedLines
  <2>3. shadow = Torn => Console!Updated(shadow, u, hash) = Torn
    BY DEF Console!Updated
  <2> QED
    BY <1>0, <1>1, <1>2, <1>10, <2>1, <2>2, <2>3 DEF Console!Set
<1>11. ASSUME NEW u \in Users, NEW hash \in Hashes, Console!SetMore(u, hash) PROVE TornInv'
  <2>1. buffer \in Kin \cup {Torn}
    BY <1>0, <1>11 DEF Console!SetMore
  <2>2. buffer \in Kin => Console!Updated(buffer, u, hash) \in Kin
    BY UpdatedLines
  <2>3. buffer = Torn => Console!Updated(buffer, u, hash) = Torn
    BY DEF Console!Updated
  <2> QED
    BY <1>0, <1>1, <1>2, <1>11, <2>1, <2>2, <2>3 DEF Console!SetMore
<1>12. ASSUME NEW u \in Users, NEW hash \in Hashes, Console!Passwd(u, hash) PROVE TornInv'
  <2>1. shadow' \in Kin
    BY <1>0, <1>12, ChangedLines DEF Console!Passwd, LinesInv
  <2> QED
    BY <1>0, <1>1, <1>2, <1>12, <2>1 DEF Console!Passwd
<1>13. CASE Console!WriteTemp
  BY <1>0, <1>1, <1>2, <1>13 DEF Console!WriteTemp
<1>14. CASE Console!FillTemp
  BY <1>0, <1>1, <1>2, <1>14 DEF Console!FillTemp
<1>15. CASE Console!MoveTemp
  BY <1>0, <1>1, <1>2, <1>15 DEF Console!MoveTemp
<1>16. CASE Console!SetFails
  BY <1>0, <1>1, <1>2, <1>16 DEF Console!SetFails
<1>17. CASE Console!Crash
  BY <1>0, <1>1, <1>2, <1>17 DEF Console!Crash
<1>18. CASE UNCHANGED Console!consoleVars
  BY <1>0, <1>18 DEF Console!consoleVars
<1> QED
  BY <1>3, <1>4, <1>5, <1>6, <1>7, <1>8, <1>9, <1>10, <1>11, <1>12, <1>13, <1>14, <1>15,
     <1>16, <1>17, <1>18
  DEF Console!Next

\* What set has read differs from the file once another program changes it.
LEMMA OthersStep == ConsoleIInv /\ [Console!Next]_Console!consoleVars => OthersInv'
<1> SUFFICES ASSUME ConsoleIInv, [Console!Next]_Console!consoleVars PROVE OthersInv'
  OBVIOUS
<1> USE DEF OthersInv, LinesInv, TornInv, CallsType, Setting
<1> USE DEF Console!Return, Console!files, Console!chist
<1>0. OthersInv /\ LinesInv /\ TornInv /\ CallsType
  BY DEF ConsoleIInv, Console!TypeOK, CallsType, FlagsType
<1>1. Console!Called => cstep = "none"
  BY DEF Console!Called
<1>2. Absent \notin Kin /\ Torn \notin Kin /\ Absent # Torn
  BY KinLines
<1>3. CASE Console!Create
  BY <1>0, <1>1, <1>2, <1>3 DEF Console!Create
<1>4. CASE Console!CreateDone
  BY <1>0, <1>1, <1>2, <1>4 DEF Console!CreateDone
<1>5. CASE Console!CreateFails
  BY <1>0, <1>1, <1>2, <1>5 DEF Console!CreateFails
<1>6. CASE Console!Restore
  BY <1>0, <1>1, <1>2, <1>6 DEF Console!Restore
<1>7. CASE Console!RestoreFails
  BY <1>0, <1>1, <1>2, <1>7 DEF Console!RestoreFails
<1>8. CASE Console!Delete
  BY <1>0, <1>1, <1>2, <1>8 DEF Console!Delete
<1>9. CASE Console!Refuse
  BY <1>0, <1>1, <1>2, <1>9 DEF Console!Refuse
<1>10. ASSUME NEW u \in Users, NEW hash \in Hashes, Console!Set(u, hash) PROVE OthersInv'
  <2>1. shadow \in Kin \cup {Torn}
    BY <1>0, <1>10 DEF Console!Set
  <2>2. shadow \in Kin =>
          /\ Console!Updated(shadow, u, hash) \in Kin
          /\ \A v \in Users \ {u} :
                <<u, v>> \notin Prefixes => Console!Updated(shadow, u, hash)[v] = shadow[v]
    BY UpdatedLines
  <2> QED
    BY <1>0, <1>1, <1>2, <1>10, <2>1, <2>2 DEF Console!Set
<1>11. ASSUME NEW u \in Users, NEW hash \in Hashes, Console!SetMore(u, hash) PROVE OthersInv'
  <2>1. buffer \in Kin \cup {Torn}
    BY <1>0, <1>11 DEF Console!SetMore
  <2>2. buffer \in Kin =>
          /\ Console!Updated(buffer, u, hash) \in Kin
          /\ \A v \in Users \ {u} :
                <<u, v>> \notin Prefixes => Console!Updated(buffer, u, hash)[v] = buffer[v]
    BY UpdatedLines
  <2> QED
    BY <1>0, <1>1, <1>2, <1>11, <2>1, <2>2 DEF Console!SetMore
<1>12. ASSUME NEW u \in Users, NEW hash \in Hashes, Console!Passwd(u, hash) PROVE OthersInv'
  BY <1>0, <1>1, <1>2, <1>12 DEF Console!Passwd
<1>13. CASE Console!WriteTemp
  BY <1>0, <1>1, <1>2, <1>13 DEF Console!WriteTemp
<1>14. CASE Console!FillTemp
  BY <1>0, <1>1, <1>2, <1>14 DEF Console!FillTemp
<1>15. CASE Console!MoveTemp
  BY <1>0, <1>1, <1>2, <1>15 DEF Console!MoveTemp
<1>16. CASE Console!SetFails
  BY <1>0, <1>1, <1>2, <1>16 DEF Console!SetFails
<1>17. CASE Console!Crash
  BY <1>0, <1>1, <1>2, <1>17 DEF Console!Crash
<1>18. CASE UNCHANGED Console!consoleVars
  BY <1>0, <1>18 DEF Console!consoleVars
<1> QED
  BY <1>3, <1>4, <1>5, <1>6, <1>7, <1>8, <1>9, <1>10, <1>11, <1>12, <1>13, <1>14, <1>15,
     <1>16, <1>17, <1>18
  DEF Console!Next

\* Each step of the service and of other programs keeps the invariant.
LEMMA ConsoleStepOk == ConsoleIInv /\ [Console!Next]_Console!consoleVars => ConsoleIInv'
<1> SUFFICES ASSUME ConsoleIInv, [Console!Next]_Console!consoleVars PROVE ConsoleIInv'
  OBVIOUS
<1>1. Console!TypeOK'
  BY CallsStep, FlagsStep, LinesStep, KinLines
  DEF LinesInv, CallsType, FlagsType, Console!TypeOK
<1> QED
  BY <1>1, LinesStep, TornStep, OthersStep DEF ConsoleIInv

\* The invariant holds at the start of the accounts.
LEMMA ConsoleInitially == Console!Init => ConsoleIInv
<1> SUFFICES ASSUME Console!Init PROVE ConsoleIInv
  OBVIOUS
<1>1. shadow \in Kin
  BY DEF Console!Init, Kin
<1>2. LinesInv /\ TornInv /\ OthersInv
  BY <1>1, KinLines DEF Console!Init, LinesInv, TornInv, OthersInv, Setting
<1>3. CallsType /\ FlagsType
  BY DEF Console!Init, CallsType, FlagsType
<1> QED
  BY <1>2, <1>3, ConsoleTypeParts DEF ConsoleIInv

\* The inductive invariant of the console accounts.
THEOREM ConsoleInvariant == Console!Spec => []ConsoleIInv
  BY ConsoleInitially, ConsoleStepOk, PTL DEF Console!Spec

\* Setting passwords leaves the lines of other accounts alone, but those whose names begin with
\* an account's that was asked for, and but for changes by other programs meanwhile.
THEOREM OthersKept == Console!Spec => SetKeepsOthers
<1> DEFINE Keeps ==
        cstep = "move" /\ shadow' # shadow /\ cstep' = "none" /\ ~overtaken /\ shadow # Torn
            => \A u \in Users \ asked :
                  (\A a \in asked : <<a, u>> \notin Prefixes) => shadow'[u] = shadow[u]
<1>1. ConsoleIInv /\ [Console!Next]_Console!consoleVars => [Keeps]_Console!consoleVars
  <2> SUFFICES ASSUME ConsoleIInv, Console!Next, cstep = "move", cstep' = "none", shadow' # shadow
               PROVE  Keeps
    OBVIOUS
  <2> USE DEF Console!files, Console!Called
  <2>1. CASE Console!MoveTemp
    BY <2>1 DEF Console!MoveTemp, ConsoleIInv, LinesInv, OthersInv, Setting
  <2>2. CASE Console!Create \/ Console!CreateDone \/ Console!CreateFails
    BY <2>2 DEF Console!Create, Console!CreateDone, Console!CreateFails
  <2>3. CASE Console!Restore \/ Console!RestoreFails \/ Console!Delete \/ Console!Refuse
    BY <2>3 DEF Console!Restore, Console!RestoreFails, Console!Delete, Console!Refuse
  <2>4. CASE \E u \in Users, hash \in Hashes :
                Console!Set(u, hash) \/ Console!SetMore(u, hash) \/ Console!Passwd(u, hash)
    BY <2>4 DEF Console!Set, Console!SetMore, Console!Passwd
  <2>5. CASE Console!WriteTemp \/ Console!FillTemp \/ Console!SetFails \/ Console!Crash
    BY <2>5 DEF Console!WriteTemp, Console!FillTemp, Console!SetFails, Console!Crash
  <2> QED
    BY <2>1, <2>2, <2>3, <2>4, <2>5 DEF Console!Next
<1> QED
  BY <1>1, ConsoleInvariant, PTL DEF Console!Spec, SetKeepsOthers, Console!SetKeepsOthers
-----------------------------------------------------------------------------
(* The GLOME configuration.                                                *)

\* What the files hold at each step of a method.
GlomeStepInv ==
    /\ gstep = "backup" => backup = Torn /\ before = conf /\ ~backed
    /\ gstep \in {"request", "write", "restore"} /\ backup = Torn => tainted
    /\ gstep = "restore" => backup # Absent

\* The backup is what the last push found.
BackedInv == backed => backup = before

GlomeIInv == Glome!TypeOK /\ GlomeStepInv /\ BackedInv /\ Glome!OneFileWhole

\* Each step of push_config and restore_checkpoint keeps the invariant.
LEMMA GlomeStepOk == GlomeIInv /\ [Glome!Next]_Glome!glomeVars => GlomeIInv'
<1> SUFFICES ASSUME GlomeIInv, [Glome!Next]_Glome!glomeVars PROVE GlomeIInv'
  OBVIOUS
<1> USE DEF GlomeIInv, Glome!TypeOK, GlomeStepInv, BackedInv, Glome!OneFileWhole
<1> USE DEF Glome!Return, Glome!ghist, Glome!OSErrors, Glome!Raised, Glome!NoAnswer, Glome!States
<1>1. /\ Glome!Called => gstep = "none" /\ glomeCalls' \in Nat
      /\ Glome!Fault => glomeFaults' \in Nat
  BY DEF Glome!Called, Glome!Fault
<1>2. CASE Glome!Push
  BY <1>1, <1>2, HostAssumption DEF Glome!Push, HostAssumption
<1>3. CASE Glome!PushRefused
  <2>1. PICK e \in {1, 2} : Glome!Return(e)
    BY <1>3 DEF Glome!PushRefused
  <2>2. /\ glomeCalls' \in Nat /\ glomeFaults' \in Nat
        /\ before' = conf /\ backed' = FALSE
        /\ UNCHANGED <<conf, backup, tainted>>
    BY <1>1, <1>3 DEF Glome!PushRefused
  <2>3. gstep' = "none" /\ payload' = Absent /\ ganswer' \in {1, 2}
    BY <2>1
  <2>4. Glome!TypeOK'
    <3>1. conf' \in Glome!States /\ backup' \in Glome!States /\ payload' \in Glome!States
          /\ before' \in Glome!States
      BY <2>2, <2>3
    <3>2. ganswer' \in 0..5 \cup {9}
      BY <2>3
    <3>3. backed' \in BOOLEAN /\ tainted' \in BOOLEAN
      BY <2>2
    <3> HIDE DEF Glome!States
    <3> QED
      BY <2>2, <2>3, <3>1, <3>2, <3>3
  <2>5. GlomeStepInv' /\ BackedInv' /\ Glome!OneFileWhole'
    BY <2>2, <2>3
  <2> QED
    BY <2>4, <2>5
<1>4. CASE Glome!BackupDone
  BY <1>1, <1>4 DEF Glome!BackupDone
<1>5. CASE Glome!BackupFails
  BY <1>1, <1>5 DEF Glome!BackupFails
<1>6. CASE Glome!RequestRefused
  BY <1>1, <1>6 DEF Glome!RequestRefused
<1>7. CASE Glome!Disable
  BY <1>1, <1>7, HostAssumption DEF Glome!Disable, HostAssumption
<1>8. ASSUME NEW c \in Configs, Glome!Enable(c) PROVE GlomeIInv'
  BY <1>1, <1>8 DEF Glome!Enable
<1>9. CASE Glome!WriteDone
  BY <1>1, <1>9 DEF Glome!WriteDone
<1>10. CASE Glome!WriteFails
  BY <1>1, <1>10 DEF Glome!WriteFails
<1>11. CASE Glome!RestoreRemoves
  BY <1>1, <1>11, HostAssumption DEF Glome!RestoreRemoves, HostAssumption
<1>12. CASE Glome!Restore
  <2>1. CASE conf' = Torn /\ gstep' = "restore"
    BY <1>1, <1>12, <2>1 DEF Glome!Restore
  <2>2. CASE conf' = conf /\ \E e \in Glome!OSErrors : Glome!Return(e)
    <3>1. PICK e \in {1, 2} : Glome!Return(e)
      BY <2>2
    <3>2. glomeFaults' \in Nat /\ tainted' \in BOOLEAN /\ (tainted => tainted')
      BY <1>1, <1>12 DEF Glome!Restore
    <3> QED
      BY <1>1, <1>12, <2>2, <3>1, <3>2 DEF Glome!Restore
  <2> QED
    BY <1>12, <2>1, <2>2 DEF Glome!Restore
<1>13. CASE Glome!RestoreDone
  BY <1>1, <1>13 DEF Glome!RestoreDone
<1>14. CASE Glome!RestoreFails
  BY <1>1, <1>14 DEF Glome!RestoreFails
<1>15. CASE Glome!Crash
  BY <1>1, <1>15 DEF Glome!Crash
<1>16. CASE UNCHANGED Glome!glomeVars
  BY <1>16 DEF Glome!glomeVars
<1> QED
  BY <1>2, <1>3, <1>4, <1>5, <1>6, <1>7, <1>8, <1>9, <1>10, <1>11, <1>12, <1>13, <1>14, <1>15,
     <1>16
  DEF Glome!Next

\* The invariant holds at the start of the configuration.
LEMMA GlomeInitially == Glome!Init => GlomeIInv
<1> SUFFICES ASSUME Glome!Init PROVE GlomeIInv
  OBVIOUS
<1>1. {conf, backup, payload, before} \subseteq Glome!States
  BY DEF Glome!Init, Glome!States
<1>2. Absent # Torn
  BY HostAssumption DEF HostAssumption
<1> QED
  BY <1>1, <1>2
  DEF Glome!Init, GlomeIInv, Glome!TypeOK, GlomeStepInv, BackedInv, Glome!OneFileWhole,
      Glome!NoAnswer, Glome!Raised

\* The inductive invariant of the GLOME service.
THEOREM GlomeInvariant == Glome!Spec => []GlomeIInv
  BY GlomeInitially, GlomeStepOk, PTL DEF Glome!Spec

\* A successful restore undoes the last push that was backed up.
THEOREM RestoreUndoes == Glome!Spec => RestoreUndoesPush
<1> DEFINE Restored ==
        (glomeCalls' # glomeCalls \/ gstep = "restore")
            /\ gstep \in {"none", "restore"} /\ ganswer' = 0 /\ backed
                => conf' = before
<1>1. GlomeIInv /\ [Glome!Next]_Glome!glomeVars => [Restored]_Glome!glomeVars
  <2> SUFFICES ASSUME GlomeIInv, Glome!Next PROVE Restored
    OBVIOUS
  <2> USE DEF GlomeIInv, GlomeStepInv, BackedInv, Glome!Return, Glome!OSErrors, Glome!NoAnswer
  <2>1. CASE Glome!RestoreRemoves
    BY <2>1 DEF Glome!RestoreRemoves
  <2>2. CASE Glome!RestoreDone
    BY <2>2 DEF Glome!RestoreDone
  <2>3. CASE Glome!Push \/ Glome!PushRefused \/ Glome!Restore
    BY <2>3 DEF Glome!Push, Glome!PushRefused, Glome!Restore
  <2>4. CASE Glome!RestoreFails \/ Glome!Crash
    BY <2>4 DEF Glome!RestoreFails, Glome!Crash
  <2>5. CASE Glome!BackupDone \/ Glome!BackupFails \/ Glome!RequestRefused \/ Glome!Disable
    BY <2>5 DEF Glome!BackupDone, Glome!BackupFails, Glome!RequestRefused, Glome!Disable
  <2>6. CASE (\E c \in Configs : Glome!Enable(c)) \/ Glome!WriteDone \/ Glome!WriteFails
    BY <2>6 DEF Glome!Enable, Glome!WriteDone, Glome!WriteFails
  <2> QED
    BY <2>1, <2>2, <2>3, <2>4, <2>5, <2>6 DEF Glome!Next
<1> QED
  BY <1>1, GlomeInvariant, PTL DEF Glome!Spec, RestoreUndoesPush, Glome!RestoreUndoesPush
-----------------------------------------------------------------------------
(* The debug artifacts.                                                    *)

Storing == istep \in {"flag", "discard", "room", "copy"}

\* The artifact a call works on is new to the clients, and whole once tar has packed it.
CurrentInv ==
    /\ offered \subseteq used
    /\ istep # "none" => current \in used \ offered
    /\ Storing \/ (istep = "tidy" /\ ~tarFailed) => archive[current] = "whole"

\* Only the call that works on it has an artifact's directory, until it is tidied.
WorkdirsInv ==
    /\ workdirs \subseteq broken \cup {current}
    /\ istep \notin {"commands", "tidy"} => workdirs \subseteq broken

\* The flag is up from the moment an artifact may be stored to the end of the boot.
StoredInv ==
    /\ secured => flag
    /\ istep \in {"discard", "room", "copy"} => flag /\ ~secured

\* What clients were told of is there.
OfferedInv == \A a \in offered : archive[a] = "whole"

InfoIInv == Info!TypeOK /\ CurrentInv /\ WorkdirsInv /\ StoredInv /\ OfferedInv

\* The type of the state, part by part.
InfoNames ==
    /\ istep \in {"none", "commands", "tidy", "flag", "discard", "room", "copy"}
    /\ current \in Artifacts \cup {NoArtifact}
    /\ workdirs \in SUBSET Artifacts
    /\ archive \in [Artifacts -> {"none", "torn", "whole"}]
    /\ used \in SUBSET Artifacts
    /\ offered \in SUBSET Artifacts
    /\ broken \in SUBSET Artifacts

InfoNumbers ==
    /\ left \in 0..ListedCommands
    /\ stray \in Nat
    /\ infoFaults \in Nat

InfoFlags ==
    /\ tarFailed \in BOOLEAN
    /\ persist \in BOOLEAN
    /\ flag \in BOOLEAN
    /\ secured \in BOOLEAN

InfoStored == stored \in [name : Artifacts \cup {NoArtifact}, whole : BOOLEAN]

\* The types, put together.
LEMMA InfoTypeParts == Info!TypeOK <=> InfoNames /\ InfoNumbers /\ InfoFlags /\ InfoStored
  BY DEF Info!TypeOK, InfoNames, InfoNumbers, InfoFlags, InfoStored

\* Each step of collect and ack keeps the types: names and files, ...
LEMMA InfoNamesStep == InfoIInv /\ [Info!Next]_Info!infoVars => InfoNames'
<1> SUFFICES ASSUME InfoIInv, [Info!Next]_Info!infoVars PROVE InfoNames'
  OBVIOUS
<1> USE DEF InfoNames, CurrentInv
<1> USE DEF Info!Idle, Info!AnswerError, Info!AnswerOk, Info!icall, Info!volatile, Info!ihist
<1>0. InfoNames /\ CurrentInv
  BY InfoTypeParts DEF InfoIInv
<1>3. ASSUME NEW a \in Artifacts, Info!Collect(a) PROVE InfoNames'
  BY <1>0, <1>3 DEF Info!Collect
<1>4. ASSUME NEW a \in Artifacts, Info!Ack(a) PROVE InfoNames'
  BY <1>0, <1>4 DEF Info!Ack
<1>5. CASE Info!Command
  BY <1>0, <1>5 DEF Info!Command
<1>6. CASE Info!CollectRaises
  BY <1>0, <1>6 DEF Info!CollectRaises
<1>7. CASE Info!Tar
  BY <1>0, <1>7 DEF Info!Tar
<1>8. CASE Info!Tidy
  BY <1>0, <1>8 DEF Info!Tidy
<1>9. CASE Info!SetFlag
  BY <1>0, <1>9 DEF Info!SetFlag
<1>10. CASE Info!Discard
  BY <1>0, <1>10 DEF Info!Discard, Info!Nothing
<1>11. CASE Info!NoRoom
  BY <1>0, <1>11 DEF Info!NoRoom
<1>12. CASE Info!StoreRaises
  BY <1>0, <1>12 DEF Info!StoreRaises
<1>13. CASE Info!Copy
  BY <1>0, <1>13 DEF Info!Copy
<1>14. CASE Info!CopyDone
  BY <1>0, <1>14 DEF Info!CopyDone
<1>15. CASE Info!CopyFails
  BY <1>0, <1>15 DEF Info!CopyFails
<1>16. CASE Info!StrayEnds
  BY <1>0, <1>16 DEF Info!StrayEnds
<1>17. CASE Info!Crash
  BY <1>0, <1>17 DEF Info!Crash
<1>18. CASE Info!Boot
  BY <1>0, <1>18 DEF Info!Boot
<1>19. CASE UNCHANGED Info!infoVars
  BY <1>0, <1>19 DEF Info!infoVars
<1> QED
  BY <1>3, <1>4, <1>5, <1>6, <1>7, <1>8, <1>9, <1>10, <1>11, <1>12, <1>13, <1>14, <1>15,
     <1>16, <1>17, <1>18, <1>19
  DEF Info!Next

\* ... numbers, ...
LEMMA InfoNumbersStep == InfoIInv /\ [Info!Next]_Info!infoVars => InfoNumbers'
<1> SUFFICES ASSUME InfoIInv, [Info!Next]_Info!infoVars PROVE InfoNumbers'
  OBVIOUS
<1> USE DEF InfoNumbers
<1> USE DEF Info!Idle, Info!AnswerError, Info!AnswerOk, Info!icall, Info!volatile, Info!ihist
<1>0. InfoNumbers
  BY InfoTypeParts DEF InfoIInv
<1>1. Info!Fault => infoFaults' \in Nat
  BY <1>0 DEF Info!Fault
<1>2. ListedCommands \in Nat
  BY HostAssumption DEF HostAssumption
<1>3. ASSUME NEW a \in Artifacts, Info!Collect(a) PROVE InfoNumbers'
  BY <1>0, <1>1, <1>2, <1>3 DEF Info!Collect
<1>4. ASSUME NEW a \in Artifacts, Info!Ack(a) PROVE InfoNumbers'
  BY <1>0, <1>1, <1>2, <1>4 DEF Info!Ack
<1>5. CASE Info!Command
  BY <1>0, <1>1, <1>2, <1>5 DEF Info!Command
<1>6. CASE Info!CollectRaises
  BY <1>0, <1>1, <1>2, <1>6 DEF Info!CollectRaises
<1>7. CASE Info!Tar
  BY <1>0, <1>1, <1>2, <1>7 DEF Info!Tar
<1>8. CASE Info!Tidy
  BY <1>0, <1>1, <1>2, <1>8 DEF Info!Tidy
<1>9. CASE Info!SetFlag
  BY <1>0, <1>1, <1>2, <1>9 DEF Info!SetFlag
<1>10. CASE Info!Discard
  BY <1>0, <1>1, <1>2, <1>10 DEF Info!Discard, Info!Nothing
<1>11. CASE Info!NoRoom
  BY <1>0, <1>1, <1>2, <1>11 DEF Info!NoRoom
<1>12. CASE Info!StoreRaises
  BY <1>0, <1>1, <1>2, <1>12 DEF Info!StoreRaises
<1>13. CASE Info!Copy
  BY <1>0, <1>1, <1>2, <1>13 DEF Info!Copy
<1>14. CASE Info!CopyDone
  BY <1>0, <1>1, <1>2, <1>14 DEF Info!CopyDone
<1>15. CASE Info!CopyFails
  BY <1>0, <1>1, <1>2, <1>15 DEF Info!CopyFails
<1>16. CASE Info!StrayEnds
  BY <1>0, <1>1, <1>2, <1>16 DEF Info!StrayEnds
<1>17. CASE Info!Crash
  BY <1>0, <1>1, <1>2, <1>17 DEF Info!Crash
<1>18. CASE Info!Boot
  BY <1>0, <1>1, <1>2, <1>18 DEF Info!Boot
<1>19. CASE UNCHANGED Info!infoVars
  BY <1>0, <1>19 DEF Info!infoVars
<1> QED
  BY <1>3, <1>4, <1>5, <1>6, <1>7, <1>8, <1>9, <1>10, <1>11, <1>12, <1>13, <1>14, <1>15,
     <1>16, <1>17, <1>18, <1>19
  DEF Info!Next

\* ... flags, ...
LEMMA InfoFlagsStep == InfoIInv /\ [Info!Next]_Info!infoVars => InfoFlags'
<1> SUFFICES ASSUME InfoIInv, [Info!Next]_Info!infoVars PROVE InfoFlags'
  OBVIOUS
<1> USE DEF InfoFlags
<1> USE DEF Info!Idle, Info!AnswerError, Info!AnswerOk, Info!icall, Info!volatile, Info!ihist
<1>0. InfoFlags
  BY InfoTypeParts DEF InfoIInv
<1>3. ASSUME NEW a \in Artifacts, Info!Collect(a) PROVE InfoFlags'
  BY <1>0, <1>3 DEF Info!Collect
<1>4. ASSUME NEW a \in Artifacts, Info!Ack(a) PROVE InfoFlags'
  BY <1>0, <1>4 DEF Info!Ack
<1>5. CASE Info!Command
  BY <1>0, <1>5 DEF Info!Command
<1>6. CASE Info!CollectRaises
  BY <1>0, <1>6 DEF Info!CollectRaises
<1>7. CASE Info!Tar
  BY <1>0, <1>7 DEF Info!Tar
<1>8. CASE Info!Tidy
  BY <1>0, <1>8 DEF Info!Tidy
<1>9. CASE Info!SetFlag
  BY <1>0, <1>9 DEF Info!SetFlag
<1>10. CASE Info!Discard
  BY <1>0, <1>10 DEF Info!Discard, Info!Nothing
<1>11. CASE Info!NoRoom
  BY <1>0, <1>11 DEF Info!NoRoom
<1>12. CASE Info!StoreRaises
  BY <1>0, <1>12 DEF Info!StoreRaises
<1>13. CASE Info!Copy
  BY <1>0, <1>13 DEF Info!Copy
<1>14. CASE Info!CopyDone
  BY <1>0, <1>14 DEF Info!CopyDone
<1>15. CASE Info!CopyFails
  BY <1>0, <1>15 DEF Info!CopyFails
<1>16. CASE Info!StrayEnds
  BY <1>0, <1>16 DEF Info!StrayEnds
<1>17. CASE Info!Crash
  BY <1>0, <1>17 DEF Info!Crash
<1>18. CASE Info!Boot
  BY <1>0, <1>18 DEF Info!Boot
<1>19. CASE UNCHANGED Info!infoVars
  BY <1>0, <1>19 DEF Info!infoVars
<1> QED
  BY <1>3, <1>4, <1>5, <1>6, <1>7, <1>8, <1>9, <1>10, <1>11, <1>12, <1>13, <1>14, <1>15,
     <1>16, <1>17, <1>18, <1>19
  DEF Info!Next

\* ... and what is stored.
LEMMA InfoStoredStep == InfoIInv /\ [Info!Next]_Info!infoVars => InfoStored'
<1> SUFFICES ASSUME InfoIInv, [Info!Next]_Info!infoVars PROVE InfoStored'
  OBVIOUS
<1> USE DEF InfoStored, InfoNames
<1> USE DEF Info!Idle, Info!AnswerError, Info!AnswerOk, Info!icall, Info!volatile, Info!ihist
<1>0. InfoStored /\ InfoNames
  BY InfoTypeParts DEF InfoIInv
<1>3. ASSUME NEW a \in Artifacts, Info!Collect(a) PROVE InfoStored'
  BY <1>0, <1>3 DEF Info!Collect
<1>4. ASSUME NEW a \in Artifacts, Info!Ack(a) PROVE InfoStored'
  BY <1>0, <1>4 DEF Info!Ack
<1>5. CASE Info!Command
  BY <1>0, <1>5 DEF Info!Command
<1>6. CASE Info!CollectRaises
  BY <1>0, <1>6 DEF Info!CollectRaises
<1>7. CASE Info!Tar
  BY <1>0, <1>7 DEF Info!Tar
<1>8. CASE Info!Tidy
  BY <1>0, <1>8 DEF Info!Tidy
<1>9. CASE Info!SetFlag
  BY <1>0, <1>9 DEF Info!SetFlag
<1>10. CASE Info!Discard
  BY <1>0, <1>10 DEF Info!Discard, Info!Nothing
<1>11. CASE Info!NoRoom
  BY <1>0, <1>11 DEF Info!NoRoom
<1>12. CASE Info!StoreRaises
  BY <1>0, <1>12 DEF Info!StoreRaises
<1>13. CASE Info!Copy
  BY <1>0, <1>13 DEF Info!Copy
<1>14. CASE Info!CopyDone
  BY <1>0, <1>14 DEF Info!CopyDone
<1>15. CASE Info!CopyFails
  BY <1>0, <1>15 DEF Info!CopyFails
<1>16. CASE Info!StrayEnds
  BY <1>0, <1>16 DEF Info!StrayEnds
<1>17. CASE Info!Crash
  BY <1>0, <1>17 DEF Info!Crash
<1>18. CASE Info!Boot
  BY <1>0, <1>18 DEF Info!Boot
<1>19. CASE UNCHANGED Info!infoVars
  BY <1>0, <1>19 DEF Info!infoVars
<1> QED
  BY <1>3, <1>4, <1>5, <1>6, <1>7, <1>8, <1>9, <1>10, <1>11, <1>12, <1>13, <1>14, <1>15,
     <1>16, <1>17, <1>18, <1>19
  DEF Info!Next

\* tar fails or makes the archive whole, and only clients' requests between two calls remove one.
LEMMA CurrentStep == InfoIInv /\ [Info!Next]_Info!infoVars => CurrentInv'
<1> SUFFICES ASSUME InfoIInv, [Info!Next]_Info!infoVars PROVE CurrentInv'
  OBVIOUS
<1> USE DEF CurrentInv, Storing, InfoNames
<1> USE DEF Info!Idle, Info!AnswerError, Info!AnswerOk, Info!icall, Info!volatile, Info!ihist
<1>0. CurrentInv /\ InfoNames
  BY InfoTypeParts DEF InfoIInv
<1>2. NoArtifact \notin Artifacts
  BY HostAssumption DEF HostAssumption
<1>3. ASSUME NEW a \in Artifacts, Info!Collect(a) PROVE CurrentInv'
  BY <1>0, <1>2, <1>3 DEF Info!Collect
<1>4. ASSUME NEW a \in Artifacts, Info!Ack(a) PROVE CurrentInv'
  BY <1>0, <1>2, <1>4 DEF Info!Ack
<1>5. CASE Info!Command
  BY <1>0, <1>2, <1>5 DEF Info!Command
<1>6. CASE Info!CollectRaises
  BY <1>0, <1>2, <1>6 DEF Info!CollectRaises
<1>7. CASE Info!Tar
  BY <1>0, <1>2, <1>7 DEF Info!Tar
<1>8. CASE Info!Tidy
  BY <1>0, <1>2, <1>8 DEF Info!Tidy
<1>9. CASE Info!SetFlag
  BY <1>0, <1>2, <1>9 DEF Info!SetFlag
<1>10. CASE Info!Discard
  BY <1>0, <1>2, <1>10 DEF Info!Discard, Info!Nothing
<1>11. CASE Info!NoRoom
  BY <1>0, <1>2, <1>11 DEF Info!NoRoom
<1>12. CASE Info!StoreRaises
  BY <1>0, <1>2, <1>12 DEF Info!StoreRaises
<1>13. CASE Info!Copy
  BY <1>0, <1>2, <1>13 DEF Info!Copy
<1>14. CASE Info!CopyDone
  BY <1>0, <1>2, <1>14 DEF Info!CopyDone
<1>15. CASE Info!CopyFails
  BY <1>0, <1>2, <1>15 DEF Info!CopyFails
<1>16. CASE Info!StrayEnds
  BY <1>0, <1>2, <1>16 DEF Info!StrayEnds
<1>17. CASE Info!Crash
  BY <1>0, <1>2, <1>17 DEF Info!Crash
<1>18. CASE Info!Boot
  BY <1>0, <1>2, <1>18 DEF Info!Boot
<1>19. CASE UNCHANGED Info!infoVars
  BY <1>0, <1>19 DEF Info!infoVars
<1> QED
  BY <1>3, <1>4, <1>5, <1>6, <1>7, <1>8, <1>9, <1>10, <1>11, <1>12, <1>13, <1>14, <1>15,
     <1>16, <1>17, <1>18, <1>19
  DEF Info!Next

\* Whatever leaves a work directory behind is recorded.
LEMMA WorkdirsStep == InfoIInv /\ [Info!Next]_Info!infoVars => WorkdirsInv'
<1> SUFFICES ASSUME InfoIInv, [Info!Next]_Info!infoVars PROVE WorkdirsInv'
  OBVIOUS
<1> USE DEF WorkdirsInv, InfoNames
<1> USE DEF Info!Idle, Info!AnswerError, Info!AnswerOk, Info!icall, Info!volatile, Info!ihist
<1>0. WorkdirsInv /\ InfoNames
  BY InfoTypeParts DEF InfoIInv
<1>3. ASSUME NEW a \in Artifacts, Info!Collect(a) PROVE WorkdirsInv'
  BY <1>0, <1>3 DEF Info!Collect
<1>4. ASSUME NEW a \in Artifacts, Info!Ack(a) PROVE WorkdirsInv'
  BY <1>0, <1>4 DEF Info!Ack
<1>5. CASE Info!Command
  BY <1>0, <1>5 DEF Info!Command
<1>6. CASE Info!CollectRaises
  BY <1>0, <1>6 DEF Info!CollectRaises
<1>7. CASE Info!Tar
  BY <1>0, <1>7 DEF Info!Tar
<1>8. CASE Info!Tidy
  BY <1>0, <1>8 DEF Info!Tidy
<1>9. CASE Info!SetFlag
  BY <1>0, <1>9 DEF Info!SetFlag
<1>10. CASE Info!Discard
  BY <1>0, <1>10 DEF Info!Discard, Info!Nothing
<1>11. CASE Info!NoRoom
  BY <1>0, <1>11 DEF Info!NoRoom
<1>12. CASE Info!StoreRaises
  BY <1>0, <1>12 DEF Info!StoreRaises
<1>13. CASE Info!Copy
  BY <1>0, <1>13 DEF Info!Copy
<1>14. CASE Info!CopyDone
  BY <1>0, <1>14 DEF Info!CopyDone
<1>15. CASE Info!CopyFails
  BY <1>0, <1>15 DEF Info!CopyFails
<1>16. CASE Info!StrayEnds
  BY <1>0, <1>16 DEF Info!StrayEnds
<1>17. CASE Info!Crash
  BY <1>0, <1>17 DEF Info!Crash
<1>18. CASE Info!Boot
  BY <1>0, <1>18 DEF Info!Boot
<1>19. CASE UNCHANGED Info!infoVars
  BY <1>0, <1>19 DEF Info!infoVars
<1> QED
  BY <1>3, <1>4, <1>5, <1>6, <1>7, <1>8, <1>9, <1>10, <1>11, <1>12, <1>13, <1>14, <1>15,
     <1>16, <1>17, <1>18, <1>19
  DEF Info!Next

\* Storing starts with the flag down and raises it.
LEMMA StoredStep == InfoIInv /\ [Info!Next]_Info!infoVars => StoredInv'
<1> SUFFICES ASSUME InfoIInv, [Info!Next]_Info!infoVars PROVE StoredInv'
  OBVIOUS
<1> USE DEF StoredInv
<1> USE DEF Info!Idle, Info!AnswerError, Info!AnswerOk, Info!icall, Info!volatile, Info!ihist
<1>0. StoredInv
  BY InfoTypeParts DEF InfoIInv
<1>3. ASSUME NEW a \in Artifacts, Info!Collect(a) PROVE StoredInv'
  BY <1>0, <1>3 DEF Info!Collect
<1>4. ASSUME NEW a \in Artifacts, Info!Ack(a) PROVE StoredInv'
  BY <1>0, <1>4 DEF Info!Ack
<1>5. CASE Info!Command
  BY <1>0, <1>5 DEF Info!Command
<1>6. CASE Info!CollectRaises
  BY <1>0, <1>6 DEF Info!CollectRaises
<1>7. CASE Info!Tar
  BY <1>0, <1>7 DEF Info!Tar
<1>8. CASE Info!Tidy
  BY <1>0, <1>8 DEF Info!Tidy
<1>9. CASE Info!SetFlag
  BY <1>0, <1>9 DEF Info!SetFlag
<1>10. CASE Info!Discard
  BY <1>0, <1>10 DEF Info!Discard, Info!Nothing
<1>11. CASE Info!NoRoom
  BY <1>0, <1>11 DEF Info!NoRoom
<1>12. CASE Info!StoreRaises
  BY <1>0, <1>12 DEF Info!StoreRaises
<1>13. CASE Info!Copy
  BY <1>0, <1>13 DEF Info!Copy
<1>14. CASE Info!CopyDone
  BY <1>0, <1>14 DEF Info!CopyDone
<1>15. CASE Info!CopyFails
  BY <1>0, <1>15 DEF Info!CopyFails
<1>16. CASE Info!StrayEnds
  BY <1>0, <1>16 DEF Info!StrayEnds
<1>17. CASE Info!Crash
  BY <1>0, <1>17 DEF Info!Crash
<1>18. CASE Info!Boot
  BY <1>0, <1>18 DEF Info!Boot
<1>19. CASE UNCHANGED Info!infoVars
  BY <1>0, <1>19 DEF Info!infoVars
<1> QED
  BY <1>3, <1>4, <1>5, <1>6, <1>7, <1>8, <1>9, <1>10, <1>11, <1>12, <1>13, <1>14, <1>15,
     <1>16, <1>17, <1>18, <1>19
  DEF Info!Next

\* A client is told of an artifact once it is whole.
LEMMA OfferedStep == InfoIInv /\ [Info!Next]_Info!infoVars => OfferedInv'
<1> SUFFICES ASSUME InfoIInv, [Info!Next]_Info!infoVars PROVE OfferedInv'
  OBVIOUS
<1> USE DEF OfferedInv, CurrentInv, Storing, InfoNames
<1> USE DEF Info!Idle, Info!AnswerError, Info!AnswerOk, Info!icall, Info!volatile, Info!ihist
<1>0. OfferedInv /\ CurrentInv /\ InfoNames
  BY InfoTypeParts DEF InfoIInv
<1>3. ASSUME NEW a \in Artifacts, Info!Collect(a) PROVE OfferedInv'
  BY <1>0, <1>3 DEF Info!Collect
<1>4. ASSUME NEW a \in Artifacts, Info!Ack(a) PROVE OfferedInv'
  BY <1>0, <1>4 DEF Info!Ack
<1>5. CASE Info!Command
  BY <1>0, <1>5 DEF Info!Command
<1>6. CASE Info!CollectRaises
  BY <1>0, <1>6 DEF Info!CollectRaises
<1>7. CASE Info!Tar
  BY <1>0, <1>7 DEF Info!Tar
<1>8. CASE Info!Tidy
  BY <1>0, <1>8 DEF Info!Tidy
<1>9. CASE Info!SetFlag
  BY <1>0, <1>9 DEF Info!SetFlag
<1>10. CASE Info!Discard
  BY <1>0, <1>10 DEF Info!Discard, Info!Nothing
<1>11. CASE Info!NoRoom
  BY <1>0, <1>11 DEF Info!NoRoom
<1>12. CASE Info!StoreRaises
  BY <1>0, <1>12 DEF Info!StoreRaises
<1>13. CASE Info!Copy
  BY <1>0, <1>13 DEF Info!Copy
<1>14. CASE Info!CopyDone
  BY <1>0, <1>14 DEF Info!CopyDone
<1>15. CASE Info!CopyFails
  BY <1>0, <1>15 DEF Info!CopyFails
<1>16. CASE Info!StrayEnds
  BY <1>0, <1>16 DEF Info!StrayEnds
<1>17. CASE Info!Crash
  BY <1>0, <1>17 DEF Info!Crash
<1>18. CASE Info!Boot
  BY <1>0, <1>18 DEF Info!Boot
<1>19. CASE UNCHANGED Info!infoVars
  BY <1>0, <1>19 DEF Info!infoVars
<1> QED
  BY <1>3, <1>4, <1>5, <1>6, <1>7, <1>8, <1>9, <1>10, <1>11, <1>12, <1>13, <1>14, <1>15,
     <1>16, <1>17, <1>18, <1>19
  DEF Info!Next

\* Each step of collect and ack keeps the invariant.
LEMMA InfoStepOk == InfoIInv /\ [Info!Next]_Info!infoVars => InfoIInv'
<1> SUFFICES ASSUME InfoIInv, [Info!Next]_Info!infoVars PROVE InfoIInv'
  OBVIOUS
<1>1. Info!TypeOK'
  BY InfoNamesStep, InfoNumbersStep, InfoFlagsStep, InfoStoredStep
  DEF Info!TypeOK, InfoNames, InfoNumbers, InfoFlags, InfoStored
<1> QED
  BY <1>1, CurrentStep, WorkdirsStep, StoredStep, OfferedStep DEF InfoIInv

\* The invariant holds at the start of the artifacts.
LEMMA InfoInitially == Info!Init => InfoIInv
<1> SUFFICES ASSUME Info!Init PROVE InfoIInv
  OBVIOUS
<1>1. InfoNames
  BY DEF Info!Init, InfoNames
<1>2. InfoNumbers
  <2>1. ListedCommands \in Nat
    BY HostAssumption DEF HostAssumption
  <2> QED
    BY <2>1 DEF Info!Init, InfoNumbers
<1>3. InfoFlags
  BY DEF Info!Init, InfoFlags
<1>4. InfoStored
  BY DEF Info!Init, InfoStored, Info!Nothing
<1>5. CurrentInv /\ WorkdirsInv /\ StoredInv /\ OfferedInv
  BY DEF Info!Init, CurrentInv, Storing, WorkdirsInv, StoredInv, OfferedInv
<1> QED
  BY <1>1, <1>2, <1>3, <1>4, <1>5, InfoTypeParts DEF InfoIInv

\* The inductive invariant of the debug artifacts.
THEOREM InfoInvariant == Info!Spec => []InfoIInv
  BY InfoInitially, InfoStepOk, PTL DEF Info!Spec

\* What was stored in this boot stays.
THEOREM StoredHolds == Info!Spec => StoredKept
<1>1. InfoIInv /\ [Info!Next]_Info!infoVars => [secured => stored' = stored]_Info!infoVars
  <2> SUFFICES ASSUME InfoIInv, Info!Next, secured PROVE stored' = stored
    OBVIOUS
  <2>1. istep \notin {"discard", "room", "copy"}
    BY DEF InfoIInv, StoredInv
  <2> USE DEF Info!volatile, Info!ihist, Info!icall
  <2>2. CASE \E a \in Artifacts : Info!Collect(a) \/ Info!Ack(a)
    BY <2>2 DEF Info!Collect, Info!Ack
  <2>3. CASE Info!Command \/ Info!CollectRaises \/ Info!Tar \/ Info!Tidy \/ Info!SetFlag
    BY <2>3 DEF Info!Command, Info!CollectRaises, Info!Tar, Info!Tidy, Info!SetFlag
  <2>4. CASE Info!StrayEnds \/ Info!Crash \/ Info!Boot
    BY <2>4 DEF Info!StrayEnds, Info!Crash, Info!Boot
  <2> QED
    BY <2>1, <2>2, <2>3, <2>4
    DEF Info!Next, Info!Discard, Info!NoRoom, Info!StoreRaises, Info!Copy, Info!CopyDone,
        Info!CopyFails
<1> QED
  BY <1>1, InfoInvariant, PTL DEF Info!Spec, StoredKept, Info!StoredKept
-----------------------------------------------------------------------------
(* The downloads.                                                          *)

\* A download has a path and something to fill it with; a file that another program has put in
\* its place is whole.
DownloadInv ==
    /\ tstep # "none" => path \in Paths /\ body \in Bodies
    /\ tstep = "receive" /\ displaced => file[path] # Part

TransferIInv == Transfer!TypeOK /\ DownloadInv /\ Transfer!LeftoversAccounted

\* Each step of a download, of a removal or of another program keeps the invariant.
LEMMA TransferStepOk == TransferIInv /\ [Transfer!Next]_Transfer!transferVars => TransferIInv'
<1> SUFFICES ASSUME TransferIInv, [Transfer!Next]_Transfer!transferVars PROVE TransferIInv'
  OBVIOUS
<1> USE DEF TransferIInv, Transfer!TypeOK, DownloadInv, Transfer!LeftoversAccounted
<1> USE DEF Transfer!Return, Transfer!thist
<1>1. /\ Transfer!Called => tstep = "none" /\ transfers' \in Nat
      /\ Transfer!Fault => transferFaults' \in Nat
  BY DEF Transfer!Called, Transfer!Fault
<1>2. NoFile # Part /\ NoFile \notin Bodies /\ Part \notin Bodies
  BY HostAssumption DEF HostAssumption
<1>3. ASSUME NEW p \in Paths, Transfer!ImageDownload(p) \/ Transfer!FileDownload(p)
      PROVE  TransferIInv'
  BY <1>1, <1>3 DEF Transfer!ImageDownload, Transfer!FileDownload, Transfer!Begin
<1>4. ASSUME NEW p \in Paths, Transfer!Remove(p) PROVE TransferIInv'
  BY <1>1, <1>2, <1>4 DEF Transfer!Remove
<1>5. ASSUME NEW p \in Paths, NEW content \in Bodies \cup {NoFile}, Transfer!Other(p, content)
      PROVE  TransferIInv'
  BY <1>1, <1>2, <1>5 DEF Transfer!Other
<1>6. CASE Transfer!ImageOpen
  BY <1>1, <1>6 DEF Transfer!ImageOpen
<1>7. CASE Transfer!ImageFilled
  BY <1>1, <1>7 DEF Transfer!ImageFilled
<1>8. CASE Transfer!ImageMove
  BY <1>1, <1>2, <1>8 DEF Transfer!ImageMove
<1>9. CASE Transfer!ImageFails
  BY <1>1, <1>9 DEF Transfer!ImageFails
<1>10. CASE Transfer!FileOpen
  BY <1>1, <1>10 DEF Transfer!FileOpen
<1>11. CASE Transfer!FileReceived
  BY <1>1, <1>2, <1>11 DEF Transfer!FileReceived
<1>12. CASE Transfer!FileFails
  BY <1>1, <1>12 DEF Transfer!FileFails
<1>13. CASE Transfer!Refuse
  BY <1>1, <1>13 DEF Transfer!Refuse
<1>14. CASE UNCHANGED Transfer!transferVars
  BY <1>14 DEF Transfer!transferVars
<1> QED
  BY <1>3, <1>4, <1>5, <1>6, <1>7, <1>8, <1>9, <1>10, <1>11, <1>12, <1>13, <1>14
  DEF Transfer!Next

\* The invariant holds at the start of the downloads.
LEMMA TransferInitially == Transfer!Init => TransferIInv
<1>1. Part # NoFile /\ Part \notin Bodies
  BY HostAssumption DEF HostAssumption
<1> SUFFICES ASSUME Transfer!Init PROVE TransferIInv
  OBVIOUS
<1>2. file \in [Paths -> Bodies \cup {NoFile, Part}] /\ \A p \in Paths : file[p] # Part
  BY <1>1 DEF Transfer!Init
<1>3. Transfer!TypeOK
  BY <1>2 DEF Transfer!Init, Transfer!TypeOK
<1>4. DownloadInv
  BY DEF Transfer!Init, DownloadInv
<1>5. Transfer!LeftoversAccounted
  BY <1>2 DEF Transfer!Init, Transfer!LeftoversAccounted
<1> QED
  BY <1>3, <1>4, <1>5 DEF TransferIInv

\* The inductive invariant of the downloads.
THEOREM TransferInvariant == Transfer!Spec => []TransferIInv
  BY TransferInitially, TransferStepOk, PTL DEF Transfer!Spec
-----------------------------------------------------------------------------
(* The services side by side.                                              *)

\* Failures and crashes leave /etc/shadow whole, and the GLOME configuration or its backup.
THEOREM FilesStayWhole == Console!Spec /\ Glome!Spec => []FilesWhole
<1>1. ConsoleIInv /\ GlomeIInv => FilesWhole
  BY DEF ConsoleIInv, TornInv, GlomeIInv, FilesWhole, Console!ShadowWhole
<1> QED
  BY <1>1, ConsoleInvariant, GlomeInvariant, PTL

\* The debug artifacts clients were told of are whole, and what downloads and collections leave
\* behind is accounted for, whatever fails.
THEOREM LeftoversHold == Info!Spec /\ Transfer!Spec => []LeftoversAccounted
<1>1. InfoIInv /\ TransferIInv => LeftoversAccounted
  BY DEF InfoIInv, WorkdirsInv, OfferedInv, TransferIInv, LeftoversAccounted,
         Info!ArtifactsAccounted
<1> QED
  BY <1>1, InfoInvariant, TransferInvariant, PTL

\* A behaviour of the server is one of each of its services.
LEMMA HostServices ==
    HostSpec => /\ Spec /\ SshSpec /\ Console!Spec
                /\ Glome!Spec /\ Info!Spec /\ Transfer!Spec
<1>1. HostInit => /\ Init /\ SshInit /\ Console!Init
                  /\ Glome!Init /\ Info!Init /\ Transfer!Init
  BY DEF HostInit
<1>2. [HostNext]_hostVars => /\ [Next]_debugVars /\ [SshNext]_sshVars
                             /\ [Console!Next]_Console!consoleVars
                             /\ [Glome!Next]_Glome!glomeVars
                             /\ [Info!Next]_Info!infoVars
                             /\ [Transfer!Next]_Transfer!transferVars
  <2> SUFFICES ASSUME [HostNext]_hostVars
               PROVE  /\ [Next]_debugVars /\ [SshNext]_sshVars
                      /\ [Console!Next]_Console!consoleVars
                      /\ [Glome!Next]_Glome!glomeVars
                      /\ [Info!Next]_Info!infoVars
                      /\ [Transfer!Next]_Transfer!transferVars
    OBVIOUS
  <2>1. /\ UNCHANGED consoleVars => UNCHANGED Console!consoleVars
        /\ UNCHANGED glomeVars => UNCHANGED Glome!glomeVars
        /\ UNCHANGED infoVars => UNCHANGED Info!infoVars
        /\ UNCHANGED transferVars => UNCHANGED Transfer!transferVars
    BY DEF consoleVars, Console!consoleVars, Console!files, Console!chist, glomeVars,
           Glome!glomeVars, Glome!ghist, infoVars, Info!infoVars, Info!icall, Info!volatile,
           Info!ihist, transferVars, Transfer!transferVars, Transfer!thist
  <2>2. CASE UNCHANGED hostVars
    BY <2>1, <2>2 DEF hostVars
  <2>3. CASE HostNext
    BY <2>1, <2>3
    DEF HostNext, DebugStep, SshStep, ConsoleStep, GlomeStep, InfoStep, TransferStep,
        DebugRests, SshRests, ConsoleRests, GlomeRests, InfoRests, TransferRests
  <2> QED
    BY <2>2, <2>3
<1> QED
  BY <1>1, <1>2, PTL
  DEF HostSpec, Spec, SshSpec, Console!Spec, Glome!Spec, Info!Spec, Transfer!Spec

\* Every variable of the six services has its type.
THEOREM HostTypeCorrect == HostSpec => []HostTypeOK
<1>1. HostInit => service \in Services
  BY DEF HostInit
<1>2. service \in Services /\ [HostNext]_hostVars => (service \in Services)'
  BY DEF HostNext, hostVars
<1>3. TypeOK /\ SshTypeOK /\ ConsoleIInv /\ GlomeIInv /\ InfoIInv /\ TransferIInv
        /\ service \in Services => HostTypeOK
  BY DEF ConsoleIInv, GlomeIInv, InfoIInv, TransferIInv, HostTypeOK
<1> QED
  BY <1>1, <1>2, <1>3, HostServices, TypeCorrect, SshTypeCorrect, ConsoleInvariant,
     GlomeInvariant, InfoInvariant, TransferInvariant, PTL
  DEF HostSpec
=============================================================================
