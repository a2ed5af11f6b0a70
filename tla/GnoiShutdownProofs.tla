------------------------- MODULE GnoiShutdownProofs -------------------------
(***************************************************************************)
(* Theorems about the gNOI shutdown daemon, for any DPUs, threads and any  *)
(* number of changes and failures: its state is typed, a DPU has one       *)
(* handler, no "down" is lost but in the ways NoDownLost names, and the    *)
(* halt flag is not left up but in the ways FlagNotLeft names.             *)
(***************************************************************************)
EXTENDS GnoiShutdown, TLAPS

\* The main loop claims a DPU before its handler exists.
SpawnInv == mpc = "spawn" => \A t \in Threads : tpc[t] # "none" => tdpu[t] # cur

\* A DPU that is down was set to down; past its reading, the main loop is about such a one.
GenInv ==
    /\ \A d \in Dpus : admin[d] = "down" => gen[d] > 0
    /\ mpc \in {"active", "spawn"} => curGen > 0

\* With no notification waiting, what the main loop has read is the latest "down".
CurrentInv ==
    mpc \in {"active", "spawn"} /\ admin[cur] = "down" /\ events[cur] = 0 =>
        /\ curGen = gen[cur]
        /\ mpc = "spawn" => served[cur] = curGen

\* No handler is left that would still take the flag down.
Unattended(d) ==
    /\ admin[d] = "down"
    /\ halt[d]
    /\ events[d] = 0
    /\ cur # d
    /\ \A t \in Threads : tdpu[t] = d => tpc[t] = "end"

FlagInv == \A d \in Dpus : Unattended(d) => late[d] \/ uncleared[d] \/ excused[d] = gen[d]

IInv == TypeOK /\ OneHandlerPerDpu /\ SpawnInv /\ GenInv

FullInv == IInv /\ CurrentInv /\ NoDownLost /\ FlagInv

(* One step keeps the types. *)
LEMMA TypeStep == IInv /\ [Next]_vars => TypeOK'
<1>1. SUFFICES ASSUME IInv, [Next]_vars PROVE TypeOK'
  OBVIOUS
<1>2. ASSUME NEW x \in Dpus, NEW status \in {"up", "down"}, SetAdmin(x, status) PROVE TypeOK'
  BY <1>1, <1>2 DEF SetAdmin, IInv, TypeOK, loop, thread
<1>3. ASSUME NEW x \in Dpus, Detach(x) PROVE TypeOK'
  BY <1>1, <1>3 DEF Detach, IInv, TypeOK, loop, thread, bounds
<1>4. ASSUME NEW x \in Dpus, Power(x) PROVE TypeOK'
  BY <1>1, <1>4 DEF Power, IInv, TypeOK, loop, thread, hist, bounds
<1>5. ASSUME NEW x \in Dpus, Receive(x) PROVE TypeOK'
  BY <1>1, <1>5, GnoiAssumption DEF Receive, IInv, TypeOK, thread, hist, bounds
<1>6. CASE ReadAdmin
  BY <1>1, <1>6 DEF ReadAdmin, IInv, TypeOK, env, thread, hist, bounds
<1>7. CASE Claim
  BY <1>1, <1>7 DEF Claim, IInv, TypeOK, env, thread, bounds
<1>8. CASE Drop
  BY <1>1, <1>8 DEF Drop, IInv, TypeOK, env, thread, bounds
<1>9. ASSUME NEW k \in Threads, Spawn(k) PROVE TypeOK'
  BY <1>1, <1>9 DEF Spawn, IInv, TypeOK, env, hist, bounds
<1>10. ASSUME NEW k \in Threads, CheckOper(k) PROVE TypeOK'
  BY <1>1, <1>10 DEF CheckOper, Goto, IInv, TypeOK, env, loop, hist
<1>11. ASSUME NEW k \in Threads, HaltSeen(k) PROVE TypeOK'
  BY <1>1, <1>11 DEF HaltSeen, Goto, IInv, TypeOK, env, loop, hist, bounds
<1>12. ASSUME NEW k \in Threads, WaitOver(k) PROVE TypeOK'
  BY <1>1, <1>12 DEF WaitOver, Goto, IInv, TypeOK, env, loop, hist, bounds
<1>13. ASSUME NEW k \in Threads, ReadConfig(k) PROVE TypeOK'
  BY <1>1, <1>13 DEF ReadConfig, Goto, IInv, TypeOK, env, loop, hist, bounds
<1>14. ASSUME NEW k \in Threads, SendReboot(k) PROVE TypeOK'
  BY <1>1, <1>14 DEF SendReboot, Goto, IInv, TypeOK, env, loop, hist, bounds
<1>15. ASSUME NEW k \in Threads, PollDone(k) PROVE TypeOK'
  BY <1>1, <1>15 DEF PollDone, Goto, IInv, TypeOK, env, loop, hist, bounds
<1>16. ASSUME NEW k \in Threads, ClearFlag(k) PROVE TypeOK'
  BY <1>1, <1>16 DEF ClearFlag, Goto, IInv, TypeOK, loop, hist, bounds
<1>17. ASSUME NEW k \in Threads, EndHandler(k) PROVE TypeOK'
  BY <1>1, <1>17 DEF EndHandler, Goto, IInv, TypeOK, env, loop, hist, bounds
<1>18. CASE Crash
  BY <1>1, <1>18 DEF Crash, IInv, TypeOK
<1>19. ASSUME NEW k \in Threads, TimeoutRaises(k) PROVE TypeOK'
  BY <1>1, <1>19 DEF TimeoutRaises, Goto, IInv, TypeOK, env, loop
<1>20. ASSUME NEW k \in Threads, ClearFails(k) PROVE TypeOK'
  BY <1>1, <1>20 DEF ClearFails, Goto, IInv, TypeOK, env, loop
<1>21. CASE UNCHANGED vars
  BY <1>1, <1>21 DEF vars, IInv, TypeOK, env, loop, thread, hist, bounds
<1>22. CASE ReadFails
  BY <1>1, <1>22 DEF ReadFails, IInv, TypeOK, env, thread
<1>23. QED
  BY <1>1, <1>2, <1>3, <1>4, <1>5, <1>6, <1>7, <1>8, <1>9, <1>10, <1>11, <1>12, <1>13, <1>14,
     <1>15, <1>16, <1>17, <1>18, <1>19, <1>20, <1>21, <1>22
  DEF Next, Environment, MainLoop, Handler, Fault

(* A DPU is claimed once, and given back by its handler. *)
LEMMA HandlerStep == IInv /\ [Next]_vars => OneHandlerPerDpu'
<1>1. SUFFICES ASSUME IInv, [Next]_vars PROVE OneHandlerPerDpu'
  OBVIOUS
<1>2. ASSUME NEW x \in Dpus, NEW status \in {"up", "down"}, SetAdmin(x, status)
      PROVE  OneHandlerPerDpu'
  BY <1>1, <1>2 DEF SetAdmin, IInv, OneHandlerPerDpu, Handlers, loop, thread
<1>3. ASSUME NEW x \in Dpus, Detach(x) PROVE OneHandlerPerDpu'
  BY <1>1, <1>3 DEF Detach, IInv, OneHandlerPerDpu, Handlers, loop, thread
<1>4. ASSUME NEW x \in Dpus, Power(x) PROVE OneHandlerPerDpu'
  BY <1>1, <1>4 DEF Power, IInv, OneHandlerPerDpu, Handlers, loop, thread
<1>5. ASSUME NEW x \in Dpus, Receive(x) PROVE OneHandlerPerDpu'
  BY <1>1, <1>5 DEF Receive, IInv, OneHandlerPerDpu, Handlers, thread
<1>6. CASE ReadAdmin
  BY <1>1, <1>6 DEF ReadAdmin, IInv, OneHandlerPerDpu, Handlers, thread
<1>7. CASE Claim
  BY <1>1, <1>7 DEF Claim, IInv, TypeOK, OneHandlerPerDpu, Handlers, thread
<1>8. CASE Drop
  BY <1>1, <1>8 DEF Drop, IInv, OneHandlerPerDpu, Handlers, thread
<1>9. ASSUME NEW k \in Threads, Spawn(k) PROVE OneHandlerPerDpu'
  BY <1>1, <1>9 DEF Spawn, IInv, TypeOK, OneHandlerPerDpu, SpawnInv, Handlers
<1>10. ASSUME NEW k \in Threads, CheckOper(k) PROVE OneHandlerPerDpu'
  BY <1>1, <1>10 DEF CheckOper, Goto, IInv, TypeOK, OneHandlerPerDpu, Handlers, loop
<1>11. ASSUME NEW k \in Threads, HaltSeen(k) PROVE OneHandlerPerDpu'
  BY <1>1, <1>11 DEF HaltSeen, Goto, IInv, OneHandlerPerDpu, Handlers, loop
<1>12. ASSUME NEW k \in Threads, WaitOver(k) PROVE OneHandlerPerDpu'
  BY <1>1, <1>12 DEF WaitOver, Goto, IInv, OneHandlerPerDpu, Handlers, loop
<1>13. ASSUME NEW k \in Threads, ReadConfig(k) PROVE OneHandlerPerDpu'
  BY <1>1, <1>13 DEF ReadConfig, Goto, IInv, TypeOK, OneHandlerPerDpu, Handlers, loop
<1>14. ASSUME NEW k \in Threads, SendReboot(k) PROVE OneHandlerPerDpu'
  BY <1>1, <1>14 DEF SendReboot, Goto, IInv, TypeOK, OneHandlerPerDpu, Handlers, loop
<1>15. ASSUME NEW k \in Threads, PollDone(k) PROVE OneHandlerPerDpu'
  BY <1>1, <1>15 DEF PollDone, Goto, IInv, OneHandlerPerDpu, Handlers, loop
<1>16. ASSUME NEW k \in Threads, ClearFlag(k) PROVE OneHandlerPerDpu'
  BY <1>1, <1>16 DEF ClearFlag, Goto, IInv, OneHandlerPerDpu, Handlers, loop
<1>17. ASSUME NEW k \in Threads, EndHandler(k) PROVE OneHandlerPerDpu'
  BY <1>1, <1>17 DEF EndHandler, Goto, IInv, TypeOK, OneHandlerPerDpu, SpawnInv, Handlers, loop
<1>18. CASE Crash
  BY <1>18 DEF Crash, OneHandlerPerDpu, Handlers
<1>19. ASSUME NEW k \in Threads, TimeoutRaises(k) PROVE OneHandlerPerDpu'
  BY <1>1, <1>19 DEF TimeoutRaises, Goto, IInv, OneHandlerPerDpu, Handlers, loop
<1>20. ASSUME NEW k \in Threads, ClearFails(k) PROVE OneHandlerPerDpu'
  BY <1>1, <1>20 DEF ClearFails, Goto, IInv, OneHandlerPerDpu, Handlers, loop
<1>21. CASE UNCHANGED vars
  BY <1>1, <1>21 DEF vars, IInv, OneHandlerPerDpu, Handlers, loop, thread
<1>22. CASE ReadFails
  BY <1>1, <1>22 DEF ReadFails, IInv, OneHandlerPerDpu, Handlers, thread
<1>23. QED
  BY <1>1, <1>2, <1>3, <1>4, <1>5, <1>6, <1>7, <1>8, <1>9, <1>10, <1>11, <1>12, <1>13, <1>14,
     <1>15, <1>16, <1>17, <1>18, <1>19, <1>20, <1>21, <1>22
  DEF Next, Environment, MainLoop, Handler, Fault

(* A DPU that is claimed has no handler yet. *)
LEMMA SpawnStep == IInv /\ [Next]_vars => SpawnInv'
<1>1. SUFFICES ASSUME IInv, [Next]_vars PROVE SpawnInv'
  OBVIOUS
<1>2. ASSUME NEW x \in Dpus, NEW status \in {"up", "down"}, SetAdmin(x, status) PROVE SpawnInv'
  BY <1>1, <1>2 DEF SetAdmin, IInv, SpawnInv, loop, thread
<1>3. ASSUME NEW x \in Dpus, Detach(x) PROVE SpawnInv'
  BY <1>1, <1>3 DEF Detach, IInv, SpawnInv, loop, thread
<1>4. ASSUME NEW x \in Dpus, Power(x) PROVE SpawnInv'
  BY <1>1, <1>4 DEF Power, IInv, SpawnInv, loop, thread
<1>5. ASSUME NEW x \in Dpus, Receive(x) PROVE SpawnInv'
  BY <1>5 DEF Receive, SpawnInv
<1>6. CASE ReadAdmin
  BY <1>6 DEF ReadAdmin, SpawnInv
<1>7. CASE Claim
  BY <1>1, <1>7 DEF Claim, IInv, TypeOK, OneHandlerPerDpu, SpawnInv, Handlers, thread
<1>8. CASE Drop
  BY <1>8 DEF Drop, SpawnInv
<1>9. ASSUME NEW k \in Threads, Spawn(k) PROVE SpawnInv'
  BY <1>9 DEF Spawn, SpawnInv
<1>10. ASSUME NEW k \in Threads, CheckOper(k) PROVE SpawnInv'
  BY <1>1, <1>10 DEF CheckOper, IInv, TypeOK, SpawnInv, loop
<1>11. ASSUME NEW k \in Threads, HaltSeen(k) PROVE SpawnInv'
  BY <1>1, <1>11 DEF HaltSeen, Goto, IInv, SpawnInv, loop
<1>12. ASSUME NEW k \in Threads, WaitOver(k) PROVE SpawnInv'
  BY <1>1, <1>12 DEF WaitOver, Goto, IInv, SpawnInv, loop
<1>13. ASSUME NEW k \in Threads, ReadConfig(k) PROVE SpawnInv'
  BY <1>1, <1>13 DEF ReadConfig, IInv, TypeOK, SpawnInv, loop
<1>14. ASSUME NEW k \in Threads, SendReboot(k) PROVE SpawnInv'
  BY <1>1, <1>14 DEF SendReboot, IInv, TypeOK, SpawnInv, loop
<1>15. ASSUME NEW k \in Threads, PollDone(k) PROVE SpawnInv'
  BY <1>1, <1>15 DEF PollDone, Goto, IInv, SpawnInv, loop
<1>16. ASSUME NEW k \in Threads, ClearFlag(k) PROVE SpawnInv'
  BY <1>1, <1>16 DEF ClearFlag, Goto, IInv, SpawnInv, loop
<1>17. ASSUME NEW k \in Threads, EndHandler(k) PROVE SpawnInv'
  BY <1>1, <1>17 DEF EndHandler, IInv, TypeOK, SpawnInv, loop
<1>18. CASE Crash
  BY <1>18 DEF Crash, SpawnInv
<1>19. ASSUME NEW k \in Threads, TimeoutRaises(k) PROVE SpawnInv'
  BY <1>1, <1>19 DEF TimeoutRaises, Goto, IInv, SpawnInv, loop
<1>20. ASSUME NEW k \in Threads, ClearFails(k) PROVE SpawnInv'
  BY <1>1, <1>20 DEF ClearFails, Goto, IInv, SpawnInv, loop
<1>21. CASE UNCHANGED vars
  BY <1>1, <1>21 DEF vars, IInv, SpawnInv, loop, thread
<1>22. CASE ReadFails
  BY <1>22 DEF ReadFails, SpawnInv
<1>23. QED
  BY <1>1, <1>2, <1>3, <1>4, <1>5, <1>6, <1>7, <1>8, <1>9, <1>10, <1>11, <1>12, <1>13, <1>14,
     <1>15, <1>16, <1>17, <1>18, <1>19, <1>20, <1>21, <1>22
  DEF Next, Environment, MainLoop, Handler, Fault

(* Downs are counted. *)
LEMMA GenStep == IInv /\ [Next]_vars => GenInv'
<1>1. SUFFICES ASSUME IInv, [Next]_vars PROVE GenInv'
  OBVIOUS
<1>2. ASSUME NEW x \in Dpus, NEW status \in {"up", "down"}, SetAdmin(x, status) PROVE GenInv'
  BY <1>1, <1>2 DEF SetAdmin, IInv, TypeOK, GenInv, loop
<1>3. ASSUME NEW x \in Dpus, Detach(x) PROVE GenInv'
  BY <1>1, <1>3 DEF Detach, IInv, GenInv, loop
<1>4. ASSUME NEW x \in Dpus, Power(x) PROVE GenInv'
  BY <1>1, <1>4 DEF Power, IInv, GenInv, loop, hist
<1>5. ASSUME NEW x \in Dpus, Receive(x) PROVE GenInv'
  BY <1>1, <1>5 DEF Receive, IInv, GenInv, hist
<1>6. CASE ReadAdmin
  BY <1>1, <1>6 DEF ReadAdmin, IInv, TypeOK, GenInv, env, hist
<1>7. CASE Claim
  BY <1>1, <1>7 DEF Claim, IInv, GenInv, env
<1>8. CASE Drop
  BY <1>1, <1>8 DEF Drop, IInv, GenInv, env
<1>9. ASSUME NEW k \in Threads, Spawn(k) PROVE GenInv'
  BY <1>1, <1>9 DEF Spawn, IInv, GenInv, env, hist
<1>10. ASSUME NEW k \in Threads, CheckOper(k) PROVE GenInv'
  BY <1>1, <1>10 DEF CheckOper, IInv, GenInv, env, loop, hist
<1>11. ASSUME NEW k \in Threads, HaltSeen(k) PROVE GenInv'
  BY <1>1, <1>11 DEF HaltSeen, IInv, GenInv, env, loop, hist
<1>12. ASSUME NEW k \in Threads, WaitOver(k) PROVE GenInv'
  BY <1>1, <1>12 DEF WaitOver, IInv, GenInv, env, loop, hist
<1>13. ASSUME NEW k \in Threads, ReadConfig(k) PROVE GenInv'
  BY <1>1, <1>13 DEF ReadConfig, IInv, GenInv, env, loop, hist
<1>14. ASSUME NEW k \in Threads, SendReboot(k) PROVE GenInv'
  BY <1>1, <1>14 DEF SendReboot, IInv, GenInv, env, loop, hist
<1>15. ASSUME NEW k \in Threads, PollDone(k) PROVE GenInv'
  BY <1>1, <1>15 DEF PollDone, IInv, GenInv, env, loop, hist
<1>16. ASSUME NEW k \in Threads, ClearFlag(k) PROVE GenInv'
  BY <1>1, <1>16 DEF ClearFlag, IInv, GenInv, loop, hist
<1>17. ASSUME NEW k \in Threads, EndHandler(k) PROVE GenInv'
  BY <1>1, <1>17 DEF EndHandler, IInv, GenInv, env, loop, hist
<1>18. CASE Crash
  BY <1>1, <1>18 DEF Crash, IInv, GenInv
<1>19. ASSUME NEW k \in Threads, TimeoutRaises(k) PROVE GenInv'
  BY <1>1, <1>19 DEF TimeoutRaises, IInv, GenInv, env, loop
<1>20. ASSUME NEW k \in Threads, ClearFails(k) PROVE GenInv'
  BY <1>1, <1>20 DEF ClearFails, IInv, GenInv, env, loop
<1>21. CASE UNCHANGED vars
  BY <1>1, <1>21 DEF vars, IInv, GenInv, env, loop, hist
<1>22. CASE ReadFails
  BY <1>1, <1>22 DEF ReadFails, IInv, GenInv, env
<1>23. QED
  BY <1>1, <1>2, <1>3, <1>4, <1>5, <1>6, <1>7, <1>8, <1>9, <1>10, <1>11, <1>12, <1>13, <1>14,
     <1>15, <1>16, <1>17, <1>18, <1>19, <1>20, <1>21, <1>22
  DEF Next, Environment, MainLoop, Handler, Fault

(* What was read stays the latest until a notification comes. *)
LEMMA CurrentStep == FullInv /\ [Next]_vars => CurrentInv'
<1>1. SUFFICES ASSUME FullInv, [Next]_vars PROVE CurrentInv'
  OBVIOUS
<1>2. ASSUME NEW x \in Dpus, NEW status \in {"up", "down"}, SetAdmin(x, status)
      PROVE  CurrentInv'
  BY <1>1, <1>2 DEF SetAdmin, FullInv, IInv, TypeOK, CurrentInv, loop
<1>3. ASSUME NEW x \in Dpus, Detach(x) PROVE CurrentInv'
  BY <1>1, <1>3 DEF Detach, FullInv, CurrentInv, loop
<1>4. ASSUME NEW x \in Dpus, Power(x) PROVE CurrentInv'
  BY <1>1, <1>4 DEF Power, FullInv, CurrentInv, loop, hist
<1>5. ASSUME NEW x \in Dpus, Receive(x) PROVE CurrentInv'
  BY <1>5 DEF Receive, CurrentInv
<1>6. CASE ReadAdmin
  BY <1>6 DEF ReadAdmin, CurrentInv, hist
<1>7. CASE Claim
  BY <1>1, <1>7 DEF Claim, FullInv, IInv, TypeOK, CurrentInv, env
<1>8. CASE Drop
  BY <1>8 DEF Drop, CurrentInv
<1>9. ASSUME NEW k \in Threads, Spawn(k) PROVE CurrentInv'
  BY <1>9 DEF Spawn, CurrentInv
<1>10. ASSUME NEW k \in Threads, CheckOper(k) PROVE CurrentInv'
  BY <1>1, <1>10 DEF CheckOper, FullInv, CurrentInv, env, loop, hist
<1>11. ASSUME NEW k \in Threads, HaltSeen(k) PROVE CurrentInv'
  BY <1>1, <1>11 DEF HaltSeen, FullInv, CurrentInv, env, loop, hist
<1>12. ASSUME NEW k \in Threads, WaitOver(k) PROVE CurrentInv'
  BY <1>1, <1>12 DEF WaitOver, FullInv, CurrentInv, env, loop, hist
<1>13. ASSUME NEW k \in Threads, ReadConfig(k) PROVE CurrentInv'
  BY <1>1, <1>13 DEF ReadConfig, FullInv, CurrentInv, env, loop, hist
<1>14. ASSUME NEW k \in Threads, SendReboot(k) PROVE CurrentInv'
  BY <1>1, <1>14 DEF SendReboot, FullInv, CurrentInv, env, loop, hist
<1>15. ASSUME NEW k \in Threads, PollDone(k) PROVE CurrentInv'
  BY <1>1, <1>15 DEF PollDone, FullInv, CurrentInv, env, loop, hist
<1>16. ASSUME NEW k \in Threads, ClearFlag(k) PROVE CurrentInv'
  BY <1>1, <1>16 DEF ClearFlag, FullInv, CurrentInv, loop, hist
<1>17. ASSUME NEW k \in Threads, EndHandler(k) PROVE CurrentInv'
  BY <1>1, <1>17 DEF EndHandler, FullInv, CurrentInv, env, loop, hist
<1>18. CASE Crash
  BY <1>18 DEF Crash, CurrentInv
<1>19. ASSUME NEW k \in Threads, TimeoutRaises(k) PROVE CurrentInv'
  BY <1>1, <1>19 DEF TimeoutRaises, FullInv, CurrentInv, env, loop
<1>20. ASSUME NEW k \in Threads, ClearFails(k) PROVE CurrentInv'
  BY <1>1, <1>20 DEF ClearFails, FullInv, CurrentInv, env, loop
<1>21. CASE UNCHANGED vars
  BY <1>1, <1>21 DEF vars, FullInv, CurrentInv, env, loop, hist
<1>22. CASE ReadFails
  BY <1>22 DEF ReadFails, CurrentInv
<1>23. QED
  BY <1>1, <1>2, <1>3, <1>4, <1>5, <1>6, <1>7, <1>8, <1>9, <1>10, <1>11, <1>12, <1>13, <1>14,
     <1>15, <1>16, <1>17, <1>18, <1>19, <1>20, <1>21, <1>22
  DEF Next, Environment, MainLoop, Handler, Fault

(* A down is served, dropped, not read or lost in a crash. *)
LEMMA DownStep == FullInv /\ [Next]_vars => NoDownLost'
<1>1. SUFFICES ASSUME FullInv, [Next]_vars PROVE NoDownLost'
  OBVIOUS
<1>2. ASSUME NEW x \in Dpus, NEW status \in {"up", "down"}, SetAdmin(x, status)
      PROVE  NoDownLost'
  BY <1>1, <1>2 DEF SetAdmin, FullInv, IInv, TypeOK, NoDownLost, loop
<1>3. ASSUME NEW x \in Dpus, Detach(x) PROVE NoDownLost'
  BY <1>1, <1>3 DEF Detach, FullInv, NoDownLost, loop
<1>4. ASSUME NEW x \in Dpus, Power(x) PROVE NoDownLost'
  BY <1>1, <1>4 DEF Power, FullInv, NoDownLost, loop, hist
<1>5. ASSUME NEW x \in Dpus, Receive(x) PROVE NoDownLost'
  BY <1>1, <1>5, GnoiAssumption DEF Receive, FullInv, IInv, TypeOK, NoDownLost, hist
<1>6. CASE ReadAdmin
  BY <1>1, <1>6 DEF ReadAdmin, FullInv, NoDownLost, env, hist
<1>7. CASE Claim
  BY <1>1, <1>7 DEF Claim, FullInv, NoDownLost, env
<1>8. CASE Drop
  BY <1>1, <1>8 DEF Drop, FullInv, IInv, TypeOK, CurrentInv, NoDownLost, env
<1>9. ASSUME NEW k \in Threads, Spawn(k) PROVE NoDownLost'
  BY <1>1, <1>9 DEF Spawn, FullInv, CurrentInv, NoDownLost, env, hist
<1>10. ASSUME NEW k \in Threads, CheckOper(k) PROVE NoDownLost'
  BY <1>1, <1>10 DEF CheckOper, FullInv, NoDownLost, env, loop, hist
<1>11. ASSUME NEW k \in Threads, HaltSeen(k) PROVE NoDownLost'
  BY <1>1, <1>11 DEF HaltSeen, FullInv, NoDownLost, env, loop, hist
<1>12. ASSUME NEW k \in Threads, WaitOver(k) PROVE NoDownLost'
  BY <1>1, <1>12 DEF WaitOver, FullInv, NoDownLost, env, loop, hist
<1>13. ASSUME NEW k \in Threads, ReadConfig(k) PROVE NoDownLost'
  BY <1>1, <1>13 DEF ReadConfig, FullInv, NoDownLost, env, loop, hist
<1>14. ASSUME NEW k \in Threads, SendReboot(k) PROVE NoDownLost'
  BY <1>1, <1>14 DEF SendReboot, FullInv, NoDownLost, env, loop, hist
<1>15. ASSUME NEW k \in Threads, PollDone(k) PROVE NoDownLost'
  BY <1>1, <1>15 DEF PollDone, FullInv, NoDownLost, env, loop, hist
<1>16. ASSUME NEW k \in Threads, ClearFlag(k) PROVE NoDownLost'
  BY <1>1, <1>16 DEF ClearFlag, FullInv, NoDownLost, loop, hist
<1>17. ASSUME NEW k \in Threads, EndHandler(k) PROVE NoDownLost'
  BY <1>1, <1>17 DEF EndHandler, FullInv, NoDownLost, env, loop, hist
<1>18. CASE Crash
  BY <1>18 DEF Crash, NoDownLost
<1>19. ASSUME NEW k \in Threads, TimeoutRaises(k) PROVE NoDownLost'
  BY <1>1, <1>19 DEF TimeoutRaises, FullInv, NoDownLost, env, loop
<1>20. ASSUME NEW k \in Threads, ClearFails(k) PROVE NoDownLost'
  BY <1>1, <1>20 DEF ClearFails, FullInv, NoDownLost, env, loop
<1>21. CASE UNCHANGED vars
  BY <1>1, <1>21 DEF vars, FullInv, NoDownLost, env, loop, hist
<1>22. CASE ReadFails
  BY <1>1, <1>22 DEF ReadFails, FullInv, IInv, TypeOK, NoDownLost, env
<1>23. QED
  BY <1>1, <1>2, <1>3, <1>4, <1>5, <1>6, <1>7, <1>8, <1>9, <1>10, <1>11, <1>12, <1>13, <1>14,
     <1>15, <1>16, <1>17, <1>18, <1>19, <1>20, <1>21, <1>22
  DEF Next, Environment, MainLoop, Handler, Fault

(* A handler that ends has taken the flag down, or failed to. *)
LEMMA FlagStep == FullInv /\ [Next]_vars => FlagInv'
<1>1. SUFFICES ASSUME FullInv, [Next]_vars PROVE FlagInv'
  OBVIOUS
<1>2. ASSUME NEW x \in Dpus, NEW status \in {"up", "down"}, SetAdmin(x, status) PROVE FlagInv'
  BY <1>1, <1>2 DEF SetAdmin, FullInv, IInv, TypeOK, FlagInv, Unattended, loop, thread
<1>3. ASSUME NEW x \in Dpus, Detach(x) PROVE FlagInv'
  <2>1. SUFFICES ASSUME NEW d \in Dpus, Unattended(d)'
                 PROVE  late'[d] \/ uncleared'[d] \/ excused'[d] = gen'[d]
    BY DEF FlagInv
  <2>2. CASE d = x
    <3>1. late'[x] = (events[x] = 0 /\ cur # x /\ \A t \in Handlers(x) : tpc[t] = "end")
      BY <1>1, <1>3 DEF Detach, FullInv, IInv, TypeOK
    <3>2. \A t \in Handlers(x) : tpc[t] = "end"
      BY <1>3, <2>1, <2>2 DEF Detach, Unattended, Handlers, thread
    <3>3. QED
      BY <1>3, <2>1, <2>2, <3>1, <3>2 DEF Detach, Unattended, loop
  <2>3. CASE d # x
    <3>1. Unattended(d)
      BY <1>3, <2>1, <2>3 DEF Detach, Unattended, loop, thread
    <3>2. QED
      BY <1>1, <1>3, <2>3, <3>1 DEF Detach, FullInv, FlagInv
  <2>4. QED
    BY <2>2, <2>3
<1>4. ASSUME NEW x \in Dpus, Power(x) PROVE FlagInv'
  BY <1>1, <1>4 DEF Power, FullInv, FlagInv, Unattended, loop, thread, hist
<1>5. ASSUME NEW x \in Dpus, Receive(x) PROVE FlagInv'
  BY <1>1, <1>5, GnoiAssumption
  DEF Receive, FullInv, IInv, TypeOK, FlagInv, Unattended, thread, hist
<1>6. CASE ReadAdmin
  BY <1>1, <1>6 DEF ReadAdmin, FullInv, FlagInv, Unattended, env, thread, hist
<1>7. CASE Claim
  BY <1>1, <1>7 DEF Claim, FullInv, FlagInv, Unattended, env, thread
<1>8. CASE Drop
  BY <1>1, <1>8 DEF Drop, FullInv, IInv, TypeOK, CurrentInv, FlagInv, Unattended, env, thread
<1>9. ASSUME NEW k \in Threads, Spawn(k) PROVE FlagInv'
  BY <1>1, <1>9 DEF Spawn, FullInv, IInv, TypeOK, FlagInv, Unattended, env, hist
<1>10. ASSUME NEW k \in Threads, CheckOper(k) PROVE FlagInv'
  BY <1>1, <1>10
  DEF CheckOper, Goto, FullInv, IInv, TypeOK, FlagInv, Unattended, env, loop, hist
<1>11. ASSUME NEW k \in Threads, HaltSeen(k) PROVE FlagInv'
  BY <1>1, <1>11 DEF HaltSeen, Goto, FullInv, FlagInv, Unattended, env, loop, hist
<1>12. ASSUME NEW k \in Threads, WaitOver(k) PROVE FlagInv'
  BY <1>1, <1>12 DEF WaitOver, Goto, FullInv, FlagInv, Unattended, env, loop, hist
<1>13. ASSUME NEW k \in Threads, ReadConfig(k) PROVE FlagInv'
  BY <1>1, <1>13
  DEF ReadConfig, Goto, FullInv, IInv, TypeOK, FlagInv, Unattended, env, loop, hist
<1>14. ASSUME NEW k \in Threads, SendReboot(k) PROVE FlagInv'
  BY <1>1, <1>14
  DEF SendReboot, Goto, FullInv, IInv, TypeOK, FlagInv, Unattended, env, loop, hist
<1>15. ASSUME NEW k \in Threads, PollDone(k) PROVE FlagInv'
  BY <1>1, <1>15 DEF PollDone, Goto, FullInv, FlagInv, Unattended, env, loop, hist
<1>16. ASSUME NEW k \in Threads, ClearFlag(k) PROVE FlagInv'
  BY <1>1, <1>16 DEF ClearFlag, Goto, FullInv, IInv, TypeOK, FlagInv, Unattended, loop, hist
<1>17. ASSUME NEW k \in Threads, EndHandler(k) PROVE FlagInv'
  BY <1>1, <1>17 DEF EndHandler, Goto, FullInv, FlagInv, Unattended, env, loop, hist
<1>18. CASE Crash
  BY <1>1, <1>18 DEF Crash, FullInv, IInv, GenInv, FlagInv, Unattended
<1>19. ASSUME NEW k \in Threads, TimeoutRaises(k) PROVE FlagInv'
  BY <1>1, <1>19 DEF TimeoutRaises, Goto, FullInv, IInv, TypeOK, FlagInv, Unattended, env, loop
<1>20. ASSUME NEW k \in Threads, ClearFails(k) PROVE FlagInv'
  BY <1>1, <1>20 DEF ClearFails, Goto, FullInv, IInv, TypeOK, FlagInv, Unattended, env, loop
<1>21. CASE UNCHANGED vars
  BY <1>1, <1>21 DEF vars, FullInv, FlagInv, Unattended, env, loop, thread, hist
<1>22. CASE ReadFails
  BY <1>1, <1>22 DEF ReadFails, FullInv, IInv, TypeOK, FlagInv, Unattended, env, thread
<1>23. QED
  BY <1>1, <1>2, <1>3, <1>4, <1>5, <1>6, <1>7, <1>8, <1>9, <1>10, <1>11, <1>12, <1>13, <1>14,
     <1>15, <1>16, <1>17, <1>18, <1>19, <1>20, <1>21, <1>22
  DEF Next, Environment, MainLoop, Handler, Fault

(* IInv is inductive.                                                                       *)
THEOREM Inductive == Spec => []IInv
<1>1. Init => IInv
  BY DEF Init, IInv, TypeOK, OneHandlerPerDpu, Handlers, SpawnInv, GenInv
<1>2. IInv /\ [Next]_vars => IInv'
  BY TypeStep, HandlerStep, SpawnStep, GenStep DEF IInv
<1>3. QED
  BY <1>1, <1>2, PTL DEF Spec

(* The state of the daemon is typed.                                                        *)
THEOREM TypeCorrect == Spec => []TypeOK
<1>1. IInv => TypeOK
  BY DEF IInv
<1>2. QED
  BY <1>1, Inductive, PTL

(* A DPU never has two handlers and is never locked out: active_transitions is exactly the  *)
(* set of those that have one (gnoi_shutdown_daemon.py:369-396).                            *)
THEOREM OneHandlerHolds == Spec => []OneHandlerPerDpu
<1>1. IInv => OneHandlerPerDpu
  BY DEF IInv
<1>2. QED
  BY <1>1, Inductive, PTL

(* FullInv is inductive.                                                                    *)
THEOREM FullInductive == Spec => []FullInv
<1>1. Init /\ IInv => FullInv
  BY DEF Init, FullInv, CurrentInv, NoDownLost, FlagInv, Unattended
<1>2. FullInv /\ [Next]_vars /\ IInv' => FullInv'
  BY CurrentStep, DownStep, FlagStep DEF FullInv
<1>3. QED
  BY <1>1, <1>2, Inductive, PTL DEF Spec

(* The latest "down" of a DPU gets a handler, unless its notification was dropped while an  *)
(* earlier handler ran, lost in a crash, or given up because admin_status could not be read *)
(* (gnoi_shutdown_daemon.py:365-367).                                                       *)
THEOREM DownsServed == Spec => []NoDownLost
<1>1. FullInv => NoDownLost
  BY DEF FullInv
<1>2. QED
  BY <1>1, FullInductive, PTL

(* The halt flag of a DPU that is to be down is taken down by a handler under way or to     *)
(* come, with the exceptions FlagNotLeft names.                                             *)
THEOREM FlagsCleared == Spec => []FlagNotLeft
<1>1. FullInv => FlagNotLeft
  <2>1. SUFFICES ASSUME FullInv, NEW d \in Dpus, admin[d] = "down", halt[d], events[d] = 0,
                        cur # d, d \notin active
                 PROVE  late[d] \/ uncleared[d] \/ excused[d] = gen[d]
    BY DEF FlagNotLeft
  <2>2. Handlers(d) = {}
    BY <2>1 DEF FullInv, IInv, OneHandlerPerDpu
  <2>3. \A t \in Threads : tdpu[t] # d
    <3>1. SUFFICES ASSUME NEW t \in Threads, tdpu[t] = d PROVE FALSE
      OBVIOUS
    <3>2. tpc[t] # "none"
      BY <2>1, <3>1, GnoiAssumption DEF FullInv, IInv, TypeOK
    <3>3. QED
      BY <2>2, <3>1, <3>2 DEF Handlers
  <2>4. QED
    BY <2>1, <2>3 DEF FullInv, FlagInv, Unattended
<1>2. QED
  BY <1>1, FullInductive, PTL
=============================================================================
