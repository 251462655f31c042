------------------------- MODULE CloudRunShellProofs -------------------------
(***************************************************************************)
(* Theorems of the Shell.  It is one of the owners the gateway's theorems  *)
(* allow for, so they hold of the composition; what is left is the Shell's *)
(* own: the locks its handler may meet, the grace window, the exit.        *)
(***************************************************************************)
EXTENDS CloudRunShell, TransportGatewayProofs

\* The session main() works on, or a handler interrupts, is a real one.
SeenInv ==
  /\ mpc \in {"poll", "teardown"} => mseen \in Conn
  /\ \A f \in Sigterms : hsig[f] = "forward" => hseen[f] \in Conn

ShellTypeOK ==
  /\ readiness \in {"starting", "healthy", "shutting_down"}
  /\ readinessHeld \in BOOLEAN
  /\ mpc \in {"loop", "set", "setting", "lookup", "looking", "poll",
              "teardown", "stop", "join", "exit", "drain", "exited"}
  /\ mseen \in Conn \cup {NoConn}
  /\ markedHealthy \in BOOLEAN /\ startupOver \in BOOLEAN
  /\ shutdownSet \in BOOLEAN /\ graceOver \in BOOLEAN
  /\ hsig \in [Sigterms -> {"none", "set", "setting", "check", "assign", "lookup",
                            "looking", "forward", "done"}]
  /\ hseen \in [Sigterms -> Conn \cup {NoConn}]

LEMMA MainType ==
  ASSUME GatewayTypeOK, ShellTypeOK, SeenInv, Main
  PROVE  ShellTypeOK' /\ SeenInv'
<1> USE DEF GatewayTypeOK, ShellTypeOK, SeenInv, MainGoto, readyVars, clockVars, handlerVars,
            shellVars, mainVars
<1>1. CASE MainLoops         BY <1>1 DEF MainLoops
<1>2. CASE MainAcquires      BY <1>2 DEF MainAcquires
<1>3. CASE MainSets          BY <1>3 DEF MainSets
<1>4. CASE MainLocks         BY <1>4 DEF MainLocks
<1>5. CASE MainLooks         BY <1>5 DEF MainLooks
<1>6. CASE MainEndsSession   BY <1>6 DEF MainEndsSession
<1>7. CASE MainPollsAgain    BY <1>7 DEF MainPollsAgain
<1>8. CASE MainTearsDown     BY <1>8 DEF MainTearsDown
<1>9. CASE MainTornDown      BY <1>9 DEF MainTornDown
<1>10. CASE MainStops        BY <1>10 DEF MainStops
<1>11. CASE MainJoins        BY <1>11 DEF MainJoins
<1>12. CASE MainExits        BY <1>12 DEF MainExits
<1>13. CASE MainDrains       BY <1>13 DEF MainDrains
<1> QED BY <1>1, <1>2, <1>3, <1>4, <1>5, <1>6, <1>7, <1>8, <1>9, <1>10, <1>11, <1>12, <1>13
        DEF Main

LEMMA HandlerRunType ==
  ASSUME GatewayTypeOK, ShellTypeOK, SeenInv, NEW f \in Sigterms, Sigterm(f) \/ HandlerRuns(f)
  PROVE  ShellTypeOK' /\ SeenInv'
<1> USE DEF GatewayTypeOK, ShellTypeOK, SeenInv, HandlerGoto, readyVars, clockVars, mainVars
<1>1. CASE Sigterm(f)          BY <1>1 DEF Sigterm
<1>2. CASE HandlerAcquires(f)  BY <1>2 DEF HandlerAcquires
<1>3. CASE HandlerSets(f)      BY <1>3 DEF HandlerSets
<1>4. CASE HandlerChecks(f)    BY <1>4 DEF HandlerChecks
<1>5. CASE HandlerAssigns(f)   BY <1>5 DEF HandlerAssigns
<1>6. CASE HandlerLocks(f)     BY <1>6 DEF HandlerLocks
<1>7. CASE HandlerLooks(f)     BY <1>7 DEF HandlerLooks
<1>8. CASE HandlerForwards(f)  BY <1>8 DEF HandlerForwards
<1> QED BY <1>1, <1>2, <1>3, <1>4, <1>5, <1>6, <1>7, <1>8 DEF HandlerRuns

LEMMA ShellTypeStep ==
  ASSUME GatewayTypeOK, ShellTypeOK, SeenInv, [Next]_vars
  PROVE  ShellTypeOK' /\ SeenInv'
<1>1. CASE StartupElapses \/ GraceElapses
  <2>1. UNCHANGED <<readiness, readinessHeld, mpc, mseen, markedHealthy, shutdownSet, hsig, hseen>>
    BY Zenon, <1>1 DEF StartupElapses, GraceElapses, readyVars, mainVars, handlerVars
  <2>2. startupOver' \in BOOLEAN /\ graceOver' \in BOOLEAN
    BY <1>1 DEF StartupElapses, GraceElapses, ShellTypeOK
  <2>3. ShellTypeOK'
    BY Zenon, <2>1, <2>2 DEF ShellTypeOK
  <2>4. SeenInv'
    BY Zenon, <2>1 DEF SeenInv
  <2> QED BY <2>3, <2>4
<1>2. CASE UNCHANGED shellVars
  BY <1>2 DEF shellVars, readyVars, mainVars, clockVars, handlerVars, ShellTypeOK, SeenInv
<1> QED BY <1>1, <1>2, MainType, HandlerRunType DEF Next, ShellStep, Orphaned, vars

\* Every step of the Shell is a step of the open gateway or leaves it alone.
LEMMA ShellIsOwner ==
  ASSUME SeenInv, [Next]_vars
  PROVE  [GatewayNext]_gatewayVars
<1>1. ASSUME NEW f \in Sigterms, Sigterm(f) \/ HandlerRuns(f)
      PROVE  OwnerStep \/ UNCHANGED gatewayVars
  <2>1. CASE HandlerForwards(f)
    <3>1. hseen[f] \in Conn
      BY <2>1 DEF HandlerForwards, HandlerGoto, SeenInv
    <3> QED BY <2>1, <3>1 DEF HandlerForwards, OwnerStep
  <2> QED BY <1>1, <2>1
          DEF HandlerRuns, Sigterm, HandlerAcquires, HandlerSets, HandlerChecks,
              HandlerAssigns, HandlerLocks, HandlerLooks, OwnerStep
<1>2. ASSUME Main PROVE OwnerStep \/ UNCHANGED gatewayVars
  <2>1. CASE MainEndsSession
    <3>1. mseen \in Conn
      BY <2>1 DEF MainEndsSession, MainGoto, SeenInv
    <3>2. OwnerTeardown(mseen)
      BY <2>1 DEF MainEndsSession, OwnerTeardown
    <3> QED BY <3>1, <3>2 DEF OwnerStep
  <2>2. CASE MainTearsDown
    <3>1. mseen \in Conn
      BY <2>2 DEF MainTearsDown, SeenInv
    <3>2. OwnerTeardown(mseen)
      BY <2>2 DEF MainTearsDown, OwnerTeardown
    <3> QED BY <3>1, <3>2 DEF OwnerStep
  <2> QED BY <1>2, <2>1, <2>2
          DEF Main, MainLoops, MainAcquires, MainSets, MainLocks, MainLooks, MainPollsAgain,
              MainTornDown, MainStops, MainJoins, MainExits, MainDrains, OwnerStep
<1>3. ASSUME ShellStep PROVE LoopNext
  <2>1. (readiness = "healthy") \in BOOLEAN
    OBVIOUS
  <2> QED BY <1>3, <2>1 DEF ShellStep, Asks, LoopNext
<1>4. ASSUME Orphaned PROVE LoopNext
  BY <1>4 DEF Orphaned, LoopNext, GatewayStep
<1> QED BY <1>1, <1>2, <1>3, <1>4
        DEF Next, StartupElapses, GraceElapses, vars, GatewayNext

ShellInv == GatewayTypeOK /\ ShellTypeOK /\ SeenInv

LEMMA ShellInvariant == Safety => []ShellInv
<1>1. Init => ShellInv
  BY GatewayInitType DEF Init, ShellInv, ShellTypeOK, SeenInv
<1>2. ShellInv /\ [Next]_vars => ShellInv'
  BY GatewayAssumption, ShellIsOwner, GatewayTypeStep, ShellTypeStep DEF ShellInv
<1> QED BY <1>1, <1>2, PTL DEF Safety

\* Every variable of the composition keeps its type.
THEOREM TypeCorrect == Safety => []TypeOK
<1>1. ShellInv => TypeOK
  BY DEF ShellInv, ShellTypeOK, TypeOK
<1> QED BY <1>1, ShellInvariant, PTL

\* The Shell drives the gateway through its interface only.
THEOREM ShellImplementsGateway == Safety => ImplementsGateway
<1>1. Init => GatewayInit
  BY DEF Init
<1>2. ShellInv /\ [Next]_vars => [GatewayNext]_gatewayVars
  BY ShellIsOwner DEF ShellInv
<1> QED BY <1>1, <1>2, ShellInvariant, PTL DEF Safety, ImplementsGateway, GatewaySafety

\* So what the gateway promises holds under this Shell: one session at a time,
\* torn down once, and no child without somebody to end it.
THEOREM ShellKeepsGateway ==
  Safety => [](SlotConsistent /\ TeardownOnce /\ NoSilentClose /\ NoStrayChild)
BY ShellImplementsGateway, SlotAlwaysConsistent, GatewayTeardownOnce,
   GatewayLeavesNoStray, PTL DEF ImplementsGateway

-----------------------------------------------------------------------------
\* The locks.

\* The stages of a handler that cannot ask for _active_lock once the deadline is
\* set: it has not looked at shutdown_deadline yet.
Early == {"set", "setting", "check"}

\* Whoever looks the session up has found the deadline set; a run of the handler
\* that interrupts the look-up is still before its own test of the deadline.
LockInv ==
  /\ mpc \in {"lookup", "looking"} => shutdownSet
  /\ \A f \in Sigterms : hsig[f] \in {"lookup", "looking"} => shutdownSet
  /\ mpc = "looking" => \A g \in Sigterms : Running(g) => hsig[g] \in Early
  /\ \A f, g \in Sigterms :
       hsig[f] = "looking" /\ g > f /\ Running(g) => hsig[g] \in Early
  /\ activeHeld => mpc = "looking" \/ \E f \in Sigterms : hsig[f] = "looking"

LEMMA LockInvImplies ==
  ASSUME ShellTypeOK, LockInv
  PROVE  ActiveLockSafe
<1>1. ASSUME NEW f \in Sigterms, OnTop(f), hsig[f] = "lookup" PROVE ~activeHeld
  <2>1. mpc # "looking"
    BY <1>1 DEF LockInv, OnTop, Early
  <2>2. ASSUME NEW g \in Sigterms, hsig[g] = "looking" PROVE FALSE
    <3>1. g < f
      BY <1>1, <2>2 DEF OnTop, Running, Sigterms
    <3> QED BY <1>1, <2>2, <3>1 DEF LockInv, OnTop, Early
  <2> QED BY <2>1, <2>2 DEF LockInv
<1>2. ASSUME MainRuns, mpc = "lookup" PROVE ~activeHeld
  BY <1>2 DEF LockInv, MainRuns, Running
<1> QED BY <1>1, <1>2 DEF ActiveLockSafe

LEMMA LockInvStep ==
  ASSUME ShellInv, LockInv, [Next]_vars
  PROVE  LockInv'
<1> USE DEF ShellInv, ShellTypeOK, LockInv, Early, Running, Sigterms
<1>1. ASSUME NEW f \in Sigterms, Sigterm(f) PROVE LockInv'
  BY <1>1 DEF Sigterm, gatewayVars, mainVars
<1>2. ASSUME NEW f \in Sigterms, HandlerRuns(f) PROVE LockInv'
  <2> USE DEF HandlerGoto, OnTop, gatewayVars, mainVars, OwnerLocks, OwnerUnlocks
  <2>1. CASE HandlerAcquires(f)  BY <2>1 DEF HandlerAcquires
  <2>2. CASE HandlerSets(f)      BY <2>2 DEF HandlerSets
  <2>3. CASE HandlerChecks(f)    BY <2>3 DEF HandlerChecks
  <2>4. CASE HandlerAssigns(f)   BY <2>4 DEF HandlerAssigns
  <2>5. CASE HandlerLocks(f)     BY <2>5 DEF HandlerLocks
  <2>6. CASE HandlerLooks(f)     BY <2>6 DEF HandlerLooks
  <2>7. CASE HandlerForwards(f)  BY <2>7 DEF HandlerForwards, OwnerInterrupts
  <2> QED BY <1>2, <2>1, <2>2, <2>3, <2>4, <2>5, <2>6, <2>7 DEF HandlerRuns
<1>3. ASSUME Main PROVE LockInv'
  <2> USE DEF MainGoto, MainRuns, gatewayVars, handlerVars, OwnerLocks, OwnerUnlocks,
              shellVars, mainVars
  <2>1. CASE MainLoops        BY <2>1 DEF MainLoops
  <2>2. CASE MainAcquires     BY <2>2 DEF MainAcquires
  <2>3. CASE MainSets         BY <2>3 DEF MainSets
  <2>4. CASE MainLocks        BY <2>4 DEF MainLocks
  <2>5. CASE MainLooks        BY <2>5 DEF MainLooks
  <2>6. CASE MainEndsSession  BY <2>6 DEF MainEndsSession
  <2>7. CASE MainPollsAgain   BY <2>7 DEF MainPollsAgain
  <2>8. CASE MainTearsDown    BY <2>8 DEF MainTearsDown
  <2>9. CASE MainTornDown     BY <2>9 DEF MainTornDown
  <2>10. CASE MainStops       BY <2>10 DEF MainStops, OwnerStops
  <2>11. CASE MainJoins       BY <2>11 DEF MainJoins
  <2>12. CASE MainExits       BY <2>12 DEF MainExits, OwnerExits
  <2>13. CASE MainDrains      BY <2>13 DEF MainDrains
  <2> QED BY <1>3, <2>1, <2>2, <2>3, <2>4, <2>5, <2>6, <2>7, <2>8, <2>9, <2>10, <2>11,
             <2>12, <2>13 DEF Main
<1>4. CASE StartupElapses \/ GraceElapses
  <2>1. UNCHANGED <<activeHeld, mpc, shutdownSet, hsig>>
    BY <1>4 DEF StartupElapses, GraceElapses, gatewayVars, mainVars, handlerVars
  <2> QED BY <2>1
<1>5. CASE ShellStep \/ Orphaned
  <2>1. UNCHANGED activeHeld
    BY <1>5
       DEF ShellStep, Orphaned, Asks, ProcessRequest, GatewayStep, HandlerStep,
           HandshakeFails, Claim, Refuse, SpawnSession, SpawnFails, Attach, BringUpFails,
           ReceiveRaises, LeaveRelay, Offload, OffloadRaises, RequestArrives, ReceiveFrame,
           StartWrite, WriteStep, WriteReturns, WriteFails, StartFinish, FinishStep,
           ConnectionCloses, ClientLeaves, ChildReads, ChildEnds, ServerCloses, ServerStops
  <2>2. UNCHANGED shellVars
    BY <1>5 DEF ShellStep, Orphaned
  <2> QED BY <2>1, <2>2 DEF shellVars, mainVars, handlerVars
<1>6. CASE UNCHANGED vars
  BY <1>6 DEF vars, gatewayVars, shellVars, mainVars, handlerVars
<1> QED BY <1>1, <1>2, <1>3, <1>4, <1>5, <1>6 DEF Next

\* No SIGTERM, however many arrive and whenever, blocks the main thread on the
\* gateway's lock.
THEOREM ActiveLockNeverDeadlocks == Safety => []ActiveLockSafe
<1>1. Init => LockInv
  BY DEF Init, GatewayInit, LockInv, Running
<1>2. ShellInv /\ LockInv => ActiveLockSafe
  BY LockInvImplies DEF ShellInv
<1>3. ShellInv /\ LockInv /\ [Next]_vars => LockInv'
  BY LockInvStep
<1> QED BY <1>1, <1>2, <1>3, ShellInvariant, PTL DEF Safety

-----------------------------------------------------------------------------
\* The readiness mark.

\* main() marks the Shell healthy once: on its way to the mark it has not yet.
MarkInv == mpc \in {"set", "setting"} => ~markedHealthy

LEMMA MarkInvStep ==
  ASSUME MarkInv, [Next]_vars
  PROVE  /\ MarkInv'
         /\ markedHealthy /\ readiness = "shutting_down" => readiness' = "shutting_down"
<1>1. CASE Main
  BY <1>1
     DEF MarkInv, MainGoto, Main, MainLoops, MainAcquires, MainSets, MainLocks, MainLooks,
         MainEndsSession, MainPollsAgain, MainTearsDown, MainTornDown, MainStops, MainJoins,
         MainExits, MainDrains, shellVars, readyVars, mainVars
<1>2. ASSUME NEW f \in Sigterms, Sigterm(f) \/ HandlerRuns(f)
      PROVE  /\ MarkInv'
             /\ readiness = "shutting_down" => readiness' = "shutting_down"
  BY <1>2
     DEF MarkInv, HandlerGoto, HandlerRuns, Sigterm, HandlerAcquires, HandlerSets,
         HandlerChecks, HandlerAssigns, HandlerLocks, HandlerLooks, HandlerForwards,
         readyVars, mainVars
<1>3. CASE StartupElapses \/ GraceElapses
  BY <1>3 DEF StartupElapses, GraceElapses, MarkInv, readyVars, mainVars
<1>4. CASE UNCHANGED shellVars
  BY <1>4 DEF MarkInv, shellVars, readyVars, mainVars
<1> QED BY <1>1, <1>2, <1>3, <1>4 DEF Next, ShellStep, Orphaned, vars

\* After its startup grace, whatever the order of signals and clock, nothing
\* makes a Shell that is shutting down ready again.
THEOREM ShutdownStaysFinal == Safety => ShutdownIsFinal
<1>1. Init => MarkInv
  BY DEF Init, MarkInv
<1>2. MarkInv /\ [Next]_vars => MarkInv'
  BY MarkInvStep
<1>3. MarkInv /\ [Next]_vars =>
        [markedHealthy /\ readiness = "shutting_down" => readiness' = "shutting_down"]_vars
  BY MarkInvStep
<1> QED BY <1>1, <1>2, <1>3, PTL DEF Safety, ShutdownIsFinal

-----------------------------------------------------------------------------
\* The teardown that main() runs.

\* main() tears a session down only in the grace window's terms, one session at
\* most, and has no worker left when it is through with the exit.
CallInv ==
  /\ mpc = "poll" => shutdownSet
  /\ \A c \in Conn :
       /\ tpc["main"][c] # "none" => shutdownSet /\ (graceOver \/ child[c] = "exited")
       /\ tpc["main"][c] \notin {"none", "done"} => mpc = "teardown" /\ mseen = c
       /\ mpc = "exited" => tpc["executor"][c] \in {"none", "done"}

\* What any step but main()'s own does to main()'s teardown: nothing.
KeepsCalls ==
  /\ \A c \in Conn : /\ tpc'["main"][c] = tpc["main"][c]
                     /\ child[c] = "exited" => child'[c] = "exited"

LEMMA TeardownKeepsOthers ==
  ASSUME SessionTypeOK, NEW k \in Caller, NEW c \in Conn, Teardown(k, c)
  PROVE  /\ child' = child
         /\ tpc[k][c] \notin {"none", "done"}
         /\ tpc'[k][c] # "none"
         /\ \A j \in Caller, d \in Conn : j # k \/ d # c => tpc'[j][d] = tpc[j][d]
BY DEF SessionTypeOK, Goto, Teardown, TeardownSkipped, TeardownBegins, TeardownInterrupts,
       TeardownReaps, TeardownKills, TeardownGivesUp, TeardownCloses

LEMMA GatewayKeepsCalls ==
  ASSUME GatewayTypeOK, ShellStep \/ Orphaned
  PROVE  KeepsCalls
<1> USE DEF GatewayTypeOK, SessionTypeOK, KeepsCalls, Caller, sessionVars
<1>1. ASSUME NEW c \in Conn, GatewayStep(c) PROVE KeepsCalls
  <2>1. CASE HandlerStep(c)
    BY <2>1
       DEF HandlerStep, HandshakeFails, Claim, Refuse, SpawnSession, Spawn, SpawnFails, Attach,
           BringUpFails, ReceiveRaises, LeaveRelay, Offload, OffloadRaises, Goto
  <2>2. CASE StartFinish(c)
    BY <2>2 DEF StartFinish, Goto
  <2>3. CASE FinishStep(c)
    BY <2>3, TeardownKeepsOthers DEF FinishStep
  <2>4. CASE ChildEnds(c)
    BY <2>4 DEF ChildEnds, ChildExits
  <2> QED BY <1>1, <2>1, <2>2, <2>3, <2>4
          DEF GatewayStep, RequestArrives, ReceiveFrame, StartWrite, WriteStep, WriteReturns,
              WriteFails, ConnectionCloses, ClientLeaves, ChildReads
<1>2. ASSUME NEW c \in Conn, ChildEnds(c) \/ ChildReads(c) PROVE KeepsCalls
  BY <1>1, <1>2 DEF GatewayStep
<1>3. ASSUME NEW c \in Conn, NEW known \in BOOLEAN, Asks(c, known) PROVE KeepsCalls
  BY <1>3 DEF Asks, ProcessRequest
<1>4. CASE ServerCloses \/ ServerStops
  BY <1>4 DEF ServerCloses, ServerStops
<1> QED BY <1>1, <1>2, <1>3, <1>4 DEF ShellStep, Orphaned

LEMMA CallInvStep ==
  ASSUME ShellInv, LockInv, CallInv, [Next]_vars
  PROVE  CallInv'
<1> USE DEF ShellInv, GatewayTypeOK, SessionTypeOK, CallInv, Caller
<1>1. ASSUME Main PROVE CallInv'
  <2> USE DEF MainGoto, mainVars, clockVars, gatewayVars, sessionVars, OwnerLocks, OwnerUnlocks
  <2>1. CASE MainEndsSession
    BY <2>1 DEF MainEndsSession, Call, Goto, SeenInv
  <2>2. CASE MainTearsDown
    <3>1. mseen \in Conn
      BY <2>2 DEF MainTearsDown, SeenInv
    <3> QED BY <2>2, <3>1, TeardownKeepsOthers DEF MainTearsDown, shellVars
  <2>3. CASE MainTornDown
    BY <2>3 DEF MainTornDown
  <2>4. CASE MainLooks
    BY <2>4 DEF MainLooks, LockInv
  <2>5. CASE MainDrains
    BY <2>5 DEF MainDrains
  <2>6. CASE MainStops \/ MainExits
    BY <2>6 DEF MainStops, MainExits, OwnerStops, OwnerExits
  <2>7. CASE MainLoops \/ MainAcquires \/ MainSets \/ MainLocks \/ MainPollsAgain \/ MainJoins
    BY <2>7 DEF MainLoops, MainAcquires, MainSets, MainLocks, MainPollsAgain, MainJoins
  <2> QED BY <1>1, <2>1, <2>2, <2>3, <2>4, <2>5, <2>6, <2>7 DEF Main
<1>2. ASSUME NEW f \in Sigterms, Sigterm(f) \/ HandlerRuns(f) PROVE CallInv'
  <2>1. /\ UNCHANGED <<child, tpc, mpc, mseen, graceOver>>
        /\ shutdownSet => shutdownSet'
    BY <1>2
       DEF HandlerGoto, HandlerRuns, Sigterm, HandlerAcquires, HandlerSets, HandlerChecks,
           HandlerAssigns, HandlerLocks, HandlerLooks, HandlerForwards, OwnerLocks,
           OwnerUnlocks, OwnerInterrupts, gatewayVars, sessionVars, mainVars, clockVars
  <2> QED BY <2>1
<1>3. CASE StartupElapses \/ GraceElapses
  BY <1>3 DEF StartupElapses, GraceElapses, mainVars, gatewayVars, sessionVars
<1>4. CASE ShellStep
  BY <1>4, GatewayKeepsCalls DEF ShellStep, KeepsCalls, shellVars, mainVars, clockVars
<1>5. CASE Orphaned
  <2>1. UNCHANGED <<tpc, shellVars>>
    BY <1>5 DEF Orphaned, ChildEnds, ChildExits, ChildReads, sessionVars
  <2> QED BY <1>5, <2>1, GatewayKeepsCalls DEF KeepsCalls, shellVars, mainVars, clockVars
<1>6. CASE UNCHANGED vars
  BY <1>6 DEF vars, gatewayVars, sessionVars, shellVars, mainVars, clockVars
<1> QED BY <1>1, <1>2, <1>3, <1>4, <1>5, <1>6 DEF Next

CallsInv == ShellInv /\ GatewayInv /\ LockInv /\ CallInv

LEMMA CallsInvariant == Safety => []CallsInv
<1>1. Init => LockInv /\ CallInv
  BY DEF Init, GatewayInit, SessionInit, LockInv, CallInv, Running, Caller
<1>2. ShellInv /\ LockInv /\ CallInv /\ [Next]_vars => LockInv' /\ CallInv'
  BY LockInvStep, CallInvStep
<1>3. Safety => []GatewayInv
  BY ShellImplementsGateway, GatewayInvariant, PTL DEF ImplementsGateway
<1> QED BY <1>1, <1>2, <1>3, ShellInvariant, PTL DEF Safety, CallsInv

\* The session in flight keeps its grace window, whatever the gateway, the client
\* and the child do meanwhile.
THEOREM GraceAlwaysRespected == Safety => []GraceRespected
<1>1. ASSUME CallsInv PROVE GraceRespected
  <2>1. SUFFICES ASSUME NEW c \in Conn, hpc[c] \in Relaying,
                        fds[c] = "closed" \/ "kill" \in signals[c]
                 PROVE  shutdownSet /\ (graceOver \/ child[c] = "exited")
    BY DEF GraceRespected
  <2>2. \E k \in Caller : tpc[k][c] # "none"
    BY <1>1, <2>1 DEF CallsInv, GatewayInv, SessionInv, Touched
  <2>3. tpc["executor"][c] = "none"
    BY <1>1, <2>1 DEF CallsInv, GatewayInv, LinkInv, Relaying
  <2> QED BY <1>1, <2>2, <2>3 DEF CallsInv, CallInv, Caller
<1> QED BY <1>1, CallsInvariant, PTL

\* The Shell does not exit over a disconnect it was given to finish.
THEOREM ExitAlwaysWaits == Safety => []ExitWaitsForTeardown
<1>1. ASSUME CallsInv PROVE ExitWaitsForTeardown
  <2>1. SUFFICES ASSUME NEW c \in Conn, mpc = "exited", hpc[c] = "gone",
                        child[c] = "running"
                 PROVE  "kill" \in signals[c]
    BY DEF ExitWaitsForTeardown
  <2>2. tpc["executor"][c] = "done"
    BY <1>1, <2>1 DEF CallsInv, CallInv, GatewayInv, LinkInv
  <2>3. tpc["main"][c] \in {"none", "done"}
    BY <1>1, <2>1 DEF CallsInv, CallInv
  <2>4. tornDown[c] /\ \A k \in Caller : tpc[k][c] \notin Body
    BY <1>1, <2>2, <2>3 DEF CallsInv, GatewayInv, SessionInv, Guarded, Caller, Body
  <2>5. fds[c] = "closed"
    BY <1>1, <2>4 DEF CallsInv, GatewayInv, SessionInv, Guarded
  <2> QED BY <1>1, <2>1, <2>5 DEF CallsInv, GatewayInv, SessionInv, Asked
<1> QED BY <1>1, CallsInvariant, PTL
=============================================================================
