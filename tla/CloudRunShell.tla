---------------------------- MODULE CloudRunShell ----------------------------
(***************************************************************************)
(* runtime/cloud_run_shell.py: the Shell's main thread, its SIGTERM        *)
(* handler and the readiness state, composed with the gateway they drive.  *)
(*                                                                         *)
(* Python runs a signal handler on the main thread, between two bytecodes  *)
(* of whatever that thread is doing -- another run of the handler included *)
(* -- and the interrupted code resumes only when the handler returns.  Run *)
(* f of the handler is the f-th SIGTERM; the latest unfinished run is the  *)
(* one that executes.  The locks of _ReadinessState and of the gateway are *)
(* not reentrant: what the main thread holds, a handler waits for forever. *)
(* Locks the other threads hold are released without waiting for the main  *)
(* thread, so only the main thread's hold on a lock is state.              *)
(***************************************************************************)
EXTENDS TransportGateway

CONSTANT MaxSigterm      \* bound: SIGTERMs delivered

ASSUME ShellAssumption == MaxSigterm \in Nat

VARIABLES
  readiness,      \* _ReadinessState._state
  readinessHeld,  \* _ReadinessState._lock is held by the main thread
  mpc,            \* where main() stands
  mseen,          \* the session main() got from get_active_session()
  markedHealthy,  \* marked_healthy
  startupOver,    \* time.monotonic() >= startup_deadline
  shutdownSet,    \* shutdown_deadline is not None
  graceOver,      \* time.monotonic() >= shutdown_deadline
  hsig,           \* hsig[f]: where run f of _handle_sigterm stands
  hseen           \* hseen[f]: the session run f got

mainVars == <<mpc, mseen, markedHealthy, shutdownSet>>
clockVars == <<startupOver, graceOver>>
handlerVars == <<hsig, hseen>>
readyVars == <<readiness, readinessHeld>>
shellVars == <<readyVars, mainVars, clockVars, handlerVars>>
vars == <<gatewayVars, shellVars>>

Sigterms == 1..MaxSigterm

TypeOK ==
  /\ GatewayTypeOK
  /\ readiness \in {"starting", "healthy", "shutting_down"}
  /\ readinessHeld \in BOOLEAN
  /\ mpc \in {"loop", "set", "setting", "lookup", "looking", "poll",
              "teardown", "stop", "join", "exit", "drain", "exited"}
  /\ mseen \in Conn \cup {NoConn}
  /\ markedHealthy \in BOOLEAN
  /\ startupOver \in BOOLEAN
  /\ shutdownSet \in BOOLEAN
  /\ graceOver \in BOOLEAN
  /\ hsig \in [Sigterms -> {"none", "set", "setting", "check", "assign", "lookup",
                            "looking", "forward", "done"}]
  /\ hseen \in [Sigterms -> Conn \cup {NoConn}]

Init ==
  /\ GatewayInit
  /\ readiness = "starting" /\ readinessHeld = FALSE
  /\ mpc = "loop" /\ mseen = NoConn
  /\ markedHealthy = FALSE /\ startupOver = FALSE
  /\ shutdownSet = FALSE /\ graceOver = FALSE
  /\ hsig = [f \in Sigterms |-> "none"]
  /\ hseen = [f \in Sigterms |-> NoConn]

-----------------------------------------------------------------------------
\* Who executes on the main thread.

Running(f) == hsig[f] \notin {"none", "done"}

\* The latest run of the handler executes; main() does when there is none.
OnTop(f) == Running(f) /\ \A g \in Sigterms : g > f => ~Running(g)
MainRuns == \A f \in Sigterms : ~Running(f)

MainGoto(from, to) == MainRuns /\ mpc = from /\ mpc' = to

HandlerGoto(f, from, to) ==
  /\ OnTop(f) /\ hsig[f] = from
  /\ hsig' = [hsig EXCEPT ![f] = to]

-----------------------------------------------------------------------------
\* The SIGTERM handler.

Sigterm(f) ==
  /\ mpc # "exited"
  /\ hsig[f] = "none" /\ \A g \in Sigterms : g < f => hsig[g] # "none"
  /\ hsig' = [hsig EXCEPT ![f] = "set"]
  /\ UNCHANGED <<gatewayVars, readyVars, mainVars, clockVars, hseen>>

\* readiness.set(SHUTTING_DOWN): acquire, then assign and release.
HandlerAcquires(f) ==
  /\ ~readinessHeld /\ readinessHeld' = TRUE
  /\ HandlerGoto(f, "set", "setting")
  /\ UNCHANGED <<gatewayVars, readiness, mainVars, clockVars, hseen>>

HandlerSets(f) ==
  /\ HandlerGoto(f, "setting", "check")
  /\ readiness' = "shutting_down" /\ readinessHeld' = FALSE
  /\ UNCHANGED <<gatewayVars, mainVars, clockVars, hseen>>

\* Mutated form: every SIGTERM forwards.
HandlerForwardsAgain(f) ==
  /\ HandlerGoto(f, "check", "assign")
  /\ UNCHANGED <<gatewayVars, readyVars, mainVars, clockVars, hseen>>

\* if shutdown_deadline is None: the first SIGTERM forwards, the later do not.
HandlerChecks(f) ==
  /\ HandlerGoto(f, "check", IF shutdownSet THEN "done" ELSE "assign")
  /\ UNCHANGED <<gatewayVars, readyVars, mainVars, clockVars, hseen>>

HandlerAssigns(f) ==
  /\ HandlerGoto(f, "assign", "lookup")
  /\ shutdownSet' = TRUE
  /\ UNCHANGED <<gatewayVars, readyVars, mpc, mseen, markedHealthy, clockVars, hseen>>

\* gateway.get_active_session(), under the gateway's _active_lock
HandlerLocks(f) ==
  /\ HandlerGoto(f, "lookup", "looking")
  /\ OwnerLocks
  /\ UNCHANGED <<readyVars, mainVars, clockVars, hseen>>

HandlerLooks(f) ==
  /\ HandlerGoto(f, "looking", IF activeSession = NoConn THEN "done" ELSE "forward")
  /\ hseen' = [hseen EXCEPT ![f] = activeSession]
  /\ OwnerUnlocks
  /\ UNCHANGED <<readyVars, mainVars, clockVars>>

\* session.child.send_signal(SIGINT)
HandlerForwards(f) ==
  /\ HandlerGoto(f, "forward", "done")
  /\ OwnerInterrupts(hseen[f])
  /\ UNCHANGED <<readyVars, mainVars, clockVars, hseen>>

HandlerRuns(f) ==
  \/ HandlerAcquires(f) \/ HandlerSets(f)
  \/ HandlerChecks(f) \/ HandlerAssigns(f)
  \/ HandlerLocks(f) \/ HandlerLooks(f) \/ HandlerForwards(f)

-----------------------------------------------------------------------------
\* The main loop.

\* Mutated form: readiness is marked on every round.
MainLoopsMarking ==
  /\ MainGoto("loop", IF startupOver THEN "set" ELSE IF shutdownSet THEN "lookup" ELSE "loop")
  /\ UNCHANGED <<gatewayVars, readyVars, mseen, markedHealthy, shutdownSet,
                 clockVars, handlerVars>>

\* Top of the loop: if not marked_healthy and startup_deadline has passed, mark;
\* else if shutdown_deadline is not None, look; else sleep and start over.
MainLoops ==
  /\ MainGoto("loop", IF ~markedHealthy /\ startupOver THEN "set"
                      ELSE IF shutdownSet THEN "lookup" ELSE "loop")
  /\ UNCHANGED <<gatewayVars, readyVars, mseen, markedHealthy, shutdownSet,
                 clockVars, handlerVars>>

\* readiness.set(HEALTHY): acquire, then assign and release.
MainAcquires ==
  /\ ~readinessHeld /\ readinessHeld' = TRUE
  /\ MainGoto("set", "setting")
  /\ UNCHANGED <<gatewayVars, readiness, mseen, markedHealthy, shutdownSet,
                 clockVars, handlerVars>>

MainSets ==
  /\ MainGoto("setting", "loop")
  /\ readiness' = "healthy" /\ readinessHeld' = FALSE
  /\ markedHealthy' = TRUE
  /\ UNCHANGED <<gatewayVars, mseen, shutdownSet, clockVars, handlerVars>>

\* session = gateway.get_active_session(); none left: the loop ends.
MainLocks ==
  /\ MainGoto("lookup", "looking")
  /\ OwnerLocks
  /\ UNCHANGED <<readyVars, mseen, markedHealthy, shutdownSet, clockVars, handlerVars>>

MainLooks ==
  /\ MainGoto("looking", IF activeSession = NoConn THEN "stop" ELSE "poll")
  /\ mseen' = activeSession
  /\ OwnerUnlocks
  /\ UNCHANGED <<readyVars, markedHealthy, shutdownSet, clockVars, handlerVars>>

\* Mutated form: the grace window is not waited for.
MainEndsSessionAtOnce ==
  /\ MainGoto("poll", "teardown")
  /\ Call("main", mseen)
  /\ UNCHANGED <<hpc, client, slotVars, activeHeld, pipe, lifeVars, readyVars,
                 mseen, markedHealthy, shutdownSet, clockVars, handlerVars>>

\* Mutated form: the grace window never ends.
MainEndsSessionOnExit ==
  /\ MainGoto("poll", "teardown")
  /\ child[mseen] = "exited"
  /\ Call("main", mseen)
  /\ UNCHANGED <<hpc, client, slotVars, activeHeld, pipe, lifeVars, readyVars,
                 mseen, markedHealthy, shutdownSet, clockVars, handlerVars>>

\* Mutated form: the Shell closes the descriptors itself.
MainEndsSessionDirectly ==
  /\ MainGoto("poll", "stop")
  /\ child[mseen] = "exited" \/ graceOver
  /\ fds' = [fds EXCEPT ![mseen] = "closed"]
  /\ UNCHANGED <<child, signals, tornDown, tpc, hpc, client, slotVars, activeHeld,
                 pipe, lifeVars, readyVars, mseen, markedHealthy, shutdownSet,
                 clockVars, handlerVars>>

\* The child is gone, or the grace window is: session.teardown(), then break.
MainEndsSession ==
  /\ MainGoto("poll", "teardown")
  /\ child[mseen] = "exited" \/ graceOver
  /\ Call("main", mseen)
  /\ UNCHANGED <<hpc, client, slotVars, activeHeld, pipe, lifeVars, readyVars,
                 mseen, markedHealthy, shutdownSet, clockVars, handlerVars>>

MainPollsAgain ==
  /\ MainGoto("poll", "loop")
  /\ child[mseen] # "exited" /\ ~graceOver
  /\ UNCHANGED <<gatewayVars, readyVars, mseen, markedHealthy, shutdownSet,
                 clockVars, handlerVars>>

MainTearsDown ==
  /\ MainRuns /\ mpc = "teardown"
  /\ Teardown("main", mseen)
  /\ UNCHANGED <<hpc, client, slotVars, activeHeld, pipe, lifeVars, shellVars>>

MainTornDown ==
  /\ MainGoto("teardown", "stop")
  /\ tpc["main"][mseen] = "done"
  /\ UNCHANGED <<gatewayVars, readyVars, mseen, markedHealthy, shutdownSet,
                 clockVars, handlerVars>>

\* finally: gateway.stop() sets _stop_event and joins the gateway's thread ...
MainStops ==
  /\ MainGoto("stop", "join")
  /\ OwnerStops
  /\ UNCHANGED <<readyVars, mseen, markedHealthy, shutdownSet, clockVars, handlerVars>>

\* ... for at most five seconds.  What can make the thread last longer is a
\* client that does not answer the closing handshake (the server waits ten
\* seconds for it) or a write to a full pipe.
PeerKeepsWaiting(c) == \/ hpc[c] = "relay" /\ client[c] = "open"
                       \/ hpc[c] \in {"writeQueued", "writing"}

MainJoins ==
  /\ \/ gateway = "stopped"
     \/ gateway = "closing" /\ \E c \in Conn : PeerKeepsWaiting(c)
  /\ MainGoto("join", "exit")
  /\ UNCHANGED <<gatewayVars, readyVars, mseen, markedHealthy, shutdownSet,
                 clockVars, handlerVars>>

\* sys.exit(0): concurrent.futures takes no more work, and the interpreter
\* waits for the work it took; daemon threads run on until that is done.
MainExits ==
  /\ MainGoto("exit", "drain")
  /\ OwnerExits
  /\ UNCHANGED <<readyVars, mseen, markedHealthy, shutdownSet, clockVars, handlerVars>>

\* Mutated form: the pool's threads are daemons.
MainDrainsAtOnce ==
  /\ MainGoto("drain", "exited")
  /\ UNCHANGED <<gatewayVars, readyVars, mseen, markedHealthy, shutdownSet,
                 clockVars, handlerVars>>

MainDrains ==
  /\ \A c \in Conn : /\ hpc[c] \notin {"writeQueued", "writing"}
                     /\ tpc["executor"][c] \in {"none", "done"}
  /\ MainGoto("drain", "exited")
  /\ UNCHANGED <<gatewayVars, readyVars, mseen, markedHealthy, shutdownSet,
                 clockVars, handlerVars>>

Main ==
  \/ MainLoops \/ MainAcquires \/ MainSets \/ MainLocks \/ MainLooks
  \/ MainEndsSession \/ MainPollsAgain \/ MainTearsDown \/ MainTornDown
  \/ MainStops \/ MainJoins \/ MainExits \/ MainDrains

-----------------------------------------------------------------------------
\* Time, and the gateway under this owner.

StartupElapses ==
  /\ ~startupOver /\ startupOver' = TRUE
  /\ UNCHANGED <<gatewayVars, readyVars, mainVars, graceOver, handlerVars>>

GraceElapses ==
  /\ shutdownSet /\ ~graceOver /\ graceOver' = TRUE
  /\ UNCHANGED <<gatewayVars, readyVars, mainVars, startupOver, handlerVars>>

\* is_ready() takes the readiness lock on the event loop: while the main
\* thread holds it, the loop waits with every connection behind it.
Asks(c, known) == ~readinessHeld /\ ProcessRequest(c, readiness = "healthy", known)

\* A process that has exited runs no thread; its children may still.
ShellStep ==
  /\ mpc # "exited"
  /\ \/ \E c \in Conn : GatewayStep(c) \/ \E known \in BOOLEAN : Asks(c, known)
     \/ ServerCloses \/ ServerStops
  /\ UNCHANGED shellVars

Orphaned ==
  /\ mpc = "exited"
  /\ \E c \in Conn : ChildEnds(c) \/ ChildReads(c)
  /\ UNCHANGED shellVars

Next ==
  \/ \E f \in Sigterms : Sigterm(f) \/ HandlerRuns(f)
  \/ Main
  \/ StartupElapses \/ GraceElapses
  \/ ShellStep \/ Orphaned

Safety == Init /\ [][Next]_vars

\* A step of the gateway's threads, of a client or of a child, before the exit.
Alive(A) == mpc # "exited" /\ A /\ UNCHANGED shellVars

\* The main thread, a handler and the clocks go on; so do the gateway's threads
\* and the timeouts of teardown, as long as the process lives.  A child reads its
\* pipes (ChildFairness): the interpreter waits at exit for a worker in os.write.
ShellFairness ==
  /\ WF_vars(Main) /\ \A f \in Sigterms : WF_vars(HandlerRuns(f))
  /\ WF_vars(StartupElapses) /\ WF_vars(GraceElapses)
  /\ WF_vars(Alive(ServerCloses \/ ServerStops))
  /\ \A c \in Conn :
       /\ WF_vars(ChildReads(c) /\ UNCHANGED shellVars)
       /\ WF_vars(\E known \in BOOLEAN : Alive(Asks(c, known)))
       /\ WF_vars(Alive(HandlerStep(c)))
       /\ WF_vars(Alive(ReceiveFrame(c) /\ client[c] = "buffered"))
       /\ WF_vars(Alive(StartWrite(c))) /\ WF_vars(Alive(WriteStep(c)))
       /\ WF_vars(Alive(StartFinish(c))) /\ WF_vars(Alive(FinishStep(c)))
       /\ WF_vars(Alive(ConnectionCloses(c)))
       /\ WF_vars(Alive(ChildEnds(c) /\ "kill" \in signals[c]))

Spec == Safety /\ ShellFairness

-----------------------------------------------------------------------------
\* Properties.

\* The Shell is an owner the gateway allows for: each of its steps is one of the
\* open gateway's, or leaves the gateway as it is.  It never takes a session's
\* descriptors, its slot or its handler into its own hands.
ImplementsGateway == GatewaySafety

\* A signal handler never waits for _active_lock while the code it interrupted
\* holds it, which would stop the main thread for good: the second SIGTERM skips
\* get_active_session(), and main() looks only once the first has set the
\* deadline.
ActiveLockSafe ==
  /\ \A f \in Sigterms : OnTop(f) /\ hsig[f] = "lookup" => ~activeHeld
  /\ MainRuns /\ mpc = "lookup" => ~activeHeld

\* The session in flight keeps its grace window: until it is over, the Shell
\* neither kills the child of a relaying connection nor closes its pipes, unless
\* the child has ended by itself.
GraceRespected ==
  \A c \in Conn :
    hpc[c] \in Relaying /\ (fds[c] = "closed" \/ "kill" \in signals[c]) =>
      shutdownSet /\ (graceOver \/ child[c] = "exited")

\* The interpreter waits for the disconnects it was given: when the Shell has
\* exited, the child of every connection that finished is gone or was killed.
ExitWaitsForTeardown ==
  mpc = "exited" =>
    \A c \in Conn : hpc[c] = "gone" => child[c] # "running" \/ "kill" \in signals[c]

\* Once the Shell has been healthy, shutting down is final.
ShutdownIsFinal ==
  [][markedHealthy /\ readiness = "shutting_down" => readiness' = "shutting_down"]_vars

\* The handler waits for the readiness lock that its own thread holds.
ReadinessBlocked == readinessHeld /\ \E f \in Sigterms : OnTop(f) /\ hsig[f] = "set"

\* A Shell that has set its deadline exits, whatever its clients and children do and
\* a further SIGTERM finds it at, readiness.set() excepted.
ShutdownCompletes == shutdownSet ~> mpc = "exited" \/ ReadinessBlocked

\* Whichever thread calls teardown() first, and whatever the child does, the
\* descriptors of the session are closed in the end.
TeardownCompletes ==
  \A c \in Conn :
    (\E k \in Caller : tpc[k][c] = "enter") ~> fds[c] = "closed" \/ ReadinessBlocked

\* "SIGTERM received by this Shell is translated to SIGINT and delivered to the
\* active child (if any)" -- and the Shell goes down: a SIGTERM is acted upon.
SigtermActedUpon == \A f \in Sigterms : hsig[f] = "set" ~> shutdownSet

\* "no Runtime child outlives its client": nor the Shell that serves it.
NoOrphan ==
  mpc = "exited" => \A c \in Conn : child[c] = "running" => "kill" \in signals[c]
=============================================================================
