------------------------ MODULE TransportGatewayProofs ------------------------
(***************************************************************************)
(* Theorems of RuntimeSession.teardown() on its own (for every set of      *)
(* sessions, two threads calling it in every order run its body once), and *)
(* of the open gateway: for every set of connections, pool size and pipe   *)
(* capacity, and whatever the owner's main thread does.                    *)
(***************************************************************************)
EXTENDS TransportGateway, TLAPS

-----------------------------------------------------------------------------
\* RuntimeSession on its own.

\* A step of teardown() keeps the session's variables in their types.
LEMMA TeardownType ==
  ASSUME SessionTypeOK, NEW k \in Caller, NEW c \in Conn, Teardown(k, c)
  PROVE  SessionTypeOK'
<1> USE DEF SessionTypeOK, Goto, Deliver, Body, Caller
<1>1. CASE TeardownSkipped(k, c)     BY <1>1 DEF TeardownSkipped
<1>2. CASE TeardownBegins(k, c)      BY <1>2 DEF TeardownBegins
<1>3. CASE TeardownInterrupts(k, c)  BY <1>3 DEF TeardownInterrupts
<1>4. CASE TeardownReaps(k, c)       BY <1>4 DEF TeardownReaps
<1>5. CASE TeardownKills(k, c)       BY <1>5 DEF TeardownKills
<1>6. CASE TeardownGivesUp(k, c)     BY <1>6 DEF TeardownGivesUp
<1>7. CASE TeardownCloses(k, c)      BY <1>7 DEF TeardownCloses
<1> QED BY <1>1, <1>2, <1>3, <1>4, <1>5, <1>6, <1>7 DEF Teardown

-----------------------------------------------------------------------------
\* The inductive invariant, session by session.

\* No session, no descriptors and no teardown; a caller means a session.
Born(c) ==
  /\ child[c] = "none" <=> fds[c] = "none"
  /\ child[c] = "none" => \A k \in Caller : tpc[k][c] = "none"

\* The flag guards the body: whoever is in it is alone and owns open pipes, and
\* once it is set somebody is in the body until the pipes are closed.
Guarded(c) ==
  /\ \A k \in Caller : tpc[k][c] \in Body =>
       /\ tornDown[c] /\ fds[c] = "open"
       /\ \A j \in Caller \ {k} : tpc[j][c] \notin Body
  /\ fds[c] = "closed" => tornDown[c]
  /\ tornDown[c] => fds[c] = "closed" \/ \E k \in Caller : tpc[k][c] \in Body
  /\ \A k \in Caller : tpc[k][c] = "done" => tornDown[c]

\* How far the body has come with a child that is still alive.
Asked(c) ==
  child[c] = "running" =>
    /\ \A k \in Caller : tpc[k][c] \in {"wait", "killwait", "close"} => "int" \in signals[c]
    /\ \A k \in Caller : tpc[k][c] \in {"killwait", "close"} => "kill" \in signals[c]
    /\ fds[c] = "closed" => signals[c] = {"int", "kill"}

\* A session that was killed or closed was in the hands of some caller.
Touched(c) ==
  "kill" \in signals[c] \/ fds[c] = "closed" => \E k \in Caller : tpc[k][c] # "none"

SessionInv == \A c \in Conn : Born(c) /\ Guarded(c) /\ Asked(c) /\ Touched(c)

\* What may happen to a session, in any composition: it is spawned, its child
\* ends or is interrupted, a thread is sent to tear it down or runs the teardown.
Sent(k, c) ==
  /\ child[c] # "none"
  /\ \E from \in {"none", "queued"} : \E to \in {"queued", "enter"} : Goto(k, c, from, to)
  /\ UNCHANGED <<child, signals, fds, tornDown>>

Interrupted(c) ==
  /\ child[c] # "none" /\ Deliver(c, "int")
  /\ UNCHANGED <<child, fds, tornDown, tpc>>

SessionMove ==
  \E c \in Conn :
    \/ Spawn(c) \/ ChildExits(c) \/ Interrupted(c)
    \/ \E k \in Caller : Sent(k, c) \/ Teardown(k, c)

\* A session none of whose variables change keeps its part of the invariant.
LEMMA Unchanged ==
  ASSUME NEW d \in Conn, Born(d), Guarded(d), Asked(d), Touched(d),
         child'[d] = child[d], fds'[d] = fds[d], tornDown'[d] = tornDown[d],
         signals'[d] = signals[d], \A k \in Caller : tpc'[k][d] = tpc[k][d]
  PROVE  Born(d)' /\ Guarded(d)' /\ Asked(d)' /\ Touched(d)'
BY DEF Born, Guarded, Asked, Touched, Caller

\* Each step of the teardown keeps the invariant of the session it works on.
LEMMA TeardownInv ==
  ASSUME SessionTypeOK, NEW c \in Conn, NEW k \in Caller,
         Born(c), Guarded(c), Asked(c), Touched(c), Teardown(k, c)
  PROVE  Born(c)' /\ Guarded(c)' /\ Asked(c)' /\ Touched(c)'
<1> USE DEF SessionTypeOK, Goto, Deliver, Body, Caller, Born, Guarded, Asked, Touched
<1>1. CASE TeardownSkipped(k, c)     BY <1>1 DEF TeardownSkipped
<1>2. CASE TeardownBegins(k, c)      BY <1>2 DEF TeardownBegins
<1>3. CASE TeardownInterrupts(k, c)  BY <1>3 DEF TeardownInterrupts
<1>4. CASE TeardownReaps(k, c)       BY <1>4 DEF TeardownReaps
<1>5. CASE TeardownKills(k, c)       BY <1>5 DEF TeardownKills
<1>6. CASE TeardownGivesUp(k, c)     BY <1>6 DEF TeardownGivesUp
<1>7. CASE TeardownCloses(k, c)      BY <1>7 DEF TeardownCloses
<1> QED BY <1>1, <1>2, <1>3, <1>4, <1>5, <1>6, <1>7 DEF Teardown

LEMMA SessionInvStep ==
  ASSUME SessionTypeOK, SessionInv, SessionMove \/ UNCHANGED sessionVars
  PROVE  SessionInv'
<1>1. CASE UNCHANGED sessionVars
  BY <1>1 DEF sessionVars, SessionInv, Born, Guarded, Asked, Touched
<1>2. ASSUME NEW c \in Conn,
             \/ Spawn(c) \/ ChildExits(c) \/ Interrupted(c)
             \/ \E k \in Caller : Sent(k, c) \/ Teardown(k, c)
      PROVE SessionInv'
  <2>1. Born(c) /\ Guarded(c) /\ Asked(c) /\ Touched(c)
    BY DEF SessionInv
  <2>2. Born(c)' /\ Guarded(c)' /\ Asked(c)' /\ Touched(c)'
    <3> USE <2>1 DEF SessionTypeOK, Caller, Born, Guarded, Asked, Touched, Body
    <3>1. CASE Spawn(c)        BY <3>1 DEF Spawn
    <3>2. CASE ChildExits(c)   BY <3>2 DEF ChildExits
    <3>3. CASE Interrupted(c)  BY <3>3 DEF Interrupted, Deliver
    <3>4. ASSUME NEW k \in Caller, Sent(k, c) PROVE Born(c)' /\ Guarded(c)' /\ Asked(c)' /\ Touched(c)'
      BY <3>4 DEF Sent, Goto
    <3>5. ASSUME NEW k \in Caller, Teardown(k, c) PROVE Born(c)' /\ Guarded(c)' /\ Asked(c)' /\ Touched(c)'
      BY <3>5, TeardownInv
    <3> QED BY <1>2, <3>1, <3>2, <3>3, <3>4, <3>5
  <2>3. ASSUME NEW d \in Conn \ {c} PROVE Born(d)' /\ Guarded(d)' /\ Asked(d)' /\ Touched(d)'
    <3>1. /\ child'[d] = child[d] /\ fds'[d] = fds[d] /\ tornDown'[d] = tornDown[d]
          /\ signals'[d] = signals[d] /\ \A k \in Caller : tpc'[k][d] = tpc[k][d]
      BY <1>2 DEF SessionTypeOK, Spawn, ChildExits, Interrupted, Sent, Goto, Deliver,
            Teardown, TeardownSkipped, TeardownBegins, TeardownInterrupts, TeardownReaps,
            TeardownKills, TeardownGivesUp, TeardownCloses
    <3> QED BY <3>1, Unchanged DEF SessionInv
  <2> QED BY <2>2, <2>3 DEF SessionInv
<1> QED BY <1>1, <1>2 DEF SessionMove

\* The invariant says what the properties say.
LEMMA SessionInvImplies ==
  ASSUME SessionTypeOK, SessionInv
  PROVE  TeardownOnce /\ NoSilentClose
<1>1. TeardownOnce
  BY DEF SessionInv, Guarded, TeardownOnce
<1>2. NoSilentClose
  BY DEF SessionInv, Asked, Born, NoSilentClose, SessionTypeOK
<1> QED BY <1>1, <1>2

-----------------------------------------------------------------------------
\* The component alone.

LEMMA SessionInvariant == SessionSpec => [](SessionTypeOK /\ SessionInv)
<1>1. SessionInit => SessionTypeOK /\ SessionInv
  BY DEF SessionInit, SessionTypeOK, SessionInv, Born, Guarded, Asked, Touched, Body
<1>2. ASSUME SessionTypeOK, [SessionNext]_sessionVars PROVE SessionTypeOK'
  <2>1. ASSUME NEW c \in Conn, Spawn(c) \/ ChildExits(c) PROVE SessionTypeOK'
    BY <1>2, <2>1 DEF Spawn, ChildExits, SessionTypeOK
  <2>2. ASSUME NEW c \in Conn, NEW k \in Caller, Call(k, c) PROVE SessionTypeOK'
    BY <1>2, <2>2 DEF Call, Goto, SessionTypeOK, Caller
  <2>3. CASE UNCHANGED sessionVars
    BY <1>2, <2>3 DEF sessionVars, SessionTypeOK
  <2> QED BY <1>2, <2>1, <2>2, <2>3, TeardownType DEF SessionNext
<1>3. [SessionNext]_sessionVars => SessionMove \/ UNCHANGED sessionVars
  BY DEF SessionNext, SessionMove, Call, Sent
<1>4. SessionTypeOK /\ SessionInv /\ [SessionNext]_sessionVars
        => SessionTypeOK' /\ SessionInv'
  BY <1>2, <1>3, SessionInvStep
<1> QED BY <1>1, <1>4, PTL DEF SessionSpec

\* teardown() is idempotent: its body runs once, by one thread, on open pipes.
THEOREM TeardownRunsOnce == SessionSpec => []TeardownOnce
BY SessionInvariant, SessionInvImplies, PTL

\* The pipes are closed only when the child is gone or was told twice to go.
THEOREM PipesClosedLast == SessionSpec => []NoSilentClose
BY SessionInvariant, SessionInvImplies, PTL

-----------------------------------------------------------------------------
\* Type correctness.

\* A step of the handler of c keeps every variable in its type.
LEMMA HandlerType ==
  ASSUME GatewayAssumption, GatewayTypeOK, NEW c \in Conn, HandlerStep(c)
  PROVE  GatewayTypeOK'
<1> USE GatewayAssumption
    DEF GatewayTypeOK, SessionTypeOK, Move, HangUp, ReleaseSlot, sessionVars, slotVars,
        lifeVars, LoopHeld, Holding, Over
<1>1. CASE HandshakeFails(c)  BY <1>1 DEF HandshakeFails
<1>2. CASE Claim(c)           BY <1>2 DEF Claim
<1>3. CASE Refuse(c)          BY <1>3 DEF Refuse
<1>4. CASE SpawnSession(c)    BY <1>4 DEF SpawnSession, Spawn
<1>5. CASE SpawnFails(c)      BY <1>5 DEF SpawnFails
<1>6. CASE Attach(c)          BY <1>6 DEF Attach
<1>7. CASE BringUpFails(c)    BY <1>7 DEF BringUpFails
<1>8. CASE ReceiveRaises(c)   BY <1>8 DEF ReceiveRaises
<1>9. CASE LeaveRelay(c)      BY <1>9 DEF LeaveRelay
<1>10. CASE Offload(c)        BY <1>10 DEF Offload, Goto, Caller
<1>11. CASE OffloadRaises(c)  BY <1>11 DEF OffloadRaises
<1> QED BY <1>1, <1>2, <1>3, <1>4, <1>5, <1>6, <1>7, <1>8, <1>9, <1>10, <1>11
        DEF HandlerStep

LEMMA GatewayTypeStep ==
  ASSUME GatewayAssumption, GatewayTypeOK, [GatewayNext]_gatewayVars
  PROVE  GatewayTypeOK'
<1> USE GatewayAssumption
    DEF GatewayTypeOK, SessionTypeOK, Move, HangUp, sessionVars, slotVars, lifeVars,
        LoopHeld, Holding, Over
<1>1. ASSUME NEW c \in Conn, GatewayStep(c) PROVE GatewayTypeOK'
  <2>1. CASE RequestArrives(c)    BY <2>1 DEF RequestArrives
  <2>2. CASE HandlerStep(c)       BY <2>2, HandlerType
  <2>3. CASE ReceiveFrame(c)      BY <2>3 DEF ReceiveFrame
  <2>4. CASE StartWrite(c)        BY <2>4 DEF StartWrite
  <2>5. CASE WriteReturns(c)      BY <2>5 DEF WriteReturns
  <2>6. CASE WriteFails(c)        BY <2>6 DEF WriteFails
  <2>7. CASE StartFinish(c)       BY <2>7 DEF StartFinish, Goto, Caller
  <2>8. CASE FinishStep(c)
    <3>1. SessionTypeOK'          BY <2>8, TeardownType DEF FinishStep, Caller
    <3> QED                       BY <2>8, <3>1 DEF FinishStep
  <2>9. CASE ConnectionCloses(c)  BY <2>9 DEF ConnectionCloses
  <2>10. CASE ClientLeaves(c)     BY <2>10 DEF ClientLeaves
  <2>11. CASE ChildReads(c)       BY <2>11 DEF ChildReads
  <2>12. CASE ChildEnds(c)        BY <2>12 DEF ChildEnds, ChildExits
  <2> QED BY <1>1, <2>1, <2>2, <2>3, <2>4, <2>5, <2>6, <2>7, <2>8, <2>9, <2>10,
             <2>11, <2>12 DEF GatewayStep, WriteStep
<1>2. ASSUME NEW c \in Conn, NEW ready \in BOOLEAN, NEW known \in BOOLEAN,
             ProcessRequest(c, ready, known)
      PROVE GatewayTypeOK'
  BY <1>2 DEF ProcessRequest
<1>3. CASE ServerCloses           BY <1>3 DEF ServerCloses
<1>4. CASE ServerStops            BY <1>4 DEF ServerStops
<1>5. CASE OwnerLocks             BY <1>5 DEF OwnerLocks
<1>6. CASE OwnerUnlocks           BY <1>6 DEF OwnerUnlocks
<1>7. CASE OwnerStops             BY <1>7 DEF OwnerStops
<1>8. CASE OwnerExits             BY <1>8 DEF OwnerExits
<1>9. ASSUME NEW c \in Conn, OwnerInterrupts(c) PROVE GatewayTypeOK'
  BY <1>9 DEF OwnerInterrupts, Deliver
<1>10. ASSUME NEW c \in Conn, OwnerTeardown(c) PROVE GatewayTypeOK'
  <2>1. SessionTypeOK'
    <3>1. CASE Call("main", c)      BY <3>1 DEF Call, Goto, Caller
    <3>2. CASE Teardown("main", c)  BY <3>2, TeardownType DEF Caller
    <3> QED BY <1>10, <3>1, <3>2 DEF OwnerTeardown
  <2> QED BY <1>10, <2>1 DEF OwnerTeardown
<1>11. CASE UNCHANGED gatewayVars BY <1>11 DEF gatewayVars
<1> QED BY <1>1, <1>2, <1>3, <1>4, <1>5, <1>6, <1>7, <1>8, <1>9, <1>10, <1>11
        DEF GatewayNext, LoopNext, OwnerStep

LEMMA GatewayInitType == GatewayInit => GatewayTypeOK
<1>1. GatewayInit => SessionTypeOK
  BY DEF GatewayInit, SessionInit, SessionTypeOK
<1>2. 0 \in 0..PipeCap
  BY GatewayAssumption DEF GatewayAssumption
<1> QED BY <1>1, <1>2 DEF GatewayInit, GatewayTypeOK, Over

\* Every variable of the gateway keeps its type, whatever the owner does.
THEOREM GatewayTypeCorrect == GatewaySafety => []GatewayTypeOK
BY GatewayInitType, GatewayTypeStep, GatewayAssumption, PTL DEF GatewaySafety

-----------------------------------------------------------------------------
\* The slot.

Stages == LoopHeld \cup Holding \cup Over \cup {"handshake"}

\* The stages after a claim: the connection has been served.
Served == Holding \cup {"released", "failed", "gone", "lost"}

slotView == <<hpc, slotVars>>

\* What a step of the gateway can do to the slot and to the handlers' stages.
Passes(c, to) ==      \* c goes on without entering or leaving the slot
  /\ to \in Holding <=> hpc[c] \in Holding
  /\ to \in Relaying <=> hpc[c] \in Relaying
  /\ to \in Served <=> hpc[c] \in Served
  /\ UNCHANGED slotVars

Takes(c, to) ==
  /\ hpc[c] = "handshake" /\ to = "claimed"
  /\ activeConnection = NoConn /\ activeConnection' = c
  /\ UNCHANGED activeSession

Binds(c, to) ==
  /\ hpc[c] = "spawned" /\ to = "relay"
  /\ activeSession' = c
  /\ UNCHANGED activeConnection

Frees(c, to) ==
  /\ hpc[c] \in Holding /\ to \in {"released", "failed"}
  /\ activeConnection' = NoConn /\ activeSession' = NoConn

SlotMove ==
  \E c \in Conn : \E to \in Stages :
    /\ hpc' = [hpc EXCEPT ![c] = to]
    /\ Passes(c, to) \/ Takes(c, to) \/ Binds(c, to) \/ Frees(c, to)

\* A handler that releases the slot empties it: it was the only holder.
LEMMA ReleaseEmpties ==
  ASSUME GatewayTypeOK, SlotConsistent, NEW c \in Conn, hpc[c] \in Holding
  PROVE  /\ activeConnection = c
         /\ activeSession \in {c, NoConn}
         /\ hpc[c] \notin Relaying => activeSession = NoConn
<1>1. activeConnection = c
  BY DEF SlotConsistent
<1>2. ASSUME NEW d \in Conn, activeSession = d PROVE d = c
  <2>1. hpc[d] \in Relaying
    BY <1>2 DEF SlotConsistent
  <2>2. hpc[d] \in Holding
    BY <2>1 DEF Relaying, Holding
  <2> QED BY <2>2, <1>1 DEF SlotConsistent
<1> QED BY <1>1, <1>2 DEF GatewayTypeOK, SlotConsistent

\* Every step is one of these moves, or leaves the slot's view as it is.
LEMMA SlotMoves ==
  ASSUME GatewayAssumption, GatewayTypeOK, SlotConsistent, [GatewayNext]_gatewayVars
  PROVE  SlotMove \/ UNCHANGED slotView
<1> USE DEF slotView, slotVars, Stages, Served, LoopHeld, Holding, Relaying, Over
<1>1. ASSUME NEW c \in Conn, HandlerStep(c) PROVE SlotMove
  <2>1. CASE HandshakeFails(c)
    <3>1. Passes(c, "rejected")
      BY <2>1 DEF HandshakeFails, Move, Passes
    <3> QED BY <2>1, <3>1 DEF HandshakeFails, Move, SlotMove
  <2>2. CASE Claim(c)
    BY <2>2 DEF Claim, Move, SlotMove, Takes
  <2>3. CASE Refuse(c)
    <3>1. Passes(c, "rejected")
      BY <2>3 DEF Refuse, Move, Passes
    <3> QED BY <2>3, <3>1 DEF Refuse, Move, SlotMove
  <2>4. CASE SpawnSession(c)
    <3>1. Passes(c, "spawned")
      BY <2>4 DEF SpawnSession, Move, Passes
    <3> QED BY <2>4, <3>1 DEF SpawnSession, Move, SlotMove
  <2>5. CASE SpawnFails(c)
    <3>1. activeSession = NoConn
      BY <2>5, ReleaseEmpties DEF SpawnFails, Move
    <3> QED BY <2>5, <3>1 DEF SpawnFails, Move, SlotMove, Frees
  <2>6. CASE Attach(c)
    BY <2>6 DEF Attach, Move, SlotMove, Binds
  <2>7. CASE BringUpFails(c)
    <3>1. activeConnection = c
      BY <2>7, ReleaseEmpties DEF BringUpFails, Move
    <3> QED BY <2>7, <3>1 DEF BringUpFails, Move, ReleaseSlot, SlotMove, Frees
  <2>8. CASE ReceiveRaises(c)
    <3>1. activeConnection = c
      BY <2>8, ReleaseEmpties DEF ReceiveRaises, Move
    <3> QED BY <2>8, <3>1 DEF ReceiveRaises, Move, ReleaseSlot, SlotMove, Frees
  <2>9. CASE LeaveRelay(c)
    <3>1. activeConnection = c
      BY <2>9, ReleaseEmpties DEF LeaveRelay, Move
    <3> QED BY <2>9, <3>1 DEF LeaveRelay, Move, ReleaseSlot, SlotMove, Frees
  <2>10. CASE Offload(c)
    <3>1. Passes(c, "gone")
      BY <2>10 DEF Offload, Move, Passes
    <3> QED BY <2>10, <3>1 DEF Offload, Move, SlotMove
  <2>11. CASE OffloadRaises(c)
    <3>1. Passes(c, "lost")
      BY <2>11 DEF OffloadRaises, Move, Passes
    <3> QED BY <2>11, <3>1 DEF OffloadRaises, Move, SlotMove
  <2> QED BY <1>1, <2>1, <2>2, <2>3, <2>4, <2>5, <2>6, <2>7, <2>8, <2>9, <2>10, <2>11
          DEF HandlerStep
<1>2. ASSUME NEW c \in Conn, GatewayStep(c) PROVE SlotMove \/ UNCHANGED slotView
  <2>1. CASE RequestArrives(c)
    <3>1. Passes(c, "asking")
      BY <2>1 DEF RequestArrives, Move, Passes
    <3> QED BY <2>1, <3>1 DEF RequestArrives, Move, SlotMove
  <2>2. CASE HandlerStep(c)
    BY <2>2, <1>1
  <2>3. CASE ReceiveFrame(c)
    BY <2>3 DEF ReceiveFrame, Move, SlotMove, Passes
  <2>4. CASE StartWrite(c)
    BY <2>4 DEF StartWrite, Move, SlotMove, Passes
  <2>5. CASE WriteReturns(c)
    BY <2>5 DEF WriteReturns, Move, SlotMove, Passes
  <2>6. CASE WriteFails(c)
    BY <2>6 DEF WriteFails, Move, SlotMove, Passes
  <2>7. CASE StartFinish(c)       BY <2>7 DEF StartFinish
  <2>8. CASE FinishStep(c)        BY <2>8 DEF FinishStep
  <2>9. CASE ConnectionCloses(c)  BY <2>9 DEF ConnectionCloses
  <2>10. CASE ClientLeaves(c)     BY <2>10 DEF ClientLeaves
  <2>11. CASE ChildReads(c)       BY <2>11 DEF ChildReads
  <2>12. CASE ChildEnds(c)        BY <2>12 DEF ChildEnds
  <2> QED BY <1>2, <2>1, <2>2, <2>3, <2>4, <2>5, <2>6, <2>7, <2>8, <2>9, <2>10,
             <2>11, <2>12 DEF GatewayStep, WriteStep
<1>3. ASSUME NEW c \in Conn, NEW ready \in BOOLEAN, NEW known \in BOOLEAN,
             ProcessRequest(c, ready, known)
      PROVE SlotMove
  BY <1>3 DEF ProcessRequest, Move, SlotMove, Passes
<1>4. CASE ServerCloses \/ ServerStops
  BY <1>4 DEF ServerCloses, ServerStops
<1>5. CASE OwnerStep
  BY <1>5 DEF OwnerStep, OwnerLocks, OwnerUnlocks, OwnerStops, OwnerExits,
              OwnerInterrupts, OwnerTeardown
<1>6. CASE UNCHANGED gatewayVars
  BY <1>6 DEF gatewayVars
<1> QED BY <1>2, <1>3, <1>4, <1>5, <1>6 DEF GatewayNext, LoopNext

\* The moves keep the slot and the handlers in agreement.
LEMMA SlotConsistentStep ==
  ASSUME GatewayAssumption, GatewayTypeOK, SlotConsistent, SlotMove \/ UNCHANGED slotView
  PROVE  SlotConsistent'
<1>1. CASE UNCHANGED slotView
  BY <1>1 DEF slotView, slotVars, SlotConsistent
<1>2. ASSUME NEW c \in Conn, NEW to \in Stages,
             hpc' = [hpc EXCEPT ![c] = to],
             Passes(c, to) \/ Takes(c, to) \/ Binds(c, to) \/ Frees(c, to)
      PROVE SlotConsistent'
  <2>0. hpc'[c] = to /\ \A d \in Conn \ {c} : hpc'[d] = hpc[d]
    BY <1>2 DEF GatewayTypeOK
  <2>1. CASE Passes(c, to)
    BY <2>0, <2>1 DEF Passes, slotVars, SlotConsistent
  <2>2. CASE Takes(c, to)
    BY <2>0, <2>2, GatewayAssumption
       DEF Takes, SlotConsistent, GatewayAssumption, Holding, Relaying
  <2>3. CASE Binds(c, to)
    <3>1. activeConnection = c
      BY <2>3, ReleaseEmpties DEF Binds, Holding
    <3>2. \A d \in Conn \ {c} : activeSession # d
      BY <2>3, ReleaseEmpties, GatewayAssumption DEF Binds, Holding, GatewayAssumption
    <3> QED BY <2>0, <2>3, <3>1, <3>2 DEF Binds, SlotConsistent, Holding, Relaying
  <2>4. CASE Frees(c, to)
    <3>1. \A d \in Conn \ {c} : hpc[d] \notin Holding /\ hpc[d] \notin Relaying
      BY <2>4, ReleaseEmpties DEF Frees, SlotConsistent, Holding, Relaying
    <3>2. to \notin Holding /\ to \notin Relaying
      BY <2>4 DEF Frees, Holding, Relaying
    <3> QED BY <2>0, <2>4, <3>1, <3>2, GatewayAssumption
            DEF Frees, SlotConsistent, GatewayAssumption
  <2> QED BY <1>2, <2>1, <2>2, <2>3, <2>4
<1> QED BY <1>1, <1>2 DEF SlotMove

SlotInv == GatewayTypeOK /\ SlotConsistent

LEMMA SlotInvariant == GatewaySafety => []SlotInv
<1>1. GatewayInit => SlotConsistent
  BY GatewayAssumption
     DEF GatewayInit, SlotConsistent, GatewayAssumption, Holding, Relaying
<1>2. SlotInv /\ [GatewayNext]_gatewayVars => SlotConsistent'
  BY GatewayAssumption, SlotMoves, SlotConsistentStep DEF SlotInv
<1> QED BY <1>1, <1>2, GatewayTypeCorrect, PTL DEF GatewaySafety, SlotInv

\* At every instant the slot names the one handler that holds it, and the
\* session that relays: no second session can exist beside it.
THEOREM SlotAlwaysConsistent == GatewaySafety => []SlotConsistent
BY SlotInvariant, PTL DEF SlotInv

\* The gateway implements the single-session slot.
THEOREM GatewayImplementsSlot == GatewaySafety => ImplementsSlot
<1>1. GatewayInit => Slot!Init
  BY DEF GatewayInit, Slot!Init, Holding
<1>2. ASSUME SlotInv, SlotInv', [GatewayNext]_gatewayVars
      PROVE  [Slot!Next]_Slot!slot
  <2> DEFINE served == {c \in Conn : hpc[c] \in Holding \cup {"released", "failed", "gone", "lost"}}
  <2>1. CASE UNCHANGED slotView
    BY <2>1 DEF slotView, slotVars, Slot!slot
  <2>2. ASSUME NEW c \in Conn, NEW to \in Stages,
               hpc' = [hpc EXCEPT ![c] = to],
               Passes(c, to) \/ Takes(c, to) \/ Binds(c, to) \/ Frees(c, to)
        PROVE [Slot!Next]_Slot!slot
    <3>0. hpc'[c] = to /\ \A d \in Conn \ {c} : hpc'[d] = hpc[d]
      BY <1>2, <2>2 DEF SlotInv, GatewayTypeOK
    <3>1. CASE Passes(c, to)
      <4>1. served' = served
        BY <3>0, <3>1 DEF Passes, Served
      <4> QED BY <4>1, <3>1 DEF Passes, slotVars, Slot!slot
    <3>2. CASE Takes(c, to)
      <4>1. c \notin served /\ served' = served \cup {c}
        BY <3>0, <3>2 DEF Takes, Holding
      <4> QED BY <4>1, <3>2 DEF Takes, Slot!Next, Slot!Take
    <3>3. CASE Binds(c, to)
      <4>1. served' = served
        BY <3>0, <3>3 DEF Binds, Holding
      <4>2. activeConnection = c /\ activeSession = NoConn
        BY <1>2, <3>3, ReleaseEmpties DEF SlotInv, Binds, Holding, Relaying
      <4> QED BY <4>1, <4>2, <3>3 DEF Binds, Slot!Next, Slot!Bind
    <3>4. CASE Frees(c, to)
      <4>1. served' = served
        BY <3>0, <3>4 DEF Frees, Holding
      <4>2. activeConnection = c
        BY <1>2, <3>4, ReleaseEmpties DEF SlotInv, Frees
      <4> QED BY <4>1, <4>2, <3>4 DEF Frees, Slot!Next, Slot!Free
    <3> QED BY <2>2, <3>1, <3>2, <3>3, <3>4
  <2> QED BY <1>2, <2>1, <2>2, SlotMoves, GatewayAssumption DEF SlotInv, SlotMove
<1> QED BY <1>1, <1>2, SlotInvariant, PTL DEF GatewaySafety, ImplementsSlot, Slot!Spec

-----------------------------------------------------------------------------
\* The sessions under the gateway.

\* The stages in which no session has been spawned for the connection.
Unborn == {"idle", "asking", "handshake", "rejected", "claimed", "failed"}

\* A session exists from the spawn on, and a worker has its disconnect to finish
\* exactly when its handler got to the end.
LinkInv ==
  \A c \in Conn :
    /\ child[c] = "none" <=> hpc[c] \in Unborn
    /\ hpc[c] = "gone" <=> tpc["executor"][c] # "none"

\* Every step of the gateway does to the sessions what RuntimeSession allows.
LEMMA SessionMoves ==
  ASSUME GatewayTypeOK, LinkInv, [GatewayNext]_gatewayVars
  PROVE  SessionMove \/ UNCHANGED sessionVars
<1>1. ASSUME NEW c \in Conn, HandlerStep(c) PROVE SessionMove \/ UNCHANGED sessionVars
  <2>1. CASE SpawnSession(c)
    BY <2>1 DEF SpawnSession, SessionMove
  <2>2. CASE Offload(c)
    <3>1. child[c] # "none"
      BY <2>2 DEF Offload, Move, LinkInv, Unborn
    <3>2. Sent("executor", c)
      BY <2>2, <3>1 DEF Offload, Sent
    <3> QED BY <3>2 DEF SessionMove, Caller
  <2> QED BY <1>1, <2>1, <2>2
          DEF HandlerStep, HandshakeFails, Claim, Refuse, SpawnFails, Attach, BringUpFails,
              ReceiveRaises, LeaveRelay, OffloadRaises, sessionVars
<1>2. ASSUME NEW c \in Conn, GatewayStep(c) PROVE SessionMove \/ UNCHANGED sessionVars
  <2>1. CASE StartFinish(c)
    <3>1. child[c] # "none"
      BY <2>1 DEF StartFinish, Goto, LinkInv, Unborn
    <3>2. Sent("executor", c)
      BY <2>1, <3>1 DEF StartFinish, Sent
    <3> QED BY <3>2 DEF SessionMove, Caller
  <2>2. CASE FinishStep(c)
    BY <2>2 DEF FinishStep, SessionMove, Caller
  <2>3. CASE ChildEnds(c)
    BY <2>3 DEF ChildEnds, SessionMove
  <2> QED BY <1>1, <1>2, <2>1, <2>2, <2>3
          DEF GatewayStep, RequestArrives, ReceiveFrame, StartWrite, WriteStep, WriteReturns,
              WriteFails, ConnectionCloses, ClientLeaves, ChildReads, sessionVars
<1>3. CASE OwnerStep
  <2>1. ASSUME NEW c \in Conn, OwnerInterrupts(c) PROVE SessionMove
    BY <2>1 DEF OwnerInterrupts, Interrupted, SessionMove
  <2>2. ASSUME NEW c \in Conn, OwnerTeardown(c) PROVE SessionMove
    <3>1. Sent("main", c) \/ Teardown("main", c)
      BY <2>2 DEF OwnerTeardown, Call, Sent
    <3> QED BY <3>1 DEF SessionMove, Caller
  <2> QED BY <1>3, <2>1, <2>2
          DEF OwnerStep, OwnerLocks, OwnerUnlocks, OwnerStops, OwnerExits, sessionVars
<1> QED BY <1>2, <1>3
        DEF GatewayNext, LoopNext, ProcessRequest, ServerCloses, ServerStops, gatewayVars,
            sessionVars

LEMMA LinkInvStep ==
  ASSUME GatewayTypeOK, LinkInv, [GatewayNext]_gatewayVars
  PROVE  LinkInv'
<1> USE DEF GatewayTypeOK, SessionTypeOK, LinkInv, Unborn, Move, Goto, Caller, sessionVars
<1>1. ASSUME NEW c \in Conn, HandlerStep(c) PROVE LinkInv'
  <2>1. CASE HandshakeFails(c)  BY <2>1 DEF HandshakeFails
  <2>2. CASE Claim(c)           BY <2>2 DEF Claim
  <2>3. CASE Refuse(c)          BY <2>3 DEF Refuse
  <2>4. CASE SpawnSession(c)    BY <2>4 DEF SpawnSession, Spawn
  <2>5. CASE SpawnFails(c)      BY <2>5 DEF SpawnFails
  <2>6. CASE Attach(c)          BY <2>6 DEF Attach
  <2>7. CASE BringUpFails(c)    BY <2>7 DEF BringUpFails
  <2>8. CASE ReceiveRaises(c)   BY <2>8 DEF ReceiveRaises
  <2>9. CASE LeaveRelay(c)      BY <2>9 DEF LeaveRelay
  <2>10. CASE Offload(c)        BY <2>10 DEF Offload
  <2>11. CASE OffloadRaises(c)  BY <2>11 DEF OffloadRaises
  <2> QED BY <1>1, <2>1, <2>2, <2>3, <2>4, <2>5, <2>6, <2>7, <2>8, <2>9, <2>10, <2>11
          DEF HandlerStep
<1>2. ASSUME NEW c \in Conn, NEW k \in Caller, Teardown(k, c), UNCHANGED hpc PROVE LinkInv'
  <2>1. /\ child' = child
        /\ \A d \in Conn : (tpc'["executor"][d] = "none") <=> (tpc["executor"][d] = "none")
    BY <1>2 DEF Teardown, TeardownSkipped, TeardownBegins, TeardownInterrupts, TeardownReaps,
                TeardownKills, TeardownGivesUp, TeardownCloses
  <2> QED BY <1>2, <2>1
<1>3. ASSUME NEW c \in Conn, GatewayStep(c) PROVE LinkInv'
  <2>1. CASE RequestArrives(c)    BY <2>1 DEF RequestArrives
  <2>2. CASE ReceiveFrame(c)      BY <2>2 DEF ReceiveFrame
  <2>3. CASE StartWrite(c)        BY <2>3 DEF StartWrite
  <2>4. CASE WriteReturns(c)      BY <2>4 DEF WriteReturns
  <2>5. CASE WriteFails(c)        BY <2>5 DEF WriteFails
  <2>6. CASE StartFinish(c)       BY <2>6 DEF StartFinish
  <2>7. CASE FinishStep(c)        BY <2>7, <1>2 DEF FinishStep
  <2>8. CASE ConnectionCloses(c)  BY <2>8 DEF ConnectionCloses
  <2>9. CASE ClientLeaves(c)      BY <2>9 DEF ClientLeaves
  <2>10. CASE ChildReads(c)       BY <2>10 DEF ChildReads
  <2>11. CASE ChildEnds(c)        BY <2>11 DEF ChildEnds, ChildExits
  <2> QED BY <1>1, <1>3, <2>1, <2>2, <2>3, <2>4, <2>5, <2>6, <2>7, <2>8, <2>9, <2>10, <2>11
          DEF GatewayStep, WriteStep
<1>4. ASSUME NEW c \in Conn, NEW ready \in BOOLEAN, NEW known \in BOOLEAN,
             ProcessRequest(c, ready, known)
      PROVE LinkInv'
  BY <1>4 DEF ProcessRequest
<1>5. CASE ServerCloses \/ ServerStops
  BY <1>5 DEF ServerCloses, ServerStops
<1>6. CASE OwnerLocks \/ OwnerUnlocks \/ OwnerStops \/ OwnerExits
  BY <1>6 DEF OwnerLocks, OwnerUnlocks, OwnerStops, OwnerExits
<1>7. ASSUME NEW c \in Conn, OwnerInterrupts(c) PROVE LinkInv'
  BY <1>7 DEF OwnerInterrupts
<1>8. ASSUME NEW c \in Conn, OwnerTeardown(c) PROVE LinkInv'
  <2>1. CASE Call("main", c)
    BY <1>8, <2>1 DEF OwnerTeardown, Call
  <2>2. CASE Teardown("main", c)
    BY <1>8, <2>2, <1>2 DEF OwnerTeardown
  <2> QED BY <1>8, <2>1, <2>2 DEF OwnerTeardown
<1>9. CASE UNCHANGED gatewayVars
  BY <1>9 DEF gatewayVars
<1> QED BY <1>3, <1>4, <1>5, <1>6, <1>7, <1>8, <1>9 DEF GatewayNext, LoopNext, OwnerStep

GatewayInv == GatewayTypeOK /\ LinkInv /\ SessionInv

LEMMA GatewayInvariant == GatewaySafety => []GatewayInv
<1>1. GatewayInit => LinkInv /\ SessionInv
  BY DEF GatewayInit, SessionInit, LinkInv, Unborn, SessionInv, Born, Guarded, Asked, Touched, Body,
         Caller
<1>2. GatewayInv /\ [GatewayNext]_gatewayVars => LinkInv' /\ SessionInv'
  BY LinkInvStep, SessionMoves, SessionInvStep DEF GatewayInv, GatewayTypeOK
<1> QED BY <1>1, <1>2, GatewayTypeCorrect, PTL DEF GatewaySafety, GatewayInv

\* Under the gateway too, the executor and the owner's main thread between them
\* run the body of a session's teardown once.
THEOREM GatewayTeardownOnce == GatewaySafety => [](TeardownOnce /\ NoSilentClose)
BY GatewayInvariant, SessionInvImplies, PTL DEF GatewayInv, GatewayTypeOK

\* No connection ends with its child left behind, but for the handler whose
\* run_in_executor raised.
THEOREM GatewayLeavesNoStray == GatewaySafety => []NoStrayChild
<1>1. ASSUME GatewayInv PROVE NoStrayChild
  <2>1. SUFFICES ASSUME NEW c \in Conn, child[c] = "running",
                        hpc[c] \notin Holding \cup {"released", "lost"},
                        tpc["executor"][c] \notin {"queued", "enter"},
                        \A k \in Caller : tpc[k][c] \notin Body
                 PROVE  "kill" \in signals[c]
    BY DEF NoStrayChild
  <2>2. hpc[c] = "gone"
    BY <1>1, <2>1
       DEF GatewayInv, GatewayTypeOK, LinkInv, Unborn, LoopHeld, Holding, Over
  <2>3. tpc["executor"][c] = "done"
    BY <1>1, <2>1, <2>2 DEF GatewayInv, GatewayTypeOK, SessionTypeOK, LinkInv, Caller
  <2>4. tornDown[c]
    BY <1>1, <2>3 DEF GatewayInv, SessionInv, Guarded, Caller
  <2>5. fds[c] = "closed"
    BY <1>1, <2>1, <2>4 DEF GatewayInv, SessionInv, Guarded
  <2> QED BY <1>1, <2>1, <2>5 DEF GatewayInv, SessionInv, Asked
<1> QED BY <1>1, GatewayInvariant, PTL
=============================================================================
