--------------------------- MODULE TransportGateway ---------------------------
(***************************************************************************)
(* runtime/transport_gateway.py: one asyncio event loop in its own thread, *)
(* one handler coroutine per /ws connection, a slot that admits a single   *)
(* session, and the default thread pool that runs the blocking calls       *)
(* (os.write to the child's pipes, _finish_disconnect, stop_event.wait).   *)
(*                                                                         *)
(* The loop is cooperative.  A handler gives it up only at an await, so    *)
(* while one stands in LoopHeld no other coroutine runs -- other THREADS   *)
(* do: pool workers, the children, the Shell's main thread.                *)
(*                                                                         *)
(* The gateway is an open system: what the Shell's main thread does to it  *)
(* (is_ready, get_active_session, a teardown of its own, stop, interpreter *)
(* exit) is left unconstrained here and fixed in CloudRunShell.            *)
(***************************************************************************)
EXTENDS RuntimeSession

CONSTANTS
  NoConn,     \* the empty slot (None)
  Workers,    \* threads of the loop's default executor
  PipeCap     \* frames a child's pipe holds before os.write blocks

ASSUME GatewayAssumption ==
  /\ NoConn \notin Conn
  /\ Workers \in Nat /\ Workers >= 2     \* the pool has min(32, cpus + 4)
  /\ PipeCap \in Nat \ {0}

VARIABLES
  hpc,               \* hpc[c]: where c's request and handler stand
  client,            \* client[c]: the remote end of connection c
  activeConnection,  \* _active_connection
  activeSession,     \* _active_session
  activeHeld,        \* _active_lock is held by the Shell's main thread
  pipe,              \* pipe[c]: frames written and not yet read by the child
  gateway,           \* the server: serving, closing after stop(), stopped
  stopEvent,         \* _stop_event
  executorDown       \* concurrent.futures refuses work: the interpreter exits

slotVars == <<activeConnection, activeSession>>
lifeVars == <<gateway, stopEvent, executorDown>>
gatewayVars == <<sessionVars, hpc, client, slotVars, activeHeld, pipe, lifeVars>>

\* The handler runs: it will not give the loop up before the next await.
LoopHeld == {"asking", "claimed", "spawned", "released"}

\* The handler is past the claim and has not released the slot.
Holding == {"claimed", "spawned", "relay", "writeQueued", "writing", "broken"}

\* The session is attached and frames are relayed.
Relaying == {"relay", "writeQueued", "writing", "broken"}

\* Nothing more will run for this connection.
Over == {"idle", "rejected", "failed", "gone", "lost"}

GatewayTypeOK ==
  /\ SessionTypeOK
  /\ hpc \in [Conn -> LoopHeld \cup Holding \cup Over \cup {"handshake"}]
  /\ client \in [Conn -> {"away", "open", "buffered", "closed"}]
  /\ activeConnection \in Conn \cup {NoConn}
  /\ activeSession \in Conn \cup {NoConn}
  /\ activeHeld \in BOOLEAN
  /\ pipe \in [Conn -> 0..PipeCap]
  /\ gateway \in {"serving", "closing", "stopped"}
  /\ stopEvent \in BOOLEAN
  /\ executorDown \in BOOLEAN

GatewayInit ==
  /\ SessionInit
  /\ hpc = [c \in Conn |-> "idle"]
  /\ client = [c \in Conn |-> "away"]
  /\ activeConnection = NoConn
  /\ activeSession = NoConn
  /\ activeHeld = FALSE
  /\ pipe = [c \in Conn |-> 0]
  /\ gateway = "serving"
  /\ stopEvent = FALSE
  /\ executorDown = FALSE

-----------------------------------------------------------------------------
\* Pieces of the actions.

LoopFree == \A c \in Conn : hpc[c] \notin LoopHeld

Move(c, from, to) ==
  /\ hpc[c] = from
  /\ hpc' = [hpc EXCEPT ![c] = to]

\* Workers occupied: stop_event.wait until stop(), one per write or teardown.
PoolBusy ==
  (IF stopEvent THEN 0 ELSE 1)
  + Cardinality({c \in Conn : hpc[c] = "writing"})
  + Cardinality({c \in Conn : tpc["executor"][c] \in {"enter"} \cup Body})

\* The response is sent or the handler returns: the library closes the connection.
HangUp(c) == client' = [client EXCEPT ![c] = "closed"]

\* `if self._active_connection is websocket`, then _active_session = None.
ReleaseSlot(c) ==
  /\ activeConnection' = IF activeConnection = c THEN NoConn ELSE activeConnection
  /\ activeSession' = NoConn

-----------------------------------------------------------------------------
\* The HTTP request: _process_request.

\* A client asks for /ws and the loop starts on its request.
RequestArrives(c) ==
  /\ gateway = "serving" /\ LoopFree
  /\ Move(c, "idle", "asking")
  /\ client' = [client EXCEPT ![c] = "open"]
  /\ UNCHANGED <<sessionVars, slotVars, activeHeld, pipe, lifeVars>>

\* 503 unless ready, 400 unless the provider is known, 409 if the slot is
\* taken (a fast path only: nothing is reserved here), else the handshake.
ProcessRequest(c, ready, known) ==
  /\ ~activeHeld
  /\ IF ready /\ known /\ activeConnection = NoConn
       THEN Move(c, "asking", "handshake") /\ UNCHANGED client
       ELSE Move(c, "asking", "rejected") /\ HangUp(c)
  /\ UNCHANGED <<sessionVars, slotVars, activeHeld, pipe, lifeVars>>

\* The handshake fails: the client is gone, or a closing server answers 503.
HandshakeFails(c) ==
  /\ LoopFree
  /\ client[c] # "open" \/ gateway # "serving"
  /\ Move(c, "handshake", "rejected") /\ HangUp(c)
  /\ UNCHANGED <<sessionVars, slotVars, activeHeld, pipe, lifeVars>>

-----------------------------------------------------------------------------
\* The handler coroutine: _handler.

\* Mutated form: the fast path of _process_request is trusted.
ClaimUntested(c) ==
  /\ gateway = "serving" /\ LoopFree /\ ~activeHeld
  /\ Move(c, "handshake", "claimed")
  /\ activeConnection' = c
  /\ UNCHANGED <<sessionVars, client, activeSession, activeHeld, pipe, lifeVars>>

\* The atomic claim: test and set under one acquisition of _active_lock.
Claim(c) ==
  /\ gateway = "serving" /\ LoopFree /\ ~activeHeld
  /\ activeConnection = NoConn
  /\ Move(c, "handshake", "claimed")
  /\ activeConnection' = c
  /\ UNCHANGED <<sessionVars, client, activeSession, activeHeld, pipe, lifeVars>>

\* The claim is lost: close 1013, before any child exists.
Refuse(c) ==
  /\ gateway = "serving" /\ LoopFree /\ ~activeHeld
  /\ activeConnection # NoConn
  /\ Move(c, "handshake", "rejected") /\ HangUp(c)
  /\ UNCHANGED <<sessionVars, slotVars, activeHeld, pipe, lifeVars>>

\* session_factory, called on the loop, starts a child.
SpawnSession(c) ==
  /\ Move(c, "claimed", "spawned")
  /\ Spawn(c)
  /\ UNCHANGED <<client, slotVars, activeHeld, pipe, lifeVars>>

\* Mutated form: the claim outlives the failed spawn.
SpawnFailsClaimed(c) ==
  /\ Move(c, "claimed", "failed") /\ HangUp(c)
  /\ UNCHANGED <<sessionVars, slotVars, activeHeld, pipe, lifeVars>>

\* session_factory raises, nothing left behind: release the claim, close 1011.
SpawnFails(c) ==
  /\ ~activeHeld
  /\ Move(c, "claimed", "failed") /\ HangUp(c)
  /\ activeConnection' = NoConn
  /\ UNCHANGED <<sessionVars, activeSession, activeHeld, pipe, lifeVars>>

\* Attach the session, start the reader thread and the drain task.
Attach(c) ==
  /\ ~activeHeld
  /\ Move(c, "spawned", "relay")
  /\ activeSession' = c
  /\ UNCHANGED <<sessionVars, client, activeConnection, activeHeld, pipe, lifeVars>>

\* Mutated form: the try starts only after the session is up.
BringUpFailsUncaught(c) ==
  /\ ~activeHeld
  /\ Move(c, "spawned", "failed") /\ HangUp(c)
  /\ ReleaseSlot(c)
  /\ UNCHANGED <<sessionVars, activeHeld, pipe, lifeVars>>

\* Bringing the session up fails after the spawn: straight to the finally.
BringUpFails(c) ==
  /\ ~activeHeld
  /\ Move(c, "spawned", "released")
  /\ ReleaseSlot(c)
  /\ UNCHANGED <<sessionVars, client, activeHeld, pipe, lifeVars>>

\* A frame arrives, possibly one buffered before the client left; its write
\* is submitted to the pool.
ReceiveFrame(c) ==
  /\ LoopFree /\ ~executorDown
  /\ client[c] \in {"open", "buffered"}
  /\ Move(c, "relay", "writeQueued")
  /\ client' = [client EXCEPT ![c] = IF @ = "buffered" THEN "closed" ELSE @]
  /\ UNCHANGED <<sessionVars, slotVars, activeHeld, pipe, lifeVars>>

\* The pool is gone: run_in_executor raises, which nothing but the finally
\* catches.
ReceiveRaises(c) ==
  /\ LoopFree /\ executorDown /\ ~activeHeld
  /\ client[c] \in {"open", "buffered"}
  /\ Move(c, "relay", "released")
  /\ ReleaseSlot(c)
  /\ UNCHANGED <<sessionVars, client, activeHeld, pipe, lifeVars>>

\* The relay loop ends -- the client closed, or a write failed -- and the
\* finally block releases the slot, all before the loop is given up.
LeaveRelay(c) ==
  /\ LoopFree /\ ~activeHeld
  /\ \/ client[c] = "closed" /\ Move(c, "relay", "released")
     \/ Move(c, "broken", "released")
  /\ ReleaseSlot(c)
  /\ UNCHANGED <<sessionVars, client, activeHeld, pipe, lifeVars>>

\* Mutated form: nothing is scheduled.
OffloadForgotten(c) ==
  /\ Move(c, "released", "gone") /\ HangUp(c)
  /\ UNCHANGED <<sessionVars, slotVars, activeHeld, pipe, lifeVars>>

\* loop.run_in_executor(_finish_disconnect): the last thing a handler does.
Offload(c) ==
  /\ ~executorDown
  /\ Move(c, "released", "gone") /\ HangUp(c)
  /\ Goto("executor", c, "none", "queued")
  /\ UNCHANGED <<child, signals, fds, tornDown, slotVars, activeHeld,
                 pipe, lifeVars>>

\* ... which raises once the interpreter shuts down; the future is not awaited.
OffloadRaises(c) ==
  /\ executorDown
  /\ Move(c, "released", "lost") /\ HangUp(c)
  /\ UNCHANGED <<sessionVars, slotVars, activeHeld, pipe, lifeVars>>

HandlerStep(c) ==
  \/ HandshakeFails(c) \/ Claim(c) \/ Refuse(c)
  \/ SpawnSession(c) \/ SpawnFails(c)
  \/ Attach(c) \/ BringUpFails(c)
  \/ ReceiveRaises(c) \/ LeaveRelay(c)
  \/ Offload(c) \/ OffloadRaises(c)

-----------------------------------------------------------------------------
\* The pool.

StartWrite(c) ==
  /\ PoolBusy < Workers
  /\ Move(c, "writeQueued", "writing")
  /\ UNCHANGED <<sessionVars, client, slotVars, activeHeld, pipe, lifeVars>>

\* os.write returns: the pipe had room.
WriteReturns(c) ==
  /\ fds[c] = "open" /\ child[c] = "running" /\ pipe[c] < PipeCap
  /\ Move(c, "writing", "relay")
  /\ pipe' = [pipe EXCEPT ![c] = @ + 1]
  /\ UNCHANGED <<sessionVars, client, slotVars, activeHeld, lifeVars>>

\* EPIPE, the child's end is gone; or EBADF, a teardown closed the descriptor.
WriteFails(c) ==
  /\ fds[c] = "closed" \/ child[c] = "exited"
  /\ Move(c, "writing", "broken")
  /\ UNCHANGED <<sessionVars, client, slotVars, activeHeld, pipe, lifeVars>>

WriteStep(c) == WriteReturns(c) \/ WriteFails(c)

\* _finish_disconnect: a worker takes it up and joins the reader thread, which
\* ends or is given up on after two seconds; then the session's teardown.
StartFinish(c) ==
  /\ PoolBusy < Workers
  /\ Goto("executor", c, "queued", "enter")
  /\ UNCHANGED <<child, signals, fds, tornDown, hpc, client, slotVars, activeHeld,
                 pipe, lifeVars>>

FinishStep(c) ==
  /\ Teardown("executor", c)
  /\ UNCHANGED <<hpc, client, slotVars, activeHeld, pipe, lifeVars>>

-----------------------------------------------------------------------------
\* The server's end: _serve after stop_event.wait returns.

\* Leaving `async with serve(...)` closes the server ...
ServerCloses ==
  /\ gateway = "serving" /\ stopEvent /\ LoopFree
  /\ gateway' = "closing"
  /\ UNCHANGED <<sessionVars, hpc, client, slotVars, activeHeld, pipe, stopEvent,
                 executorDown>>

\* Mutated form: close_connections=False.
ConnectionKept(c) ==
  /\ gateway = "closing"
  /\ client[c] = "open" /\ hpc[c] = "handshake"
  /\ client' = [client EXCEPT ![c] = "closed"]
  /\ UNCHANGED <<sessionVars, hpc, slotVars, activeHeld, pipe, lifeVars>>

\* ... closes every open connection with 1001, or drops it when the client
\* does not answer the closing handshake in time ...
ConnectionCloses(c) ==
  /\ gateway = "closing"
  /\ client[c] = "open"
  /\ client' = [client EXCEPT ![c] = "closed"]
  /\ UNCHANGED <<sessionVars, hpc, slotVars, activeHeld, pipe, lifeVars>>

\* ... and waits for every handler before the loop is closed.
ServerStops ==
  /\ gateway = "closing" /\ \A c \in Conn : hpc[c] \in Over
  /\ gateway' = "stopped"
  /\ UNCHANGED <<sessionVars, hpc, client, slotVars, activeHeld, pipe, stopEvent,
                 executorDown>>

-----------------------------------------------------------------------------
\* The processes around the gateway.

\* The client disconnects, a last frame of it perhaps still to be read.
ClientLeaves(c) ==
  /\ client[c] = "open"
  /\ \E rest \in {"buffered", "closed"} : client' = [client EXCEPT ![c] = rest]
  /\ UNCHANGED <<sessionVars, hpc, slotVars, activeHeld, pipe, lifeVars>>

ChildReads(c) ==
  /\ child[c] = "running" /\ pipe[c] > 0
  /\ pipe' = [pipe EXCEPT ![c] = @ - 1]
  /\ UNCHANGED <<sessionVars, hpc, client, slotVars, activeHeld, lifeVars>>

\* What was left in its pipes is gone with it.
ChildEnds(c) ==
  /\ ChildExits(c)
  /\ pipe' = [pipe EXCEPT ![c] = 0]
  /\ UNCHANGED <<hpc, client, slotVars, activeHeld, lifeVars>>

\* What the owner's main thread may do: hold _active_lock in
\* get_active_session(), interrupt a child or tear its session down, call
\* stop(), and exit (executorDown).
OwnerLocks ==
  /\ ~activeHeld /\ activeHeld' = TRUE
  /\ UNCHANGED <<sessionVars, hpc, client, slotVars, pipe, lifeVars>>

OwnerUnlocks ==
  /\ activeHeld /\ activeHeld' = FALSE
  /\ UNCHANGED <<sessionVars, hpc, client, slotVars, pipe, lifeVars>>

OwnerInterrupts(c) ==
  /\ child[c] # "none" /\ Deliver(c, "int")
  /\ UNCHANGED <<child, fds, tornDown, tpc, hpc, client, slotVars, activeHeld,
                 pipe, lifeVars>>

OwnerTeardown(c) ==
  /\ Call("main", c) \/ Teardown("main", c)
  /\ UNCHANGED <<hpc, client, slotVars, activeHeld, pipe, lifeVars>>

OwnerStops ==
  /\ ~stopEvent /\ stopEvent' = TRUE
  /\ UNCHANGED <<sessionVars, hpc, client, slotVars, activeHeld, pipe, gateway,
                 executorDown>>

OwnerExits ==
  /\ stopEvent /\ ~executorDown /\ executorDown' = TRUE
  /\ UNCHANGED <<sessionVars, hpc, client, slotVars, activeHeld, pipe, gateway,
                 stopEvent>>

-----------------------------------------------------------------------------
GatewayStep(c) ==
  \/ RequestArrives(c)
  \/ HandlerStep(c)
  \/ ReceiveFrame(c)
  \/ StartWrite(c) \/ WriteStep(c)
  \/ StartFinish(c) \/ FinishStep(c)
  \/ ConnectionCloses(c)
  \/ ClientLeaves(c) \/ ChildReads(c) \/ ChildEnds(c)

OwnerStep ==
  \/ OwnerLocks \/ OwnerUnlocks \/ OwnerStops \/ OwnerExits
  \/ \E c \in Conn : OwnerInterrupts(c) \/ OwnerTeardown(c)

\* The gateway, its clients and the children, left alone by the owner ...
LoopNext ==
  \/ \E c \in Conn : GatewayStep(c)
  \/ \E c \in Conn : \E ready, known \in BOOLEAN : ProcessRequest(c, ready, known)
  \/ ServerCloses \/ ServerStops

\* ... and with an owner that may do anything its interface lets it.
GatewayNext == LoopNext \/ OwnerStep

\* Every thread keeps running and every timeout passes.  The pool's queue is first
\* in, first out, so what waits in it has its turn however often workers are taken:
\* strong fairness.  Weak fairness is enough elsewhere: the owner takes _active_lock
\* only a bounded number of times (it polls within the grace window), and a
\* connection holds the loop only once.  The loop also reads what a departed client
\* left in its buffer.
ThreadFairness ==
  /\ \A c \in Conn :
       /\ WF_gatewayVars(\E ready, known \in BOOLEAN : ProcessRequest(c, ready, known))
       /\ WF_gatewayVars(HandlerStep(c))
       /\ WF_gatewayVars(ReceiveFrame(c) /\ client[c] = "buffered")
       /\ SF_gatewayVars(StartWrite(c)) /\ WF_gatewayVars(WriteStep(c))
       /\ SF_gatewayVars(StartFinish(c)) /\ WF_gatewayVars(FinishStep(c))
       /\ WF_gatewayVars(ConnectionCloses(c))
  /\ WF_gatewayVars(ServerCloses) /\ WF_gatewayVars(ServerStops)

\* SIGKILL cannot be ignored.
KillFairness ==
  \A c \in Conn : WF_gatewayVars(ChildEnds(c) /\ "kill" \in signals[c])

\* phantom_runtime.py's readers never block on their consumers
\* (_record_audio_from_fd drops a block when audio_queue is full): a child that
\* lives and is not wedged reads its pipes.
ChildFairness == \A c \in Conn : WF_gatewayVars(ChildReads(c))

GatewaySafety == GatewayInit /\ [][GatewayNext]_gatewayVars
GatewaySpec == GatewaySafety /\ ThreadFairness /\ KillFairness /\ ChildFairness

-----------------------------------------------------------------------------
\* Properties.

\* The single-session slot and the handlers agree, at every instant another
\* thread can look: _active_connection names the one handler between its claim
\* and its finally block, _active_session the one that relays frames.
SlotConsistent ==
  \A c \in Conn :
    /\ activeConnection = c <=> hpc[c] \in Holding
    /\ activeSession = c <=> hpc[c] \in Relaying

\* "no Runtime child outlives its client": a live child always has somebody who
\* will end it -- its handler, a worker that has its disconnect to finish, or a
\* teardown under way -- or was killed.  The one exception is the handler whose
\* run_in_executor raised because the interpreter was exiting.
NoStrayChild ==
  \A c \in Conn :
    child[c] = "running" =>
      \/ hpc[c] \in Holding \cup {"released", "lost"}
      \/ tpc["executor"][c] \in {"queued", "enter"}
      \/ \E k \in Caller : tpc[k][c] \in Body
      \/ "kill" \in signals[c]

\* What the slot promises (SessionSlot): one holder at a time, its session bound
\* after the claim and dropped with it, and no connection served twice.
Slot == INSTANCE SessionSlot WITH
  holder <- activeConnection,
  session <- activeSession,
  served <- {c \in Conn : hpc[c] \in Holding \cup {"released", "failed", "gone", "lost"}}

ImplementsSlot == Slot!Spec

\* "no reservation is ever left stuck claimed": when its client has left, or was
\* turned away, a connection gives the slot back.
NoStuckReservation ==
  \A c \in Conn :
    (client[c] = "closed" /\ activeConnection = c) ~> activeConnection # c

\* Every handler that was past its spawn ends with the session torn down.
DisconnectTornDown ==
  \A c \in Conn :
    hpc[c] = "released" ~> fds[c] = "closed" \/ hpc[c] = "lost"

\* stop() ends the server: no handler can keep it from closing.
StopCompletes == stopEvent ~> gateway = "stopped"
=============================================================================
