------------------------------ MODULE ClientLink ------------------------------
(***************************************************************************)
(* The runtime client's connection (runtime_client/websocket_client.py),   *)
(* the recording gate it keeps on its own side and reports by toggle lines *)
(* (keyboard_bridge.py), and as much of the gateway as it meets: the slot, *)
(* the handshake's answer, the close, the child that starts with its gate  *)
(* open and toggles it (transport_gateway.py, control_loop).               *)
(***************************************************************************)
EXTENDS EventRelay

CONSTANTS
  MaxReconnects,    \* max_reconnect_attempts
  ControlQueueMax,  \* size of the client's control_queue
  MaxInputs,        \* bound: presses of 'r' and events stamped, together
  MaxCuts           \* bound: connections the network or the server cuts

ASSUME LinkAssumption ==
  /\ {MaxReconnects, MaxInputs, MaxCuts} \subseteq Nat
  /\ ControlQueueMax \in Nat \ {0}

VARIABLES
  link,          \* run(): "connecting", "dialing", "open", "backoff" or "done"
  reason,        \* why run() returned
  attempt,       \* reconnect attempts since the last handshake
  stopped,       \* stop_event
  request,       \* the gateway's side of connect(): "none", "sent", or "passed" by
                 \* _process_request and not yet in _handler
  answer,        \* status of the handshake the client has not seen: 0 for none
  lateSent, latePassed,  \* requests "sent" and "passed" whose connect() has ended
  serverSide,    \* the gateway's slot: "free", "held", "closed" by the gateway's close
                 \* frame or "forsaken" by the client, who has left or been cut off
  closing,       \* _handler has returned and its close frame is not sent yet
  closeCode,     \* code of the close frame the client has not seen: 0 for none
  ready,         \* the Shell's is_ready()
  cuts,          \* connections and handshakes cut
  clientRec,     \* recording_active of the client
  toggles,       \* 'r' presses
  controlQueue,  \* lines in control_queue
  inHand,        \* _send_control has taken a line and not sent it
  controlPipe,   \* lines sent and not yet read by the child
  serverRec,     \* recording_active of the child
  drifted        \* the two gates no longer account for each other

runVars == <<link, reason, attempt>>
requestVars == <<request, answer, lateSent, latePassed>>
slotVars == <<serverSide, closing, closeCode>>
connVars == <<runVars, requestVars, slotVars>>
recVars == <<clientRec, toggles, controlQueue, inHand, controlPipe, serverRec, drifted>>
linkVars == <<relayVars, connVars, stopped, ready, cuts, recVars>>

FatalClose == 1011    \* one of _FATAL_CLOSE_CODES; 1000 and 1001 are not

LinkInit ==
  /\ RelayInit
  /\ link = "connecting" /\ reason = "none" /\ attempt = 0 /\ stopped = FALSE
  /\ request = "none" /\ answer = 0 /\ lateSent = 0 /\ latePassed = 0
  /\ serverSide = "free" /\ closing = FALSE /\ closeCode = 0
  /\ ready = TRUE /\ cuts = 0
  /\ clientRec = TRUE /\ toggles = 0 /\ controlQueue = 0 /\ inHand = FALSE
  /\ controlPipe = 0 /\ serverRec = TRUE /\ drifted = FALSE

Connected == link = "open" /\ serverSide = "held"

\* Lines of 'r' that the child has not read.
OnTheWay == controlQueue + controlPipe + (IF inHand THEN 1 ELSE 0)

Returns(why) == link' = "done" /\ reason' = why /\ UNCHANGED attempt

\* Mutated form: the counter starts again with every round of the loop.
RetryFromNull ==
  IF MaxReconnects = 0 THEN Returns("gave up")
  ELSE link' = "backoff" /\ attempt' = 1 /\ UNCHANGED reason

\* run(), after an attempt or a connection that failed.
Retry ==
  IF attempt + 1 > MaxReconnects THEN Returns("gave up")
  ELSE link' = "backoff" /\ attempt' = attempt + 1 /\ UNCHANGED reason

RetryUnlessStopped == IF stopped THEN Returns("stopped") ELSE Retry

\* One more of the connections that the bound lets fail.
Cut == cuts < MaxCuts /\ cuts' = cuts + 1

-----------------------------------------------------------------------------
\* run()

\* connect() is awaited.
Dial ==
  /\ link = "connecting" /\ ~stopped /\ link' = "dialing" /\ request' = "sent"
  /\ UNCHANGED <<relayVars, reason, attempt, answer, lateSent, latePassed, slotVars,
                 stopped, ready, cuts, recVars>>

\* The loop's condition.
LoopEnds ==
  /\ link = "connecting" /\ stopped /\ Returns("stopped")
  /\ UNCHANGED <<relayVars, requestVars, slotVars, stopped, ready, cuts, recVars>>

\* The connection is open; or 409, which is final, or 503, which is not.
HandshakeEnds ==
  /\ link = "dialing" /\ answer # 0 /\ answer' = 0
  /\ \/ answer = 101 /\ link' = "open" /\ attempt' = 0 /\ UNCHANGED reason
     \/ answer = 409 /\ Returns("rejected")
     \/ answer = 503 /\ RetryUnlessStopped
  /\ UNCHANGED <<relayVars, request, lateSent, latePassed, slotVars, stopped, ready, cuts, recVars>>

\* The client has left: of its request and its connection the gateway knows nothing yet.
Forsakes ==
  /\ request' = "none" /\ answer' = 0 /\ closing' = FALSE /\ closeCode' = 0
  /\ lateSent' = lateSent + (IF request = "sent" THEN 1 ELSE 0)
  /\ latePassed' = latePassed + (IF request = "passed" THEN 1 ELSE 0)
  /\ serverSide' = IF serverSide = "free" THEN "free" ELSE "forsaken"

\* connect() raises: an OSError, its timeout included, is tried again, any other
\* exception leaves run(), and main() with it.
HandshakeFails ==
  /\ link = "dialing" /\ Cut /\ (RetryUnlessStopped \/ Returns("raised"))
  /\ Forsakes
  /\ UNCHANGED <<relayVars, stopped, ready, recVars>>

\* wait_for(stop_event.wait(), timeout=delay)
Backoff ==
  /\ link = "backoff" /\ link' = "connecting"
  /\ UNCHANGED <<relayVars, reason, attempt, requestVars, slotVars, stopped, ready, cuts, recVars>>

\* The tasks of _pump are cancelled: a line already taken from the queue is lost, and
\* those that were sent go with the connection.
TasksCancelled ==
  /\ inHand' = FALSE /\ drifted' = (drifted \/ inHand) /\ controlPipe' = 0
  /\ UNCHANGED <<clientRec, toggles, controlQueue, serverRec>>

\* _pump returns or raises: stopped, closed by the server, or cut.
PumpEnds ==
  /\ link = "open" /\ TasksCancelled
  /\ \/ stopped /\ Returns("stopped") /\ Forsakes /\ UNCHANGED cuts
     \/ Cut /\ RetryUnlessStopped /\ Forsakes
     \/ /\ closeCode # 0 /\ closeCode' = 0
        /\ IF closeCode = FatalClose THEN Returns("fatal close") ELSE RetryUnlessStopped
        /\ UNCHANGED <<requestVars, serverSide, closing, cuts>>
  /\ UNCHANGED <<relayVars, stopped, ready>>

\* 'q', SIGINT or SIGTERM.
Stop ==
  /\ link # "done" /\ ~stopped /\ stopped' = TRUE
  /\ UNCHANGED <<relayVars, connVars, ready, cuts, recVars>>

-----------------------------------------------------------------------------
\* The gateway.

\* _active_connection is not None.
SlotTaken == serverSide # "free"

\* _process_request
Answer ==
  /\ request = "sent"
  /\ \/ ~ready /\ answer' = 503 /\ request' = "none"
     \/ ready /\ SlotTaken /\ answer' = 409 /\ request' = "none"
     \/ ready /\ ~SlotTaken /\ answer' = 101 /\ request' = "passed"
  /\ UNCHANGED <<relayVars, runVars, lateSent, latePassed, slotVars, stopped, ready, cuts, recVars>>

\* _handler: the slot is claimed and a child begins with its gate open, the lines that
\* are on their way for it; or somebody else has it (1013), or the child cannot be
\* spawned (1011).
Claim ==
  /\ request = "passed" /\ request' = "none"
  /\ \/ /\ ~SlotTaken /\ serverSide' = "held"
        /\ BeginSession
        /\ serverRec' = TRUE /\ drifted' = (clientRec # (OnTheWay % 2 = 0))
        /\ UNCHANGED <<closeCode, cuts>>
     \/ /\ (SlotTaken /\ UNCHANGED cuts) \/ (~SlotTaken /\ Cut)
        /\ closeCode' = FatalClose
        /\ UNCHANGED <<relayVars, serverSide, serverRec, drifted>>
  /\ UNCHANGED <<runVars, answer, lateSent, latePassed, closing, stopped, ready,
                 clientRec, toggles, controlQueue, inHand, controlPipe>>

\* The same for a request whose client does not wait any more.
AnswerLate ==
  /\ lateSent > 0 /\ lateSent' = lateSent - 1
  /\ latePassed' = latePassed + (IF ready /\ ~SlotTaken THEN 1 ELSE 0)
  /\ UNCHANGED <<relayVars, runVars, request, answer, slotVars, stopped, ready, cuts, recVars>>

ClaimLate ==
  /\ latePassed > 0 /\ latePassed' = latePassed - 1
  /\ IF SlotTaken THEN UNCHANGED <<relayVars, serverSide>>
     ELSE serverSide' = "forsaken" /\ BeginSession
  /\ UNCHANGED <<runVars, request, answer, lateSent, closing, closeCode,
                 stopped, ready, cuts, recVars>>

\* Mutated form: the slot is left to the thread that shuts the child down.
ReleaseByTeardown == serverSide' = "closed" /\ EndSession

\* _handler's finally: the slot is free; the child is shut down behind it.
Release == serverSide' = "free" /\ EndSession

\* The child is gone, by itself or with its Shell: _handler finds a pipe broken and
\* returns, and only then is the connection closed.
ChildGone ==
  /\ serverSide = "held" /\ Release /\ closing' = TRUE
  /\ Cut \/ (~ready /\ UNCHANGED cuts)
  /\ UNCHANGED <<runVars, requestVars, closeCode, stopped, ready, recVars>>

ClosesNormally ==
  /\ closing /\ closing' = FALSE /\ closeCode' = 1000
  /\ UNCHANGED <<relayVars, runVars, requestVars, serverSide, stopped, ready, cuts, recVars>>

\* The client stays silent (1011) or the gateway stops (1001): the connection is closed
\* under _handler.
ServerCloses ==
  /\ serverSide = "held" /\ serverSide' = "closed"
  /\ \/ Cut /\ closeCode' = FatalClose
     \/ ~ready /\ closeCode' = 1001 /\ UNCHANGED cuts
  /\ UNCHANGED <<relayVars, runVars, requestVars, closing, stopped, ready, recVars>>

\* _handler sees its connection closed, by either side or the keepalive.
ServerNotices ==
  /\ serverSide \in {"closed", "forsaken"} /\ Release
  /\ UNCHANGED <<runVars, requestVars, closing, closeCode, stopped, ready, cuts, recVars>>

ShellStops ==
  /\ ready /\ ready' = FALSE
  /\ UNCHANGED <<relayVars, connVars, stopped, cuts, recVars>>

-----------------------------------------------------------------------------
\* The recording gate.

\* 'r' in KeyboardController.run, NotifyingEvent and _send_control.
Toggle ==
  /\ link # "done" /\ toggles + clock < MaxInputs
  /\ toggles' = toggles + 1 /\ clientRec' = ~clientRec
  /\ IF controlQueue < ControlQueueMax
       THEN controlQueue' = controlQueue + 1 /\ UNCHANGED drifted
       ELSE drifted' = TRUE /\ UNCHANGED controlQueue
  /\ UNCHANGED <<relayVars, connVars, stopped, ready, cuts, inHand, controlPipe, serverRec>>

\* Mutated form: a line stays in the queue until it has been sent, and is sent again.
TakeLineKept ==
  /\ link = "open" /\ ~inHand /\ controlQueue > 0
  /\ inHand' = TRUE
  /\ UNCHANGED <<relayVars, connVars, stopped, ready, cuts,
                 clientRec, toggles, controlQueue, controlPipe, serverRec, drifted>>

\* _send_control: control_queue.get()
TakeLine ==
  /\ link = "open" /\ ~inHand /\ controlQueue > 0
  /\ inHand' = TRUE /\ controlQueue' = controlQueue - 1
  /\ UNCHANGED <<relayVars, connVars, stopped, ready, cuts,
                 clientRec, toggles, controlPipe, serverRec, drifted>>

\* websocket.send(line), and the gateway's os.write to the control pipe.
SendControl ==
  /\ Connected \/ (link = "open" /\ request = "passed")
  /\ inHand /\ inHand' = FALSE /\ controlPipe' = controlPipe + 1
  /\ UNCHANGED <<relayVars, connVars, stopped, ready, cuts,
                 clientRec, toggles, controlQueue, serverRec, drifted>>

\* control_loop: toggle_recording
ChildToggles ==
  /\ Connected /\ controlPipe > 0
  /\ controlPipe' = controlPipe - 1 /\ serverRec' = ~serverRec
  /\ UNCHANGED <<relayVars, connVars, stopped, ready, cuts,
                 clientRec, toggles, controlQueue, inHand, drifted>>

-----------------------------------------------------------------------------
\* What a child emits behind a connection that is gone goes nowhere.
Relay ==
  /\ serverSide = "held"
  /\ \/ \E t \in Emitter : (toggles + clock < MaxInputs /\ Stamp(t)) \/ WriteLine(t)
     \/ PumpLine
     \/ Connected /\ DeliverLine
  /\ UNCHANGED <<connVars, stopped, ready, cuts, recVars>>

ClientStep == Dial \/ LoopEnds \/ HandshakeEnds \/ HandshakeFails \/ Backoff \/ PumpEnds
RequestStep == Answer \/ Claim \/ AnswerLate \/ ClaimLate
CloseStep == ChildGone \/ ClosesNormally \/ ServerCloses \/ ServerNotices
GatewayStep == RequestStep \/ CloseStep \/ ShellStops
GateStep == Toggle \/ TakeLine \/ SendControl \/ ChildToggles

\* What becomes of the gateway once the client has ended is TransportGateway's matter.
LinkNext ==
  /\ link # "done"
  /\ ClientStep \/ Stop \/ GatewayStep \/ GateStep \/ Relay

-----------------------------------------------------------------------------
\* While a connection lasts, the child's gate and the client's differ by the lines on their
\* way and by nothing else, unless a line was lost (a full queue, a task cancelled with
\* the line in hand) or the session began with the client's gate shut: the new child's is
\* open (NotifyingEvent, _send_control, control_loop's toggle).
RecordingAgrees == Connected /\ ~drifted => ((serverRec = clientRec) <=> (OnTheWay % 2 = 0))

\* What rejects a client for good (409) is a connection or a handshake of its own that it
\* left, or was cut off from, without the gateway's knowing: never one that the gateway
\* has closed, for by the time the client tries again the slot is free or the Shell is
\* not ready, nor the child that is shut down behind a free slot (_handler's finally
\* before the close frame and before _finish_disconnect, _process_request's order,
\* _FATAL_CLOSE_CODES).
RejectedOnlyByForsaken == [][answer # 409 /\ answer' = 409 => serverSide = "forsaken"]_linkVars

\* A client that is told to stop, or whose server stops, ends: it leaves its handshake,
\* its connection, its wait or, after its attempts, the loop (run()).
ClientEnds == (stopped \/ ~ready) ~> link = "done"
=============================================================================
