------------------------------ MODULE EventRelay ------------------------------
(***************************************************************************)
(* A typed event on its way from a thread of the child to the client's     *)
(* store: _emit_event() stamps it and then writes its line under           *)
(* _event_lock (phantom_runtime.py); the gateway's reader thread takes the *)
(* lines from the pipe into the session's event queue, dropping those that *)
(* find it full, and a task sends them (transport_gateway.py); the client  *)
(* hands each one to TypedEventStore.handle_line (websocket_client.py,     *)
(* typed_event.py).  Pipe, queue and child are a session's own.            *)
(***************************************************************************)
EXTENDS Integers, Sequences

CONSTANTS
  Emitter,        \* threads of the child that emit events
  EventQueueMax   \* _EVENT_QUEUE_MAXSIZE

ASSUME RelayAssumption == EventQueueMax \in Nat \ {0}

VARIABLES
  session,     \* sessions begun, each with a child of its own
  clock,       \* events stamped, of all sessions
  stamped,     \* stamped[t]: stamp of the event t is about to write, or 0
  written,     \* lines written in this session
  eventPipe, eventQueue,   \* where the written lines are
  dropped,     \* lines of this session that found the queue full
  store        \* the last two events the client has handled, the older one first

relayVars == <<session, clock, stamped, written, eventPipe, eventQueue, dropped, store>>

RelayInit ==
  /\ session = 0 /\ clock = 0 /\ stamped = [t \in Emitter |-> 0] /\ written = 0
  /\ eventPipe = <<>> /\ eventQueue = <<>>
  /\ dropped = {} /\ store = <<>>

\* _emit_event: the envelope is made, timestamp included, before the lock is asked for.
Stamp(t) ==
  /\ stamped[t] = 0
  /\ clock' = clock + 1 /\ stamped' = [stamped EXCEPT ![t] = clock']
  /\ UNCHANGED <<session, written, eventPipe, eventQueue, dropped, store>>

\* _emit_event: the line is written under _event_lock.
WriteLine(t) ==
  /\ stamped[t] > 0
  /\ stamped' = [stamped EXCEPT ![t] = 0] /\ written' = written + 1
  /\ eventPipe' = Append(eventPipe,
       [session |-> session, emitter |-> t, stamp |-> stamped[t], line |-> written'])
  /\ UNCHANGED <<session, clock, eventQueue, dropped, store>>

\* _pump_events_from_pipe and _enqueue_event: the oldest line joins the queue or is dropped.
PumpLine ==
  /\ eventPipe # <<>> /\ eventPipe' = Tail(eventPipe)
  /\ IF Len(eventQueue) < EventQueueMax
       THEN eventQueue' = Append(eventQueue, Head(eventPipe)) /\ UNCHANGED dropped
       ELSE dropped' = dropped \union {Head(eventPipe).line} /\ UNCHANGED eventQueue
  /\ UNCHANGED <<session, clock, stamped, written, store>>

\* _drain_event_queue, _receive_events and handle_line: a websocket keeps the order, and
\* what it still carries when it is cut is lost like the rest of the queue.
DeliverLine ==
  /\ eventQueue # <<>> /\ eventQueue' = Tail(eventQueue)
  /\ store' = IF Len(store) = 2 THEN <<store[2], Head(eventQueue)>> ELSE Append(store, Head(eventQueue))
  /\ UNCHANGED <<session, clock, stamped, written, eventPipe, dropped>>

\* _handler: a new child, its own pipe and a new queue.
BeginSession ==
  /\ session' = session + 1
  /\ UNCHANGED <<clock, stamped, written, eventPipe, eventQueue, dropped, store>>

\* Mutated form: the queue belongs to the gateway and outlives the session.
EndSessionQueueKept ==
  /\ stamped' = [t \in Emitter |-> 0] /\ written' = 0
  /\ eventPipe' = <<>> /\ dropped' = {}
  /\ UNCHANGED <<session, clock, eventQueue, store>>

\* _handler's finally and _finish_disconnect: what was on its way goes with the session.
EndSession ==
  /\ stamped' = [t \in Emitter |-> 0] /\ written' = 0
  /\ eventPipe' = <<>> /\ dropped' = {} /\ eventQueue' = <<>>
  /\ UNCHANGED <<session, clock, store>>

-----------------------------------------------------------------------------
\* The client handles the events of its own child only, a later one after an earlier
\* one; a line between two that it handled in a row, or before the first one of a session,
\* is missing only if it found the gateway's queue full (_event_lock, one queue per
\* session, QueueFull).
EventsInOrder ==
  /\ \A i \in DOMAIN eventQueue : eventQueue[i].session = session
  /\ Len(store) = 2 =>
       LET e == store[1]  f == store[2]
           next == IF e.session = f.session THEN e.line + 1 ELSE 1
       IN  /\ e.session < f.session \/ (e.session = f.session /\ e.line < f.line)
           /\ f.session = session /\ written > 0 => next..f.line - 1 \subseteq dropped

\* "Within the same session ... timestamp must not move backwards" (the event contract):
\* what the client handles after an event of the session is stamped no earlier.
StampsInOrder ==
  Len(store) = 2 /\ store[1].session = store[2].session => store[1].stamp <= store[2].stamp
=============================================================================
