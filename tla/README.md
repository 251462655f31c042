# phantom-runtime-lite in TLA+

Phantom Runtime Lite listens to a meeting or an interview, transcribes it, answers or analyses through an AI
provider, and keeps a memory of subjects, questions, decisions and facts. It runs as a single process on a
desk, or as a *child* that a Cloud Run *Shell* starts for each WebSocket client. This directory models the
parts in which several threads, processes and signals meet, checks them with TLC and proves the main results
with TLAPS. Paths below are relative to the repository's `src/`; PR stands for `phantom_runtime.py`.

    tlc -config MCTransportGateway.cfg MCTransportGateway    # one of the runs below
    tlapm CloudRunShellProofs.tla                            # one of the proof modules

`PROJECT.json` lists the runs with what each checks, a wrong variant of the code for every property (the
definitions commented "Mutated form"), the lines behind every definition, the hazards and the theorems.

## 1. Inventory

| part | state | operations | how it meets the others |
|---|---|---|---|
| **Cloud Run Shell** `runtime/cloud_run_shell.py` | readiness and its lock, `shutdown_deadline`, `marked_healthy`, one `RuntimeSession` per client (child, three descriptors, `_torn_down`) | `main()`'s loop, `_handle_sigterm`, `_spawn_session`, `teardown()` | owns the gateway; the SIGTERM handler runs on the main thread between two bytecodes; pipes and signals to the child |
| **Transport Gateway** `runtime/transport_gateway.py` | `_active_connection`, `_active_session`, `_stop_event`, event queue | HTTP request, handshake, claim, bring-up, relay of frames, disconnect, `stop()` | asyncio loop in a thread, default executor for blocking calls, reader thread for events |
| **Meeting analysis** PR 9147-9235 | `transcript_log` (deque of 200), `_meeting_cursor` | append, clear, `generate_meeting_analysis()` | reply worker and the threads that 'g' starts share the cursor |
| **Manual-flush buffer, recording gate** `audio/vad_buffering.py`, `ui/keyboard.py` | `audio_buffer`, `_duration`, `_segments`, `recording_active` | `append_segment`, `flush`, 'c', 'r' | main thread, keyboard, control thread |
| **Voice activity detection** `audio/vad.py`, `audio/vad_buffering.py` | `audio_queue`, `_pre_buf`, `_blocks`, streak | capture, `process_frame`, `check_idle_timeout` | capture thread to main thread; segments to the buffer or the queue |
| **Transcript queue, mode, reply worker** PR | `transcript_queue`, `_runtime_mode` | `_enqueue_latest`, `reply_worker` | producers (keyboard, control, main) to the worker |
| **Child shutdown** PR | `_shutdown`, `_print_lock` | `_handle_signal`, `_print`, joins | SIGINT on the main thread; every thread prints |
| **Conversation state, TTS** PR 809-868, 1020-1120 | `_conv_state`, `_tts_interrupt`, the provider's process | `_set_state`, interrupt check, speak, wait, 's' | worker, keyboard, control thread |
| **Event emission and relay** PR 629-654, `runtime/transport_gateway.py` | `_event_lock`, event pipe, bounded queue | `_emit_event`, pump, drop, drain, `handle_line` | threads of the child to gateway to client |
| **Memory stores** PR 3528-5400 | nine JSON files under one `_memory_lock` | load, get-or-create, append, rewrite, migrate | every thread that analyses |
| **Subject merge, approvals** PR 3948, 4139-4330, 7870-8038 | approval status, merge chains, history | approve, execute, six-step merge, validate | callers of the API over the stores |
| **Questions, decisions, facts** PR 3540-5620, 8964-9058 | status of each, links, clusters | extract, answer, complete, cancel, resolve | extraction; reports read them |
| **Report builders** (A26-A35, B27-B29) PR 5640-8560 | none | projections of the stores, the sections of a prompt | read the stores |
| **Runtime client** `runtime_client/` | connection, retry counter, speech gate, recording gate, event store | calibrate, connect, back off, relay, toggle | WebSocket to the gateway, keyboard thread, capture thread |
| **Verification, trust, pipeline** `verification/`, `trust/`, `runtime/pipeline_orchestrator.py` | the event before, the event's number | translate, verify, score, recommend | events of the relay; aggregator, dashboard and API copy the results |
| Providers, prompts, profiles, configuration, devices, health, tracing | little or none | service calls, parsing, printing | called by the above |

Hard behaviours, and what would be correct (the full list, with lines, is under "hazards"):

* *Signals on the main thread.* A handler interrupts the very code whose lock it wants, another handler
  included. Correct: no wait for one's own thread, the shutdown is final, the session has its grace window.
* *Two owners of one session.* Executor and main thread may end the same session. Correct: one teardown, no
  descriptor closed twice, no live child without somebody who will end it.
* *A single slot under concurrent handshakes and failures.* Correct: one holder, given back in every case.
* *A small thread pool behind blocking calls.* Correct: a write to a full pipe does not keep the disconnect
  of another client, or `stop()`, waiting for ever.
* *An index into a moving log, read before and written after a call of many seconds.* Correct: no line is
  passed over or reported on twice.
* *One flag for several chunks in flight; a queue that is drained and filled in two steps.* Correct: the
  flag reaches the chunk it was set for, the newest chunk wins, nothing is blocked.
* *Ends that must come without further input.* Correct: an utterance ends though no block follows it, a
  child that is told to stop does though its threads block.
* *Look-up and creation in two acquisitions of a lock, files rewritten in place, transactions without
  rollback.* Correct: one subject per name, links that lead to what they name, an approval executed once,
  a record never reopened, nothing that is left to do unseen in the reports.
* *Two state holders that talk by events* (worker and client, client's and child's recording gate).
  Correct: what the last message says is what is, unless a message was lost in a way that is accounted for.
* *A connection or a handshake lost at any moment between two sides that notice at different times.* Correct:
  no refusal by what the server has closed itself, an end to retrying, no event of one session in another.

## 2. Modules

    RuntimeSession      one child per connection, its pipes, teardown() by two threads
      TransportGateway  + the gateway, its pool and its clients; an open system towards its owner
        CloudRunShell   + main() and its signal handler, which close it
    SessionSlot         what the slot promises; TransportGateway is shown to implement it
    VoiceActivity
      AudioPath           + INSTANCE ManualBuffer: capture, segments, recording gate, buffer, flush
    TranscriptQueue
      Conversation        + the worker's way through a chunk, state events, speech and the interrupt
    MeetingAnalysis   RuntimeShutdown                      the child's other parts
    MemoryRecords       what is computed of records: transitions, wording, owners, merge chains
      Memory              + the files, the extracting threads, kills
        SubjectMerge        + approvals and merges
      MemoryReports       the report builders
      MemoryProperties    SubjectMerge and MemoryReports: what the reports owe their reader
    DueDates            the calendar of due dates
    Calibration         the client's speech gate
    EventRelay          child, gateway and client as one event path
      ClientLink          + the client's connection, the two recording gates
    EventTrust          adapter, verification and trust of one event
    RuntimeClient       Calibration, then ClientLink, with EventTrust on what arrives
    <M>Proofs           the theorems of M
    MC<M>, *.cfg        the instances for TLC

**RuntimeSession.** `child`, `signals`, `fds` (one status for the three descriptors, which are opened and
closed together) and `tornDown` are the fields of a `RuntimeSession` and of its `Popen`; `tpc[k][c]` says
where caller k stands in `teardown()`. Each statement of `teardown()` that others can observe is an action:
test-and-set of the flag, SIGINT, the wait that ends in a reaped child or in its timeout, SIGKILL, the
second wait, the closes. `Popen` polls before it signals: a child that is gone receives nothing.

**TransportGateway.** `hpc[c]` is where the request and handler of connection c stand. The loop is
cooperative, so a handler in `LoopHeld` excludes every other coroutine, but no thread. `client` holds what
the remote end has done, "buffered" being a client that left a frame unread. `PoolBusy` counts the
workers in use: one for `stop_event.wait`, one per `os.write`, one per `_finish_disconnect`. A write returns
only while the pipe has room, and fails when either end is gone. `_active_lock` is state only while the
owner holds it. What the owner may do (`OwnerStep`) is left open, so that what is shown of the gateway holds
for any owner that uses this interface.

**CloudRunShell.** `mpc` is the main loop, `hsig[f]` the f-th run of the SIGTERM handler. A handler
starts at any step of `main()` or of an earlier handler, and the code below it resumes only when it is done:
`MainRuns`, `OnTop`. `readiness.set()` is an acquire and an assignment with the release, because a signal
fits between them. The two deadlines are booleans that become true at an arbitrary moment. After `exit`
the interpreter refuses new pool work and waits for the old; after that only children act (`Orphaned`).

**MeetingAnalysis.** Lines are numbers; the deque holds `lost + 1 .. lines`. An analysis is five steps: copy,
cursor read, the answer or its failure, cursor write. `size` is what the cleaning leaves of a line, 0 for filler;
`Window` is the text of at most `MaxChars` that the prompt gets, the newest lines of it, and `Report` covers no
more. `covered` (what has been reported on), `cut` (what the window cut off, which the code announces) and
`overlapped` (two analyses have been in flight) are history.

**ManualBuffer.** `RouteSegment` tests the gate and `AppendSegment` appends, two steps of the main thread;
`append_segment` and `flush` are atomic, being under one lock; 'c' is not, and empties the list only. The
toggle reads and writes the event in two steps.

**VoiceActivity.** `ProcessFrame` is the whole of `process_frame` for the block at the head of the queue.
All blocks have one size, so the limits in samples are limits in blocks.

**TranscriptQueue.** A producer makes a chunk and sets the mode, then drains the queue one `get_nowait` at a
time and inserts; the worker takes a chunk, transcribes and may ignore it, consults the mode, resets it,
analyses or answers. `fate[n]` records what came of chunk n.

**AudioPath.** A turn of the orchestrator and `_on_segment_ready` are steps of one thread, so that no block is
taken while a segment is on its way into the buffer (`VADTurn`, `RouteAppend`); `Operators` are the keyboard
and the control thread. A segment's length is what `ProcessFrame` made it.

**Conversation.** The worker's way through a chunk is its `program`, the calls it has still to make. Each way
is one path through `reply_worker` (observer mode; user; recruiter with the fast path, the cognition
pipeline, a question or none), and each `_set_state` on it is two steps: the state changes under its lock, the
event is written after it. `speech` is the chunk whose reply is spoken by the `say` provider, which outlives
the worker's wait of ten seconds.

**MemoryRecords, Memory, SubjectMerge.** A function that loads, changes and rewrites under one acquisition of
`_memory_lock` is one `Section`, followed by a `Save` per file; `todo[t]` is the row of acquisitions that an
extraction or a merge still has ahead, and the head may put others in its place. `Kill` strikes between any
two of them, and during a `Save` leaves a torn file, which loads as empty. A text is a number with words,
letters and script, so that similarity, normalisation and language detection compute something. A question is
similar by its words or by its content alone, and joins the first cluster that shares its words or else the one
that is closest in content (`FindCluster`, `ClosestCluster`). `_question_similarity_score`, with the further
channel at its end, is named by a docstring only and called by nothing.

**MemoryReports, DueDates.** Operators over any content of the files: buckets by subject, answer contexts,
timeline, ranking, recommendation, status by keywords, consistency, dashboard, graphs of facts and subjects,
findings, expanded context, reasoning, and the choice of sections. They are evaluated in every state of the
memory run that a caller could ask in.

**Calibration, EventRelay, ClientLink, EventTrust, RuntimeClient.** A block is its RMS value; floors and
gates are in hundredths and a percentile is computed as numpy interpolates it. An event is its session, its
thread, its stamp and its place in the pipe. The gateway is as much of `TransportGateway` as a client meets:
the slot, 409 and 503, the close codes. A handshake is four steps: `Dial`, `Answer` (`_process_request`),
`Claim` (`_handler`, which may find the slot taken or fail to spawn) and `HandshakeEnds`; a stop may come between
any two. Where `connect()` fails or the connection is cut, the gateway does not know yet (`Forsakes`): the slot is
"forsaken" until `_handler` notices, and a request may be answered, and claim the slot, after its client has
left (`AnswerLate`, `ClaimLate`). An exception `run()` does not catch ends the client. A slot is freed before the
close frame when the child is gone (`ChildGone`, `ClosesNormally`), after it when the connection is closed under
the handler (`ServerCloses`, `ServerNotices`). Control lines carry no data but their number. Verification and trust are exact in hundredths.

**RuntimeShutdown.** `frames` is the stack of `_handle_signal` activations, `lock` the holder of
`_print_lock`. The threads that `main()` joins print, block and quit; a join ends whether its thread has or not.

## 3. Runs

| run | instance | shows |
|---|---|---|
| `gateway` | 2 connections, 2 workers, pipe of 1, an owner that stops and exits | an implementation of `SessionSlot`; no child without somebody to end it; reservation given back, session torn down, `stop()` completes |
| `shell` | the whole Shell, 1 connection, 2 SIGTERMs anywhere | one teardown by two threads; pipes not taken from a live child; grace window; exit waits for the disconnects it was given; SHUTTING_DOWN is final; the Shell uses the gateway only as its interface allows; no handler waits for the gateway lock its own thread holds; the Shell exits and descriptors are closed, unless it is blocked in `readiness.set()` |
| `meeting` | 2 threads, log of 3, 4 lines of size 0 to 2, window of 2, 1 clear | until a line is lost from the log, none passed over but filler and what the window cuts off; none reported on twice until analyses overlap |
| `audio_path` | queue 2, 6 blocks, utterances of 2 to 4, ceiling 4, 2 operators, 1 clear | speech leaves once and in order from the queue to the flush; missing only for a reason; an utterance that no block follows is handed over |
| `conversation` | agent mode, 2 producers, queue of 2, 3 chunks, 1 use of 's' | mode spent on an analysis only; last chunk taken; own newer chunk not dropped; no reply over the next utterance; the last status event is the state |
| `child_stops` | 2 threads, 3 SIGINTs, 3 prints | the child stops unless its handler waits for its own thread |
| `memory` | 2 threads with 2 analyses, 3 stored subjects, two of which differ in capitals, 4 texts, caps of 1 to 3, 1 merge request each, 1 kill | nine properties of files and reports, see below |
| `client` | 3 loudnesses, windows of 2 blocks, 2 attempts, 2 threads, event queue 1, control queue 1, 1 reconnect, 1 cut | six properties of gate, connection, relay and trust, see below |

What `memory` shows: a stored name is never created twice and racing threads make one subject each at most
(`SubjectsPerName`); owner ids name the decision's owner, honorifics aside, after any kill (`OwnerNamed`);
answers and clusters refer to what is there (`LinksHold`); an approval is executed by one thread
(`ExecutedOnce`); a decision that is DONE stays so (`DoneIsFinal`); a fact and the questions it answered are
found under one subject (`AnswerBesideQuestion`); nothing open is hidden, and the sections agree on what is
left (`NothingOverlooked`); what is reported missing is, the dashboard is in its order and derivations are
neither deep nor circular (`ReportsRight`); due dates agree with a definition that searches the calendar
(`DueDatesRight`).

What `client` shows: a measured gate lies above the noise floor it was made from, though the room may be
as loud as the range allows (`GateAboveRoom`); the two recording gates differ by the lines on their way only
(`RecordingAgrees`); events arrive in order, from their own session, and a missing one found the queue full
(`EventsInOrder`); a verdict is TRUSTED, or a review recommended, exactly when the payload, the order and the
fallback warrant it (`VerdictsWarranted`); a 409 comes from a connection or handshake that the client left
behind, never from one the gateway closed nor from a child in its shutdown (`RejectedOnlyByForsaken`); a client that
is told to stop, or whose server stops, ends (`ClientEnds`).

Four more runs check a sentence of the repository that the code does not keep, and end in a counterexample:

| run | sentence | what happens |
|---|---|---|
| `shell_sigterm_deadlock` | "SIGTERM received by this Shell is translated to SIGINT and delivered to the active child" (`runtime/cloud_run_shell.py:27`) | the SIGTERM arrives while `main()` holds the readiness lock in `readiness.set(HEALTHY)`; the handler waits for that lock on the same thread |
| `shell_orphan` | "so no Runtime child outlives its client" (`runtime/transport_gateway.py:58`) | `main()` sees no session and leaves its loop; a handler past the readiness check spawns one; `stop()` waits 5 s for a loop that may need 10 s; the exit comes first and the child is never signalled |
| `meeting_rotated` | "min() guards against cursor drift when transcript_log is cleared/rotated" (PR 9174) | the full log keeps its length, so the cursor equals it for ever and no later line is new |
| `client_stamps` | "timestamp must not move backwards", "Reverse ordering is prohibited", "Ordered event delivery is guaranteed" (`docs/H4_RUNTIME_EVENT_CONTRACT.md:424`, `:426`, `:554`) | `_emit_event` takes the timestamp before the lock (PR 646-651): the thread that stamped first writes second, and everything behind keeps that order (`StampsInOrder`). What does hold is `EventsInOrder`, the order in which the lines were written |

Other behaviour of this kind is stated as a hypothesis of a property that passes, where a reader meets it:

* A child that does not read its pipe keeps a pool worker, and at exit the interpreter: `ChildFairness`.
* A SIGTERM within the startup grace (5 s) has its SHUTTING_DOWN overwritten by HEALTHY:
  `ShutdownIsFinal` starts from `markedHealthy`.
* An analysis reads the newest 12000 characters of what is new and moves its cursor past all of it: what is cut
  off is announced by its length and never analysed. `NothingSkipped` excepts `cut`.
* 'c' leaves the cursor and the buffer's counters behind: `lost = 0`, `clears = 0`.
* Two overlapping analyses report a line twice: `~overlapped`.
* Two producers that insert at once may leave the older chunk the last: `DroppedForNewer`, `LatestTaken`.
* A SIGINT inside a print blocks the child: `SelfBlocked`. The Shell's SIGKILL is what ends it.
* 's' sets IDLE while the worker sets a state of its own, and the events may be written in the other
  order: the client then shows a state the conversation is not in until the next event (`meddled`).
* A toggle whose line finds the control queue full, or was taken by a sender that is cancelled, or that
  precedes a reconnect (the new child starts with its gate open), leaves the two gates apart until somebody
  looks: `drifted`. `runtime_client/main.py:624` calls the client's event the "one source of truth".
* A merge that is killed half-way leaves a fact and its question under different subjects, with an
  approval that stays RUNNING: `MergesStand`, a hypothesis of `AnswerBesideQuestion`. The same hypothesis excludes
  a source that two approved merges send to different targets: the second moves what the first has not.
* `_subject_resolve_merge` is documented to give up beyond ten hops (">10 hops -> return original", PR 7880)
  and gives up at ten, which `_subject_merge_validate` accepts (`depth > 10`): the block of the subject at the
  start of such a chain is compressed with no error to show, and its records stay in a bucket of their own:
  `AtLimit`, an exception in `HiddenOnlyIfReported` and `AnswerBesideQuestion`.

Met while modelling, and not the subject of a run:

* The mode is one flag for all chunks in flight: of two flushes the second may be answered like an interview
  question, though 'g' is documented as an analysis (PR 9243).
* A question stored together with its answer is ANSWERED without a link; A26 and A35 report it OPEN and
  missing (the exception in `MissingInfoIsOpen`). A34's QUESTION items never appear.
* `_decision_mark_done` and `memory_update_decision_status` take a CANCELLED decision to DONE and
  leave no history; `_decision_can_transition` would not.
* Where two subjects of one name exist, the automatic merge may propose to merge one with itself; the rule
  "longer name" of the merge plan is never reached. Merges are called by the API and tests only.
* The fallback gate of 700 is described as the safe side and is taken exactly in rooms that are
  louder than the measurement allows; recalibration uses a fixed threshold of 150, and has no caller.
  'c' is announced as "Recalibrate" and clears the log.
* The calibration runs in the event loop's thread: a SIGINT waits for its end, and a microphone that delivers
  nothing without failing is waited for without limit.
* The client is "transparently reconnecting ... across transient disconnects" (`runtime_client/websocket_client.py:38`),
  but a reconnect before the gateway has noticed the loss of the old connection, or a second try after a
  handshake that timed out and was let in late, gets a 409, and 409 is final: the "forsaken" slot of
  `RejectedOnlyByForsaken`.
* Retries are counted since the last handshake, so that a child that crashes at once is retried for ever.
* Verification numbers events after the relay has dropped some, and sees no gap; what the runtime emits
  today lacks fields the contract asks for, so that no event of it but an unknown one is TRUSTED.
* The transition table in the comment at PR 833 is not kept: every state may follow every other.

## 4. Bounds

* *Connections* 2: one holds the slot while the other competes for it, or is being torn down when the other
  is served. *Workers* 2 is the least the code's pool has: the `stop_event.wait` takes one, so a blocked
  write and a disconnect compete for the other. *PipeCap* 1: the second frame already blocks.
* `shell` has one connection: what its properties say of a connection involves no second one, the theorems
  are about any number of them, and `gateway` has two. *MaxSigterm* 1 reaches every interleaving of one handler with
  `main()`; 2 nests a handler in a handler. Later SIGTERMs do what the second does. *MaxSignals* 3 does the same for the child.
* *LogMax* 3 and *MaxLines* 4: the log is filled, rotates and is cleared between two analyses. *MaxChars* 2 stands
  for 12000, and lines of 0 to 2 for filler, short and long ones: one line, two or none fill the window.
  `meeting_rotated` has a log of 2 and lines of 1, so that its window cuts nothing off.
* `audio_path`: six blocks pass the longest utterance (4), with an onset, a pause and an idle end after it; the
  ceiling of 4 makes room for one long or some short segments, so that segments are evicted, flushed and
  refilled. The queue of 2 overflows.
* `conversation`: *QueueMax* 2 equals the number of producers, as small as `NeverFull` can hold; three
  chunks let a producer lap the other, and a reply be spoken into the second next chunk.
* `memory`: two extractions with one analysis each, in any order and interleaving, one of which names a
  subject the other creates; one merge request per thread; the kill strikes anywhere, start-up included.
  Caps of 1 to 3 evict. *MaxHops* 2 stands for 10: circles and self-merges arise from two merges, and a
  chain of two hops over three stored subjects is one as long as the validation accepts (`AtLimit`). *DerivedDepth* 1 stands for 5, and a chain one longer occurs; *MaxDepth* is the code's.
* `client`: a room below, within and above the range of gates; two blocks make an interpolated percentile.
  An event queue of 1 drops; one reconnect is the last; one cut meets a handshake, a held slot or a spawn; three
  presses and events together fill every queue. `client_stamps` needs two events and no cut. The recalibration comes before the connection, with which it shares nothing.

Symmetry is used for the analysing threads of `meeting`, which has no liveness property.
CHECK_DEADLOCK is off where the system may rest: clients have left, the bounds are used up, or the
process has ended.

## 5. Fairness

Threads that can run do: weak fairness on the steps of handlers, of `main()`, of a signal handler, of the VAD
loop, of the worker and of the client's tasks; timeouts elapse, the worker's wait for its own voice included; SIGKILL ends a process (`KillFairness`). The client's
`connect()` has an end, an answer or a timeout (`HandshakeEnds`), because the gateway's loop answers and claims what
it is sent, sends the close frame after a handler has returned, and closes its connections once the Shell stops
(`ClientFairness`); that a connection is cut, or that a silent one is noticed, is nobody's duty. Work queued in the thread
pool has strong fairness: its queue is first in, first out, so a queued call has its turn however often the
worker is taken by others. `ChildFairness`, that a child reads its pipes, is what PR's readers are
written for: they drop a block rather than wait for their consumer. Nobody has to connect, to leave, to
speak, to press a key, to send a signal or to return from a provider call.

## 6. Theorems

All theorems hold for every value of the constants that the named assumptions admit: any set of
connections, `NoConn` outside it, at least two workers, any positive pipe capacity; any number of SIGTERMs,
analysing threads, producers, lines, chunks, blocks, segments, presses, reconnects; positive log, queue and
window sizes; a percentile up to 100 and gates in order. No other assumption is made, but for `QueueNeverFull`
(no more producers than places).

* **TransportGatewayProofs.** Of the session alone, `TeardownRunsOnce` and `PipesClosedLast` from `SessionInv`.
  The property alone is not inductive: it needs that a caller inside the body has set the flag, that two callers
  are never both inside, and which signals each step has left behind. The invariant is carried through every
  step of gateway and owner, so that the teardown results hold for the composition. `SlotAlwaysConsistent` rests
  on `SlotInv` (at most one handler is in `Holding`, and it is the one the slot names). `GatewayLeavesNoStray`
  rests on `LinkInv`, which ties `hpc[c]` to the child and to the executor's place in `teardown()`: before the
  spawn there is no child, and past the disconnect the executor is on its way. `GatewayImplementsSlot` is the
  refinement: every step takes, binds or frees the abstract slot, or stutters.
* **CloudRunShellProofs.** `ShellImplementsGateway` (each step of `main()` and of a handler is an owner step
  or leaves the gateway alone) hands all gateway results to the Shell: `ShellKeepsGateway`. `LockInv` (who
  holds `_active_lock`, and that main looks only after the deadline is set) gives `ActiveLockNeverDeadlocks`
  for any number of SIGTERMs; `MarkInv` gives `ShutdownStaysFinal`; `CallInv`, on what `main()` knew when it
  called `teardown()`, gives `GraceAlwaysRespected`. `ExitAlwaysWaits` follows from what the exit waits for.
* **MeetingAnalysisProofs.** `NothingIsSkipped` from `PrefixReported` (the lines before the cursor and
  before each reader's start are settled while nothing is lost: reported on, cut off or filler, and what is settled
  stays so, `SettledStays`); `ReportedOnlyOnce` from `ReportedBelow`
  (without overlap, reported lines lie before the cursor, or before the end of the one reporting copy).
* **AudioPathProofs.** `NothingSaidTwice`: the blocks in the queue, the pre-buffer and `_blocks` come from the
  capture, and what was accumulated before the onset is silent (`FromCapture`, `SilentBefore`), so that putting
  the pre-buffer *behind* the silence already in `_blocks` reorders no speech; and the segment on its way is
  newer than all in the buffer and all flushed (`Newest`). `NothingLostUnsaid` needs `Counted`: until a 'c',
  `_duration` is the length of the buffer, and an eviction therefore means that the ceiling is passed.
  `PathTypeCorrect` bounds a segment by `MaxBlocks + PreBlocks`.
* **ConversationProofs.** Of the queue alone: `QueueNeverFull` by counting: at a producer's insertion the queue holds at most
  one chunk of each *other* producer (`OnePerProducer`, `AbsentWhilePutting`), which is fewer than its places
  when producers are no more than places. `LatestOfEachWins` from `HoldsNewest`. `FateIsFinal` from `Unsettled`
  (a chunk is in one place at most, and pending there). `FlagKeptForAnalysis`: the flag can be down only if an
  analysis took it, because some chunk of a flush is `Waiting` for as long as none has.
  Of the worker: `WorkerKeepsQueue` is the refinement: `Conversation` lays states, speech and the
  interrupt over the queue's worker, and each of its steps is a queue step or leaves the queue alone. The
  queue's results so hold for it: `DroppedForNewerByWorker`, `FlagSpentByWorker`. `NobodyTalkedOver` and
  `StatusIsCaughtUp` rest on the shape of what the worker still has to do (`WellFormed`): whoever sets the
  interrupt flag stops the voice next; after `speak()` the worker only waits for it; no state but IDLE is left
  standing. `SpeechWatched` says where the worker may be while something is heard, `BackToIdle` and
  `Announced` which events have been or will be written.
* **RuntimeClientProofs.** `GateKeepsRoomOut` from the bounds of the interpolated percentile over any window.
  `EventsStayInOrder` from `RelayInv`: `Numbering` (the pipe holds the lines written last, the queue some of
  those before them, and all others since the last handled were dropped), `Sessions`, `Quiet` (nothing is on
  its way without a session). `GatesAgree` by the parity of the toggles on their way
  (`Matched`, which holds from the claim on, before the client knows that it was let in). `RejectedWhileForsaken` from
  `LinkInv`: whoever asks again has had the close frame of what the gateway closed, or has left it himself
  (`Waits`, `Asks`); the close frame of a handler that returned comes after the slot was freed, the one of a silent
  client is final and the others come from a Shell that is not ready (`Closes`, `Freed`). `VerdictsHold` from `Stamps` (a thread's later line has the later stamp) and `Later` (what an
  earlier session left was stamped before all of this one), so that a reordering is one of two threads.
* **MemoryProofs.** Every acquisition of the lock has one `Shape`: what it writes is a list made from the file
  as it is, of which no second one is pending, and what it leaves to be done is free of transactions
  unless it was in one, which it then goes on with. From that `MemoryInv`, in three parts. `ExecutionInv`: a
  thread is in one transaction at most, with it at the head of its row (`Row`), an approval is in the row of one
  thread, is not PENDING there (`OneEach`), and is RUNNING only if it is in one (`Attended`), in the file as it will be
  once the save under way is done; this gives `ApprovalsExecutedOnce`. `ListsInv`: ids are distinct once
  loaded, those of older records included, and what is DONE in the file is DONE in the list about to replace it
  (`Keeps`); this gives `DoneStaysDone`. `SaidInv` is about what one file says of another. `FilesInv`: owners,
  facts, clusters and subjects, to which others refer, are written before what refers to them, and a new list of
  them keeps what the old one said (`Fits`), so that a kill between two writes leaves too much and never
  too little. `CarriedInv`: an id that a thread carries to a later acquisition stays good while others write.
  `StartInv`: memory_init() is over before any thread starts, and leaves no owned decision without an owner_id. The
  registry it builds is a recursive function over the decisions; that it names all of them is shown by the first
  that it would miss. `SubjectsInv`: the new subjects of a name and the threads that have found none and are about to
  create it are together no more than the threads (`Room`). These give `OwnersNamed`, `LinksThere` and
  `OneSubjectEach`. Assumed of `Stored`: records with the fields the functions read and distinct ids, no RUNNING
  approval, and what a process that was not killed has saved: references that hold, clusters by age and no more than
  `MaxClusters`. `Thread` is assumed finite, and without `Main`.
  Of the reports `NothingLeftUnseen`: a merged subject whose chain does not resolve has a chain that never ends within
  `MaxHops + 1` (`EndlessIsError`: then the validation reports it) or is `AtLimit`; otherwise its records are in
  the bucket of another. A subject is `Quiet` when recommendation finds nothing, and then neither the reasoning
  (`NothingToReason`) nor the totals (`NothingInTotal`) know of anything open.
  `AnswersBesideQuestions` needs a second invariant over the first, `BesideInv`. Between the acquisitions of
  a merge a fact and its question may be under different subjects, so the invariant does not compare
  subjects: two are `Joined` when every set that keeps the two sides of each begun merge together (`Parts`)
  has both or neither. A merge starts with its approval saved as RUNNING, from when on its source and target
  are `Joined`; moving facts or questions exchanges joined subjects, and merges only add to what is joined
  (`MoreBegun`). `BesideFiles` says it of the files and of the lists about to replace them (`Mild`), `Bears`
  of what a thread has read and has yet to use: the fact whose questions it is about to look for, and the id
  of a question it is about to mark, which may have been moved meanwhile or evicted (`QuestionIds`: and no
  other has taken its id). Only the last step looks at the registry: where every begun merge stands, joined
  subjects have chains with the same end (`MergedResolve`), and therefore one bucket.
* **RuntimeShutdownProofs.** `PrintLockOwner`, and `BlockedForGood`: no step of any thread, nor a further
  signal, frees a lock whose owner lies under the handler that waits for it.

The prover cannot use an induction theorem of the library. Where a fact is about data of any length (the
sorted window, the speech in a sequence of blocks, the length of the buffer) it is proved by the least
number at which it fails (`LeastNumber`). `SortSeq`, `SelectSeq` and `FoldSeq` are opaque to the prover, so
`Calibration.Sorted`, `VoiceActivity.SpeechOf` and `ManualBuffer.Total` are written out: an order given by a
permutation, and recursive functions.

A failed proof corrected the model: in an earlier form of `StatusCatchesUp`, which ended the exception for 's'
sooner, no strengthening was inductive, and with more chunks than the run has it is false: the event of 's'
may stay unwritten while the worker goes through several of them. `meddled` now lasts until the
worker leaves idle.

`GatewayTypeCorrect`, `SlotAlwaysConsistent`, `TypeCorrect`, `MeetingTypeCorrect`, `PathTypeCorrect`,
`QueueTypeCorrect`, `QueueNeverFull`, `FateIsFinal`, `WorkerKeepsQueue`, `PrintLockOwner` and `BlockedForGood`
are proved for every instance and have no run.

Only model-checked: everything under fairness (the prover has no ENABLED): `NoStuckReservation`,
`DisconnectTornDown`, `StopCompletes`, `ShutdownCompletes`, `UtteranceFinalized`, `LatestTaken`,
`StopsUnlessSelfBlocked`, `ClientEnds`; of what the reports say of the memory `ReportsRight`, which rests on sorts
that the prover cannot look into; and `DueDatesRight`, a calculation compared with a search.

## 7. Plan

Done: Shell, gateway, session; meeting; audio path; queue and conversation; child shutdown; memory, merges
and reports; calibration, relay, client link, trust; the safety properties proved, but for one of the reports
and the due dates.
Next, the most important first:

1. A composition of `TransportGateway` and `ClientLink`, to replace the latter's view of the gateway.
2. The client's spoken reply and the pyttsx3 provider: a speaking flag set by a thread of its own.
3. A timed version of the joins (five times three seconds against the Shell's ten).

## 8. Not modelled

* In the modelled parts: the health route and the checks of a URL; one fds status stands for three descriptors,
  and one pipe for audio and control; zeros padded at a forced end; how long joins last; the closing of the transcript file; a KeyboardInterrupt of the Shell
  itself, which only a terminal sends; tracing; the playback suppressor, whose module the repository lacks.
* *Voices.* The pyttsx3 provider, the client's TTS with its threads, half-duplex suppression.
* *Text.* The regular expressions by which an analysis is split and owners and dates are found; rendering,
  display order, filters and limits of the reports; speaker inference and the hallucination guard, whose
  results are choices.
* *Services.* Providers, prompts, summaries, profiles, options, device selection, the API's HTTP layer,
  metrics: no shared state; an answer, a failure and a chunk that is ignored are choices where they matter.
* *Scripts and compatibility shims*, and the file of the transcript.
