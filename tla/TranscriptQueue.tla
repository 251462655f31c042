---------------------------- MODULE TranscriptQueue ----------------------------
(***************************************************************************)
(* transcript_queue between the threads that call _enqueue_latest() and    *)
(* the reply worker (phantom_runtime.py), and the runtime mode, one flag   *)
(* that tells the worker what to do with a chunk it will take later.       *)
(*                                                                         *)
(* In manual-flush mode the producers are the keyboard and the control     *)
(* thread: each 'g' merges the buffered audio into a chunk, sets MEETING   *)
(* and enqueues it.  Otherwise the producer is the main thread, one chunk  *)
(* per utterance, and the mode stays INTERVIEW.  Chunks are numbered as    *)
(* they are made, and remember who made them.                              *)
(***************************************************************************)
EXTENDS Integers, Sequences

CONSTANTS
  Producer,      \* threads that call _enqueue_latest
  ManualFlush,   \* args.manual_flush
  QueueMax,      \* transcript_queue.maxsize
  MaxChunks      \* bound: chunks made

ASSUME QueueAssumption ==
  /\ ManualFlush \in BOOLEAN
  /\ QueueMax \in Nat /\ MaxChunks \in Nat

VARIABLES
  maker,        \* maker[n]: the producer of chunk n, for the chunks made so far
  queue,        \* transcript_queue
  ppc,          \* ppc[p]: where producer p stands
  held,         \* held[p]: the chunk p is about to enqueue
  runtimeMode,  \* _runtime_mode
  wpc,          \* where the reply worker stands
  current,      \* the chunk the worker has taken, or 0
  fate          \* fate[n]: what has become of chunk n

producerVars == <<maker, ppc, held>>
workerVars == <<wpc, current>>
vars == <<producerVars, queue, runtimeMode, workerVars, fate>>

Chunk == 1..MaxChunks
made == Len(maker)

\* What may become of a chunk.
Fates == {"pending", "stale", "skipped", "ignored", "answered", "analysed"}

TypeOK ==
  /\ maker \in Seq(Producer) /\ made <= MaxChunks
  /\ queue \in Seq(Chunk)
  /\ ppc \in [Producer -> {"idle", "mode", "drain", "put"}]
  /\ held \in [Producer -> 0..MaxChunks]
  /\ runtimeMode \in {"interview", "meeting"}
  /\ wpc \in {"get", "transcribe", "choose", "reset", "analyse", "reply"}
  /\ current \in 0..MaxChunks
  /\ fate \in [Chunk -> Fates]

Init ==
  /\ maker = <<>>
  /\ queue = <<>>
  /\ ppc = [p \in Producer |-> "idle"]
  /\ held = [p \in Producer |-> 0]
  /\ runtimeMode = "interview"
  /\ wpc = "get" /\ current = 0
  /\ fate = [n \in Chunk |-> "pending"]

-----------------------------------------------------------------------------
\* The producers.

\* A flush finds buffered audio ('g'), or the VAD ends an utterance.
Make(p) ==
  /\ ppc[p] = "idle" /\ made < MaxChunks
  /\ maker' = Append(maker, p)
  /\ held' = [held EXCEPT ![p] = made + 1]
  /\ ppc' = [ppc EXCEPT ![p] = IF ManualFlush THEN "mode" ELSE "drain"]
  /\ UNCHANGED <<queue, runtimeMode, workerVars, fate>>

\* _set_runtime_mode(RuntimeMode.MEETING)
SetMeeting(p) ==
  /\ ppc[p] = "mode"
  /\ ppc' = [ppc EXCEPT ![p] = "drain"]
  /\ runtimeMode' = "meeting"
  /\ UNCHANGED <<maker, held, queue, workerVars, fate>>

\* _enqueue_latest: get_nowait until the queue is found empty ...
Drain(p) ==
  /\ ppc[p] = "drain"
  /\ IF queue = <<>>
       THEN ppc' = [ppc EXCEPT ![p] = "put"] /\ UNCHANGED <<queue, fate>>
       ELSE /\ queue' = Tail(queue)
            /\ fate' = [fate EXCEPT ![Head(queue)] = "stale"]
            /\ UNCHANGED ppc
  /\ UNCHANGED <<maker, held, runtimeMode, workerVars>>

\* Mutated form: the queue is drained after the insertion, too.
PutDraining(p) ==
  /\ ppc[p] = "put"
  /\ ppc' = [ppc EXCEPT ![p] = "drain"]
  /\ queue' = Append(queue, held[p])
  /\ UNCHANGED <<maker, held, runtimeMode, workerVars, fate>>

\* ... then put_nowait, and the chunk is skipped if others have filled it since.
Put(p) ==
  /\ ppc[p] = "put"
  /\ ppc' = [ppc EXCEPT ![p] = "idle"]
  /\ IF Len(queue) < QueueMax
       THEN queue' = Append(queue, held[p]) /\ UNCHANGED fate
       ELSE fate' = [fate EXCEPT ![held[p]] = "skipped"] /\ UNCHANGED queue
  /\ UNCHANGED <<maker, held, runtimeMode, workerVars>>

Produce(p) == SetMeeting(p) \/ Drain(p) \/ Put(p)

-----------------------------------------------------------------------------
\* The reply worker, up to the point where the mode is consulted.

Take ==
  /\ wpc = "get" /\ queue # <<>>
  /\ wpc' = "transcribe" /\ current' = Head(queue)
  /\ queue' = Tail(queue)
  /\ UNCHANGED <<producerVars, runtimeMode, fate>>

\* Every way out of the loop's body: the next chunk, whatever this one came to.
Finish(what) ==
  /\ wpc' = "get" /\ current' = 0
  /\ fate' = [fate EXCEPT ![current] = what]
  /\ UNCHANGED <<producerVars, queue>>

\* Mutated form: the mode is set back for every chunk.
IgnoreResetting ==
  /\ wpc = "transcribe"
  /\ Finish("ignored") /\ runtimeMode' = "interview"

\* Nothing heard, nothing meaningful, an instant answer, an answer of the
\* cognition pipeline, or an exception: the mode is not looked at.
Ignore ==
  /\ wpc = "transcribe"
  /\ Finish("ignored") /\ UNCHANGED runtimeMode

Heard ==
  /\ wpc = "transcribe" /\ wpc' = "choose"
  /\ UNCHANGED <<producerVars, queue, runtimeMode, current, fate>>

\* _get_runtime_mode(), then _set_runtime_mode(INTERVIEW): two acquisitions.
Choose ==
  /\ wpc = "choose"
  /\ wpc' = IF runtimeMode = "meeting" THEN "reset" ELSE "reply"
  /\ UNCHANGED <<producerVars, queue, runtimeMode, current, fate>>

Reset ==
  /\ wpc = "reset" /\ wpc' = "analyse"
  /\ runtimeMode' = "interview"
  /\ UNCHANGED <<producerVars, queue, current, fate>>

\* generate_meeting_analysis(), or generate_reply() and its agent form.
Analyse == wpc = "analyse" /\ Finish("analysed") /\ UNCHANGED runtimeMode
Reply == wpc = "reply" /\ Finish("answered") /\ UNCHANGED runtimeMode

Worker == Take \/ Ignore \/ Heard \/ Choose \/ Reset \/ Analyse \/ Reply

Next == Worker \/ \E p \in Producer : Make(p) \/ Produce(p)

Safety == Init /\ [][Next]_vars

\* The threads run; nobody needs to speak or to press a key.
Spec == Safety /\ WF_vars(Worker) /\ \A p \in Producer : WF_vars(Produce(p))

-----------------------------------------------------------------------------
\* Properties.

\* put_nowait never finds the queue full and "Worker busy -- chunk skipped" is never
\* said: a producer that has seen the queue empty finds at most one chunk of each
\* of the other producers in it (_enqueue_latest's drain and insertion).
NeverFull == \A p \in Producer : ppc[p] = "put" => Len(queue) < QueueMax

\* "Latest-wins": a thread that makes room for its chunk drops none of its own that
\* is newer, and so, when one thread enqueues, nothing is dropped but for something
\* newer (_enqueue_latest's drain; of two threads either may come last).
DroppedForNewer ==
  [][\A n \in Chunk : fate'[n] = "stale" /\ fate[n] # "stale"
       => \E p \in Producer : ppc[p] = "drain" /\ (held[p] > n \/ maker[n] # p)]_vars

\* Whatever the earlier chunks came to, the last chunk made is taken by the worker,
\* which comes to an end with it (its loop survives every chunk), once no other
\* thread is about to put an older one in its place.
LatestTaken ==
  \A n \in Chunk :
    made = n /\ fate[n] = "pending" /\ (\A p \in Producer : p # maker[n] => ppc[p] = "idle")
      ~> fate[n] \in {"ignored", "answered", "analysed"} \/ made > n

\* A flush that is answered like an interview question has lost the mode it set to
\* another flush that was analysed: the flag is not spent on a chunk that nothing
\* came of (reply_worker resets it next to the analysis only).
FlagSpentOnAnalysis ==
  ManualFlush => \A n \in Chunk : fate[n] = "answered" =>
                   \E m \in Chunk : fate[m] = "analysed"
=============================================================================
