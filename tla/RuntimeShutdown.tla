---------------------------- MODULE RuntimeShutdown ----------------------------
(***************************************************************************)
(* How the child stops (phantom_runtime.py): main() loops over audio until *)
(* _shutdown is set, says so, and joins its threads for at most three      *)
(* seconds each.  A SIGINT runs _handle_signal on the main thread, between *)
(* any two of its bytecodes, and the handler prints before it sets         *)
(* _shutdown: every print takes _print_lock, which is not reentrant.       *)
(***************************************************************************)
EXTENDS Integers, Sequences

CONSTANTS
  Thread,       \* the sequence of threads that main() starts and joins, in order
  Stopper,      \* those that may set _shutdown: the keyboard, the audio capture
  MaxSignals,   \* bound: SIGINTs delivered
  MaxPrints     \* bound: lines the threads print, and main() while it loops

Threads == {Thread[i] : i \in DOMAIN Thread}

\* Threads are not what else the lock's holder may be.
ASSUME ShutdownAssumption ==
  /\ Thread \in Seq(Threads)
  /\ Threads \cap {"main", "handler", "free"} = {}
  /\ MaxSignals \in Nat /\ MaxPrints \in Nat

VARIABLES
  shutdown,   \* _shutdown
  lock,       \* who holds _print_lock: a thread, "main", "handler" or "free"
  frames,     \* activations of _handle_signal on the main thread's stack
  mpc,        \* where main() stands
  joined,     \* how many threads main() has joined, or given up on
  tpc,        \* tpc[t]: where thread t stands
  signals, prints

mainVars == <<mpc, joined>>
vars == <<shutdown, lock, frames, mainVars, tpc, signals, prints>>

TypeOK ==
  /\ shutdown \in BOOLEAN
  /\ lock \in Threads \cup {"main", "handler", "free"}
  /\ frames \in Seq({"want", "print", "set"}) /\ Len(frames) <= signals
  /\ mpc \in {"loop", "say", "announce", "join", "farewell", "gone"}
  /\ joined \in 0..Len(Thread)
  /\ tpc \in [Threads -> {"run", "want", "print", "blocked", "gone"}]
  /\ signals \in 0..MaxSignals
  /\ prints \in 0..MaxPrints

Init ==
  /\ shutdown = FALSE /\ lock = "free" /\ frames = <<>>
  /\ mpc = "loop" /\ joined = 0
  /\ tpc = [t \in Threads |-> "run"]
  /\ signals = 0 /\ prints = 0

Alive == mpc # "gone"

-----------------------------------------------------------------------------
\* The signal handler, a stack of frames; only the topmost one runs.

Top == frames[Len(frames)]
Replace(step) == [frames EXCEPT ![Len(frames)] = step]

\* SIGINT: the main thread runs _handle_signal, wherever it stands, in a lock's
\* acquire too.
Signal ==
  /\ Alive /\ signals < MaxSignals
  /\ signals' = signals + 1
  /\ frames' = Append(frames, "want")
  /\ UNCHANGED <<shutdown, lock, mainVars, tpc, prints>>

HandlerAcquire ==
  /\ frames # <<>> /\ Top = "want" /\ lock = "free"
  /\ lock' = "handler" /\ frames' = Replace("print")
  /\ UNCHANGED <<shutdown, mainVars, tpc, signals, prints>>

HandlerRelease ==
  /\ frames # <<>> /\ Top = "print"
  /\ lock' = "free" /\ frames' = Replace("set")
  /\ UNCHANGED <<shutdown, mainVars, tpc, signals, prints>>

HandlerSet ==
  /\ frames # <<>> /\ Top = "set"
  /\ shutdown' = TRUE /\ frames' = SubSeq(frames, 1, Len(frames) - 1)
  /\ UNCHANGED <<lock, mainVars, tpc, signals, prints>>

Handler == HandlerAcquire \/ HandlerRelease \/ HandlerSet

-----------------------------------------------------------------------------
\* main(), while no handler runs on its thread.

\* vad_loop: a segment is finalized and reported ...
Say ==
  /\ mpc = "loop" /\ ~shutdown /\ prints < MaxPrints
  /\ mpc' = "say" /\ prints' = prints + 1
  /\ UNCHANGED <<shutdown, lock, joined, tpc, signals>>

\* ... until _shutdown is found set.
Leave ==
  /\ mpc = "loop" /\ shutdown
  /\ mpc' = "announce"
  /\ UNCHANGED <<shutdown, lock, joined, tpc, signals, prints>>

MainAcquire ==
  /\ mpc \in {"say", "announce", "farewell"} /\ lock = "free"
  /\ lock' = "main"
  /\ UNCHANGED <<shutdown, mainVars, tpc, signals, prints>>

\* The line is out: back to the loop, on to the joins, or to the end.
MainRelease ==
  /\ lock = "main"
  /\ lock' = "free"
  /\ mpc' = CASE mpc = "say" -> "loop" [] mpc = "announce" -> "join" [] OTHER -> "gone"
  /\ UNCHANGED <<shutdown, joined, tpc, signals, prints>>

\* Mutated form: join() without a timeout.
JoinForever ==
  /\ mpc = "join"
  /\ IF joined = Len(Thread)
       THEN mpc' = "farewell" /\ UNCHANGED joined
       ELSE tpc[Thread[joined + 1]] = "gone" /\ joined' = joined + 1 /\ UNCHANGED mpc
  /\ UNCHANGED <<shutdown, lock, tpc, signals, prints>>

\* t.join(timeout=3.0): the thread has ended, or three seconds have passed.
Join ==
  /\ mpc = "join"
  /\ IF joined = Len(Thread)
       THEN mpc' = "farewell" /\ UNCHANGED joined
       ELSE joined' = joined + 1 /\ UNCHANGED mpc
  /\ UNCHANGED <<shutdown, lock, tpc, signals, prints>>

Main == frames = <<>> /\ UNCHANGED frames
          /\ (Say \/ Leave \/ MainAcquire \/ MainRelease \/ Join)

-----------------------------------------------------------------------------
\* The daemon threads; when main() is gone they are gone with the process.

ThreadStep(t, from, to) ==
  /\ Alive /\ tpc[t] = from
  /\ tpc' = [tpc EXCEPT ![t] = to]
  /\ UNCHANGED <<frames, mainVars, signals>>

\* It has something to print.
Speak(t) ==
  /\ ThreadStep(t, "run", "want") /\ prints < MaxPrints
  /\ prints' = prints + 1
  /\ UNCHANGED <<shutdown, lock>>

Acquire(t) ==
  /\ ThreadStep(t, "want", "print") /\ lock = "free"
  /\ lock' = t /\ UNCHANGED <<shutdown, prints>>

Release(t) ==
  /\ ThreadStep(t, "print", "run")
  /\ lock' = "free" /\ UNCHANGED <<shutdown, prints>>

\* A provider's answer, the audio or the control pipe, the keyboard, a sleep.
Block(t) == ThreadStep(t, "run", "blocked") /\ UNCHANGED <<shutdown, lock, prints>>
Return(t) == ThreadStep(t, "blocked", "run") /\ UNCHANGED <<shutdown, lock, prints>>

\* The loop's condition: "while not _shutdown.is_set()".
Quit(t) == shutdown /\ ThreadStep(t, "run", "gone") /\ UNCHANGED <<shutdown, lock, prints>>

\* 'q', or no audio to be had: the thread itself sets _shutdown and ends.
Trip(t) ==
  /\ ThreadStep(t, "run", "gone") /\ t \in Stopper
  /\ shutdown' = TRUE
  /\ UNCHANGED <<lock, prints>>

ThreadNext(t) ==
  \/ Speak(t) \/ Acquire(t) \/ Release(t)
  \/ Block(t) \/ Return(t) \/ Quit(t) \/ Trip(t)

Next == Signal \/ Handler \/ Main \/ \E t \in Threads : ThreadNext(t)

Safety == Init /\ [][Next]_vars

\* Threads that can run do; nothing makes a blocked call return, a segment end or
\* a signal come.
Spec ==
  /\ Safety
  /\ WF_vars(Handler)
  /\ WF_vars(frames = <<>> /\ UNCHANGED frames /\ (Leave \/ MainAcquire \/ MainRelease \/ Join))
  /\ \A t \in Threads : WF_vars(Acquire(t) \/ Release(t))

-----------------------------------------------------------------------------
\* Properties.

\* _print_lock keeps the lines apart: whoever stands between its acquire and its
\* release holds it, and nobody else does, another frame of the handler included.
LockOwner ==
  /\ \A t \in Threads : tpc[t] = "print" <=> lock = t
  /\ lock = "main" => mpc \in {"say", "announce", "farewell"}
  /\ lock # "handler" => \A i \in DOMAIN frames : frames[i] # "print"
  /\ \A i, j \in DOMAIN frames : frames[i] = "print" /\ frames[j] = "print" => i = j

\* The handler waits for a lock that the thread it runs on has taken already.
SelfBlocked == frames # <<>> /\ Top = "want" /\ lock \in {"main", "handler"}

\* A child that is told to stop does, a blocked thread or not, unless its handler
\* waits for its own thread (main()'s bounded joins).
StopsUnlessSelfBlocked == signals > 0 ~> mpc = "gone" \/ SelfBlocked

\* That wait has no end: no other thread and no further SIGINT gets the child out
\* of it, only the Shell's SIGKILL (_handle_signal, _print).
SelfBlockedForGood == [][SelfBlocked => SelfBlocked']_vars
=============================================================================
