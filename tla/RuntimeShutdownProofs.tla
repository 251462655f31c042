------------------------- MODULE RuntimeShutdownProofs -------------------------
(***************************************************************************)
(* The child's print lock belongs to whoever prints, and a handler that    *)
(* waits for its own thread's lock waits for good: for any threads and any *)
(* number of signals.                                                      *)
(***************************************************************************)
EXTENDS RuntimeShutdown, SequenceTheorems, TLAPS

LEMMA TypeInit == Init => TypeOK
  <1> SUFFICES ASSUME Init PROVE TypeOK
    OBVIOUS
  <1>1. frames \in Seq({"want", "print", "set"}) /\ Len(frames) <= signals
    BY DEF Init
  <1>2. joined \in 0..Len(Thread)
    BY ShutdownAssumption, LenProperties DEF Init
  <1>3. tpc \in [Threads -> {"run", "want", "print", "blocked", "gone"}]
    BY DEF Init
  <1>4. shutdown \in BOOLEAN
    BY DEF Init
  <1>5. lock \in Threads \cup {"main", "handler", "free"}
    BY DEF Init
  <1>6. mpc \in {"loop", "say", "announce", "join", "farewell", "gone"}
    BY DEF Init
  <1>7. signals \in 0..MaxSignals /\ prints \in 0..MaxPrints
    BY ShutdownAssumption DEF Init
  <1> QED
    BY <1>1, <1>2, <1>3, <1>4, <1>5, <1>6, <1>7 DEF TypeOK

LEMMA TypeStep == TypeOK /\ [Next]_vars => TypeOK'
  <1> SUFFICES ASSUME TypeOK, [Next]_vars PROVE TypeOK'
    OBVIOUS
  <1> USE ShutdownAssumption DEF TypeOK
  <1>1. CASE Signal
    BY <1>1 DEF Signal, mainVars
  <1>2. CASE Handler
    <2>1. CASE HandlerAcquire
      BY <2>1 DEF HandlerAcquire, Replace, mainVars
    <2>2. CASE HandlerRelease
      BY <2>2 DEF HandlerRelease, Replace, mainVars
    <2>3. CASE HandlerSet
      BY <2>3 DEF HandlerSet, mainVars
    <2> QED
      BY <1>2, <2>1, <2>2, <2>3 DEF Handler
  <1>3. CASE Main
    <2>1. CASE Say
      BY <1>3, <2>1 DEF Main, Say
    <2>2. CASE Leave
      BY <1>3, <2>2 DEF Main, Leave
    <2>3. CASE MainAcquire
      BY <1>3, <2>3 DEF Main, MainAcquire, mainVars
    <2>4. CASE MainRelease
      BY <1>3, <2>4 DEF Main, MainRelease
    <2>5. CASE Join
      <3>1. Len(Thread) \in Nat
        BY LenProperties
      <3> QED
        BY <1>3, <2>5, <3>1 DEF Main, Join
    <2> QED
      BY <1>3, <2>1, <2>2, <2>3, <2>4, <2>5 DEF Main
  <1>4. ASSUME NEW t \in Threads, ThreadNext(t) PROVE TypeOK'
    <2>1. CASE Speak(t)
      <3>1. /\ tpc' = [tpc EXCEPT ![t] = "want"]
            /\ prints < MaxPrints /\ prints' = prints + 1
            /\ UNCHANGED <<shutdown, lock, frames, mpc, joined, signals>>
        BY <2>1 DEF Speak, ThreadStep, mainVars
      <3> QED
        BY <3>1
    <2>2. CASE Acquire(t)
      BY <2>2 DEF Acquire, ThreadStep, mainVars
    <2>3. CASE Release(t)
      BY <2>3 DEF Release, ThreadStep, mainVars
    <2>4. CASE Block(t) \/ Return(t)
      BY <2>4 DEF Block, Return, ThreadStep, mainVars
    <2>5. CASE Quit(t) \/ Trip(t)
      BY <2>5 DEF Quit, Trip, ThreadStep, mainVars
    <2> QED
      BY <1>4, <2>1, <2>2, <2>3, <2>4, <2>5 DEF ThreadNext
  <1>5. CASE UNCHANGED vars
    BY <1>5 DEF vars, mainVars
  <1> QED
    BY <1>1, <1>2, <1>3, <1>4, <1>5 DEF Next

\* Every step leaves the print lock with whoever prints.
LEMMA OwnerStep == TypeOK /\ LockOwner /\ [Next]_vars => LockOwner'
  <1> SUFFICES ASSUME TypeOK, LockOwner, [Next]_vars PROVE LockOwner'
    OBVIOUS
  <1> USE ShutdownAssumption DEF TypeOK, LockOwner
  <1>1. CASE Signal
    BY <1>1 DEF Signal, mainVars
  <1>2. CASE HandlerAcquire
    BY <1>2 DEF HandlerAcquire, Replace, Top, mainVars
  <1>3. CASE HandlerRelease
    BY <1>3 DEF HandlerRelease, Replace, Top, mainVars
  <1>4. CASE HandlerSet
    BY <1>4 DEF HandlerSet, Top, mainVars
  <1>5. CASE Main
    <2>1. CASE Say
      BY <1>5, <2>1 DEF Main, Say
    <2>2. CASE Leave
      BY <1>5, <2>2 DEF Main, Leave
    <2>3. CASE MainAcquire
      BY <1>5, <2>3 DEF Main, MainAcquire, mainVars
    <2>4. CASE MainRelease
      BY <1>5, <2>4 DEF Main, MainRelease
    <2>5. CASE Join
      BY <1>5, <2>5 DEF Main, Join
    <2> QED
      BY <1>5, <2>1, <2>2, <2>3, <2>4, <2>5 DEF Main
  <1>6. ASSUME NEW t \in Threads, ThreadNext(t) PROVE LockOwner'
    BY <1>6 DEF ThreadNext, Speak, Acquire, Release, Block, Return, Quit, Trip, ThreadStep, mainVars
  <1>7. CASE UNCHANGED vars
    BY <1>7 DEF vars, mainVars
  <1> QED
    BY <1>1, <1>2, <1>3, <1>4, <1>5, <1>6, <1>7 DEF Next, Handler

\* Only the holder of _print_lock is between its acquire and its release.
THEOREM PrintLockOwner == Safety => []LockOwner
  <1>1. Init => TypeOK /\ LockOwner
    <2>1. Init => LockOwner
      BY ShutdownAssumption DEF Init, LockOwner
    <2> QED BY <2>1, TypeInit
  <1>2. TypeOK /\ LockOwner /\ [Next]_vars => TypeOK' /\ LockOwner'
    BY TypeStep, OwnerStep
  <1> QED
    BY <1>1, <1>2, PTL DEF Safety

\* _handle_signal, waiting for the lock of the thread it runs on, is never let in.
THEOREM BlockedForGood == Safety => SelfBlockedForGood
  <1>1. TypeOK /\ LockOwner /\ [Next]_vars => (SelfBlocked => SelfBlocked')
    <2> SUFFICES ASSUME TypeOK, LockOwner, [Next]_vars, SelfBlocked PROVE SelfBlocked'
      OBVIOUS
    <2> USE ShutdownAssumption DEF TypeOK, LockOwner, SelfBlocked, Top
    <2>1. CASE Signal
      BY <2>1 DEF Signal
    <2>2. CASE Handler
      BY <2>2 DEF Handler, HandlerAcquire, HandlerRelease, HandlerSet
    <2>3. CASE Main
      BY <2>3 DEF Main
    <2>4. ASSUME NEW t \in Threads, ThreadNext(t) PROVE SelfBlocked'
      BY <2>4 DEF ThreadNext, Speak, Acquire, Release, Block, Return, Quit, Trip, ThreadStep
    <2>5. CASE UNCHANGED vars
      BY <2>5 DEF vars
    <2> QED
      BY <2>1, <2>2, <2>3, <2>4, <2>5 DEF Next
  <1>2. Init => TypeOK
    BY TypeInit
  <1>3. TypeOK /\ [Next]_vars => TypeOK'
    BY TypeStep
  <1>4. SelfBlocked \in BOOLEAN
    BY DEF SelfBlocked
  <1> QED
    BY <1>1, <1>2, <1>3, PrintLockOwner, PTL DEF Safety, SelfBlockedForGood
=============================================================================
