------------------------------ MODULE Calibration ------------------------------
(***************************************************************************)
(* How the runtime client finds its speech gate (runtime_client/           *)
(* calibration.py, main.py's _perform_startup_calibration): a baseline     *)
(* sets the loudness from which a window counts as contaminated by speech, *)
(* a clean window of the room gives the noise floor, and the gate is put   *)
(* above it; after three contaminated windows, or when the microphone      *)
(* fails, the configured threshold is the fallback.  A recalibration runs  *)
(* behind the gate in force (RecalibrationController).                     *)
(*                                                                         *)
(* A block is its RMS value.  Floors and gates are kept in hundredths.     *)
(***************************************************************************)
EXTENDS Integers, Sequences, FiniteSetsExt, SequencesExt

CONSTANTS
  Loudness,         \* RMS values a block may have
  BaselineBlocks,   \* the baseline's window_blocks
  WindowBlocks,     \* DEFAULT_WINDOW_BLOCKS
  MaxAttempts,      \* DEFAULT_MAX_ATTEMPTS
  FallbackGate,     \* config.silence_rms_threshold, in hundredths
  MaxRecalibrations \* bound: recalibrations begun

ASSUME CalibrationAssumption ==
  /\ Loudness \subseteq Nat
  /\ {BaselineBlocks, WindowBlocks, MaxAttempts} \subseteq Nat \ {0}
  /\ FallbackGate \in Nat /\ MaxRecalibrations \in Nat

VARIABLES
  calPhase,         \* "baseline", "observing" or "running"
  observer,         \* EnvironmentObserver: threshold, attempt, samples; or NoObserver
  activeResult,     \* RecalibrationController.active_result, once running
  recalibrations    \* recalibrations begun

calVars == <<calPhase, observer, activeResult, recalibrations>>

NewObserver(threshold) == [threshold |-> threshold, attempt |-> 1, samples |-> <<>>]
NoObserver == [threshold |-> 0, attempt |-> 0, samples |-> <<>>]

\* No floor and no gate, before the client is running.
NoResult == [success |-> FALSE, floor |-> 0, gate |-> 0, loudest |-> 0]

GateMin == 15000      \* DEFAULT_SPEECH_GATE_MIN
GateMax == 250000     \* DEFAULT_SPEECH_GATE_MAX
SafetyFloor == 15000  \* DEFAULT_NOISE_FLOOR_SAFETY_FLOOR

CalInit ==
  /\ calPhase = "baseline" /\ observer = NewObserver(0)
  /\ activeResult = NoResult /\ recalibrations = 0

-----------------------------------------------------------------------------
\* The samples of a window.

\* Ways to put the samples in order.
Orders(samples) ==
  {order \in [DOMAIN samples -> DOMAIN samples] : \A i, j \in DOMAIN samples :
     i < j => order[i] # order[j] /\ samples[order[i]] <= samples[order[j]]}

Sorted(samples) ==
  LET order == CHOOSE order \in Orders(samples) : TRUE
  IN  [i \in DOMAIN samples |-> samples[order[i]]]

\* np.percentile(samples, 90), interpolated between the neighbours, in hundredths.
NoiseFloor(samples) ==
  LET rank == 9 * (Len(samples) - 1)
      below == Sorted(samples)[rank \div 10 + 1]
      above == IF rank % 10 = 0 THEN below ELSE Sorted(samples)[rank \div 10 + 2]
  IN  100 * below + 10 * (rank % 10) * (above - below)

\* Mutated form: only the maximum is bounded.
DeriveUncapped(floor) == Max({GateMin, (floor * 12) \div 10})

\* _derive_speech_gate: the floor times 1.2, between the minimum and the maximum.
DeriveSpeechGate(floor) == Max({GateMin, Min({(floor * 12) \div 10, GateMax})})

\* is_contaminated: a block of the window reaches the threshold.
Contaminated(samples) == \E i \in DOMAIN samples : 100 * samples[i] >= observer.threshold

\* CalibrationEngine.calibrate, of a clean window.
Calibrated(samples) ==
  [success |-> TRUE, floor |-> NoiseFloor(samples),
   gate |-> DeriveSpeechGate(NoiseFloor(samples)),
   loudest |-> 100 * Max({samples[i] : i \in DOMAIN samples})]

\* _build_fallback_calibration_result
Fallback == [success |-> FALSE, floor |-> 0, gate |-> FallbackGate, loudest |-> 0]

-----------------------------------------------------------------------------
\* EnvironmentObserver.add_block, and what its owner does with its result.

\* A window that is not complete, or a contaminated one with attempts left.
Collects(samples) ==
  /\ UNCHANGED activeResult
  /\ \/ Len(samples) < WindowBlocks /\ observer' = [observer EXCEPT !.samples = samples]
     \/ /\ Len(samples) = WindowBlocks
        /\ Contaminated(samples) /\ observer.attempt < MaxAttempts
        /\ observer' = [observer EXCEPT !.attempt = @ + 1, !.samples = <<>>]

Succeeds(samples) ==
  /\ Len(samples) = WindowBlocks /\ ~Contaminated(samples)
  /\ activeResult' = Calibrated(samples)
  /\ observer' = NoObserver

Exhausted(samples) ==
  /\ Len(samples) = WindowBlocks
  /\ Contaminated(samples) /\ observer.attempt = MaxAttempts
  /\ observer' = NoObserver

-----------------------------------------------------------------------------
\* Start-up.

\* _derive_dynamic_contamination_threshold: the gate the baseline would give.
BaselineThreshold(samples) == DeriveSpeechGate(NoiseFloor(samples))

\* _run_baseline_observation: loud blocks do not contaminate it.
Baseline(rms) ==
  /\ calPhase = "baseline"
  /\ LET samples == Append(observer.samples, rms)
     IN  IF Len(samples) < BaselineBlocks
           THEN observer' = [observer EXCEPT !.samples = samples] /\ UNCHANGED calPhase
           ELSE /\ calPhase' = "observing" /\ observer' = NewObserver(BaselineThreshold(samples))
  /\ UNCHANGED <<activeResult, recalibrations>>

\* _run_initial_calibration, and the fallback after it.
Observe(rms) ==
  /\ calPhase = "observing" /\ UNCHANGED recalibrations
  /\ LET samples == Append(observer.samples, rms)
     IN  \/ Collects(samples) /\ UNCHANGED calPhase
         \/ Succeeds(samples) /\ calPhase' = "running"
         \/ Exhausted(samples) /\ calPhase' = "running" /\ activeResult' = Fallback

\* The capture thread raises: whatever is being measured is given up.
CaptureFails ==
  /\ calPhase # "running" /\ calPhase' = "running"
  /\ observer' = NoObserver /\ activeResult' = Fallback
  /\ UNCHANGED recalibrations

-----------------------------------------------------------------------------
\* RecalibrationController, with the static threshold main.py leaves it.

BeginRecalibration ==
  /\ calPhase = "running" /\ recalibrations < MaxRecalibrations
  /\ recalibrations' = recalibrations + 1
  /\ observer' = NewObserver(SafetyFloor)
  /\ UNCHANGED <<calPhase, activeResult>>

\* add_block: a failed recalibration leaves the gate in force as it was.
Recalibrate(rms) ==
  /\ calPhase = "running" /\ observer # NoObserver
  /\ LET samples == Append(observer.samples, rms)
     IN  \/ Collects(samples)
         \/ Succeeds(samples)
         \/ Exhausted(samples) /\ UNCHANGED activeResult
  /\ UNCHANGED <<calPhase, recalibrations>>

CalNext ==
  \/ \E rms \in Loudness : Baseline(rms) \/ Observe(rms) \/ Recalibrate(rms)
  \/ CaptureFails \/ BeginRecalibration

-----------------------------------------------------------------------------
\* The gate in use, and its property.

\* AudioBridge._run_pump: what is at or above the gate is sent to the server.
Forwards(rms) == 100 * rms >= activeResult.gate

\* A gate that was measured keeps the room out: it lies above the noise floor of the
\* window it was derived from and within its documented range, although the floor may
\* be as loud as the range allows; a gate that was not measured is the configured one
\* and marked as such (_derive_speech_gate against the baseline's threshold, the
\* fallback, and a recalibration that fails).
GateAboveRoom ==
  calPhase = "running" =>
    IF activeResult.success
      THEN /\ activeResult.gate \in GateMin..GateMax
           /\ activeResult.floor < activeResult.gate
           /\ activeResult.loudest <= GateMax
      ELSE activeResult = Fallback
=============================================================================
