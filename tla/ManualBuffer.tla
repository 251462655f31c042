------------------------------ MODULE ManualBuffer ------------------------------
(***************************************************************************)
(* The manual-flush buffer of VADBuffer (audio/vad_buffering.py) and the   *)
(* three threads that share it: the main thread, whose VAD routes finished *)
(* segments into it; the keyboard and the control thread, which flush it   *)
(* ('g'), gate it ('r') and, the keyboard only, clear it ('c').            *)
(*                                                                         *)
(* A segment is its number, in the order of finalization, and its length.  *)
(***************************************************************************)
EXTENDS Integers, Sequences

CONSTANTS
  Operator,       \* threads with a toggle command: the keyboard, control
  Length,         \* lengths a segment may have
  Ceiling,        \* max_manual_buffer_sec
  MaxSegments,    \* bound: segments finalized
  MaxClears       \* bound: uses of the keyboard's 'c'

\* Assumed by AudioPath, of which this is an instance.
BufferAssumption ==
  /\ Length \subseteq Nat
  /\ Ceiling \in Nat /\ MaxSegments \in Nat /\ MaxClears \in Nat

VARIABLES
  finalized,        \* segments the VAD has finalized
  routing,          \* the segment the main thread is about to append, if any
  audioBuffer,      \* audio_buffer
  duration,         \* _duration
  segments,         \* _segments
  recordingActive,  \* recording_active
  toggling,         \* toggling[k]: what thread k read before it toggles
  flushed,          \* numbers of the segments handed over by flush()
  clears            \* uses of 'c'

bufferVars == <<audioBuffer, duration, segments>>
gateVars == <<recordingActive, toggling>>
vars == <<finalized, routing, bufferVars, gateVars, flushed, clears>>

Segment == [number : 1..MaxSegments, length : Length]

TypeOK ==
  /\ finalized \in 0..MaxSegments
  /\ routing \in {<<>>} \cup {<<s>> : s \in Segment}
  /\ audioBuffer \in Seq(Segment)
  /\ duration \in Int
  /\ segments \in Nat
  /\ recordingActive \in BOOLEAN
  /\ toggling \in [Operator -> {"no", "on", "off"}]
  /\ flushed \subseteq 1..MaxSegments
  /\ clears \in 0..MaxClears

Init ==
  /\ finalized = 0 /\ routing = <<>>
  /\ audioBuffer = <<>> /\ duration = 0 /\ segments = 0
  /\ recordingActive = TRUE
  /\ toggling = [k \in Operator |-> "no"]
  /\ flushed = {} /\ clears = 0

Total(segs) ==
  LET sum[n \in 0..Len(segs)] == IF n = 0 THEN 0 ELSE sum[n - 1] + segs[n].length
  IN  sum[Len(segs)]

-----------------------------------------------------------------------------
\* The main thread: _route_segment.

\* A segment is finalized; while recording is paused it is dropped.
RouteSegment(length) ==
  /\ finalized < MaxSegments /\ routing = <<>>
  /\ finalized' = finalized + 1
  /\ routing' = IF recordingActive THEN <<[number |-> finalized', length |-> length]>>
                                   ELSE <<>>
  /\ UNCHANGED <<bufferVars, gateVars, flushed, clears>>

\* The oldest segment goes when the new one would pass the ceiling.
Evicts(s) == duration + s.length > Ceiling /\ audioBuffer # <<>>

\* Mutated form: the limit is tested with the segment already counted.
AppendSegmentCounting ==
  /\ routing # <<>>
  /\ LET s == routing[1]
         evicts == duration + s.length + s.length > Ceiling /\ audioBuffer # <<>>
         kept == IF evicts THEN Tail(audioBuffer) ELSE audioBuffer
     IN  /\ audioBuffer' = Append(kept, s)
         /\ duration' = duration + s.length
                          - (IF evicts THEN audioBuffer[1].length ELSE 0)
         /\ segments' = segments + (IF evicts THEN 0 ELSE 1)
  /\ routing' = <<>>
  /\ UNCHANGED <<finalized, gateVars, flushed, clears>>

\* append_segment, under the lock.
AppendSegment ==
  /\ routing # <<>>
  /\ LET s == routing[1]
         kept == IF Evicts(s) THEN Tail(audioBuffer) ELSE audioBuffer
         left == IF Evicts(s) /\ segments > 0 THEN segments - 1 ELSE segments
     IN  /\ audioBuffer' = Append(kept, s)
         /\ duration' = duration + s.length
                          - (IF Evicts(s) THEN audioBuffer[1].length ELSE 0)
         /\ segments' = left + 1
  /\ routing' = <<>>
  /\ UNCHANGED <<finalized, gateVars, flushed, clears>>

-----------------------------------------------------------------------------
\* The keyboard and the control thread.

Numbers(segs) == {segs[i].number : i \in DOMAIN segs}

\* flush(): the merged audio, the counters reset, under the lock; inline_active
\* is never set, so it waits for no one.  An empty buffer gives None.
Flush ==
  /\ audioBuffer # <<>>
  /\ flushed' = flushed \cup Numbers(audioBuffer)
  /\ audioBuffer' = <<>> /\ duration' = 0 /\ segments' = 0
  /\ UNCHANGED <<finalized, routing, gateVars, clears>>

\* 'c' empties the list it was given a reference to, and no more.
Clear ==
  /\ clears < MaxClears /\ clears' = clears + 1
  /\ audioBuffer' = <<>>
  /\ UNCHANGED <<finalized, routing, duration, segments, gateVars, flushed>>

\* 'r': recording_active.is_set(), then clear() or set().
ReadGate(k) ==
  /\ toggling[k] = "no"
  /\ toggling' = [toggling EXCEPT ![k] = IF recordingActive THEN "on" ELSE "off"]
  /\ UNCHANGED <<finalized, routing, bufferVars, recordingActive, flushed, clears>>

WriteGate(k) ==
  /\ toggling[k] # "no"
  /\ toggling' = [toggling EXCEPT ![k] = "no"]
  /\ recordingActive' = (toggling[k] = "off")
  /\ UNCHANGED <<finalized, routing, bufferVars, flushed, clears>>

Next ==
  \/ \E length \in Length : RouteSegment(length)
  \/ AppendSegment
  \/ Flush \/ Clear
  \/ \E k \in Operator : ReadGate(k) \/ WriteGate(k)

Spec == Init /\ [][Next]_vars

-----------------------------------------------------------------------------
\* Properties.

\* Segments leave in the order they were finalized, each in one flush only, and
\* whatever flush comes next carries newer speech than every flush before it.
HandedOverInOrder ==
  /\ \A i, j \in DOMAIN audioBuffer :
       i < j => audioBuffer[i].number < audioBuffer[j].number
  /\ \A f \in flushed : \A i \in DOMAIN audioBuffer : f < audioBuffer[i].number
=============================================================================
