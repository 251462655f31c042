------------------------------- MODULE AudioPath -------------------------------
(***************************************************************************)
(* From the capture thread to the flushed chunk: the VADOrchestrator of    *)
(* VoiceActivity gives each segment it finalizes to vad_loop's             *)
(* _route_segment, which appends it to the manual-flush buffer of          *)
(* ManualBuffer.  Both run on the main thread, so that the orchestrator    *)
(* takes no block while a segment is on its way into the buffer; the       *)
(* keyboard and the control thread work on the buffer meanwhile.           *)
(***************************************************************************)
EXTENDS VoiceActivity

CONSTANTS Operator, Ceiling, MaxSegments, MaxClears

VARIABLES finalized, routing, audioBuffer, duration, segments,
          recordingActive, toggling, flushed, clears

\* A segment is shorter than MaxBlocks but for the pre-buffer and the block that ends it.
Manual == INSTANCE ManualBuffer WITH Length <- 1..(MaxBlocks + PreBlocks)

ASSUME AudioPathAssumption == Manual!BufferAssumption

manualVars == <<finalized, routing, audioBuffer, duration, segments,
                recordingActive, toggling, flushed, clears>>
pathVars == <<vars, manualVars>>

PathInit == Init /\ Manual!Init

\* How many blocks the segment has that this step of the orchestrator finalizes.
SegmentLength ==
  IF audioQueue = <<>> THEN Len(blocks)
  ELSE LET onset == Head(audioQueue) \in speech /\ ~hasSpeech
       IN  Len(blocks) + 1 + (IF onset THEN Len(preBuf) ELSE 0)

\* One turn of the orchestrator's loop, _on_segment_ready included.
VADTurn ==
  /\ routing = <<>>
  /\ VAD
  /\ IF heard' # heard THEN Manual!RouteSegment(SegmentLength)
                       ELSE UNCHANGED manualVars

RouteAppend == Manual!AppendSegment /\ UNCHANGED vars

MainThread == VADTurn \/ RouteAppend

Operators ==
  /\ UNCHANGED vars
  /\ \/ Manual!Flush
     \/ Manual!Clear
     \/ \E k \in Operator : Manual!ReadGate(k) \/ Manual!WriteGate(k)

PathNext ==
  \/ \E silent \in BOOLEAN : Capture(silent) /\ UNCHANGED manualVars
  \/ MainThread
  \/ Operators

\* The main thread runs; nothing is assumed of the capture or of the operator.
PathSpec == PathInit /\ [][PathNext]_pathVars /\ WF_pathVars(MainThread)

-----------------------------------------------------------------------------
\* Properties.

\* The segments that are nowhere: not handed over by a flush, not in the buffer and
\* not on their way into it.
Missing ==
  1..finalized \ (flushed \cup Manual!Numbers(audioBuffer) \cup Manual!Numbers(routing))

\* What was said leaves in the order it was said, and once: the speech taken from the
\* queue is in the segments and then in _blocks, block by block, whatever forced ends,
\* idle timeouts and pre-buffers come between; and a flush carries newer segments
\* than every flush before it (process_frame, check_idle_timeout, append_segment, flush).
SpeechInOrder == SpeechKept /\ Manual!HandedOverInOrder

\* Nothing that was said goes missing on the way to a flush but for a reason the
\* operator is told of: recording was paused when the segment ended, 'c' threw the
\* buffer away, or the buffer and the new segment together pass the ceiling -- until
\* a 'c' has left the counters behind (_route_segment, append_segment, the keyboard's c).
LostForAReason ==
  [][\/ Missing' \subseteq Missing
     \/ ~recordingActive
     \/ clears' > 0
     \/ /\ routing # <<>>
        /\ Manual!Total(audioBuffer) + routing[1].length > Ceiling]_pathVars
=============================================================================
