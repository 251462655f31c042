----------------------------- MODULE VoiceActivity -----------------------------
(***************************************************************************)
(* audio_queue, VADOrchestrator (audio/vad.py) and the frame accumulation  *)
(* of VADBuffer (audio/vad_buffering.py): a capture thread queues blocks,  *)
(* the main thread takes them one by one or, when none has come for a      *)
(* while, checks for the end of an utterance, and finished segments go to  *)
(* the routing callback.                                                   *)
(*                                                                         *)
(* A block is its number in the order of capture; speech says which blocks *)
(* are above the RMS threshold.  All blocks have one size, so sample       *)
(* counts are counts of blocks; the zeros padded at a forced end are left  *)
(* out.                                                                    *)
(***************************************************************************)
EXTENDS Integers, Sequences

CONSTANTS
  QueueMax,       \* AUDIO_QUEUE_MAXSIZE
  PreBlocks,      \* pre_buffer_blocks
  MinBlocks,      \* min_samples, in blocks
  MaxBlocks,      \* max_samples, in blocks
  SilenceBlocks,  \* silence_blocks
  MaxCaptured     \* bound: blocks captured

ASSUME VoiceAssumption ==
  /\ {QueueMax, MinBlocks, MaxBlocks, SilenceBlocks} \subseteq Nat \ {0}
  /\ PreBlocks \in Nat /\ MaxCaptured \in Nat
  /\ MinBlocks <= MaxBlocks

VARIABLES
  captured,       \* blocks captured so far
  speech,         \* the captured blocks that are not silent
  audioQueue,     \* audio_queue
  taken,          \* speech blocks taken from the queue, in order
  preBuf,         \* _pre_buf
  blocks,         \* _blocks
  silenceStreak,  \* _silence_streak
  hasSpeech,      \* _has_speech
  heard           \* speech blocks handed over in all segments, in order

captureVars == <<captured, speech>>
inlineVars == <<preBuf, blocks, silenceStreak, hasSpeech>>
vars == <<captureVars, audioQueue, taken, inlineVars, heard>>

Block == 1..MaxCaptured

TypeOK ==
  /\ captured \in 0..MaxCaptured
  /\ speech \subseteq 1..captured
  /\ audioQueue \in Seq(Block) /\ Len(audioQueue) <= QueueMax
  /\ taken \in Seq(Block)
  /\ preBuf \in Seq(Block) /\ Len(preBuf) <= PreBlocks
  /\ blocks \in Seq(Block) /\ Len(blocks) < MaxBlocks
  /\ silenceStreak \in Nat
  /\ hasSpeech \in BOOLEAN
  /\ heard \in Seq(Block)

Init ==
  /\ captured = 0 /\ speech = {} /\ audioQueue = <<>> /\ taken = <<>>
  /\ preBuf = <<>> /\ blocks = <<>> /\ silenceStreak = 0 /\ hasSpeech = FALSE
  /\ heard = <<>>

\* The speech in seq, in its order.
SpeechOf(seq) ==
  LET kept[n \in 0..Len(seq)] ==
        IF n = 0 THEN <<>>
        ELSE IF seq[n] \in speech THEN Append(kept[n - 1], seq[n]) ELSE kept[n - 1]
  IN  kept[Len(seq)]

-----------------------------------------------------------------------------
\* The capture thread; a full queue loses the block.

Capture(silent) ==
  /\ captured < MaxCaptured
  /\ captured' = captured + 1
  /\ speech' = IF silent THEN speech ELSE speech \cup {captured'}
  /\ audioQueue' = IF Len(audioQueue) < QueueMax THEN Append(audioQueue, captured')
                                                 ELSE audioQueue
  /\ UNCHANGED <<taken, inlineVars, heard>>

-----------------------------------------------------------------------------
\* The main thread.

\* _reset_inline
ResetInline ==
  preBuf' = <<>> /\ blocks' = <<>> /\ silenceStreak' = 0 /\ hasSpeech' = FALSE

\* The deque keeps the last PreBlocks blocks.
Pushed(b) ==
  LET all == Append(preBuf, b)
  IN  IF Len(all) > PreBlocks THEN Tail(all) ELSE all

HandOver(seq) == heard' = heard \o SpeechOf(seq)

\* Mutated form of the end: a forced end drops what has no closing silence.
EndsDiscarding(all, streak, voiced) ==
  IF voiced /\ streak >= SilenceBlocks THEN HandOver(all)
  ELSE UNCHANGED heard

\* An ended segment is handed over, unless it never had speech.
Ends(all, streak, voiced) ==
  IF voiced THEN HandOver(all) ELSE UNCHANGED heard

\* process_frame on the block at the queue's head: pre-speech silence goes into
\* _pre_buf and into _blocks, the first speech puts _pre_buf in front of itself.
ProcessFrame ==
  /\ audioQueue # <<>>
  /\ audioQueue' = Tail(audioQueue)
  /\ LET b == Head(audioQueue)
         voiced == hasSpeech \/ b \in speech
         onset == b \in speech /\ ~hasSpeech
         all == (IF onset THEN blocks \o preBuf ELSE blocks) \o <<b>>
         streak == IF b \in speech THEN 0 ELSE silenceStreak + 1
         forced == Len(all) >= MaxBlocks
         silent == voiced /\ streak >= SilenceBlocks /\ Len(all) >= MinBlocks
     IN  /\ taken' = IF b \in speech THEN Append(taken, b) ELSE taken
         /\ IF forced \/ silent
              THEN Ends(all, streak, voiced) /\ ResetInline
              ELSE /\ blocks' = all
                   /\ silenceStreak' = streak
                   /\ hasSpeech' = voiced
                   /\ preBuf' = IF onset THEN <<>>
                                ELSE IF voiced THEN preBuf ELSE Pushed(b)
                   /\ UNCHANGED heard
  /\ UNCHANGED captureVars

\* Mutated form: the silence is counted in blocks only, as if they came.
CheckIdleStreak ==
  /\ audioQueue = <<>>
  /\ hasSpeech /\ blocks # <<>> /\ Len(blocks) >= MinBlocks
  /\ silenceStreak >= SilenceBlocks
  /\ HandOver(blocks) /\ ResetInline
  /\ UNCHANGED <<captureVars, audioQueue, taken>>

\* check_idle_timeout, once the queue has been empty for the silence timeout.
CheckIdle ==
  /\ audioQueue = <<>>
  /\ hasSpeech /\ blocks # <<>> /\ Len(blocks) >= MinBlocks
  /\ HandOver(blocks) /\ ResetInline
  /\ UNCHANGED <<captureVars, audioQueue, taken>>

VAD == ProcessFrame \/ CheckIdle

Next == (\E silent \in BOOLEAN : Capture(silent)) \/ VAD

Safety == Init /\ [][Next]_vars

\* The main thread runs; nothing is assumed of the capture.
Spec == Safety /\ WF_vars(VAD)

-----------------------------------------------------------------------------
\* Properties.

\* Speech that has been taken from the queue is in the segments handed over and
\* then in _blocks, each block once and in order: neither a forced end, nor an
\* idle timeout between two blocks, nor the pre-buffer loses or repeats any.
SpeechKept == heard \o SpeechOf(blocks) = taken

\* "finalized as reason=silence ... without needing a synthetic silent frame": an
\* utterance of the minimum length is handed over though no block may follow it.
UtteranceFinalized == hasSpeech /\ Len(blocks) >= MinBlocks ~> ~hasSpeech
=============================================================================
