------------------------------ MODULE Conversation ------------------------------
(***************************************************************************)
(* What reply_worker (phantom_runtime.py) does with a chunk while the      *)
(* keyboard and the control thread look on: the conversation state and its *)
(* status events, the reply that is spoken, and the 's' command, which     *)
(* silences it.                                                            *)
(*                                                                         *)
(* The worker's way through a chunk is its program: the calls it has still *)
(* to make, in order.  A call named after a state is _set_state(); the     *)
(* steps of TranscriptQueue are taken where the worker takes them, and end *)
(* the chunk when the program is done.                                     *)
(***************************************************************************)
EXTENDS TranscriptQueue

CONSTANTS
  AgentMode,      \* args.agent: the runtime answers, and speaks, by itself
  Speaks,         \* a TTS provider other than the null provider is active
  MaxPresses      \* bound: uses of 's' that find something to silence

ASSUME ConversationAssumption ==
  {AgentMode, Speaks} \subseteq BOOLEAN /\ MaxPresses \in Nat /\ "worker" \notin Producer

VARIABLES
  program,        \* what the worker has still to do for the current chunk
  convState,      \* _conv_state
  emitting,       \* emitting[t]: the status event thread t has not written yet
  sent,           \* the state in the last status event written
  speech,         \* the chunk whose reply the TTS provider is speaking, or 0
  ttsInterrupt,   \* _tts_interrupt
  pressing,       \* pressing[o]: where operator thread o stands in 's'
  presses,        \* uses of 's' so far
  meddled         \* 's' has set the state since the worker last left idle

talkVars == <<program, convState, emitting, sent, speech, ttsInterrupt,
              pressing, presses, meddled>>
allVars == <<vars, talkVars>>

Thread == Producer \cup {"worker"}

States == {"idle", "recruiter_speaking", "user_speaking", "waiting_for_reply",
           "generating", "speaking"}

ConvInit ==
  /\ Init
  /\ program = <<>>
  /\ convState = "idle" /\ sent = "idle"
  /\ emitting = [t \in Thread |-> "none"]
  /\ speech = 0 /\ ttsInterrupt = FALSE
  /\ pressing = [o \in Producer |-> "no"] /\ presses = 0 /\ meddled = FALSE

-----------------------------------------------------------------------------
\* _set_state: the state changes under its lock, the event is written after it.

\* Mutated form: the event names the state that was left.
SetStateSwapped(t, new) ==
  /\ convState' = new
  /\ emitting' = [emitting EXCEPT ![t] = IF convState = new THEN "none" ELSE convState]

SetState(t, new) ==
  /\ convState' = new
  /\ emitting' = [emitting EXCEPT ![t] = IF convState = new THEN "none" ELSE new]

Emit(t) ==
  /\ emitting[t] # "none"
  /\ sent' = emitting[t]
  /\ emitting' = [emitting EXCEPT ![t] = "none"]
  /\ UNCHANGED <<vars, program, convState, speech, ttsInterrupt, pressing, presses, meddled>>

-----------------------------------------------------------------------------
\* The worker.

\* The ways through a chunk, from the interrupt check on: what the speaker, the
\* fast path, the cognition pipeline and is_question() make of the text.
Observed == {<<"check">>, <<"check", "choose">>}
Answered ==
  LET recruiter == <<"check", "recruiter_speaking">>
      cognition == recruiter \o <<"generating", "idle">>
  IN  {<<"check", "user_speaking", "choose", "idle">>,
       recruiter \o <<"idle">>,
       cognition}
      \cup {way \o rest : way \in {recruiter, cognition},
                          rest \in {<<"idle", "choose">>,
                                    <<"waiting_for_reply", "generating", "choose", "agent">>}}
Ways == IF AgentMode THEN Answered ELSE Observed

\* A chunk is taken; nothing is done for one that is empty or not meaningful.
TakeChunk ==
  /\ Take
  /\ program' \in Ways \cup {<<>>}
  /\ UNCHANGED <<convState, emitting, sent, speech, ttsInterrupt, pressing, presses, meddled>>

Awake == emitting["worker"] = "none" /\ program # <<>>
Goes(rest) == program' = rest /\ UNCHANGED <<pressing, presses, meddled>>
Does(call) == Awake /\ Head(program) = call
Steps == Goes(Tail(program)) /\ UNCHANGED vars

\* _set_state as the next call.
Sets ==
  /\ Awake /\ Head(program) \in States
  /\ SetState("worker", Head(program)) /\ program' = Tail(program)
  /\ meddled' = (meddled /\ Head(program) = "idle")
  /\ UNCHANGED <<vars, sent, speech, ttsInterrupt, pressing, presses>>

\* Mutated form: the interrupt check is left to the wait of the earlier reply.
ChecksFlagOnly ==
  /\ Does("check")
  /\ Goes(IF speech # 0 THEN <<"set", "idle", "clear">> \o Tail(program) ELSE Tail(program))
  /\ UNCHANGED <<vars, convState, emitting, sent, speech, ttsInterrupt>>

\* "Safe TTS interrupt": whatever is still being spoken is stopped.
Checks ==
  /\ Does("check")
  /\ Goes(IF speech # 0 THEN <<"set", "stop", "idle", "clear">> \o Tail(program)
                        ELSE Tail(program))
  /\ UNCHANGED <<vars, convState, emitting, sent, speech, ttsInterrupt>>

Flags ==
  /\ Does("set") \/ Does("clear")
  /\ ttsInterrupt' = (Head(program) = "set")
  /\ Steps /\ UNCHANGED <<convState, emitting, sent, speech>>

Stops ==
  /\ Does("stop") /\ speech' = 0
  /\ Steps /\ UNCHANGED <<convState, emitting, sent, ttsInterrupt>>

\* The mode is consulted; what is not the agent's own reply follows here.
Chooses ==
  /\ Does("choose")
  /\ \/ Heard /\ UNCHANGED program
     \/ Choose /\ UNCHANGED program
     \/ Reset /\ program' = (IF Tail(program) = <<"agent">> THEN <<"idle">> ELSE Tail(program))
     \/ wpc = "reply" /\ program' = Tail(program) /\ UNCHANGED vars
  /\ UNCHANGED <<convState, emitting, sent, speech, ttsInterrupt, pressing, presses, meddled>>

\* generate_agent_reply gives a response or None; without a voice it is only shown.
AgentReplies ==
  /\ Does("agent")
  /\ \E response \in BOOLEAN :
       Goes(IF response /\ Speaks THEN <<"speaking", "clear", "speak", "wait", "test", "clear", "idle">>
                                  ELSE <<"idle">>)
  /\ UNCHANGED <<vars, convState, emitting, sent, speech, ttsInterrupt>>

Speak ==
  /\ Does("speak") /\ speech' = current
  /\ Steps /\ UNCHANGED <<convState, emitting, sent, ttsInterrupt>>

\* Mutated form: the wait has no deadline.
WaitsForever ==
  /\ Does("wait") /\ (speech = 0 \/ ttsInterrupt)
  /\ Steps /\ UNCHANGED <<convState, emitting, sent, speech, ttsInterrupt>>

\* The wait ends with the speech, on an interrupt, or after ten seconds.
Waits ==
  /\ Does("wait")
  /\ Steps /\ UNCHANGED <<convState, emitting, sent, speech, ttsInterrupt>>

Tests ==
  /\ Does("test") /\ speech' = IF ttsInterrupt THEN 0 ELSE speech
  /\ Steps /\ UNCHANGED <<convState, emitting, sent, ttsInterrupt>>

\* An exception: the state is set back, and the loop goes on.
Raises ==
  /\ Awake /\ program # <<"idle">>
  /\ wpc \in {"transcribe", "analyse", "reply"}
  /\ Goes(<<"idle">>)
  /\ UNCHANGED <<vars, convState, emitting, sent, speech, ttsInterrupt>>

\* The end of the chunk.
Ends ==
  /\ program = <<>> /\ emitting["worker"] = "none"
  /\ Ignore \/ Analyse \/ Reply
  /\ UNCHANGED talkVars

ReplyWorker ==
  \/ TakeChunk \/ Sets \/ Checks \/ Flags \/ Stops \/ Chooses
  \/ AgentReplies \/ Speak \/ Waits \/ Tests \/ Ends \/ Emit("worker")

-----------------------------------------------------------------------------
\* The keyboard and the control thread, and the voice.

Free(o) == ppc[o] = "idle" /\ pressing[o] = "no" /\ emitting[o] = "none"

\* 's': is_speaking(), stop(), the flag, the state, one after the other.
Press(o) ==
  /\ Free(o) /\ speech # 0 /\ presses < MaxPresses
  /\ presses' = presses + 1
  /\ pressing' = [pressing EXCEPT ![o] = "stop"]
  /\ UNCHANGED <<vars, program, convState, emitting, sent, speech, ttsInterrupt, meddled>>

PressStops(o) ==
  /\ pressing[o] = "stop" /\ speech' = 0
  /\ pressing' = [pressing EXCEPT ![o] = "set"]
  /\ UNCHANGED <<vars, program, convState, emitting, sent, ttsInterrupt, presses, meddled>>

PressFlags(o) ==
  /\ pressing[o] = "set" /\ ttsInterrupt' = TRUE
  /\ pressing' = [pressing EXCEPT ![o] = "idle"]
  /\ UNCHANGED <<vars, program, convState, emitting, sent, speech, presses, meddled>>

PressSets(o) ==
  /\ pressing[o] = "idle" /\ SetState(o, "idle")
  /\ meddled' = TRUE
  /\ pressing' = [pressing EXCEPT ![o] = "no"]
  /\ UNCHANGED <<vars, program, sent, speech, ttsInterrupt, presses>>

Silencing(o) == PressStops(o) \/ PressFlags(o) \/ PressSets(o) \/ Emit(o)

Flushing(o) == Produce(o) /\ UNCHANGED talkVars
StartsFlush(o) == Free(o) /\ Make(o) /\ UNCHANGED talkVars

SpeechEnds ==
  /\ speech # 0 /\ speech' = 0
  /\ UNCHANGED <<vars, program, convState, emitting, sent, ttsInterrupt,
                 pressing, presses, meddled>>

ConvNext ==
  \/ ReplyWorker \/ Raises \/ SpeechEnds
  \/ \E o \in Producer : StartsFlush(o) \/ Flushing(o) \/ Press(o) \/ Silencing(o)

\* The threads run; the voice may speak for ever, and nobody need press a key.
ConvSpec ==
  /\ ConvInit /\ [][ConvNext]_allVars
  /\ WF_allVars(ReplyWorker)
  /\ \A o \in Producer : WF_allVars(Flushing(o)) /\ WF_allVars(Silencing(o))

-----------------------------------------------------------------------------
\* Properties.

\* Nothing is said over the operator: once an utterance is past the interrupt check,
\* no earlier reply is heard until its own is spoken, not even one whose ten seconds
\* were over (reply_worker's check; no other thread calls speak()).
NoTalkOver ==
  program # <<>> /\ Head(program) \in (States \ {"idle"}) \cup {"choose", "agent", "speak"}
    => speech = 0

\* When the worker has done with what it was given and no event is unwritten, the last
\* status event written names the state the conversation is in -- unless 's' has set the
\* state since the worker last left idle: its own event may then be written last.
StatusCatchesUp ==
  wpc = "get" /\ (\A t \in Thread : emitting[t] = "none") /\ ~meddled => sent = convState
=============================================================================
