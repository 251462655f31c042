------------------------------ MODULE EventTrust ------------------------------
(***************************************************************************)
(* RuntimePipelineOrchestrator.run of one typed event: the adapter         *)
(* translates it and numbers it, VerificationRuntime looks for gaps and    *)
(* fallbacks, TrustRuntime turns that into a score, a level and a          *)
(* recommendation.  Dashboard and aggregator only copy the two results.    *)
(*                                                                         *)
(* An event is its payload and its timestamp.  Scores are in hundredths.   *)
(***************************************************************************)
EXTENDS Integers, FiniteSets

\* What an event type carries on the wire, and what the event contract asks of it.
EmittedFields == [
  transcript |-> {"text", "lang", "ts", "speaker"},
  reply |-> {"text", "lang", "speaker", "ts", "provider"},
  analysis |-> {"text"},
  latency |-> {"stt_ms", "gpt_ms", "total_ms"},
  status |-> {"state", "previous"},
  error |-> {"label", "message"}]

KnownTypes == DOMAIN EmittedFields

RequiredFields == [
  transcript |-> {"text", "language", "confidence", "is_final"},
  reply |-> {"provider", "model", "text", "finish_reason"},
  analysis |-> {"intent", "summary", "metadata"},
  latency |-> {"stt_ms", "routing_ms", "provider_ms", "total_ms"},
  status |-> {"state", "message"},
  error |-> {"code", "message", "recoverable"}]

\* _PAYLOAD_FIELD_MAP: the fields that change their name.
Renamed(type, field) ==
  CASE type = "transcript" /\ field = "lang" -> "language"
    [] type = "analysis" /\ field = "text" -> "summary"
    [] type = "latency" /\ field = "gpt_ms" -> "provider_ms"
    [] OTHER -> field

\* RuntimeEventAdapter.translate: an event's number counts what arrived, not what was sent.
Translate(raw, number) ==
  [type |-> raw.type, fallback |-> raw.fallback, valid |-> raw.valid,
   fields |-> {Renamed(raw.type, field) : field \in raw.fields},
   stamp |-> raw.stamp, sequence |-> number]

-----------------------------------------------------------------------------
\* VerificationRuntime.handle

\* _check_payload: nothing there, something missing, or a value outside its range.
PayloadReasons(event) ==
  IF event.type \notin KnownTypes THEN {}
  ELSE IF event.fields = {} THEN {"missing payload"}
  ELSE (IF RequiredFields[event.type] \subseteq event.fields THEN {} ELSE {"missing fields"})
         \union (IF event.valid THEN {} ELSE {"value"})

\* Mutated form: only the number the adapter gave is compared.
OrderReasonsByNumber(event, last) ==
  IF event.sequence < last.sequence THEN {"sequence regression"} ELSE {}

\* _check_ordering: against the event before it, of the same session.
OrderReasons(event, last) ==
  (IF event.sequence < last.sequence THEN {"sequence regression"} ELSE {})
    \union (IF event.stamp < last.stamp THEN {"timestamp moved backwards"} ELSE {})

\* _check_fallback
FallbackDetected(event) == event.type = "reply" /\ event.fallback /\ "finish_reason" \in event.fields

Verify(event, last) ==
  LET gap == PayloadReasons(event) \union OrderReasons(event, last) # {}
      fallback == FallbackDetected(event)
  IN  [gap |-> gap, fallback |-> fallback,
       reliability |-> 100 - (IF gap THEN 50 ELSE 0) - (IF fallback THEN 30 ELSE 0),
       warnings |-> Cardinality({w \in 1..3 : \/ w = 1 /\ event.type \notin KnownTypes
                                              \/ w = 2 /\ gap
                                              \/ w = 3 /\ fallback})]

-----------------------------------------------------------------------------
\* TrustRuntime.handle

\* _apply_trust_policy, the last bound left out: the score stays between 0 and 1.
TrustScore(result) ==
  result.reliability \div 2 + 50
    - (IF result.gap THEN 20 ELSE 0) - (IF result.fallback THEN 20 ELSE 0)
    - 5 * result.warnings

\* _classify_trust_level
TrustLevel(score) ==
  IF score >= 75 THEN "TRUSTED" ELSE IF score >= 40 THEN "CAUTION" ELSE "UNTRUSTED"

\* _recommend_review
ReviewRequired(result) ==
  \/ TrustLevel(TrustScore(result)) = "UNTRUSTED"
  \/ result.gap /\ result.fallback

\* The i-th event of a stream through one orchestrator: VerificationRuntime remembers its
\* predecessor, whatever that one's verdict was.
RunPipeline(stream, i) ==
  LET last == IF i = 1 THEN [stamp |-> 0, sequence |-> 0] ELSE Translate(stream[i - 1], i - 1)
      result == Verify(Translate(stream[i], i), last)
  IN  [result |-> result, level |-> TrustLevel(TrustScore(result)),
       review |-> ReviewRequired(result)]
=============================================================================
