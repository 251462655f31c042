----------------------------- MODULE RuntimeClient -----------------------------
(***************************************************************************)
(* The runtime client as _amain runs it (runtime_client/main.py): it       *)
(* calibrates its speech gate first, in the event loop's own thread, and   *)
(* only then starts the keyboard and the connection.  A recalibration      *)
(* shares nothing with those but the gate it replaces at its end, and no   *)
(* key or thread of the client begins one yet: those that the bound allows *)
(* are taken before them.                                                  *)
(***************************************************************************)
EXTENDS Calibration, ClientLink, EventTrust

clientVars == <<calVars, linkVars>>

ClientInit == CalInit /\ LinkInit

CalDone == calPhase = "running" /\ observer = NoObserver /\ recalibrations = MaxRecalibrations

\* The connection, once the gate has been measured.
Running(A) == CalDone /\ A /\ UNCHANGED calVars

ClientNext ==
  \/ CalNext /\ LinkInit /\ UNCHANGED linkVars
  \/ Running(LinkNext)
  \/ calPhase = "baseline" /\ ShellStops /\ UNCHANGED calVars

\* The microphone delivers blocks or fails: start-up waits for nothing else.
Measures ==
  /\ BeginRecalibration \/ \E rms \in Loudness : Baseline(rms) \/ Observe(rms) \/ Recalibrate(rms)
  /\ UNCHANGED linkVars

\* run() is a task of the client's loop: what it waits for ends it, be it a timeout.  The
\* gateway's loop serves the handshakes it is sent and closes what it has to.  PumpEnds is
\* not fair as a whole, for a connection need not be cut.
ClientFairness ==
  /\ WF_clientVars(Measures)
  /\ WF_clientVars(Running(Dial \/ LoopEnds)) /\ WF_clientVars(Running(HandshakeEnds))
  /\ WF_clientVars(Running(Backoff))
  /\ WF_clientVars(Running(PumpEnds /\ (stopped \/ closeCode # 0)))
  /\ WF_clientVars(Running(Answer \/ Claim)) /\ WF_clientVars(Running(ClosesNormally))
  /\ WF_clientVars(Running(ServerCloses /\ ~ready))

ClientSpec == ClientInit /\ [][ClientNext]_clientVars /\ ClientFairness

-----------------------------------------------------------------------------
\* Payloads an event may have: what the runtime emits, the whole contract's reply with
\* its two kinds of value and end, a type the contract does not know, and none.
RawEvents ==
  LET Reply(ok, fb) ==
        [type |-> "reply", valid |-> ok, fallback |-> fb,
         fields |-> EmittedFields["reply"] \union RequiredFields["reply"]]
  IN  {[type |-> t, valid |-> TRUE, fallback |-> FALSE, fields |-> EmittedFields[t]] : t \in KnownTypes}
        \union {Reply(ok, fb) : ok, fb \in BOOLEAN}
        \union {[type |-> "other", valid |-> TRUE, fallback |-> FALSE, fields |-> {"text"}],
                [type |-> "error", valid |-> TRUE, fallback |-> FALSE, fields |-> {}]}

\* Of the events in the order in which a client gets them, one is TRUSTED exactly if its
\* type is unknown or its payload is all that the contract asks, it is no fallback, and
\* it is stamped no earlier than the one before it; that happens only to events of two
\* threads.  What the runtime emits today is never TRUSTED.  A review is recommended
\* exactly for a fallback with a gap (_check_ordering, _apply_trust_policy).
VerdictsWarranted ==
  \A i \in DOMAIN store : \A raw \in RawEvents :
    LET Raw(j) == [type |-> raw.type, valid |-> raw.valid, fallback |-> raw.fallback,
                   fields |-> raw.fields, stamp |-> store[j].stamp]
        verdict == RunPipeline([j \in 1..i |-> Raw(j)], i)
        overtaken == i > 1 /\ store[i].stamp < store[i - 1].stamp
        complete == raw.type = "other" \/ (raw.type = "reply" /\ "finish_reason" \in raw.fields /\ raw.valid)
    IN  /\ (verdict.level = "TRUSTED") <=> (complete /\ ~raw.fallback /\ ~overtaken)
        /\ verdict.review <=> (raw.fallback /\ (overtaken \/ ~complete))
        /\ overtaken => store[i].emitter # store[i - 1].emitter
=============================================================================
