-------------------------- MODULE ConversationProofs --------------------------
(***************************************************************************)
(* Theorems of the transcript queue and of the worker that takes from it.  *)
(* The queue: it is never found full, for any producers that are no more   *)
(* than its places; no producer drops a newer chunk of its own for an      *)
(* older one; what became of a chunk stays; and the flag of a flush is     *)
(* spent on an analysis.  The worker: what it does with a chunk is what    *)
(* the queue allows, nothing is said over the operator, and the status     *)
(* events catch up with the state, for any bounds and every setting.       *)
(***************************************************************************)
EXTENDS Conversation, FiniteSetTheorems, SequenceTheorems, TLAPS

-----------------------------------------------------------------------------
\* The transcript queue, whoever takes from it.

\* Who made the i-th chunk in the queue.
From(i) == maker[queue[i]]

\* A busy producer holds a chunk of its own, and the queue holds chunks made.
Numbered ==
  /\ \A p \in Producer : ppc[p] # "idle" => held[p] \in 1..made /\ maker[held[p]] = p
  /\ \A i \in DOMAIN queue : queue[i] \in 1..made

\* No two chunks in the queue are from the same producer ...
OnePerProducer == \A i, j \in DOMAIN queue : From(i) = From(j) => i = j

\* ... and none is from a producer that is about to put one in.
AbsentWhilePutting ==
  \A p \in Producer : ppc[p] = "put" => \A i \in DOMAIN queue : From(i) # p

QueueInv == TypeOK /\ Numbered /\ OnePerProducer /\ AbsentWhilePutting

LEMMA QueueInit == Init => QueueInv
  <1> SUFFICES ASSUME Init PROVE QueueInv
    OBVIOUS
  <1>1. TypeOK
    <2>1. maker \in Seq(Producer) /\ made <= MaxChunks /\ queue \in Seq(Chunk)
      BY QueueAssumption DEF Init, made
    <2> QED
      BY <2>1, QueueAssumption DEF Init, TypeOK, Chunk, Fates
  <1>2. Numbered /\ OnePerProducer /\ AbsentWhilePutting
    BY DEF Init, Numbered, OnePerProducer, AbsentWhilePutting
  <1> QED
    BY <1>1, <1>2 DEF QueueInv

\* What is left when the queue's head is taken off.
LEMMA TailOfQueue ==
  ASSUME QueueInv, queue # <<>>
  PROVE  /\ Head(queue) \in Chunk /\ Tail(queue) \in Seq(Chunk)
         /\ DOMAIN Tail(queue) = 1..Len(queue) - 1
         /\ \A i \in 1..Len(queue) - 1 :
              i + 1 \in DOMAIN queue /\ Tail(queue)[i] = queue[i + 1]
  BY HeadTailProperties DEF QueueInv, TypeOK

\* Taking the head off keeps the queue's part of the invariant, whoever does it.
LEMMA TailKeeps ==
  ASSUME QueueInv, queue # <<>>, queue' = Tail(queue), UNCHANGED <<maker, ppc, held>>
  PROVE  Numbered' /\ OnePerProducer' /\ AbsentWhilePutting'
  <1> USE TailOfQueue DEF QueueInv, TypeOK
  <1>1. \A i \in DOMAIN queue' : i + 1 \in DOMAIN queue /\ queue'[i] = queue[i + 1] /\ i \in Nat
    OBVIOUS
  <1>2. Numbered'
    BY <1>1 DEF Numbered, made
  <1>3. OnePerProducer'
    <2> SUFFICES ASSUME NEW i \in DOMAIN queue', NEW j \in DOMAIN queue',
                        maker[queue'[i]] = maker[queue'[j]]
                 PROVE  i = j
      BY DEF OnePerProducer, From
    <2>1. /\ i + 1 \in DOMAIN queue /\ queue'[i] = queue[i + 1] /\ i \in Nat
          /\ j + 1 \in DOMAIN queue /\ queue'[j] = queue[j + 1] /\ j \in Nat
      BY <1>1
    <2>2. i + 1 = j + 1
      BY <2>1 DEF OnePerProducer, From
    <2> QED
      BY <2>1, <2>2
  <1>4. AbsentWhilePutting'
    BY <1>1 DEF AbsentWhilePutting, From
  <1> QED
    BY <1>2, <1>3, <1>4

LEMMA OneMore == \A n \in Nat : \A i \in 1..n + 1 : i \in 1..n \/ i = n + 1
  OBVIOUS

LEMMA ProducerStep ==
  ASSUME QueueInv, NEW p \in Producer, Make(p) \/ Produce(p)
  PROVE  QueueInv'
  <1> USE DEF QueueInv, TypeOK, producerVars, workerVars
  <1>0. made \in Nat /\ Len(queue) \in Nat /\ DOMAIN queue = 1..Len(queue)
    BY LenProperties DEF made
  <1>1. CASE Make(p)
    <2>1. /\ maker' \in Seq(Producer) /\ made' = made + 1
          /\ \A n \in 1..made : maker'[n] = maker[n]
          /\ maker'[made + 1] = p
      BY <1>0, <1>1, AppendProperties DEF Make, made
    <2>2. /\ ppc' = [ppc EXCEPT ![p] = IF ManualFlush THEN "mode" ELSE "drain"]
          /\ held' = [held EXCEPT ![p] = made + 1]
          /\ made < MaxChunks /\ queue' = queue
          /\ UNCHANGED <<runtimeMode, wpc, current, fate>>
      BY <1>1 DEF Make
    <2>3. TypeOK'
      BY <1>0, <2>1, <2>2, QueueAssumption
    <2>4. /\ \A r \in Producer : ppc'[r] # "idle" => held'[r] \in 1..made + 1 /\ maker'[held'[r]] = r
          /\ \A i \in DOMAIN queue' : queue'[i] \in 1..made + 1
      <3>1. ASSUME NEW r \in Producer, ppc'[r] # "idle"
            PROVE  held'[r] \in 1..made + 1 /\ maker'[held'[r]] = r
        <4>1. CASE r = p
          BY <1>0, <2>1, <2>2, <4>1
        <4>2. CASE r # p
          <5>1. held'[r] = held[r] /\ held[r] \in 1..made /\ maker[held[r]] = r
            BY <2>2, <3>1, <4>2 DEF Numbered
          <5> QED
            BY <1>0, <2>1, <5>1
        <4> QED
          BY <4>1, <4>2
      <3>2. \A i \in DOMAIN queue : queue[i] \in 1..made
        BY DEF Numbered
      <3> QED
        BY <1>0, <2>2, <3>1, <3>2
    <2>5. Numbered'
      BY <2>1, <2>4 DEF Numbered
    <2>6. /\ \A i \in DOMAIN queue : maker'[queue'[i]] = maker[queue[i]]
          /\ \A r \in Producer : ppc'[r] = "put" => ppc[r] = "put"
      BY <2>1, <2>2 DEF Numbered
    <2>7. OnePerProducer' /\ AbsentWhilePutting'
      BY <2>2, <2>6 DEF OnePerProducer, AbsentWhilePutting, From
    <2> QED
      BY <2>3, <2>5, <2>7
  <1>2. CASE SetMeeting(p)
    <2>1. /\ ppc' = [ppc EXCEPT ![p] = "drain"] /\ ppc[p] = "mode" /\ runtimeMode' = "meeting"
          /\ UNCHANGED <<maker, held, queue, wpc, current, fate>>
      BY <1>2 DEF SetMeeting
    <2>2. TypeOK'
      BY <2>1 DEF made
    <2>3. Numbered' /\ OnePerProducer' /\ AbsentWhilePutting'
      BY <2>1 DEF Numbered, OnePerProducer, AbsentWhilePutting, From, made
    <2> QED
      BY <2>2, <2>3
  <1>3. CASE Drain(p) /\ queue = <<>>
    <2>1. /\ ppc' = [ppc EXCEPT ![p] = "put"] /\ ppc[p] = "drain"
          /\ UNCHANGED <<maker, held, queue, runtimeMode, wpc, current, fate>>
      BY <1>3 DEF Drain
    <2>2. TypeOK'
      BY <2>1 DEF made
    <2>3. Numbered' /\ OnePerProducer' /\ AbsentWhilePutting'
      BY <1>3, <2>1 DEF Numbered, OnePerProducer, AbsentWhilePutting, From, made
    <2> QED
      BY <2>2, <2>3
  <1>4. CASE Drain(p) /\ queue # <<>>
    <2>1. /\ queue' = Tail(queue) /\ fate' = [fate EXCEPT ![Head(queue)] = "stale"]
          /\ UNCHANGED <<maker, held, ppc, runtimeMode, wpc, current>>
      BY <1>4 DEF Drain
    <2>2. TypeOK'
      BY <1>4, <2>1, TailOfQueue DEF made, Fates
    <2> QED
      BY <1>4, <2>1, <2>2, TailKeeps
  <1>5. CASE Put(p)
    <2>1. /\ ppc' = [ppc EXCEPT ![p] = "idle"] /\ ppc[p] = "put"
          /\ UNCHANGED <<maker, held, runtimeMode, wpc, current>>
      BY <1>5 DEF Put
    <2>2. held[p] \in 1..made /\ maker[held[p]] = p /\ held[p] \in Chunk
      BY <1>0, <2>1, QueueAssumption DEF Numbered, Chunk
    <2>3. CASE Len(queue) < QueueMax
      <3>0. \A i \in 1..Len(queue) + 1 : i \in 1..Len(queue) \/ i = Len(queue) + 1
        BY Zenon, <1>0, OneMore
      <3>1. queue' = Append(queue, held[p]) /\ fate' = fate
        BY <1>5, <2>3 DEF Put
      <3>2. /\ queue' \in Seq(Chunk) /\ DOMAIN queue' = 1..Len(queue) + 1
            /\ \A i \in 1..Len(queue) : queue'[i] = queue[i]
            /\ queue'[Len(queue) + 1] = held[p]
        BY <1>0, <2>2, <3>1, AppendProperties, LenProperties
      <3>3. TypeOK'
        BY <2>1, <3>1, <3>2 DEF made
      <3>4. Numbered'
        <4>1. \A i \in DOMAIN queue' : queue'[i] \in 1..made
          BY <1>0, <2>2, <3>2, <3>0 DEF Numbered
        <4>2. \A r \in Producer : ppc'[r] # "idle" => ppc[r] # "idle"
          BY <2>1
        <4> QED
          BY <2>1, <4>1, <4>2 DEF Numbered, made
      <3>5. OnePerProducer'
        <4> SUFFICES ASSUME NEW i \in 1..Len(queue) + 1, NEW j \in 1..Len(queue) + 1,
                            maker[queue'[i]] = maker[queue'[j]]
                     PROVE  i = j
          BY <2>1, <3>2 DEF OnePerProducer, From
        <4>2. \A k \in 1..Len(queue) : maker[queue'[k]] # p
          BY <1>0, <2>1, <3>2 DEF AbsentWhilePutting, From
        <4>3. maker[queue'[Len(queue) + 1]] = p
          BY <2>2, <3>2
        <4>4. CASE i \in 1..Len(queue) /\ j \in 1..Len(queue)
          BY <1>0, <3>2, <4>4 DEF OnePerProducer, From
        <4> QED
          BY <3>0, <4>2, <4>3, <4>4
      <3>6. AbsentWhilePutting'
        <4> SUFFICES ASSUME NEW r \in Producer, ppc'[r] = "put", NEW i \in 1..Len(queue) + 1
                     PROVE  maker[queue'[i]] # r
          BY <2>1, <3>2 DEF AbsentWhilePutting, From
        <4>1. ppc[r] = "put" /\ r # p
          BY <2>1
        <4>2. CASE i \in 1..Len(queue)
          BY <1>0, <3>2, <4>1, <4>2 DEF AbsentWhilePutting, From
        <4>3. CASE i = Len(queue) + 1
          BY <2>2, <3>2, <4>1, <4>3
        <4> QED
          BY <3>0, <4>2, <4>3
      <3> QED
        BY <3>3, <3>4, <3>5, <3>6
    <2>4. CASE ~(Len(queue) < QueueMax)
      <3>1. fate' = [fate EXCEPT ![held[p]] = "skipped"] /\ queue' = queue
        BY <1>5, <2>4 DEF Put
      <3>2. TypeOK'
        BY <2>1, <2>2, <3>1 DEF made, Fates
      <3>3. Numbered' /\ OnePerProducer' /\ AbsentWhilePutting'
        BY <2>1, <3>1 DEF Numbered, OnePerProducer, AbsentWhilePutting, From, made
      <3> QED
        BY <3>2, <3>3
    <2> QED
      BY <2>3, <2>4
  <1> QED
    BY <1>1, <1>2, <1>3, <1>4, <1>5 DEF Produce

LEMMA WorkerStep == QueueInv /\ Worker => QueueInv'
  <1> SUFFICES ASSUME QueueInv, Worker PROVE QueueInv'
    OBVIOUS
  <1> USE DEF QueueInv, TypeOK, producerVars
  <1>1. CASE Take
    <2>1. queue # <<>> /\ queue' = Tail(queue) /\ UNCHANGED <<maker, ppc, held>>
      BY <1>1 DEF Take
    <2>2. TypeOK'
      BY <1>1, <2>1, TailOfQueue DEF Take, made, Chunk
    <2> QED
      BY <2>1, <2>2, TailKeeps
  <1>2. CASE Ignore \/ Heard \/ Choose \/ Reset \/ Analyse \/ Reply
    <2>1. UNCHANGED <<maker, ppc, held, queue>>
      BY <1>2 DEF Ignore, Heard, Choose, Reset, Analyse, Reply, Finish
    <2>2. TypeOK'
      BY <1>2, <2>1, QueueAssumption
         DEF Ignore, Heard, Choose, Reset, Analyse, Reply, Finish, made, Fates, Chunk
    <2>3. Numbered' /\ OnePerProducer' /\ AbsentWhilePutting'
      BY <2>1 DEF Numbered, OnePerProducer, AbsentWhilePutting, From, made
    <2> QED
      BY <2>2, <2>3
  <1> QED
    BY <1>1, <1>2 DEF Worker

LEMMA QueueStep == QueueInv /\ [Next]_vars => QueueInv'
  <1> SUFFICES ASSUME QueueInv, [Next]_vars PROVE QueueInv'
    OBVIOUS
  <1>1. CASE UNCHANGED vars
    BY <1>1 DEF vars, producerVars, workerVars, QueueInv, TypeOK, Numbered, OnePerProducer,
               AbsentWhilePutting, From, made
  <1> QED
    BY <1>1, ProducerStep, WorkerStep DEF Next

\* The queue's invariant, for any producers.
THEOREM QueueTypeCorrect == Safety => []TypeOK
  <1>1. QueueInv => TypeOK
    BY DEF QueueInv
  <1> QED
    BY <1>1, QueueInit, QueueStep, PTL DEF Safety

\* "Worker busy -- chunk skipped" is never said while the queue has a place for
\* each of the threads that call _enqueue_latest().
THEOREM QueueNeverFull ==
  ASSUME IsFiniteSet(Producer), Cardinality(Producer) <= QueueMax
  PROVE  Safety => []NeverFull
  <1>1. QueueInv => NeverFull
    <2> SUFFICES ASSUME QueueInv, NEW p \in Producer, ppc[p] = "put", Len(queue) >= QueueMax
                 PROVE  FALSE
      BY QueueAssumption, LenProperties DEF NeverFull, QueueInv, TypeOK
    <2> DEFINE Others == Producer \ {p}
               Places == 1..Len(queue)
               Who == [i \in Places |-> From(i)]
    <2>1. Len(queue) \in Nat /\ DOMAIN queue = Places
      BY LenProperties DEF QueueInv, TypeOK
    <2>2. IsFiniteSet(Places) /\ Cardinality(Places) = Len(queue)
      <3>1. /\ IsFiniteSet(1..Len(queue))
            /\ Cardinality(1..Len(queue)) = IF 1 > Len(queue) THEN 0 ELSE Len(queue) - 1 + 1
        BY <2>1, FS_Interval
      <3> QED
        BY <2>1, <3>1
    <2>3. IsFiniteSet(Others) /\ Cardinality(Others) = Cardinality(Producer) - 1
      BY FS_RemoveElement
    <2>4. Cardinality(Others) < Cardinality(Places)
      BY <2>1, <2>2, <2>3, QueueAssumption, FS_CardinalityType
    <2>5. \A i \in Places : From(i) \in Others
      <3>1. \A i \in Places : queue[i] \in 1..made /\ maker[queue[i]] \in Producer
        BY <2>1, LenProperties DEF QueueInv, Numbered, TypeOK, made
      <3> QED
        BY <2>1, <3>1 DEF QueueInv, AbsentWhilePutting, From
    <2>6. Who \in [Places -> Others]
      BY <2>5
    <2>7. PICK i, j \in Places : i # j /\ Who[i] = Who[j]
      <3> HIDE DEF Who, Places, Others
      <3> QED
        BY <2>2, <2>3, <2>4, <2>6, FS_PigeonHole
    <2> QED
      BY <2>1, <2>7 DEF QueueInv, OnePerProducer
  <1> QED
    BY <1>1, QueueInit, QueueStep, PTL DEF Safety

-----------------------------------------------------------------------------
\* What a producer holds is newer than all of its chunks in the queue.
HoldsNewest ==
  \A p \in Producer : ppc[p] # "idle" =>
    \A i \in DOMAIN queue : From(i) = p => queue[i] < held[p]

LEMMA NewestStep == QueueInv /\ HoldsNewest /\ [Next]_vars => HoldsNewest'
  <1> SUFFICES ASSUME QueueInv, HoldsNewest, [Next]_vars PROVE HoldsNewest'
    OBVIOUS
  <1> USE DEF QueueInv, TypeOK, HoldsNewest, From, producerVars, workerVars
  <1>0. made \in Nat /\ Len(queue) \in Nat /\ DOMAIN queue = 1..Len(queue)
    BY LenProperties DEF made
  <1>1. ASSUME queue # <<>>, queue' = Tail(queue), UNCHANGED <<maker, ppc, held>>
        PROVE  HoldsNewest'
    BY <1>0, <1>1, TailOfQueue
  <1>2. ASSUME NEW p \in Producer, Make(p) PROVE HoldsNewest'
    <2>1. /\ maker' \in Seq(Producer)
          /\ \A n \in 1..made : maker'[n] = maker[n]
      BY <1>0, <1>2, AppendProperties DEF Make, made
    <2>2. /\ ppc' = [ppc EXCEPT ![p] = IF ManualFlush THEN "mode" ELSE "drain"]
          /\ held' = [held EXCEPT ![p] = made + 1] /\ queue' = queue
      BY <1>2 DEF Make
    <2>3. \A i \in DOMAIN queue : queue[i] \in 1..made /\ maker'[queue[i]] = maker[queue[i]]
      BY <2>1 DEF Numbered
    <2> SUFFICES ASSUME NEW r \in Producer, ppc'[r] # "idle",
                        NEW i \in DOMAIN queue, maker[queue[i]] = r
                 PROVE  queue[i] < held'[r]
      BY <2>2, <2>3
    <2>4. CASE r = p  BY <1>0, <2>2, <2>3, <2>4
    <2>5. CASE r # p  BY <2>2, <2>5
    <2> QED BY <2>4, <2>5
  <1>3. ASSUME NEW p \in Producer, SetMeeting(p) PROVE HoldsNewest'
    BY <1>3 DEF SetMeeting
  <1>4. ASSUME NEW p \in Producer, Drain(p) PROVE HoldsNewest'
    BY <1>1, <1>4 DEF Drain
  <1>5. ASSUME NEW p \in Producer, Put(p) PROVE HoldsNewest'
    <2>1. /\ ppc' = [ppc EXCEPT ![p] = "idle"] /\ ppc[p] = "put"
          /\ UNCHANGED <<maker, held>>
      BY <1>5 DEF Put
    <2>2. held[p] \in Chunk /\ maker[held[p]] = p
      BY <1>0, <2>1, QueueAssumption DEF Numbered, Chunk
    <2>3. CASE queue' = queue
      BY <2>1, <2>3
    <2>4. CASE queue' = Append(queue, held[p])
      <3>1. /\ DOMAIN queue' = 1..Len(queue) + 1
            /\ \A i \in 1..Len(queue) : queue'[i] = queue[i]
            /\ queue'[Len(queue) + 1] = held[p]
        BY <1>0, <2>2, <2>4, AppendProperties, LenProperties
      <3>2. \A i \in 1..Len(queue) + 1 : i \in 1..Len(queue) \/ i = Len(queue) + 1
        BY <1>0
      <3> SUFFICES ASSUME NEW r \in Producer, ppc'[r] # "idle",
                          NEW i \in DOMAIN queue', maker[queue'[i]] = r
                   PROVE  queue'[i] < held[r]
        BY <2>1
      <3>3. r # p /\ ppc[r] # "idle"
        BY <2>1
      <3>4. i \in 1..Len(queue)
        BY <2>2, <3>1, <3>2, <3>3
      <3> QED
        BY <1>0, <3>1, <3>3, <3>4
    <2> QED
      BY <1>5, <2>3, <2>4 DEF Put
  <1>6. CASE Worker
    BY <1>1, <1>6 DEF Worker, Take, Ignore, Heard, Choose, Reset, Analyse, Reply, Finish
  <1>7. CASE UNCHANGED vars
    BY <1>7 DEF vars
  <1> QED
    BY <1>2, <1>3, <1>4, <1>5, <1>6, <1>7 DEF Next, Produce

LEMMA NewestInit == Init => HoldsNewest
  BY DEF Init, HoldsNewest

\* No producer drops a chunk of its own for an older one; where one thread enqueues,
\* as without manual flush, the latest wins (_enqueue_latest).
THEOREM LatestOfEachWins == Safety => DroppedForNewer
  <1>1. QueueInv /\ HoldsNewest /\ [Next]_vars
          => [\A n \in Chunk : fate'[n] = "stale" /\ fate[n] # "stale"
                => \E p \in Producer : ppc[p] = "drain" /\ (held[p] > n \/ maker[n] # p)]_vars
    <2> SUFFICES ASSUME QueueInv, HoldsNewest, Next, NEW n \in Chunk,
                        fate'[n] = "stale", fate[n] # "stale"
                 PROVE  \E p \in Producer : ppc[p] = "drain" /\ (held[p] > n \/ maker[n] # p)
      OBVIOUS
    <2> USE DEF QueueInv, TypeOK
    <2>1. ASSUME NEW p \in Producer, Drain(p)
          PROVE  ppc[p] = "drain" /\ (held[p] > n \/ maker[n] # p)
      <3>1. queue # <<>> /\ n = Head(queue) /\ ppc[p] = "drain"
        BY <2>1, TailOfQueue DEF Drain
      <3>2. 1 \in DOMAIN queue /\ queue[1] = n
        BY <3>1, LenProperties
      <3>3. n \in Nat /\ held[p] \in Nat
        BY DEF Chunk
      <3> QED
        BY <3>1, <3>2, <3>3 DEF HoldsNewest, From
    <2>2. ASSUME NEW p \in Producer, Make(p) \/ SetMeeting(p) \/ Put(p) PROVE FALSE
      BY <2>2 DEF Make, SetMeeting, Put
    <2>3. CASE Worker
      BY <2>3 DEF Worker, Take, Ignore, Heard, Choose, Reset, Analyse, Reply, Finish
    <2> QED
      BY <2>1, <2>2, <2>3 DEF Next, Produce
  <1> QED
    BY <1>1, NewestInit, NewestStep, QueueInit, QueueStep, PTL DEF Safety, DroppedForNewer

-----------------------------------------------------------------------------
\* What becomes of a chunk.

\* A chunk that is somewhere has not come to anything yet; the one the worker holds is
\* nowhere else.
Unsettled ==
  /\ \A n \in Chunk : n > made => fate[n] = "pending"
  /\ \A i \in DOMAIN queue : fate[queue[i]] = "pending" /\ queue[i] # current
  /\ \A p \in Producer : ppc[p] # "idle" => fate[held[p]] = "pending" /\ held[p] # current
  /\ wpc = "get" <=> current = 0
  /\ current # 0 => current \in 1..made /\ fate[current] = "pending"

PlaceInv == QueueInv /\ HoldsNewest /\ Unsettled

LEMMA PlaceInit == Init => PlaceInv
  <1>1. Init => Unsettled
    BY DEF Init, Unsettled, made
  <1> QED
    BY <1>1, QueueInit, NewestInit DEF PlaceInv

\* What a producer holds is not in the queue, and no two hold the same.
LEMMA HeldApart ==
  ASSUME PlaceInv, NEW p \in Producer, ppc[p] # "idle"
  PROVE  /\ held[p] \in Chunk /\ held[p] \in 1..made
         /\ \A i \in DOMAIN queue : queue[i] # held[p]
         /\ \A r \in Producer : ppc[r] # "idle" /\ r # p => held[r] # held[p]
  <1> USE DEF PlaceInv, QueueInv, TypeOK
  <1>1. held[p] \in 1..made /\ maker[held[p]] = p
    BY DEF Numbered
  <1>2. made \in Nat
    BY LenProperties DEF made
  <1>3. held[p] \in Chunk
    BY <1>1, <1>2, QueueAssumption DEF Chunk
  <1>4. ASSUME NEW i \in DOMAIN queue, queue[i] = held[p] PROVE FALSE
    BY <1>1, <1>2, <1>4 DEF HoldsNewest, From
  <1>5. ASSUME NEW r \in Producer, ppc[r] # "idle", r # p, held[r] = held[p] PROVE FALSE
    BY <1>1, <1>5 DEF Numbered
  <1> QED
    BY <1>1, <1>3, <1>4, <1>5

\* No chunk is in the queue twice.
LEMMA QueuedOnce ==
  ASSUME PlaceInv, NEW i \in DOMAIN queue, NEW j \in DOMAIN queue, queue[i] = queue[j]
  PROVE  i = j
  BY DEF PlaceInv, QueueInv, OnePerProducer, From

LEMMA TailApart ==
  ASSUME PlaceInv, queue # <<>>, NEW i \in DOMAIN Tail(queue)
  PROVE  i + 1 \in DOMAIN queue /\ Tail(queue)[i] = queue[i + 1] /\ queue[i + 1] # Head(queue)
  <1>1. i + 1 \in DOMAIN queue /\ Tail(queue)[i] = queue[i + 1] /\ i \in 1..Len(queue) - 1
    BY TailOfQueue DEF PlaceInv
  <1>2. Head(queue) = queue[1] /\ 1 \in DOMAIN queue
    BY LenProperties, HeadTailProperties DEF PlaceInv, QueueInv, TypeOK
  <1>3. i + 1 # 1
    BY <1>1
  <1> QED
    BY <1>1, <1>2, <1>3, QueuedOnce

LEMMA UnsettledProduce ==
  ASSUME PlaceInv, NEW p \in Producer, Make(p) \/ Produce(p)
  PROVE  Unsettled'
  <1> USE DEF PlaceInv, QueueInv, TypeOK, producerVars, workerVars
  <1>0. made \in Nat /\ Len(queue) \in Nat /\ DOMAIN queue = 1..Len(queue)
    BY LenProperties DEF made
  <1>1. CASE Make(p)
    <2>1. /\ maker' = Append(maker, p) /\ made' = made + 1 /\ made < MaxChunks
          /\ ppc' = [ppc EXCEPT ![p] = IF ManualFlush THEN "mode" ELSE "drain"]
          /\ held' = [held EXCEPT ![p] = made + 1]
          /\ UNCHANGED <<queue, wpc, current, fate>>
      BY <1>0, <1>1, AppendProperties DEF Make, made
    <2>2. made + 1 \in Chunk /\ fate[made + 1] = "pending" /\ made + 1 # current
      BY <1>0, <2>1, QueueAssumption DEF Unsettled, Chunk
    <2>3. \A n \in Chunk : n > made' => fate[n] = "pending"
      BY <1>0, <2>1, QueueAssumption DEF Unsettled, Chunk
    <2>4. \A r \in Producer : ppc'[r] # "idle" => fate[held'[r]] = "pending" /\ held'[r] # current
      BY <2>1, <2>2 DEF Unsettled
    <2>5. current # 0 => current \in 1..made'
      BY <1>0, <2>1 DEF Unsettled
    <2> QED
      BY <2>1, <2>3, <2>4, <2>5 DEF Unsettled
  <1>2. CASE SetMeeting(p)
    BY <1>2 DEF SetMeeting, Unsettled, made
  <1>3. CASE Drain(p) /\ queue = <<>>
    BY <1>3 DEF Drain, Unsettled, made
  <1>4. CASE Drain(p) /\ queue # <<>>
    <2>1. /\ queue' = Tail(queue) /\ fate' = [fate EXCEPT ![Head(queue)] = "stale"]
          /\ UNCHANGED <<maker, held, ppc, wpc, current>>
      BY <1>4 DEF Drain
    <2>2. Head(queue) = queue[1] /\ 1 \in DOMAIN queue /\ Head(queue) \in Chunk
      BY <1>0, <1>4, TailOfQueue, HeadTailProperties
    <2>3. \A n \in Chunk : n # Head(queue) => fate'[n] = fate[n]
      BY <2>1
    <2>4. Head(queue) \in 1..made /\ Head(queue) # current
      BY <2>2 DEF Numbered, Unsettled
    <2>5. \A i \in DOMAIN queue' :
            i + 1 \in DOMAIN queue /\ queue'[i] = queue[i + 1] /\ queue[i + 1] # Head(queue)
      BY <1>0, <1>4, <2>1, <2>2, TailApart
    <2>6. \A i \in DOMAIN queue' : fate'[queue'[i]] = "pending" /\ queue'[i] # current
      BY <2>1, <2>3, <2>5 DEF Unsettled
    <2>7. \A r \in Producer : ppc'[r] # "idle" => fate'[held'[r]] = "pending" /\ held'[r] # current
      BY <2>1, <2>2, <2>3, HeldApart DEF Unsettled
    <2>8. current # 0 => current \in 1..made /\ current \in Chunk /\ fate'[current] = "pending"
      BY <1>0, <2>3, <2>4, QueueAssumption DEF Unsettled, Chunk
    <2>9. \A n \in Chunk : n > made => fate'[n] = "pending"
      BY <1>0, <2>3, <2>4 DEF Unsettled, Chunk
    <2> QED
      BY <2>1, <2>6, <2>7, <2>8, <2>9 DEF Unsettled, made
  <1>5. CASE Put(p)
    <2>1. /\ ppc' = [ppc EXCEPT ![p] = "idle"] /\ ppc[p] = "put"
          /\ UNCHANGED <<maker, held, wpc, current>>
      BY <1>5 DEF Put
    <2>2. /\ held[p] \in Chunk /\ held[p] \in 1..made /\ fate[held[p]] = "pending" /\ held[p] # current
          /\ \A i \in DOMAIN queue : queue[i] # held[p]
          /\ \A r \in Producer : ppc[r] # "idle" /\ r # p => held[r] # held[p]
      BY <2>1, HeldApart DEF Unsettled
    <2>3. CASE queue' = Append(queue, held[p]) /\ fate' = fate
      <3>1. /\ DOMAIN queue' = 1..Len(queue) + 1
            /\ \A i \in 1..Len(queue) : queue'[i] = queue[i]
            /\ queue'[Len(queue) + 1] = held[p]
        BY <1>0, <2>2, <2>3, AppendProperties, LenProperties
      <3>2. \A i \in 1..Len(queue) + 1 : i \in 1..Len(queue) \/ i = Len(queue) + 1
        BY <1>0
      <3>3. \A i \in DOMAIN queue' : fate'[queue'[i]] = "pending" /\ queue'[i] # current
        BY <1>0, <2>2, <2>3, <3>1, <3>2 DEF Unsettled
      <3> QED
        BY <2>1, <2>3, <3>3 DEF Unsettled, made
    <2>4. CASE queue' = queue /\ fate' = [fate EXCEPT ![held[p]] = "skipped"]
      <3>1. \A n \in Chunk : n # held[p] => fate'[n] = fate[n]
        BY <2>4
      <3>2. \A i \in DOMAIN queue' : fate'[queue'[i]] = "pending" /\ queue'[i] # current
        BY <2>2, <2>4, <3>1 DEF Unsettled, Numbered
      <3>3. \A r \in Producer : ppc'[r] # "idle" => fate'[held'[r]] = "pending" /\ held'[r] # current
        BY <2>1, <2>2, <3>1, HeldApart DEF Unsettled
      <3>4. current # 0 => current \in 1..made /\ current \in Chunk /\ fate'[current] = "pending"
        BY <1>0, <2>2, <3>1, QueueAssumption DEF Unsettled, Chunk
      <3>5. \A n \in Chunk : n > made => fate'[n] = "pending"
        BY <1>0, <2>2, <3>1 DEF Unsettled, Chunk
      <3> QED
        BY <2>1, <2>4, <3>2, <3>3, <3>4, <3>5 DEF Unsettled, made
    <2> QED
      BY <1>5, <2>3, <2>4 DEF Put
  <1> QED
    BY <1>1, <1>2, <1>3, <1>4, <1>5 DEF Produce

LEMMA UnsettledWork == PlaceInv /\ Worker => Unsettled'
  <1> SUFFICES ASSUME PlaceInv, Worker PROVE Unsettled'
    OBVIOUS
  <1> USE DEF PlaceInv, QueueInv, TypeOK, producerVars
  <1>0. made \in Nat /\ Len(queue) \in Nat /\ DOMAIN queue = 1..Len(queue)
    BY LenProperties DEF made
  <1>1. CASE Take
    <2>1. /\ queue # <<>> /\ wpc' = "transcribe" /\ current' = Head(queue) /\ queue' = Tail(queue)
          /\ UNCHANGED <<maker, ppc, held, fate>>
      BY <1>1 DEF Take
    <2>2. Head(queue) = queue[1] /\ 1 \in DOMAIN queue
      BY <1>0, <2>1, TailOfQueue, HeadTailProperties
    <2>3. current' \in 1..made /\ fate[current'] = "pending"
      BY <2>1, <2>2 DEF Numbered, Unsettled
    <2>4. \A i \in DOMAIN queue' :
            i + 1 \in DOMAIN queue /\ queue'[i] = queue[i + 1] /\ queue[i + 1] # Head(queue)
      BY <1>0, <2>1, <2>2, TailApart
    <2>5. \A r \in Producer : ppc[r] # "idle" => held[r] # current'
      BY <2>1, <2>2, HeldApart
    <2> QED
      BY <1>0, <2>1, <2>3, <2>4, <2>5 DEF Unsettled, made
  <1>2. CASE Heard \/ Choose \/ Reset
    BY <1>2 DEF Heard, Choose, Reset, Unsettled, made
  <1>3. CASE Ignore \/ Analyse \/ Reply
    <2>1. PICK what \in Fates : wpc # "get" /\ Finish(what)
      BY <1>3 DEF Ignore, Analyse, Reply, Fates
    <2>2. current \in 1..made /\ current \in Chunk
      BY <1>0, <2>1, QueueAssumption DEF Unsettled, Chunk
    <2>3. /\ wpc' = "get" /\ current' = 0 /\ UNCHANGED <<maker, ppc, held, queue>>
          /\ \A n \in Chunk : n # current => fate'[n] = fate[n]
      BY <2>1 DEF Finish
    <2>4. \A i \in DOMAIN queue : queue[i] \in Chunk /\ queue[i] # 0
      BY <1>0, QueueAssumption DEF Numbered, Chunk
    <2>5. \A r \in Producer : ppc[r] # "idle" => held[r] \in Chunk /\ held[r] # 0
      BY HeldApart DEF Chunk
    <2>6. \A n \in Chunk : n > made => fate'[n] = "pending"
      BY <1>0, <2>2, <2>3 DEF Unsettled, Chunk
    <2> QED
      BY <2>3, <2>4, <2>5, <2>6 DEF Unsettled, made
  <1> QED
    BY <1>1, <1>2, <1>3 DEF Worker

LEMMA PlaceStep == PlaceInv /\ [Next]_vars => PlaceInv'
  <1> SUFFICES ASSUME PlaceInv, [Next]_vars PROVE Unsettled'
    BY QueueStep, NewestStep DEF PlaceInv
  <1>1. CASE UNCHANGED vars
    BY <1>1 DEF vars, producerVars, workerVars, PlaceInv, Unsettled, made
  <1> QED
    BY <1>1, UnsettledProduce, UnsettledWork DEF Next

\* What has become of a chunk is settled for good: only a chunk that is pending is
\* dropped, skipped or worked through (the queue, one producer and the worker hand it
\* on and never share it).
SettledForGood ==
  [][\A n \in Chunk : fate[n] # "pending" => fate'[n] = fate[n]]_vars

LEMMA SettledStep ==
  PlaceInv /\ [Next]_vars => \A n \in Chunk : fate[n] # "pending" => fate'[n] = fate[n]
  <1> SUFFICES ASSUME PlaceInv, [Next]_vars, NEW n \in Chunk, fate[n] # "pending"
               PROVE  fate'[n] = fate[n]
    OBVIOUS
  <1> USE DEF PlaceInv, QueueInv, TypeOK
  <1>1. ASSUME NEW p \in Producer, Drain(p) PROVE fate'[n] = fate[n]
    <2>1. CASE queue # <<>>
      <3>1. Head(queue) = queue[1] /\ 1 \in DOMAIN queue
        BY <2>1, LenProperties, HeadTailProperties
      <3> QED
        BY <1>1, <2>1, <3>1 DEF Drain, Unsettled
    <2> QED
      BY <1>1, <2>1 DEF Drain
  <1>2. ASSUME NEW p \in Producer, Put(p) PROVE fate'[n] = fate[n]
    BY <1>2 DEF Put, Unsettled
  <1>3. ASSUME NEW p \in Producer, Make(p) \/ SetMeeting(p) PROVE fate'[n] = fate[n]
    BY <1>3 DEF Make, SetMeeting
  <1>4. CASE Worker
    BY <1>4 DEF Worker, Take, Ignore, Heard, Choose, Reset, Analyse, Reply, Finish, Unsettled
  <1>5. CASE UNCHANGED vars
    BY <1>5 DEF vars
  <1> QED
    BY <1>1, <1>2, <1>3, <1>4, <1>5 DEF Next, Produce

\* What has become of a chunk is never revised, whoever else puts chunks or presses keys
\* (_enqueue_latest, reply_worker).
THEOREM FateIsFinal == Safety => SettledForGood
  <1>1. PlaceInv /\ [Next]_vars
          => [\A n \in Chunk : fate[n] # "pending" => fate'[n] = fate[n]]_vars
    BY SettledStep
  <1> QED
    BY <1>1, PlaceInit, PlaceStep, PTL DEF Safety, SettledForGood

-----------------------------------------------------------------------------
\* The meeting flag.

\* A chunk is past its producer's SetMeeting and has not been looked at by Choose.
Waiting ==
  \/ queue # <<>>
  \/ \E p \in Producer : ppc[p] \in {"drain", "put"}
  \/ wpc \in {"transcribe", "choose"}

Analysed == \E m \in Chunk : fate[m] = "analysed"

\* The flag is down while a flush waits only because an analysis took it down.
Spent ==
  /\ runtimeMode = "interview" /\ Waiting => wpc = "analyse" \/ Analysed
  /\ wpc = "reply" => Analysed
  /\ \A n \in Chunk : fate[n] = "answered" => Analysed

LEMMA SpentStep ==
  ASSUME ManualFlush, PlaceInv, Spent, [Next]_vars
  PROVE  Spent'
  <1> USE DEF PlaceInv, QueueInv, TypeOK, producerVars, workerVars
  <1>1. Analysed => Analysed'
    BY SettledStep DEF Analysed
  <1>2. ASSUME NEW p \in Producer, Make(p) PROVE Spent'
    <2>1. Waiting' => Waiting
      BY <1>2 DEF Make, Waiting
    <2> QED
      BY <1>1, <1>2, <2>1 DEF Make, Spent
  <1>3. ASSUME NEW p \in Producer, SetMeeting(p) PROVE Spent'
    BY <1>1, <1>3 DEF SetMeeting, Spent
  <1>4. ASSUME NEW p \in Producer, Drain(p) \/ Put(p) PROVE Spent'
    <2>1. Waiting
      BY <1>4 DEF Drain, Put, Waiting
    <2>2. UNCHANGED <<wpc, runtimeMode>>
      BY <1>4 DEF Drain, Put
    <2>3. \A n \in Chunk : fate'[n] = "answered" => fate[n] = "answered"
      BY <1>4 DEF Drain, Put
    <2> QED
      BY <1>1, <2>1, <2>2, <2>3 DEF Spent
  <1>5. CASE Take
    <2>1. Waiting /\ wpc = "get" /\ wpc' = "transcribe" /\ UNCHANGED <<runtimeMode, fate>>
      BY <1>5 DEF Take, Waiting
    <2> QED
      BY <1>1, <2>1 DEF Spent
  <1>6. CASE Ignore \/ Heard \/ Choose
    <2>1. Waiting /\ wpc # "analyse" /\ runtimeMode' = runtimeMode
      BY <1>6 DEF Ignore, Heard, Choose, Waiting
    <2>2. wpc' = "reply" => runtimeMode = "interview"
      BY <1>6 DEF Ignore, Heard, Choose, Finish
    <2>3. \A n \in Chunk : fate'[n] = "answered" => fate[n] = "answered"
      BY <1>6 DEF Ignore, Heard, Choose, Finish
    <2> QED
      BY <1>1, <2>1, <2>2, <2>3 DEF Spent
  <1>7. CASE Reset
    BY <1>1, <1>7 DEF Reset, Spent
  <1>8. CASE Analyse
    <2>1. current \in Chunk
      <3>1. current \in 1..made /\ made \in Nat
        BY <1>8, LenProperties DEF Analyse, Unsettled, made
      <3> QED
        BY <3>1, QueueAssumption DEF Chunk
    <2>2. fate'[current] = "analysed"
      BY <1>8, <2>1 DEF Analyse, Finish
    <2>3. Analysed'
      BY <2>1, <2>2 DEF Analysed, Chunk
    <2> QED
      BY <2>3 DEF Spent
  <1>9. CASE Reply
    <2>1. Analysed
      BY <1>9 DEF Reply, Spent
    <2> QED
      BY <1>1, <2>1 DEF Spent
  <1>10. CASE UNCHANGED vars
    <2>1. Waiting' <=> Waiting
      BY <1>10 DEF vars, Waiting
    <2> QED
      BY <1>1, <1>10, <2>1 DEF vars, Spent
  <1> QED
    BY <1>2, <1>3, <1>4, <1>5, <1>6, <1>7, <1>8, <1>9, <1>10 DEF Next, Worker, Produce

\* A flush is answered like a question only after an analysis has taken its flag down:
\* the flag is not spent on a chunk that nothing came of (reply_worker).
THEOREM FlagKeptForAnalysis == Safety => []FlagSpentOnAnalysis
  <1>1. Init => (ManualFlush => Spent)
    BY DEF Init, Spent, Waiting
  <1>2. PlaceInv /\ (ManualFlush => Spent) /\ [Next]_vars => (ManualFlush => Spent)'
    BY SpentStep
  <1>3. (ManualFlush => Spent) => FlagSpentOnAnalysis
    BY DEF Spent, Analysed, FlagSpentOnAnalysis
  <1> QED
    BY <1>1, <1>2, <1>3, PlaceInit, PlaceStep, PTL DEF Safety

-----------------------------------------------------------------------------
\* The worker's program.

Calls == States \cup {"check", "choose", "agent", "set", "stop", "clear", "speak", "wait", "test"}
AfterSpeech == {"wait", "test", "clear", "idle"}

TalkTypeOK ==
  /\ program \in Seq(Calls)
  /\ convState \in States /\ sent \in States
  /\ emitting \in [Thread -> States \cup {"none"}]
  /\ pressing \in [Producer -> {"no", "stop", "set", "idle"}]
  /\ \A o \in Producer : emitting[o] \in {"none", "idle"}
  /\ meddled \in BOOLEAN

\* Whoever sets the flag stops the voice next, what follows speak() only waits for it,
\* and no state but idle is left standing.
WellFormed(p) ==
  /\ p \in Seq(Calls)
  /\ \A i \in DOMAIN p :
       /\ p[i] = "set" => i + 1 \in DOMAIN p /\ p[i + 1] = "stop"
       /\ p[i] = "speak" => \A j \in DOMAIN p : j > i => p[j] \in AfterSpeech
       /\ p[i] \in States \ {"idle"} => \E j \in DOMAIN p : j > i /\ p[j] \in {"idle", "agent"}

\* While something is spoken the worker is between chunks, at the interrupt check or
\* behind its own speak().
SpeechWatched ==
  speech # 0 => \/ program = <<>> \/ program[1] \in {"check", "set", "stop"}
                \/ \A i \in DOMAIN program : program[i] \in AfterSpeech

BackToIdle == convState # "idle" => \E j \in DOMAIN program : program[j] \in {"idle", "agent"}

Rests == wpc = "get" => program = <<>> /\ emitting["worker"] = "none"

\* What the worker is about to write is the state, and idle has been or will be written.
Announced ==
  ~meddled =>
    /\ emitting["worker"] \in {"none", convState}
    /\ convState = "idle" => sent = "idle" \/ \E t \in Thread : emitting[t] = "idle"

TalkInv ==
  TalkTypeOK /\ WellFormed(program) /\ SpeechWatched /\ BackToIdle /\ Rests /\ Announced

-----------------------------------------------------------------------------
\* The steps of the queue.

\* Whatever the reply worker and the operators do, the queue sees a step of its own or none.
LEMMA QueueSteps == [ConvNext]_allVars => [Next]_vars
  <1> SUFFICES ASSUME [ConvNext]_allVars PROVE [Next]_vars
    OBVIOUS
  <1>1. CASE UNCHANGED allVars
    BY <1>1 DEF allVars
  <1>2. CASE ReplyWorker
    <2>1. CASE TakeChunk \/ Ends
      BY <2>1 DEF TakeChunk, Ends, Next, Worker
    <2>2. CASE Chooses
      BY <2>2 DEF Chooses, Next, Worker
    <2>3. CASE Sets \/ Checks \/ Flags \/ Stops \/ AgentReplies \/ Speak \/ Waits \/ Tests \/ Emit("worker")
      BY <2>3 DEF Sets, Checks, Flags, Stops, AgentReplies, Speak, Waits, Tests, Emit, Steps
    <2> QED
      BY <1>2, <2>1, <2>2, <2>3 DEF ReplyWorker
  <1>3. CASE Raises \/ SpeechEnds
    BY <1>3 DEF Raises, SpeechEnds
  <1>4. ASSUME NEW o \in Producer, StartsFlush(o) \/ Flushing(o) \/ Press(o) \/ Silencing(o)
        PROVE  [Next]_vars
    BY <1>4 DEF StartsFlush, Flushing, Press, Silencing, PressStops, PressFlags, PressSets, Emit, Next
  <1> QED
    BY <1>1, <1>2, <1>3, <1>4 DEF ConvNext

\* The conversation implements the transcript queue: what is proved of the queue holds of
\* the worker with its voice, its states and its interruptions.
THEOREM WorkerKeepsQueue == ConvSpec => Safety
  <1>1. ConvInit => Init
    BY DEF ConvInit
  <1> QED
    BY <1>1, QueueSteps, PTL DEF ConvSpec, Safety

\* Under this worker, too, no producer drops a chunk of its own for an older one
\* (_enqueue_latest, reply_worker).
THEOREM DroppedForNewerByWorker == ConvSpec => DroppedForNewer
  BY WorkerKeepsQueue, LatestOfEachWins, PTL

\* Under this worker, too, the flag of a flush is not spent on a chunk that nothing came
\* of (reply_worker).
THEOREM FlagSpentByWorker == ConvSpec => []FlagSpentOnAnalysis
  BY WorkerKeepsQueue, FlagKeptForAnalysis, PTL

-----------------------------------------------------------------------------
\* Programs.

Plain(p) == p \in Seq(Calls) /\ \A i \in DOMAIN p : p[i] \notin {"set", "speak"}
Settling(p) == \E j \in DOMAIN p : p[j] \in {"idle", "agent"}

LEMMA PlainJoined ==
  ASSUME NEW p, NEW q, Plain(p), Plain(q)
  PROVE  Plain(p \o q)
  <1>1. /\ p \o q \in Seq(Calls) /\ DOMAIN (p \o q) = 1..Len(p) + Len(q)
        /\ \A i \in 1..Len(p) + Len(q) :
             (p \o q)[i] = IF i <= Len(p) THEN p[i] ELSE q[i - Len(p)]
    BY ConcatProperties, LenProperties DEF Plain
  <1>2. /\ Len(p) \in Nat /\ DOMAIN p = 1..Len(p)
        /\ Len(q) \in Nat /\ DOMAIN q = 1..Len(q)
    BY LenProperties DEF Plain
  <1>3. ASSUME NEW i \in 1..Len(p) + Len(q) PROVE (p \o q)[i] \notin {"set", "speak"}
    <2>1. CASE i <= Len(p)
      BY <1>1, <1>2, <2>1 DEF Plain
    <2>2. CASE i > Len(p)
      <3>1. i - Len(p) \in 1..Len(q)
        BY <1>2, <2>2
      <3> QED
        BY <1>1, <1>2, <2>2, <3>1 DEF Plain
    <2> QED
      BY <1>2, <2>1, <2>2
  <1> QED
    BY <1>1, <1>3 DEF Plain

LEMMA ProgramJoined ==
  ASSUME NEW p, NEW q, Plain(p), WellFormed(q), Settling(q)
  PROVE  WellFormed(p \o q) /\ Settling(p \o q)
  <1> DEFINE r == p \o q
  <1>1. /\ r \in Seq(Calls) /\ DOMAIN r = 1..Len(p) + Len(q)
        /\ \A i \in 1..Len(p) + Len(q) : r[i] = IF i <= Len(p) THEN p[i] ELSE q[i - Len(p)]
    BY ConcatProperties, LenProperties DEF Plain, WellFormed
  <1>2. /\ Len(p) \in Nat /\ DOMAIN p = 1..Len(p)
        /\ Len(q) \in Nat /\ DOMAIN q = 1..Len(q)
    BY LenProperties DEF Plain, WellFormed
  <1> HIDE DEF r
  <1>3. \A i \in DOMAIN q : i + Len(p) \in DOMAIN r /\ r[i + Len(p)] = q[i] /\ i + Len(p) > Len(p)
    BY <1>1, <1>2
  <1>4. PICK k \in DOMAIN q : q[k] \in {"idle", "agent"}
    BY DEF Settling
  <1>5. k + Len(p) \in DOMAIN r /\ r[k + Len(p)] \in {"idle", "agent"} /\ k + Len(p) > Len(p)
    BY <1>3, <1>4
  <1>6. ASSUME NEW i \in DOMAIN r
        PROVE  /\ r[i] = "set" => i + 1 \in DOMAIN r /\ r[i + 1] = "stop"
               /\ r[i] = "speak" => \A j \in DOMAIN r : j > i => r[j] \in AfterSpeech
               /\ r[i] \in States \ {"idle"} => \E j \in DOMAIN r : j > i /\ r[j] \in {"idle", "agent"}
    <2>1. CASE i <= Len(p)
      <3>1. r[i] = p[i] /\ i \in DOMAIN p
        BY <1>1, <1>2, <2>1
      <3> QED
        BY <1>2, <1>5, <2>1, <3>1 DEF Plain
    <2>2. CASE i > Len(p)
      <3>1. PICK m \in DOMAIN q : i = m + Len(p)
        <4>1. i - Len(p) \in DOMAIN q /\ i = (i - Len(p)) + Len(p)
          BY <1>1, <1>2, <2>2
        <4> QED
          BY <4>1
      <3>2. r[i] = q[m]
        BY <1>3, <3>1
      <3>3. q[m] = "set" => i + 1 \in DOMAIN r /\ r[i + 1] = "stop"
        <4>1. q[m] = "set" => m + 1 \in DOMAIN q /\ q[m + 1] = "stop"
          BY DEF WellFormed
        <4>2. (m + 1) + Len(p) = i + 1
          BY <1>2, <3>1
        <4> QED
          BY <1>3, <4>1, <4>2
      <3>4. ASSUME q[m] = "speak", NEW j \in DOMAIN r, j > i PROVE r[j] \in AfterSpeech
        <4>1. j - Len(p) \in DOMAIN q /\ j - Len(p) > m /\ r[j] = q[j - Len(p)]
          BY <1>1, <1>2, <3>1, <3>4
        <4> QED
          BY <3>4, <4>1 DEF WellFormed
      <3>5. ASSUME q[m] \in States \ {"idle"}
            PROVE  \E j \in DOMAIN r : j > i /\ r[j] \in {"idle", "agent"}
        <4>1. PICK j \in DOMAIN q : j > m /\ q[j] \in {"idle", "agent"}
          BY <3>5 DEF WellFormed
        <4>2. j + Len(p) \in DOMAIN r /\ r[j + Len(p)] = q[j] /\ j + Len(p) > i
          BY <1>2, <1>3, <3>1, <4>1
        <4> QED
          BY <4>1, <4>2
      <3> QED
        BY <3>2, <3>3, <3>4, <3>5
    <2> QED
      BY <1>1, <1>2, <2>1, <2>2
  <1>7. WellFormed(r)
    BY <1>1, <1>6 DEF WellFormed
  <1>8. Settling(r)
    BY <1>5 DEF Settling
  <1> QED
    BY <1>7, <1>8 DEF r

LEMMA TailProgram ==
  ASSUME NEW p, WellFormed(p), p # <<>>
  PROVE  /\ WellFormed(Tail(p)) /\ Head(p) = p[1] /\ p[1] \in Calls
         /\ Len(p) \in Nat /\ DOMAIN p = 1..Len(p) /\ 1 \in DOMAIN p
         /\ \A i \in DOMAIN Tail(p) : i + 1 \in DOMAIN p /\ Tail(p)[i] = p[i + 1]
         /\ \A i \in DOMAIN p : i # 1 => i - 1 \in DOMAIN Tail(p) /\ Tail(p)[i - 1] = p[i]
         /\ Tail(p) # <<>> => 1 \in DOMAIN Tail(p)
  <1>1. /\ Len(p) \in Nat /\ DOMAIN p = 1..Len(p) /\ 1 \in DOMAIN p /\ Head(p) = p[1] /\ p[1] \in Calls
        /\ Tail(p) \in Seq(Calls) /\ Len(Tail(p)) = Len(p) - 1 /\ DOMAIN Tail(p) = 1..Len(p) - 1
        /\ \A i \in 1..Len(p) - 1 : Tail(p)[i] = p[i + 1]
    BY LenProperties, HeadTailProperties, ElementOfSeq DEF WellFormed
  <1> DEFINE q == Tail(p)
  <1> HIDE DEF q
  <1>2. /\ q \in Seq(Calls) /\ DOMAIN q = 1..Len(p) - 1 /\ \A i \in 1..Len(p) - 1 : q[i] = p[i + 1]
    BY <1>1 DEF q
  <1>3. /\ \A i \in DOMAIN q : i \in Nat /\ i + 1 \in DOMAIN p /\ q[i] = p[i + 1]
        /\ \A i \in DOMAIN p : i # 1 => i \in Nat /\ i - 1 \in DOMAIN q /\ q[i - 1] = p[i]
    BY <1>1, <1>2
  <1>4. ASSUME NEW i \in DOMAIN q
        PROVE  /\ q[i] = "set" => i + 1 \in DOMAIN q /\ q[i + 1] = "stop"
               /\ q[i] = "speak" => \A j \in DOMAIN q : j > i => q[j] \in AfterSpeech
               /\ q[i] \in States \ {"idle"} => \E j \in DOMAIN q : j > i /\ q[j] \in {"idle", "agent"}
    <2>1. i \in Nat /\ i + 1 \in DOMAIN p /\ q[i] = p[i + 1]
      BY <1>3
    <2>2. ASSUME q[i] = "set" PROVE i + 1 \in DOMAIN q /\ q[i + 1] = "stop"
      <3>1. (i + 1) + 1 \in DOMAIN p /\ p[(i + 1) + 1] = "stop"
        BY <2>1, <2>2 DEF WellFormed
      <3> QED
        BY <1>1, <1>2, <2>1, <3>1
    <2>3. ASSUME q[i] = "speak", NEW j \in DOMAIN q, j > i PROVE q[j] \in AfterSpeech
      <3>1. j + 1 \in DOMAIN p /\ q[j] = p[j + 1] /\ j + 1 > i + 1
        BY <1>3, <2>1, <2>3
      <3> QED
        BY <2>1, <2>3, <3>1 DEF WellFormed
    <2>4. ASSUME q[i] \in States \ {"idle"}
          PROVE  \E j \in DOMAIN q : j > i /\ q[j] \in {"idle", "agent"}
      <3>1. PICK j \in DOMAIN p : j > i + 1 /\ p[j] \in {"idle", "agent"}
        BY <2>1, <2>4 DEF WellFormed
      <3>2. j - 1 \in DOMAIN q /\ q[j - 1] = p[j] /\ j - 1 > i
        BY <1>1, <1>3, <2>1, <3>1
      <3> QED
        BY <3>1, <3>2
    <2> QED
      BY <2>2, <2>3, <2>4
  <1>5. WellFormed(q)
    BY <1>2, <1>4 DEF WellFormed
  <1>7. q # <<>> => 1 \in DOMAIN q
    BY <1>2, LenProperties
  <1> QED
    BY <1>1, <1>3, <1>5, <1>7 DEF q

LEMMA Short ==
  /\ WellFormed(<<>>) /\ WellFormed(<<"idle">>) /\ Settling(<<"idle">>)
  /\ WellFormed(<<"check">>) /\ WellFormed(<<"check", "choose">>)
  /\ WellFormed(<<"speaking", "clear", "speak", "wait", "test", "clear", "idle">>)
  /\ Settling(<<"speaking", "clear", "speak", "wait", "test", "clear", "idle">>)
  <1> USE DEF WellFormed, Settling, Calls, States, AfterSpeech
  <1>1. WellFormed(<<>>)
    OBVIOUS
  <1>2. WellFormed(<<"idle">>) /\ WellFormed(<<"check">>) /\ WellFormed(<<"check", "choose">>)
    OBVIOUS
  <1>3. Settling(<<"idle">>)
    OBVIOUS
  <1>4. WellFormed(<<"speaking", "clear", "speak", "wait", "test", "clear", "idle">>)
    <2> DEFINE p == <<"speaking", "clear", "speak", "wait", "test", "clear", "idle">>
    <2>1. /\ p \in Seq(Calls) /\ DOMAIN p = 1..7 /\ p[1] = "speaking" /\ p[2] = "clear"
          /\ p[3] = "speak" /\ p[4] = "wait" /\ p[5] = "test" /\ p[6] = "clear" /\ p[7] = "idle"
      OBVIOUS
    <2> HIDE DEF p
    <2>2. WellFormed(p)
      BY <2>1
    <2> QED
      BY <2>2 DEF p
  <1>5. Settling(<<"speaking", "clear", "speak", "wait", "test", "clear", "idle">>)
    <2> DEFINE p == <<"speaking", "clear", "speak", "wait", "test", "clear", "idle">>
    <2>1. DOMAIN p = 1..7 /\ p[7] = "idle"
      OBVIOUS
    <2> HIDE DEF p
    <2>2. Settling(p)
      BY <2>1
    <2> QED
      BY <2>2 DEF p
  <1> QED
    BY <1>1, <1>2, <1>3, <1>4, <1>5

\* The ways through a chunk start at the interrupt check.
LEMMA WaysWellFormed ==
  ASSUME NEW p \in Ways \cup {<<>>}
  PROVE  WellFormed(p) /\ (p # <<>> => p[1] = "check")
  <1> DEFINE recruiter == <<"check", "recruiter_speaking">>
             cognition == recruiter \o <<"generating", "idle">>
             asked == <<"waiting_for_reply", "generating", "choose", "agent">>
             noted == <<"idle", "choose">>
             own == <<"check", "user_speaking", "choose", "idle">>
  <1>1. /\ Plain(recruiter) /\ recruiter[1] = "check" /\ Len(recruiter) = 2
        /\ Plain(<<"generating", "idle">>) /\ Len(<<"generating", "idle">>) = 2
    BY DEF Plain, Calls, States
  <1>2. /\ WellFormed(<<"generating", "idle">>) /\ Settling(<<"generating", "idle">>)
        /\ WellFormed(noted) /\ Settling(noted) /\ Len(noted) = 2
    BY DEF WellFormed, Settling, Calls, States, AfterSpeech
  <1>3. WellFormed(asked) /\ Settling(asked) /\ Len(asked) = 4
    <2>1. /\ asked \in Seq(Calls) /\ DOMAIN asked = 1..4 /\ asked[1] = "waiting_for_reply"
          /\ asked[2] = "generating" /\ asked[3] = "choose" /\ asked[4] = "agent" /\ Len(asked) = 4
      BY DEF Calls, States
    <2> HIDE DEF asked
    <2> QED
      BY <2>1 DEF WellFormed, Settling, States
  <1>4. WellFormed(own) /\ own[1] = "check"
    <2>1. /\ own \in Seq(Calls) /\ DOMAIN own = 1..4 /\ own[1] = "check"
          /\ own[2] = "user_speaking" /\ own[3] = "choose" /\ own[4] = "idle"
      BY DEF Calls, States
    <2> HIDE DEF own
    <2> QED
      BY <2>1 DEF WellFormed, States
  <1>5. ASSUME NEW q, WellFormed(q), Settling(q)
        PROVE  /\ WellFormed(recruiter \o q) /\ (recruiter \o q)[1] = "check"
               /\ WellFormed(cognition \o q) /\ (cognition \o q)[1] = "check"
    <2>1. Plain(cognition) /\ cognition[1] = "check" /\ Len(cognition) = 4
      <3>1. Plain(cognition)
        BY <1>1, PlainJoined
      <3>2. cognition[1] = "check" /\ Len(cognition) = 4
        BY <1>1, ConcatProperties DEF Plain
      <3> QED
        BY <3>1, <3>2
    <2> HIDE DEF cognition, recruiter
    <2>2. ASSUME NEW r, Plain(r), r[1] = "check", Len(r) \in Nat \ {0}
          PROVE  (r \o q)[1] = "check"
      <3>1. Len(q) \in Nat
        BY <1>5, LenProperties DEF WellFormed
      <3>2. (r \o q)[1] = IF 1 <= Len(r) THEN r[1] ELSE q[1 - Len(r)]
        BY <1>5, <2>2, <3>1, ConcatProperties DEF Plain, WellFormed
      <3> QED
        BY <2>2, <3>2
    <2>3. WellFormed(recruiter \o q) /\ WellFormed(cognition \o q)
      BY <1>1, <1>5, <2>1, ProgramJoined
    <2>4. (recruiter \o q)[1] = "check"
      BY <1>1, <2>2
    <2>5. (cognition \o q)[1] = "check"
      <3>1. Plain(cognition) /\ cognition[1] = "check" /\ Len(cognition) \in Nat \ {0}
        BY <2>1
      <3> QED
        BY <2>2, <3>1
    <2> QED
      BY <2>3, <2>4, <2>5
  <1>6. p \in {<<>>, <<"check">>, <<"check", "choose">>, own, recruiter \o <<"idle">>,
               recruiter \o <<"generating", "idle">>}
        \/ \E q \in {noted, asked} : p = recruiter \o q \/ p = cognition \o q
    BY DEF Ways, Answered, Observed
  <1> HIDE DEF recruiter, cognition, asked, noted, own
  <1>7. CASE p \in {<<>>, <<"check">>, <<"check", "choose">>}
    <2>1. <<"check">>[1] = "check" /\ <<"check", "choose">>[1] = "check"
      OBVIOUS
    <2> QED
      BY <1>7, <2>1, Short
  <1>8. CASE p \in {own, recruiter \o <<"idle">>, recruiter \o <<"generating", "idle">>}
    BY <1>2, <1>4, <1>5, <1>8, Short
  <1>9. ASSUME NEW q \in {noted, asked}, p = recruiter \o q \/ p = cognition \o q
        PROVE  WellFormed(p) /\ p[1] = "check"
    BY <1>2, <1>3, <1>5, <1>9
  <1> QED
    BY <1>6, <1>7, <1>8, <1>9

-----------------------------------------------------------------------------
\* The invariant of the conversation.

LEMMA TalkInit == ConvInit => TalkInv
  <1> SUFFICES ASSUME ConvInit PROVE TalkInv
    OBVIOUS
  <1>1. TalkTypeOK
    <2>1. program \in Seq(Calls)
      BY DEF ConvInit
    <2>2. /\ emitting \in [Thread -> States \cup {"none"}]
          /\ \A o \in Producer : emitting[o] \in {"none", "idle"}
      BY DEF ConvInit, Thread
    <2> QED
      BY <2>1, <2>2 DEF ConvInit, TalkTypeOK, States
  <1>2. WellFormed(program) /\ SpeechWatched /\ BackToIdle /\ Rests /\ Announced
    BY Short DEF ConvInit, SpeechWatched, BackToIdle, Rests, Announced, Thread
  <1> QED
    BY <1>1, <1>2 DEF TalkInv

\* The voice is still watched when the next call has been made.
LEMMA WatchedOn ==
  ASSUME TalkInv, program # <<>>, program' = Tail(program), speech' \in {speech, 0},
         program[1] # "check", program[1] = "stop" => speech' = 0
  PROVE  SpeechWatched'
  <1> SUFFICES ASSUME speech # 0, speech' = speech
               PROVE  \/ program'[1] = "stop"
                      \/ \A i \in DOMAIN program' : program'[i] \in AfterSpeech
    BY DEF SpeechWatched
  <1> USE TailProgram DEF TalkInv
  <1>1. CASE program[1] = "set"
    <2>1. 2 \in DOMAIN program /\ program[2] = "stop"
      BY <1>1 DEF WellFormed
    <2>2. 2 - 1 \in DOMAIN program' /\ program'[2 - 1] = program[2]
      BY <2>1
    <2> QED
      BY <2>1, <2>2
  <1>2. CASE \A i \in DOMAIN program : program[i] \in AfterSpeech
    BY <1>2
  <1> QED
    BY <1>1, <1>2 DEF SpeechWatched

\* A state that stands is still followed by idle when the next call has been made.
LEMMA BackOn ==
  ASSUME TalkInv, program # <<>>, program' = Tail(program), convState' = convState,
         program[1] \notin {"idle", "agent"}
  PROVE  BackToIdle'
  <1> SUFFICES ASSUME convState # "idle"
               PROVE  \E j \in DOMAIN program' : program'[j] \in {"idle", "agent"}
    BY DEF BackToIdle
  <1>1. PICK j \in DOMAIN program : program[j] \in {"idle", "agent"}
    BY DEF TalkInv, BackToIdle
  <1>2. j # 1 /\ j - 1 \in DOMAIN program' /\ program'[j - 1] = program[j]
    BY <1>1, TailProgram DEF TalkInv
  <1> QED
    BY <1>1, <1>2

LEMMA SetsStep ==
  ASSUME TalkInv, Sets
  PROVE  TalkInv'
  <1>1. /\ emitting["worker"] = "none" /\ program # <<>> /\ program' = Tail(program)
        /\ Head(program) = program[1] /\ program[1] \in States /\ convState' = program[1]
        /\ emitting' = [emitting EXCEPT !["worker"] = IF convState = program[1] THEN "none" ELSE program[1]]
        /\ meddled' = (meddled /\ program[1] = "idle")
        /\ UNCHANGED <<wpc, sent, speech, ttsInterrupt, pressing, presses>>
    BY TailProgram DEF Sets, Awake, SetState, vars, workerVars, TalkInv
  <1> USE DEF TalkInv
  <1>2. WellFormed(program)' /\ program' \in Seq(Calls)
    BY <1>1, TailProgram DEF WellFormed
  <1>3. TalkTypeOK'
    <2>1. emitting' \in [Thread -> States \cup {"none"}]
      BY <1>1 DEF TalkTypeOK
    <2>2. \A o \in Producer : emitting'[o] = emitting[o]
      BY <1>1, ConversationAssumption DEF TalkTypeOK, Thread
    <2> QED
      BY <1>1, <1>2, <2>1, <2>2 DEF TalkTypeOK
  <1>4. SpeechWatched'
    <2>1. program[1] \notin {"check", "stop"}
      BY <1>1 DEF States
    <2> QED
      BY <1>1, <2>1, WatchedOn
  <1>5. BackToIdle'
    <2> SUFFICES ASSUME program[1] # "idle"
                 PROVE  \E j \in DOMAIN program' : program'[j] \in {"idle", "agent"}
      BY <1>1 DEF BackToIdle
    <2>1. PICK j \in DOMAIN program : j > 1 /\ program[j] \in {"idle", "agent"}
      BY <1>1, TailProgram DEF WellFormed
    <2>2. j # 1 /\ j - 1 \in DOMAIN program' /\ program'[j - 1] = program[j]
      BY <1>1, <2>1, TailProgram
    <2> QED
      BY <2>1, <2>2
  <1>6. Rests'
    BY <1>1 DEF Rests
  <1>7. Announced'
    <2>1. "worker" \in Thread /\ emitting'["worker"] \in {"none", convState'}
      BY <1>1 DEF Thread, TalkTypeOK
    <2>2. ASSUME ~meddled', convState' = "idle"
          PROVE  sent' = "idle" \/ \E t \in Thread : emitting'[t] = "idle"
      <3>1. ~meddled /\ program[1] = "idle"
        BY <1>1, <2>2
      <3>2. CASE convState = "idle"
        BY <1>1, <3>1, <3>2 DEF Announced, TalkTypeOK
      <3>3. CASE convState # "idle"
        BY <1>1, <2>1, <3>1, <3>3 DEF TalkTypeOK
      <3> QED
        BY <3>2, <3>3
    <2> QED
      BY <2>1, <2>2 DEF Announced
  <1> QED
    BY <1>2, <1>3, <1>4, <1>5, <1>6, <1>7

\* A call of the worker that sets no state and writes no event.
LEMMA CallStep ==
  ASSUME TalkInv, program # <<>>, wpc' # "get" \/ wpc' = wpc,
         UNCHANGED <<convState, emitting, sent, pressing, meddled>>,
         WellFormed(program)', SpeechWatched', BackToIdle'
  PROVE  TalkInv'
  BY DEF TalkInv, TalkTypeOK, WellFormed, Rests, Announced

\* The sequence the interrupt check begins: flag, voice, state, flag.
LEMMA InterruptWellFormed ==
  ASSUME NEW q, WellFormed(q)
  PROVE  LET p == <<"set", "stop", "idle", "clear">> \o q
         IN  WellFormed(p) /\ p[1] = "set" /\ Settling(p)
  <1> DEFINE s == <<"set", "stop", "idle", "clear">>
             p == s \o q
  <1>1. /\ s \in Seq(Calls) /\ Len(s) = 4
        /\ s[1] = "set" /\ s[2] = "stop" /\ s[3] = "idle" /\ s[4] = "clear"
    BY DEF Calls, States
  <1>2. Len(q) \in Nat /\ DOMAIN q = 1..Len(q) /\ q \in Seq(Calls)
    BY LenProperties DEF WellFormed
  <1> HIDE DEF s
  <1>3. /\ p \in Seq(Calls) /\ DOMAIN p = 1..4 + Len(q)
        /\ \A i \in 1..4 + Len(q) : p[i] = IF i <= 4 THEN s[i] ELSE q[i - 4]
    <2>1. /\ p \in Seq(Calls) /\ Len(p) = Len(s) + Len(q)
          /\ \A i \in 1..Len(s) + Len(q) : p[i] = IF i <= Len(s) THEN s[i] ELSE q[i - Len(s)]
      BY <1>1, <1>2, ConcatProperties
    <2>2. DOMAIN p = 1..Len(p)
      BY <2>1, LenProperties
    <2> QED
      BY <1>1, <1>2, <2>1, <2>2
  <1> HIDE DEF p
  <1>4. p[1] = "set" /\ p[2] = "stop" /\ p[3] = "idle" /\ p[4] = "clear" /\ 1..4 \subseteq DOMAIN p
    BY <1>1, <1>2, <1>3
  <1>5. \A i \in DOMAIN p : i \in 1..4 \/ (i - 4 \in DOMAIN q /\ p[i] = q[i - 4] /\ i > 4)
    BY <1>2, <1>3
  <1>6. \A i \in DOMAIN q : i + 4 \in DOMAIN p /\ p[i + 4] = q[i] /\ i + 4 > 4
    BY <1>2, <1>3
  <1>7. ASSUME NEW i \in DOMAIN p
        PROVE  /\ p[i] = "set" => i + 1 \in DOMAIN p /\ p[i + 1] = "stop"
               /\ p[i] = "speak" => \A j \in DOMAIN p : j > i => p[j] \in AfterSpeech
               /\ p[i] \in States \ {"idle"} => \E j \in DOMAIN p : j > i /\ p[j] \in {"idle", "agent"}
    <2>1. CASE i \in 1..4
      <3>1. i = 1 \/ i = 2 \/ i = 3 \/ i = 4
        BY <2>1
      <3>2. p[i] \in {"set", "stop", "idle", "clear"} /\ (p[i] = "set" => i = 1)
        BY <1>4, <3>1
      <3>3. 2 \in DOMAIN p
        BY <1>4
      <3> QED
        BY <1>4, <3>2, <3>3 DEF States
    <2>2. CASE i > 4
      <3>1. PICK m \in DOMAIN q : i = m + 4
        <4>1. i - 4 \in DOMAIN q /\ i = (i - 4) + 4
          BY <1>3, <1>5, <2>2
        <4> QED
          BY <4>1
      <3>2. p[i] = q[m]
        BY <1>6, <3>1
      <3>3. q[m] = "set" => i + 1 \in DOMAIN p /\ p[i + 1] = "stop"
        <4>1. q[m] = "set" => m + 1 \in DOMAIN q /\ q[m + 1] = "stop"
          BY DEF WellFormed
        <4>2. (m + 1) + 4 = i + 1
          BY <1>2, <3>1
        <4> QED
          BY <1>6, <4>1, <4>2
      <3>4. ASSUME q[m] = "speak", NEW j \in DOMAIN p, j > i PROVE p[j] \in AfterSpeech
        <4>1. j - 4 \in DOMAIN q /\ j - 4 > m /\ p[j] = q[j - 4]
          BY <1>2, <1>3, <1>5, <3>1, <3>4
        <4> QED
          BY <3>4, <4>1 DEF WellFormed
      <3>5. ASSUME q[m] \in States \ {"idle"}
            PROVE  \E j \in DOMAIN p : j > i /\ p[j] \in {"idle", "agent"}
        <4>1. PICK j \in DOMAIN q : j > m /\ q[j] \in {"idle", "agent"}
          BY <3>5 DEF WellFormed
        <4>2. j + 4 \in DOMAIN p /\ p[j + 4] = q[j] /\ j + 4 > i
          BY <1>2, <1>6, <3>1, <4>1
        <4> QED
          BY <4>1, <4>2
      <3> QED
        BY <3>2, <3>3, <3>4, <3>5
    <2> QED
      BY <1>5, <2>1, <2>2
  <1>8. WellFormed(p)
    BY <1>3, <1>7 DEF WellFormed
  <1>9. Settling(p)
    BY <1>4 DEF Settling
  <1> QED
    BY <1>4, <1>8, <1>9 DEF p, s

\* While the voice is silent, or the worker has stopped it, nothing is to be watched.
LEMMA SilentWatched == speech' = 0 => SpeechWatched'
  BY DEF SpeechWatched

\* Program calls at which no earlier reply is heard.
LEMMA HeadSilent ==
  ASSUME TalkInv, program # <<>>, program[1] \notin {"check", "set", "stop"} \cup AfterSpeech
  PROVE  speech = 0
  BY TailProgram DEF TalkInv, SpeechWatched

LEMMA WorkerTalks ==
  ASSUME TalkInv, program # <<>>,
         Checks \/ Flags \/ Stops \/ Chooses \/ AgentReplies \/ Speak \/ Waits \/ Tests
  PROVE  TalkInv'
  <1> USE DEF TalkInv
  <1>0. /\ WellFormed(Tail(program)) /\ Head(program) = program[1]
        /\ wpc = "get" => program = <<>>
    BY TailProgram DEF Rests
  <1>1. CASE Checks
    <2>1. /\ program[1] = "check" /\ speech' = speech
          /\ program' = IF speech # 0 THEN <<"set", "stop", "idle", "clear">> \o Tail(program)
                                      ELSE Tail(program)
          /\ UNCHANGED <<wpc, convState, emitting, sent, pressing, meddled>>
      BY <1>0, <1>1 DEF Checks, Does, Goes, vars, workerVars
    <2>2. CASE speech # 0
      <3>1. program' = <<"set", "stop", "idle", "clear">> \o Tail(program)
        BY <2>1, <2>2
      <3>2. WellFormed(program') /\ program'[1] = "set" /\ Settling(program')
        BY <1>0, <3>1, InterruptWellFormed
      <3>3. SpeechWatched' /\ BackToIdle'
        BY <3>2 DEF SpeechWatched, BackToIdle, Settling
      <3> QED
        BY <2>1, <3>2, <3>3, CallStep
    <2>3. CASE speech = 0
      <3>1. program' = Tail(program)
        BY <2>1, <2>3
      <3>2. BackToIdle'
        BY <2>1, <3>1, BackOn
      <3> QED
        BY <1>0, <2>1, <2>3, <3>1, <3>2, SilentWatched, CallStep
    <2> QED
      BY <2>2, <2>3
  <1>2. CASE Flags
    <2>1. /\ program[1] \in {"set", "clear"} /\ program' = Tail(program)
          /\ UNCHANGED <<speech, wpc, convState, emitting, sent, pressing, meddled>>
      BY <1>0, <1>2 DEF Flags, Does, Steps, Goes, vars, workerVars
    <2>2. SpeechWatched' /\ BackToIdle'
      BY <2>1, WatchedOn, BackOn
    <2> QED
      BY <1>0, <2>1, <2>2, CallStep
  <1>3. CASE Stops
    <2>1. /\ program[1] = "stop" /\ program' = Tail(program) /\ speech' = 0
          /\ UNCHANGED <<wpc, convState, emitting, sent, pressing, meddled>>
      BY <1>0, <1>3 DEF Stops, Does, Steps, Goes, vars, workerVars
    <2>2. BackToIdle'
      BY <2>1, BackOn
    <2> QED
      BY <1>0, <2>1, <2>2, SilentWatched, CallStep
  <1>4. CASE Chooses
    <2>1. /\ program[1] = "choose" /\ speech' = speech
          /\ UNCHANGED <<convState, emitting, sent, pressing, meddled>>
      BY <1>0, <1>4 DEF Chooses, Does
    <2>2. speech' = 0
      BY <2>1, HeadSilent DEF AfterSpeech
    <2>3. wpc' # "get"
      BY <1>0, <1>4 DEF Chooses, Heard, Choose, Reset, vars, workerVars
    <2>4. \/ program' = program
          \/ program' = <<"idle">>
          \/ program' = Tail(program)
      BY <1>4 DEF Chooses
    <2>5. CASE program' = program
      <3>1. WellFormed(program)' /\ BackToIdle'
        BY <2>1, <2>5 DEF BackToIdle
      <3> QED
        BY <2>1, <2>2, <2>3, <3>1, SilentWatched, CallStep
    <2>6. CASE program' = <<"idle">>
      <3>1. WellFormed(program)' /\ BackToIdle'
        BY <2>6, Short DEF BackToIdle, Settling
      <3> QED
        BY <2>1, <2>2, <2>3, <3>1, SilentWatched, CallStep
    <2>7. CASE program' = Tail(program)
      <3>1. WellFormed(program)' /\ BackToIdle'
        BY <1>0, <2>1, <2>7, BackOn
      <3> QED
        BY <2>1, <2>2, <2>3, <3>1, SilentWatched, CallStep
    <2> QED
      BY <2>4, <2>5, <2>6, <2>7
  <1>5. CASE AgentReplies
    <2>1. /\ program[1] = "agent" /\ speech' = speech
          /\ UNCHANGED <<wpc, convState, emitting, sent, pressing, meddled>>
      BY <1>0, <1>5 DEF AgentReplies, Does, Goes, vars, workerVars
    <2>2. speech' = 0
      BY <2>1, HeadSilent DEF AfterSpeech, States
    <2>3. \/ program' = <<"speaking", "clear", "speak", "wait", "test", "clear", "idle">>
          \/ program' = <<"idle">>
      BY <1>5 DEF AgentReplies, Goes
    <2>4. WellFormed(program') /\ Settling(program')
      BY <2>3, Short
    <2>5. WellFormed(program)' /\ BackToIdle'
      BY <2>4 DEF BackToIdle, Settling
    <2> QED
      BY <2>1, <2>2, <2>5, SilentWatched, CallStep
  <1>6. CASE Speak
    <2>1. /\ program[1] = "speak" /\ program' = Tail(program)
          /\ UNCHANGED <<wpc, convState, emitting, sent, pressing, meddled>>
      BY <1>0, <1>6 DEF Speak, Does, Steps, Goes, vars, workerVars
    <2>2. \A j \in DOMAIN program : j > 1 => program[j] \in AfterSpeech
      BY <2>1, TailProgram DEF WellFormed
    <2>3. \A i \in DOMAIN program' : program'[i] \in AfterSpeech
      <3> SUFFICES ASSUME NEW i \in DOMAIN program' PROVE program'[i] \in AfterSpeech
        OBVIOUS
      <3>1. i + 1 \in DOMAIN program /\ program'[i] = program[i + 1] /\ i \in Nat \ {0}
        BY <1>0, <2>1, TailProgram, LenProperties DEF WellFormed
      <3>2. i + 1 > 1
        BY <3>1
      <3> QED
        BY <2>2, <3>1, <3>2
    <2>4. SpeechWatched' /\ BackToIdle'
      BY <2>1, <2>3, BackOn DEF SpeechWatched
    <2> QED
      BY <1>0, <2>1, <2>4, CallStep
  <1>7. CASE Waits \/ Tests
    <2>1. /\ program[1] \in {"wait", "test"} /\ program' = Tail(program) /\ speech' \in {speech, 0}
          /\ UNCHANGED <<wpc, convState, emitting, sent, pressing, meddled>>
      BY <1>0, <1>7 DEF Waits, Tests, Does, Steps, Goes, vars, workerVars
    <2>2. SpeechWatched' /\ BackToIdle'
      BY <2>1, WatchedOn, BackOn
    <2> QED
      BY <1>0, <2>1, <2>2, CallStep
  <1> QED
    BY <1>1, <1>2, <1>3, <1>4, <1>5, <1>6, <1>7

LEMMA ChunkStep ==
  ASSUME TalkInv, TakeChunk \/ Ends \/ Raises
  PROVE  TalkInv'
  <1> USE DEF TalkInv
  <1>1. CASE TakeChunk
    <2>1. /\ wpc = "get" /\ wpc' = "transcribe" /\ program' \in Ways \cup {<<>>}
          /\ UNCHANGED <<convState, emitting, sent, speech, pressing, meddled>>
      BY <1>1 DEF TakeChunk, Take
    <2>2. WellFormed(program)' /\ SpeechWatched'
      BY <2>1, WaysWellFormed DEF SpeechWatched
    <2>3. convState = "idle"
      BY <2>1 DEF Rests, BackToIdle
    <2> QED
      BY <2>1, <2>2, <2>3 DEF TalkTypeOK, WellFormed, BackToIdle, Rests, Announced
  <1>2. CASE Ends
    <2>1. program = <<>> /\ emitting["worker"] = "none" /\ UNCHANGED talkVars
      BY <1>2 DEF Ends
    <2> QED
      BY <2>1 DEF talkVars, TalkTypeOK, SpeechWatched, BackToIdle, Rests, Announced
  <1>3. CASE Raises
    <2>1. /\ program' = <<"idle">> /\ wpc # "get" /\ wpc' = wpc
          /\ UNCHANGED <<convState, emitting, sent, speech, pressing, meddled>>
      BY <1>3 DEF Raises, Goes, vars, workerVars
    <2>2. WellFormed(program)' /\ SpeechWatched' /\ BackToIdle'
      BY <2>1, Short DEF SpeechWatched, BackToIdle, AfterSpeech, Settling
    <2> QED
      BY <2>1, <2>2 DEF TalkTypeOK, WellFormed, Rests, Announced
  <1> QED
    BY <1>1, <1>2, <1>3

LEMMA EmitStep ==
  ASSUME TalkInv, NEW t \in Thread, Emit(t)
  PROVE  TalkInv'
  <1> USE DEF TalkInv
  <1>1. /\ emitting[t] # "none" /\ sent' = emitting[t] /\ emitting' = [emitting EXCEPT ![t] = "none"]
        /\ UNCHANGED <<wpc, program, convState, speech, pressing, meddled>>
    BY DEF Emit, vars, workerVars
  <1>2. TalkTypeOK'
    BY <1>1 DEF TalkTypeOK, Thread
  <1>3. WellFormed(program)' /\ SpeechWatched' /\ BackToIdle'
    BY <1>1 DEF SpeechWatched, BackToIdle
  <1>4. Rests'
    BY <1>1 DEF Rests, TalkTypeOK, Thread
  <1>5. Announced'
    <2>1. emitting'["worker"] \in {"none", emitting["worker"]} /\ "worker" \in Thread
      BY <1>1 DEF TalkTypeOK, Thread
    <2>2. ASSUME ~meddled, convState = "idle" PROVE sent' = "idle"
      <3>1. CASE t = "worker"
        BY <1>1, <2>2, <3>1 DEF Announced
      <3>2. CASE t \in Producer
        BY <1>1, <3>2 DEF TalkTypeOK
      <3> QED
        BY <3>1, <3>2 DEF Thread
    <2> QED
      BY <1>1, <2>1, <2>2 DEF Announced
  <1> QED
    BY <1>2, <1>3, <1>4, <1>5

LEMMA OperatorStep ==
  ASSUME TalkInv, NEW o \in Producer,
         StartsFlush(o) \/ Flushing(o) \/ Press(o) \/ PressStops(o) \/ PressFlags(o) \/ PressSets(o)
  PROVE  TalkInv'
  <1> USE DEF TalkInv
  <1>1. CASE StartsFlush(o) \/ Flushing(o)
    <2>1. wpc' = wpc /\ UNCHANGED talkVars
      BY <1>1 DEF StartsFlush, Flushing, Make, Produce, SetMeeting, Drain, Put, workerVars
    <2> QED
      BY <2>1 DEF talkVars, TalkTypeOK, SpeechWatched, BackToIdle, Rests, Announced
  <1>2. CASE Press(o) \/ PressStops(o) \/ PressFlags(o)
    <2>1. /\ UNCHANGED <<wpc, program, convState, emitting, sent, meddled>>
          /\ speech' \in {speech, 0}
          /\ \E where \in {"stop", "set", "idle"} : pressing' = [pressing EXCEPT ![o] = where]
      BY <1>2 DEF Press, PressStops, PressFlags, vars, workerVars
    <2>2. TalkTypeOK'
      BY <2>1 DEF TalkTypeOK
    <2>3. SpeechWatched' /\ WellFormed(program)' /\ BackToIdle'
      BY <2>1 DEF SpeechWatched, BackToIdle
    <2> QED
      BY <2>1, <2>2, <2>3 DEF Rests, Announced
  <1>3. CASE PressSets(o)
    <2>1. /\ convState' = "idle" /\ meddled' = TRUE
          /\ \E e \in {"none", "idle"} : emitting' = [emitting EXCEPT ![o] = e]
          /\ pressing' = [pressing EXCEPT ![o] = "no"]
          /\ UNCHANGED <<wpc, program, sent, speech>>
      BY <1>3 DEF PressSets, SetState, vars, workerVars
    <2>2. TalkTypeOK'
      BY <2>1 DEF TalkTypeOK, Thread, States
    <2>3. emitting'["worker"] = emitting["worker"]
      BY <2>1, ConversationAssumption DEF TalkTypeOK, Thread
    <2>4. SpeechWatched' /\ WellFormed(program)' /\ BackToIdle' /\ Announced'
      BY <2>1 DEF SpeechWatched, BackToIdle, Announced
    <2> QED
      BY <2>1, <2>2, <2>3, <2>4 DEF Rests
  <1> QED
    BY <1>1, <1>2, <1>3

LEMMA TalkStep == TalkInv /\ [ConvNext]_allVars => TalkInv'
  <1> SUFFICES ASSUME TalkInv, [ConvNext]_allVars PROVE TalkInv'
    OBVIOUS
  <1>1. CASE UNCHANGED allVars
    BY <1>1 DEF allVars, vars, workerVars, talkVars, TalkInv, TalkTypeOK, SpeechWatched, BackToIdle,
               Rests, Announced
  <1>2. CASE Sets
    BY <1>2, SetsStep
  <1>3. CASE Checks \/ Flags \/ Stops \/ Chooses \/ AgentReplies \/ Speak \/ Waits \/ Tests
    <2>1. program # <<>>
      BY <1>3 DEF Checks, Flags, Stops, Chooses, AgentReplies, Speak, Waits, Tests, Does, Awake
    <2> QED
      BY <1>3, <2>1, WorkerTalks
  <1>4. CASE TakeChunk \/ Ends \/ Raises
    BY <1>4, ChunkStep
  <1>5. CASE Emit("worker")
    BY <1>5, EmitStep DEF Thread
  <1>6. CASE SpeechEnds
    BY <1>6 DEF SpeechEnds, vars, workerVars, TalkInv, TalkTypeOK, SpeechWatched, BackToIdle,
               Rests, Announced
  <1>7. ASSUME NEW o \in Producer, StartsFlush(o) \/ Flushing(o) \/ Press(o) \/ Silencing(o)
        PROVE  TalkInv'
    BY <1>7, EmitStep, OperatorStep DEF Silencing, Thread
  <1> QED
    BY <1>1, <1>2, <1>3, <1>4, <1>5, <1>6, <1>7 DEF ConvNext, ReplyWorker

LEMMA TalkInvariant == ConvSpec => []TalkInv
  BY TalkInit, TalkStep, PTL DEF ConvSpec

\* Past the interrupt check no earlier reply is heard until the worker speaks its own.
THEOREM NobodyTalkedOver == ConvSpec => []NoTalkOver
  <1>1. TalkInv => NoTalkOver
    <2> SUFFICES ASSUME TalkInv, program # <<>>,
                        Head(program) \in (States \ {"idle"}) \cup {"choose", "agent", "speak"}
                 PROVE  speech = 0
      BY DEF NoTalkOver
    <2>1. Head(program) = program[1]
      BY TailProgram DEF TalkInv
    <2> QED
      BY <2>1, HeadSilent DEF States, AfterSpeech
  <1> QED
    BY <1>1, TalkInvariant, PTL

\* The last status event written names the state, when the worker rests, every event is
\* written and 's' has not interfered since the worker last left idle.
THEOREM StatusIsCaughtUp == ConvSpec => []StatusCatchesUp
  <1>1. TalkInv => StatusCatchesUp
    <2> SUFFICES ASSUME TalkInv, wpc = "get", \A t \in Thread : emitting[t] = "none", ~meddled
                 PROVE  sent = convState
      BY DEF StatusCatchesUp
    <2>1. convState = "idle"
      BY DEF TalkInv, Rests, BackToIdle
    <2> QED
      BY <2>1 DEF TalkInv, Announced
  <1> QED
    BY <1>1, TalkInvariant, PTL
=============================================================================
