---------------------------- MODULE AudioPathProofs ----------------------------
(***************************************************************************)
(* Theorems of the audio path: for any queue, pre-buffer, segment length,  *)
(* silence and ceiling, and any number of blocks, operators and uses of    *)
(* 'c', what was said leaves once and in order, and goes missing only for  *)
(* one of three reasons.  What is said of sequences of any length is shown *)
(* by the least length at which it fails.                                  *)
(***************************************************************************)
EXTENDS AudioPath, SequenceTheorems, WellFoundedInduction, TLAPS

-----------------------------------------------------------------------------
\* The speech in a sequence.

\* A set of numbers that is not empty has a least one.
LEMMA LeastNumber ==
  ASSUME NEW S, S \subseteq Nat, S # {}
  PROVE  \E n \in S : \A m \in S : n <= m
  <1>1. PICK R : IsWellFoundedOn(R, Nat) /\ R = {ss \in Nat \X Nat : ss[1] < ss[2]}
    BY Zenon, NatLessThanWellFounded DEF OpToRel
  <1>2. PICK n \in S : \A m \in S : <<m, n>> \notin R
    BY <1>1, WFMin
  <1>3. ASSUME NEW m \in S PROVE n <= m
    <2>1. m \in Nat /\ n \in Nat
      OBVIOUS
    <2>2. ~(m < n)
      BY <1>1, <1>2, <2>1
    <2> QED
      BY <2>1, <2>2
  <1> QED
    BY <1>3

\* What of the first n elements of seq is in S.
Kept(seq, S) ==
  LET kept[n \in 0..Len(seq)] ==
        IF n = 0 THEN <<>>
        ELSE IF seq[n] \in S THEN Append(kept[n - 1], seq[n]) ELSE kept[n - 1]
  IN  kept

LEMMA SpeechIsKept == \A seq : SpeechOf(seq) = Kept(seq, speech)[Len(seq)]
  BY DEF SpeechOf, Kept

KeptOf(seq, S, kept, n) ==
  IF n = 0 THEN <<>>
  ELSE IF seq[n] \in S THEN Append(kept[n - 1], seq[n]) ELSE kept[n - 1]

LEMMA KeptExists ==
  ASSUME NEW seq, NEW S, NEW m \in Nat
  PROVE  \E kept : kept = [n \in 0..m |-> KeptOf(seq, S, kept, n)]
  <1> DEFINE Exists(k) == \E kept : kept = [n \in 0..k |-> KeptOf(seq, S, kept, n)]
             Failing == {k \in Nat : ~Exists(k)}
  <1> SUFFICES ASSUME Failing # {} PROVE FALSE
    OBVIOUS
  <1>1. PICK k \in Failing : \A j \in Failing : k <= j
    BY LeastNumber
  <1>2. k # 0
    <2> DEFINE zero == [n \in 0..0 |-> <<>>]
    <2>1. zero = [n \in 0..0 |-> KeptOf(seq, S, zero, n)]
      BY DEF KeptOf
    <2> QED
      BY <2>1
  <1>3. k \in Nat /\ k - 1 \in Nat /\ k - 1 \notin Failing
    BY <1>1, <1>2
  <1>4. PICK g : g = [n \in 0..k - 1 |-> KeptOf(seq, S, g, n)]
    BY <1>3
  <1> DEFINE h == [n \in 0..k |-> IF n = k THEN KeptOf(seq, S, g, k) ELSE g[n]]
  <1>5. \A n \in 0..k : h[n] = KeptOf(seq, S, h, n)
    <2> SUFFICES ASSUME NEW n \in 0..k PROVE h[n] = KeptOf(seq, S, h, n)
      OBVIOUS
    <2>1. n # 0 => n - 1 \in 0..k - 1 /\ h[n - 1] = g[n - 1]
      BY <1>3
    <2>2. KeptOf(seq, S, h, n) = KeptOf(seq, S, g, n)
      BY <2>1 DEF KeptOf
    <2>3. n # k => n \in 0..k - 1 /\ h[n] = g[n]
      BY <1>3
    <2>4. n # k => g[n] = KeptOf(seq, S, g, n)
      BY <1>4, <2>3
    <2>5. n = k => h[n] = KeptOf(seq, S, g, n)
      OBVIOUS
    <2> QED
      BY <2>2, <2>3, <2>4, <2>5
  <1>6. h = [n \in 0..k |-> h[n]]
    OBVIOUS
  <1> HIDE DEF h
  <1>7. h = [n \in 0..k |-> KeptOf(seq, S, h, n)]
    BY <1>5, <1>6
  <1>8. Exists(k)
    BY <1>7
  <1> QED
    BY <1>8

LEMMA KeptIs ==
  ASSUME NEW seq, NEW S, Len(seq) \in Nat
  PROVE  /\ Kept(seq, S)[0] = <<>>
         /\ \A n \in 1..Len(seq) :
              Kept(seq, S)[n] = IF seq[n] \in S THEN Append(Kept(seq, S)[n - 1], seq[n])
                                               ELSE Kept(seq, S)[n - 1]
  <1> DEFINE kept == Kept(seq, S)
  <1>1. \E g : g = [n \in 0..Len(seq) |-> KeptOf(seq, S, g, n)]
    BY KeptExists
  <1>2. kept = [n \in 0..Len(seq) |-> KeptOf(seq, S, kept, n)]
    BY Zenon, <1>1 DEF Kept, KeptOf
  <1> HIDE DEF kept
  <1>3. \A n \in 0..Len(seq) : kept[n] = KeptOf(seq, S, kept, n)
    BY <1>2
  <1>4. \A n \in 1..Len(seq) : n \in 0..Len(seq) /\ n # 0
    OBVIOUS
  <1>5. 0 \in 0..Len(seq)
    OBVIOUS
  <1>6. kept[0] = <<>> /\ \A n \in 1..Len(seq) :
           kept[n] = IF seq[n] \in S THEN Append(kept[n - 1], seq[n]) ELSE kept[n - 1]
    BY <1>3, <1>4, <1>5 DEF KeptOf
  <1> QED
    BY <1>6 DEF kept

\* What is kept of a beginning depends on that beginning alone.
LEMMA KeptPrefix ==
  ASSUME NEW s, NEW t, NEW S, NEW U, Len(s) \in Nat, Len(t) \in Nat,
         NEW m \in 0..Len(s), m <= Len(t),
         \A i \in 1..m : s[i] = t[i] /\ (s[i] \in S <=> t[i] \in U)
  PROVE  Kept(s, S)[m] = Kept(t, U)[m]
  <1> DEFINE Failing == {k \in 0..m : Kept(s, S)[k] # Kept(t, U)[k]}
  <1> SUFFICES ASSUME Failing # {} PROVE FALSE
    OBVIOUS
  <1>0. Failing \subseteq Nat
    OBVIOUS
  <1>1. PICK k \in Failing : \A j \in Failing : k <= j
    BY <1>0, LeastNumber
  <1>2. k # 0
    BY <1>1, KeptIs
  <1>3. k \in 1..Len(s) /\ k \in 1..Len(t) /\ k \in 1..m /\ k - 1 \in 0..m /\ ~(k <= k - 1)
    BY <1>1, <1>2
  <1>4. Kept(s, S)[k - 1] = Kept(t, U)[k - 1]
    BY <1>1, <1>3
  <1>5. /\ Kept(s, S)[k] = IF s[k] \in S THEN Append(Kept(s, S)[k - 1], s[k]) ELSE Kept(s, S)[k - 1]
        /\ Kept(t, U)[k] = IF t[k] \in U THEN Append(Kept(t, U)[k - 1], t[k]) ELSE Kept(t, U)[k - 1]
    BY <1>3, KeptIs
  <1>6. Kept(s, S)[k] = Kept(t, U)[k]
    BY <1>3, <1>4, <1>5
  <1> QED
    BY <1>1, <1>6

\* Nothing is kept of an end that has nothing in S.
LEMMA KeptQuiet ==
  ASSUME NEW s, NEW S, Len(s) \in Nat, NEW m \in 0..Len(s), \A i \in 1..Len(s) : m < i => s[i] \notin S
  PROVE  Kept(s, S)[Len(s)] = Kept(s, S)[m]
  <1> DEFINE Failing == {k \in m..Len(s) : Kept(s, S)[k] # Kept(s, S)[m]}
  <1> SUFFICES ASSUME Failing # {} PROVE FALSE
    OBVIOUS
  <1>0. Failing \subseteq Nat
    OBVIOUS
  <1>1. PICK k \in Failing : \A j \in Failing : k <= j
    BY <1>0, LeastNumber
  <1>2. k # m
    BY <1>1
  <1>3. k \in 1..Len(s) /\ k - 1 \in m..Len(s) /\ ~(k <= k - 1) /\ m < k
    BY <1>1, <1>2
  <1>4. Kept(s, S)[k - 1] = Kept(s, S)[m]
    BY <1>1, <1>3
  <1>5. Kept(s, S)[k] = Kept(s, S)[k - 1]
    BY <1>3, KeptIs
  <1> QED
    BY <1>1, <1>4, <1>5

LEMMA KeptType ==
  ASSUME NEW T, NEW s \in Seq(T), NEW S
  PROVE  Kept(s, S)[Len(s)] \in Seq(T)
  <1>0. Len(s) \in Nat /\ \A i \in 1..Len(s) : s[i] \in T
    BY LenProperties, ElementOfSeq
  <1> DEFINE Failing == {k \in 0..Len(s) : Kept(s, S)[k] \notin Seq(T)}
  <1> SUFFICES ASSUME Failing # {} PROVE FALSE
    BY <1>0
  <1>1. PICK k \in Failing : \A j \in Failing : k <= j
    <2>1. Failing \subseteq Nat
      BY <1>0
    <2> QED
      BY <2>1, LeastNumber
  <1>2. k # 0
    <2>1. Kept(s, S)[0] = <<>> /\ <<>> \in Seq(T)
      BY <1>0, KeptIs
    <2> QED
      BY <1>1, <2>1
  <1>3. k \in 1..Len(s) /\ k - 1 \in 0..Len(s) /\ ~(k <= k - 1)
    BY <1>0, <1>1, <1>2
  <1>4. Kept(s, S)[k - 1] \in Seq(T)
    BY <1>1, <1>3
  <1>5. Kept(s, S)[k] \in Seq(T)
    <2>1. Kept(s, S)[k] = IF s[k] \in S THEN Append(Kept(s, S)[k - 1], s[k]) ELSE Kept(s, S)[k - 1]
      BY <1>0, <1>3, KeptIs
    <2>2. Append(Kept(s, S)[k - 1], s[k]) \in Seq(T)
      BY <1>0, <1>3, <1>4, AppendProperties
    <2> QED
      BY <1>4, <2>1, <2>2
  <1> QED
    BY <1>1, <1>5

LEMMA NoSpeech == SpeechOf(<<>>) = <<>>
  <1>1. Len(<<>>) = 0
    BY EmptySeq
  <1> QED
    BY <1>1, SpeechIsKept, KeptIs

\* One more block adds itself if it is speech, and what is silent adds nothing.
LEMMA SpeechOfMore ==
  ASSUME NEW T, NEW s \in Seq(T), NEW b \in T
  PROVE  SpeechOf(Append(s, b)) = IF b \in speech THEN Append(SpeechOf(s), b) ELSE SpeechOf(s)
  <1> DEFINE t == Append(s, b)
             n == Len(s)
  <1>1. /\ n \in Nat /\ Len(t) = n + 1 /\ t[n + 1] = b
        /\ \A i \in 1..n : t[i] = s[i]
    BY AppendProperties, LenProperties
  <1> HIDE DEF t, n
  <1>2. Kept(s, speech)[n] = Kept(t, speech)[n]
    <2>1. n \in 0..Len(s) /\ n <= Len(t) /\ Len(t) \in Nat /\ Len(s) \in Nat
      BY <1>1 DEF n
    <2> QED
      BY <1>1, <2>1, KeptPrefix
  <1>3. Kept(t, speech)[n + 1] = IF b \in speech THEN Append(Kept(t, speech)[n], b) ELSE Kept(t, speech)[n]
    <2>1. n + 1 \in 1..Len(t) /\ Len(t) \in Nat /\ (n + 1) - 1 = n
      BY <1>1
    <2> QED
      BY <1>1, <2>1, KeptIs
  <1> QED
    BY <1>1, <1>2, <1>3, SpeechIsKept DEF t, n

LEMMA SpeechOfSilent ==
  ASSUME NEW T, NEW s \in Seq(T), NEW p \in Seq(T), \A i \in 1..Len(p) : p[i] \notin speech
  PROVE  SpeechOf(s \o p) = SpeechOf(s)
  <1> DEFINE t == s \o p
             n == Len(s)
  <1>1. /\ n \in Nat /\ Len(p) \in Nat /\ Len(t) = n + Len(p)
        /\ \A i \in 1..n : t[i] = s[i]
        /\ \A i \in 1..Len(t) : n < i => i - n \in 1..Len(p) /\ t[i] = p[i - n]
    <2>1. n \in Nat /\ Len(p) \in Nat
      BY LenProperties
    <2>2. Len(t) = n + Len(p)
      BY ConcatProperties
    <2>3. \A i \in 1..Len(t) : t[i] = IF i <= n THEN s[i] ELSE p[i - n]
      BY ConcatProperties
    <2> HIDE DEF t, n
    <2>4. \A i \in 1..n : i \in 1..Len(t) /\ i <= n
      BY <2>1, <2>2
    <2>5. \A i \in 1..Len(t) : n < i => i - n \in 1..Len(p) /\ ~(i <= n)
      BY <2>1, <2>2
    <2> QED
      BY <2>1, <2>2, <2>3, <2>4, <2>5
  <1> HIDE DEF t, n
  <1>2. n \in 0..Len(t) /\ Len(t) \in Nat /\ n \in 0..Len(s) /\ n <= Len(t) /\ Len(s) \in Nat
    BY <1>1 DEF n
  <1>3. Kept(s, speech)[n] = Kept(t, speech)[n]
    <2>1. \A i \in 1..n : s[i] = t[i] /\ (s[i] \in speech <=> t[i] \in speech)
      BY <1>1
    <2> QED
      BY <1>2, <2>1, KeptPrefix
  <1>4. Kept(t, speech)[Len(t)] = Kept(t, speech)[n]
    <2>1. \A i \in 1..Len(t) : n < i => t[i] \notin speech
      BY <1>1
    <2> QED
      BY <1>2, <2>1, KeptQuiet
  <1> QED
    BY <1>3, <1>4, SpeechIsKept DEF t, n

LEMMA AllSilent ==
  ASSUME NEW T, NEW s \in Seq(T), \A i \in 1..Len(s) : s[i] \notin speech
  PROVE  SpeechOf(s) = <<>>
  <1>1. Len(s) \in Nat /\ 0 \in 0..Len(s) /\ \A i \in 1..Len(s) : 0 < i => s[i] \notin speech
    BY LenProperties
  <1>2. Kept(s, speech)[Len(s)] = Kept(s, speech)[0]
    BY <1>1, KeptQuiet
  <1> QED
    BY <1>1, <1>2, KeptIs, SpeechIsKept

-----------------------------------------------------------------------------
\* The orchestrator.

\* Blocks come from the capture; what the pre-buffer holds is silent, and so is what has
\* been accumulated before the speech began.
FromCapture ==
  /\ audioQueue \in Seq(1..captured) /\ preBuf \in Seq(1..captured) /\ blocks \in Seq(1..captured)

SilentBefore ==
  /\ \A i \in 1..Len(preBuf) : preBuf[i] \notin speech
  /\ ~hasSpeech => \A i \in 1..Len(blocks) : blocks[i] \notin speech

VoiceInv == TypeOK /\ FromCapture /\ SilentBefore /\ SpeechKept

LEMMA VoiceInit == Init => VoiceInv
  <1> SUFFICES ASSUME Init PROVE VoiceInv
    OBVIOUS
  <1>1. \A T : <<>> \in Seq(T)
    BY EmptySeq
  <1>2. Len(<<>>) = 0 /\ DOMAIN <<>> = {}
    BY EmptySeq
  <1>3. SpeechOf(blocks) = <<>> /\ <<>> \o <<>> = <<>>
    <2>1. SpeechOf(blocks) = <<>>
      BY NoSpeech DEF Init
    <2> QED
      BY <2>1
  <1>4. TypeOK
    <2>1. 0 <= QueueMax /\ 0 <= PreBlocks /\ 0 < MaxBlocks /\ 0 \in 0..MaxCaptured
      BY VoiceAssumption
    <2> QED
      BY <1>1, <1>2, <2>1 DEF Init, TypeOK
  <1> QED
    BY <1>1, <1>2, <1>3, <1>4 DEF Init, VoiceInv, FromCapture, SilentBefore, SpeechKept

LEMMA CaptureStep ==
  ASSUME VoiceInv, NEW silent \in BOOLEAN, Capture(silent)
  PROVE  VoiceInv'
  <1>1. /\ captured \in 0..MaxCaptured /\ captured < MaxCaptured /\ captured' = captured + 1
        /\ speech' = (IF silent THEN speech ELSE speech \cup {captured + 1}) /\ speech \subseteq 1..captured
        /\ audioQueue' = (IF Len(audioQueue) < QueueMax THEN Append(audioQueue, captured + 1) ELSE audioQueue)
        /\ taken' = taken /\ preBuf' = preBuf /\ blocks' = blocks /\ silenceStreak' = silenceStreak
        /\ hasSpeech' = hasSpeech /\ heard' = heard
    BY DEF Capture, VoiceInv, TypeOK, inlineVars
  <1>2. /\ MaxCaptured \in Nat /\ captured + 1 \in Block /\ captured + 1 \in 1..captured + 1
        /\ 1..captured \subseteq 1..captured + 1 /\ captured + 1 \in 0..MaxCaptured
        /\ \A i \in 1..captured : i # captured + 1
    BY <1>1, VoiceAssumption DEF Block
  <1>3. Seq(1..captured) \subseteq Seq(1..captured + 1)
    BY <1>2, SeqMonotonic
  <1>4. /\ audioQueue \in Seq(Block) /\ Len(audioQueue) <= QueueMax /\ Len(audioQueue) \in Nat
        /\ audioQueue \in Seq(1..captured + 1)
    BY <1>3, LenProperties DEF VoiceInv, TypeOK, FromCapture
  <1>5. audioQueue' \in Seq(Block) /\ Len(audioQueue') <= QueueMax /\ audioQueue' \in Seq(1..captured + 1)
    <2>1. CASE Len(audioQueue) < QueueMax
      <3>1. /\ Append(audioQueue, captured + 1) \in Seq(Block)
            /\ Append(audioQueue, captured + 1) \in Seq(1..captured + 1)
            /\ Len(Append(audioQueue, captured + 1)) = Len(audioQueue) + 1
        BY <1>2, <1>4, AppendProperties
      <3>2. QueueMax \in Nat
        BY VoiceAssumption
      <3> QED
        BY <1>1, <1>4, <2>1, <3>1, <3>2
    <2>2. CASE ~(Len(audioQueue) < QueueMax)
      BY <1>1, <1>4, <2>2
    <2> QED
      BY <2>1, <2>2
  <1>6. \A b \in 1..captured : b \in speech' <=> b \in speech
    BY <1>1, <1>2
  <1>7. /\ Len(preBuf) \in Nat /\ \A i \in 1..Len(preBuf) : preBuf[i] \in 1..captured
        /\ Len(blocks) \in Nat /\ \A i \in 1..Len(blocks) : blocks[i] \in 1..captured
    BY LenProperties, ElementOfSeq DEF VoiceInv, FromCapture
  <1>8. SpeechOf(blocks)' = SpeechOf(blocks)
    <2>1. SpeechOf(blocks)' = Kept(blocks, speech')[Len(blocks)]
      BY <1>1 DEF SpeechOf, Kept
    <2>2. Len(blocks) \in 0..Len(blocks) /\ Len(blocks) <= Len(blocks)
      BY <1>7
    <2>3. Kept(blocks, speech)[Len(blocks)] = Kept(blocks, speech')[Len(blocks)]
      BY <1>6, <1>7, <2>2, KeptPrefix
    <2> QED
      BY <2>1, <2>3, SpeechIsKept
  <1>9. TypeOK'
    BY <1>1, <1>2, <1>5 DEF VoiceInv, TypeOK
  <1>10. FromCapture'
    BY <1>1, <1>3, <1>5 DEF VoiceInv, FromCapture
  <1>11. SilentBefore'
    BY <1>1, <1>6, <1>7 DEF VoiceInv, SilentBefore
  <1> QED
    BY <1>1, <1>8, <1>9, <1>10, <1>11 DEF VoiceInv, SpeechKept

\* The segment as it is once the block at the queue's head has been put to it.
Extended ==
  LET b == Head(audioQueue)
  IN  (IF b \in speech /\ ~hasSpeech THEN blocks \o preBuf ELSE blocks) \o <<b>>

LEMMA ExtendedSegment ==
  ASSUME VoiceInv, audioQueue # <<>>
  PROVE  LET b == Head(audioQueue)
         IN  /\ b \in 1..captured /\ b \in Block
             /\ Tail(audioQueue) \in Seq(1..captured) /\ Tail(audioQueue) \in Seq(Block)
             /\ Len(Tail(audioQueue)) <= QueueMax
             /\ Extended \in Seq(1..captured) /\ Extended \in Seq(Block) /\ Extended # <<>>
             /\ Len(Extended) \in 1..(MaxBlocks + PreBlocks)
             /\ SpeechOf(Extended) = IF b \in speech THEN Append(SpeechOf(blocks), b) ELSE SpeechOf(blocks)
             /\ ~(hasSpeech \/ b \in speech) => \A i \in 1..Len(Extended) : Extended[i] \notin speech
  <1> DEFINE b == Head(audioQueue)
             onset == b \in speech /\ ~hasSpeech
             base == IF onset THEN blocks \o preBuf ELSE blocks
  <1>1. captured \in Nat /\ captured <= MaxCaptured /\ MaxCaptured \in Nat /\ QueueMax \in Nat
    BY VoiceAssumption DEF VoiceInv, TypeOK
  <1>2. 1..captured \subseteq Block
    BY <1>1 DEF Block
  <1>3. Seq(1..captured) \subseteq Seq(Block)
    BY <1>2, SeqMonotonic
  <1>4. /\ audioQueue \in Seq(1..captured) /\ preBuf \in Seq(1..captured) /\ blocks \in Seq(1..captured)
        /\ Len(audioQueue) <= QueueMax
    BY DEF VoiceInv, FromCapture, TypeOK
  <1>5. /\ b \in 1..captured /\ Tail(audioQueue) \in Seq(1..captured)
        /\ Len(Tail(audioQueue)) = Len(audioQueue) - 1 /\ Len(audioQueue) \in Nat
    <2>1. Len(audioQueue) \in Nat
      BY <1>4, LenProperties
    <2> QED
      BY <1>4, <2>1, HeadTailProperties
  <1>6. Len(Tail(audioQueue)) <= QueueMax
    BY <1>1, <1>4, <1>5
  <1> HIDE DEF b
  <1>7. base \in Seq(1..captured)
    BY <1>4, ConcatProperties
  <1>8. Len(base) \in 0..(MaxBlocks + PreBlocks - 1)
    <2>1. /\ Len(blocks) \in Nat /\ Len(preBuf) \in Nat /\ Len(blocks \o preBuf) = Len(blocks) + Len(preBuf)
      BY <1>4, ConcatProperties, LenProperties
    <2>2. Len(blocks) < MaxBlocks /\ Len(preBuf) <= PreBlocks
      BY DEF VoiceInv, TypeOK
    <2>3. MaxBlocks \in Nat /\ PreBlocks \in Nat
      BY VoiceAssumption
    <2>4. Len(base) = Len(blocks) \/ Len(base) = Len(blocks) + Len(preBuf)
      BY <2>1
    <2> HIDE DEF base
    <2> QED
      BY <2>1, <2>2, <2>3, <2>4
  <1>9. SpeechOf(base) = SpeechOf(blocks)
    <2>1. SpeechOf(blocks \o preBuf) = SpeechOf(blocks)
      <3>1. \A i \in 1..Len(preBuf) : preBuf[i] \notin speech
        BY DEF VoiceInv, SilentBefore
      <3> QED
        BY <1>4, <3>1, SpeechOfSilent
    <2> QED
      BY <2>1
  <1>10. ~(hasSpeech \/ b \in speech) => base = blocks /\ \A i \in 1..Len(blocks) : blocks[i] \notin speech
    BY DEF VoiceInv, SilentBefore
  <1>11. Extended = base \o <<b>>
    BY DEF Extended, b
  <1> HIDE DEF base
  <1>12. Extended = Append(base, b)
    BY <1>5, <1>7, <1>11, AppendIsConcat
  <1>13. /\ Extended \in Seq(1..captured) /\ Extended # <<>> /\ Len(Extended) = Len(base) + 1
         /\ Extended[Len(base) + 1] = b /\ \A i \in 1..Len(base) : Extended[i] = base[i]
    BY <1>5, <1>7, <1>12, AppendProperties
  <1>14. Len(Extended) \in 1..(MaxBlocks + PreBlocks)
    BY <1>8, <1>13, VoiceAssumption
  <1>15. SpeechOf(Extended) = IF b \in speech THEN Append(SpeechOf(blocks), b) ELSE SpeechOf(blocks)
    BY <1>5, <1>7, <1>9, <1>12, SpeechOfMore
  <1>16. ~(hasSpeech \/ b \in speech) => \A i \in 1..Len(Extended) : Extended[i] \notin speech
    <2>1. \A i \in 1..Len(Extended) : i \in 1..Len(base) \/ i = Len(base) + 1
      BY <1>8, <1>13
    <2> QED
      BY <1>10, <1>13, <2>1
  <1> QED
    BY <1>2, <1>3, <1>5, <1>6, <1>13, <1>14, <1>15, <1>16 DEF b

LEMMA PushedSilent ==
  ASSUME VoiceInv, NEW b \in 1..captured, b \notin speech
  PROVE  /\ Pushed(b) \in Seq(1..captured) /\ Len(Pushed(b)) <= PreBlocks
         /\ \A i \in 1..Len(Pushed(b)) : Pushed(b)[i] \notin speech
  <1> DEFINE all == Append(preBuf, b)
             n == Len(preBuf)
  <1>1. preBuf \in Seq(1..captured) /\ n <= PreBlocks /\ PreBlocks \in Nat
        /\ \A i \in 1..n : preBuf[i] \notin speech
    BY VoiceAssumption DEF VoiceInv, FromCapture, TypeOK, SilentBefore
  <1>2. /\ n \in Nat /\ all \in Seq(1..captured) /\ all # <<>> /\ Len(all) = n + 1 /\ all[n + 1] = b
        /\ \A i \in 1..n : all[i] = preBuf[i]
    <2>1. n \in Nat
      BY <1>1, LenProperties
    <2>2. b \in 1..captured
      OBVIOUS
    <2> QED
      BY <1>1, <2>1, <2>2, AppendProperties
  <1> HIDE DEF all, n
  <1>3. \A i \in 1..n + 1 : all[i] \notin speech
    <2>1. \A i \in 1..n + 1 : i \in 1..n \/ i = n + 1
      BY <1>2
    <2> QED
      BY <1>1, <1>2, <2>1
  <1>4. /\ Tail(all) \in Seq(1..captured) /\ Len(Tail(all)) = n
        /\ \A i \in 1..n : Tail(all)[i] = all[i + 1] /\ i + 1 \in 1..n + 1
    <2>1. Tail(all) \in Seq(1..captured) /\ Len(Tail(all)) = Len(all) - 1
          /\ \A i \in 1..Len(Tail(all)) : Tail(all)[i] = all[i + 1]
      BY <1>2, HeadTailProperties
    <2>2. \A i \in 1..n : i + 1 \in 1..n + 1
      BY <1>2
    <2> QED
      BY <1>2, <2>1, <2>2
  <1>5. Pushed(b) = IF n + 1 > PreBlocks THEN Tail(all) ELSE all
    BY <1>2 DEF Pushed, all, n
  <1>6. CASE n + 1 > PreBlocks
    BY <1>1, <1>3, <1>4, <1>5, <1>6
  <1>7. CASE ~(n + 1 > PreBlocks)
    BY <1>1, <1>2, <1>3, <1>5, <1>7
  <1> QED
    BY <1>6, <1>7

\* Handed over or still accumulated, the speech of the block is behind all that was taken.
LEMMA ProcessFrameStep ==
  ASSUME VoiceInv, ProcessFrame
  PROVE  VoiceInv'
  <1> DEFINE b == Head(audioQueue)
             voiced == hasSpeech \/ b \in speech
             onset == b \in speech /\ ~hasSpeech
             streak == IF b \in speech THEN 0 ELSE silenceStreak + 1
             forced == Len(Extended) >= MaxBlocks
             silent == voiced /\ streak >= SilenceBlocks /\ Len(Extended) >= MinBlocks
  <1>1. /\ audioQueue # <<>> /\ audioQueue' = Tail(audioQueue)
        /\ captured' = captured /\ speech' = speech
        /\ taken' = (IF b \in speech THEN Append(taken, b) ELSE taken)
        /\ IF forced \/ silent
             THEN /\ heard' = IF voiced THEN heard \o SpeechOf(Extended) ELSE heard
                  /\ preBuf' = <<>> /\ blocks' = <<>> /\ silenceStreak' = 0 /\ hasSpeech' = FALSE
             ELSE /\ blocks' = Extended /\ silenceStreak' = streak /\ hasSpeech' = voiced /\ heard' = heard
                  /\ preBuf' = IF onset THEN <<>> ELSE IF voiced THEN preBuf ELSE Pushed(b)
    BY DEF ProcessFrame, Extended, captureVars, Ends, HandOver, ResetInline
  <1>2. /\ b \in 1..captured /\ b \in Block
        /\ Tail(audioQueue) \in Seq(1..captured) /\ Tail(audioQueue) \in Seq(Block)
        /\ Len(Tail(audioQueue)) <= QueueMax
        /\ Extended \in Seq(1..captured) /\ Extended \in Seq(Block) /\ Extended # <<>>
        /\ Len(Extended) \in 1..(MaxBlocks + PreBlocks)
        /\ SpeechOf(Extended) = (IF b \in speech THEN Append(SpeechOf(blocks), b) ELSE SpeechOf(blocks))
        /\ (~voiced => \A i \in 1..Len(Extended) : Extended[i] \notin speech)
    BY <1>1, ExtendedSegment
  <1>3. ~voiced => /\ Pushed(b) \in Seq(1..captured) /\ Len(Pushed(b)) <= PreBlocks
                   /\ \A i \in 1..Len(Pushed(b)) : Pushed(b)[i] \notin speech
    BY <1>2, PushedSilent
  <1>4. /\ MaxBlocks \in Nat \ {0} /\ PreBlocks \in Nat /\ captured \in Nat /\ captured <= MaxCaptured
        /\ MaxCaptured \in Nat
    BY VoiceAssumption DEF VoiceInv, TypeOK
  <1>5. 1..captured \subseteq Block /\ Seq(1..captured) \subseteq Seq(Block)
    <2>1. 1..captured \subseteq Block
      BY <1>4 DEF Block
    <2> QED
      BY <2>1, SeqMonotonic
  <1>6. \A T : <<>> \in Seq(T)
    BY EmptySeq
  <1>7. Len(<<>>) = 0
    BY EmptySeq
  <1>8. /\ taken \in Seq(Block) /\ heard \in Seq(Block) /\ blocks \in Seq(Block)
        /\ SpeechOf(blocks) \in Seq(Block) /\ SpeechOf(Extended) \in Seq(Block)
        /\ taken = heard \o SpeechOf(blocks)
    <2>1. taken \in Seq(Block) /\ heard \in Seq(Block) /\ blocks \in Seq(Block) /\ taken = heard \o SpeechOf(blocks)
      BY DEF VoiceInv, TypeOK, SpeechKept
    <2> QED
      BY <1>2, <2>1, KeptType, SpeechIsKept
  <1>9. streak \in Nat
    BY DEF VoiceInv, TypeOK
  <1> HIDE DEF b, streak
  <1>10. taken' = heard \o SpeechOf(Extended)
    <2>1. CASE b \in speech
      <3>1. Append(taken, b) = taken \o <<b>> /\ Append(SpeechOf(blocks), b) = SpeechOf(blocks) \o <<b>>
        BY <1>2, <1>8, AppendIsConcat
      <3>2. <<b>> \in Seq(Block)
        BY <1>2
      <3>3. heard \in Seq(Block) /\ SpeechOf(blocks) \in Seq(Block)
        BY Zenon, <1>8
      <3> DEFINE said == SpeechOf(blocks)  last == <<b>>
      <3>4. (heard \o said) \o last = heard \o (said \o last)
        <4> HIDE DEF said, last
        <4>1. said \in Seq(Block) /\ last \in Seq(Block)
          BY Zenon, <3>2, <3>3 DEF said, last
        <4> QED
          BY <3>3, <4>1
      <3> QED
        BY <1>1, <1>2, <1>8, <2>1, <3>1, <3>4
    <2>2. CASE b \notin speech
      BY <1>1, <1>2, <1>8, <2>2
    <2> QED
      BY <2>1, <2>2
  <1>11. taken' \in Seq(Block)
    BY <1>8, <1>10, ConcatProperties
  <1>12. SpeechOf(<<>>)' = <<>>
    <2>1. SpeechOf(<<>>)' = Kept(<<>>, speech')[Len(<<>>)]
      BY DEF SpeechOf, Kept
    <2> QED
      BY <1>7, <2>1, KeptIs
  <1>13. CASE forced \/ silent
    <2>1. /\ heard' = (IF voiced THEN heard \o SpeechOf(Extended) ELSE heard)
          /\ preBuf' = <<>> /\ blocks' = <<>> /\ silenceStreak' = 0 /\ hasSpeech' = FALSE
      BY <1>1, <1>13
    <2>2. taken' = heard'
      <3>1. CASE voiced
        BY <1>10, <2>1, <3>1
      <3>2. CASE ~voiced
        <4>1. SpeechOf(Extended) = <<>>
          BY <1>2, <3>2, AllSilent
        <4> QED
          BY <1>8, <1>10, <2>1, <3>2, <4>1, ConcatEmptySeq
      <3> QED
        BY <3>1, <3>2
    <2>3. SpeechKept'
      <3>1. SpeechOf(blocks)' = <<>>
        BY <1>12, <2>1 DEF SpeechOf
      <3>2. heard' \o <<>> = heard'
        BY <1>11, <2>2, ConcatEmptySeq
      <3> QED
        BY <2>2, <3>1, <3>2 DEF SpeechKept
    <2>4. TypeOK'
      <3>1. Len(preBuf') <= PreBlocks /\ Len(blocks') < MaxBlocks
        BY <1>4, <1>7, <2>1
      <3>2. preBuf' \in Seq(Block) /\ blocks' \in Seq(Block) /\ heard' \in Seq(Block)
            /\ silenceStreak' \in Nat /\ hasSpeech' \in BOOLEAN
        BY <1>6, <1>11, <2>1, <2>2
      <3>3. captured' \in 0..MaxCaptured /\ speech' \subseteq 1..captured'
        BY <1>1 DEF VoiceInv, TypeOK
      <3> QED
        BY <1>1, <1>2, <1>11, <3>1, <3>2, <3>3 DEF TypeOK
    <2>5. FromCapture' /\ SilentBefore'
      BY <1>1, <1>2, <1>6, <1>7, <2>1 DEF FromCapture, SilentBefore
    <2> QED
      BY <2>3, <2>4, <2>5 DEF VoiceInv
  <1>14. CASE ~(forced \/ silent)
    <2>1. /\ blocks' = Extended /\ silenceStreak' = streak /\ hasSpeech' = voiced /\ heard' = heard
          /\ preBuf' = (IF onset THEN <<>> ELSE IF voiced THEN preBuf ELSE Pushed(b))
      BY <1>1, <1>14
    <2>2. Len(Extended) < MaxBlocks
      BY <1>2, <1>4, <1>14
    <2>3. SpeechKept'
      <3>1. SpeechOf(blocks)' = SpeechOf(Extended)
        BY <1>1, <2>1 DEF SpeechOf
      <3> QED
        BY <1>10, <2>1, <3>1 DEF SpeechKept
    <2>4. /\ preBuf' \in Seq(1..captured) /\ Len(preBuf') <= PreBlocks
          /\ \A i \in 1..Len(preBuf') : preBuf'[i] \notin speech
      <3>1. CASE onset
        BY <1>4, <1>6, <1>7, <2>1, <3>1
      <3>2. CASE ~onset /\ voiced
        BY <2>1, <3>2 DEF VoiceInv, TypeOK, FromCapture, SilentBefore
      <3>3. CASE ~voiced
        BY <1>3, <2>1, <3>3
      <3> QED
        BY <3>1, <3>2, <3>3
    <2>5. FromCapture' /\ SilentBefore'
      BY <1>1, <1>2, <2>1, <2>4 DEF FromCapture, SilentBefore
    <2>6. TypeOK'
      <3>1. preBuf' \in Seq(Block) /\ hasSpeech' \in BOOLEAN
        BY <1>5, <2>1, <2>4 DEF VoiceInv, TypeOK
      <3> QED
        BY <1>1, <1>2, <1>9, <1>11, <2>1, <2>2, <2>4, <3>1 DEF VoiceInv, TypeOK
    <2> QED
      BY <2>3, <2>5, <2>6 DEF VoiceInv
  <1> QED
    BY <1>13, <1>14

\* The idle check hands over what has been accumulated.
LEMMA CheckIdleStep ==
  ASSUME VoiceInv, CheckIdle
  PROVE  VoiceInv'
  <1>1. /\ UNCHANGED <<captured, speech, audioQueue, taken>>
        /\ heard' = heard \o SpeechOf(blocks)
        /\ preBuf' = <<>> /\ blocks' = <<>> /\ silenceStreak' = 0 /\ hasSpeech' = FALSE
    BY DEF CheckIdle, captureVars, HandOver, ResetInline
  <1>2. Len(<<>>) = 0 /\ (\A T : <<>> \in Seq(T)) /\ 0 <= PreBlocks /\ 0 < MaxBlocks
    <2>1. Len(<<>>) = 0
      BY EmptySeq
    <2> QED
      BY <2>1, EmptySeq, VoiceAssumption
  <1>3. heard' = taken /\ taken \in Seq(Block)
    BY <1>1 DEF VoiceInv, SpeechKept, TypeOK
  <1>4. SpeechKept'
    <2>1. SpeechOf(blocks)' = <<>>
      <3>1. SpeechOf(blocks)' = Kept(blocks', speech')[Len(blocks')]
        BY DEF SpeechOf, Kept
      <3>2. SpeechOf(blocks)' = Kept(<<>>, speech')[Len(<<>>)]
        BY Zenon, <1>1, <3>1
      <3> QED
        BY <1>2, <3>2, KeptIs
    <2>2. taken \o <<>> = taken
      BY <1>3, ConcatEmptySeq
    <2> QED
      BY <1>1, <1>3, <2>1, <2>2 DEF SpeechKept
  <1>5. TypeOK'
    BY <1>1, <1>2, <1>3 DEF VoiceInv, TypeOK
  <1>6. FromCapture' /\ SilentBefore'
    BY <1>1, <1>2 DEF VoiceInv, FromCapture, SilentBefore
  <1> QED
    BY <1>4, <1>5, <1>6 DEF VoiceInv

LEMMA VoiceStutter ==
  ASSUME VoiceInv, UNCHANGED vars
  PROVE  VoiceInv'
  <1>1. /\ UNCHANGED <<captured, speech, audioQueue, taken, heard>>
        /\ UNCHANGED <<preBuf, blocks, silenceStreak, hasSpeech>>
    BY DEF vars, captureVars, inlineVars
  <1>2. SpeechOf(blocks)' = SpeechOf(blocks)
    BY <1>1 DEF SpeechOf
  <1>3. TypeOK' /\ FromCapture' /\ SilentBefore'
    BY <1>1 DEF VoiceInv, TypeOK, FromCapture, SilentBefore
  <1> QED
    BY <1>1, <1>2, <1>3 DEF VoiceInv, SpeechKept

\* A segment that is handed over has at least one block, and no more than MaxBlocks with
\* the pre-buffer put in.
LEMMA SegmentLengthBounded ==
  ASSUME VoiceInv, VAD
  PROVE  SegmentLength \in 1..(MaxBlocks + PreBlocks)
  <1>1. /\ blocks \in Seq(1..captured) /\ preBuf \in Seq(1..captured) /\ Len(blocks) < MaxBlocks
        /\ Len(preBuf) <= PreBlocks /\ MaxBlocks \in Nat /\ PreBlocks \in Nat
    BY VoiceAssumption DEF VoiceInv, FromCapture, TypeOK
  <1>2. Len(blocks) \in Nat /\ Len(preBuf) \in Nat /\ (blocks # <<>> => Len(blocks) # 0)
    BY <1>1, LenProperties, EmptySeq
  <1>3. audioQueue = <<>> => blocks # <<>>
    BY DEF VAD, ProcessFrame, CheckIdle
  <1>4. \/ SegmentLength = Len(blocks) + 1 + Len(preBuf)
        \/ SegmentLength = Len(blocks) + 1
        \/ audioQueue = <<>> /\ SegmentLength = Len(blocks)
    <2> DEFINE onset == Head(audioQueue) \in speech /\ ~hasSpeech
    <2>1. SegmentLength = IF audioQueue = <<>> THEN Len(blocks)
                          ELSE Len(blocks) + 1 + (IF onset THEN Len(preBuf) ELSE 0)
      BY DEF SegmentLength
    <2> HIDE DEF onset
    <2>2. CASE audioQueue = <<>>
      BY <2>1, <2>2
    <2>3. CASE audioQueue # <<>> /\ onset
      BY <2>1, <2>3
    <2>4. CASE audioQueue # <<>> /\ ~onset
      <3>1. SegmentLength = Len(blocks) + 1 + 0
        BY <2>1, <2>4
      <3> QED
        BY <1>2, <3>1
    <2> QED
      BY <2>2, <2>3, <2>4
  <1>5. CASE audioQueue = <<>> /\ SegmentLength = Len(blocks)
    BY <1>1, <1>2, <1>3, <1>5
  <1> QED
    BY <1>1, <1>2, <1>4, <1>5

-----------------------------------------------------------------------------
\* The length of the buffer.

Sum(segs) ==
  LET sum[n \in 0..Len(segs)] == IF n = 0 THEN 0 ELSE sum[n - 1] + segs[n].length
  IN  sum

SumOf(segs, sum, n) == IF n = 0 THEN 0 ELSE sum[n - 1] + segs[n].length

LEMMA TotalIsSum == \A segs : Manual!Total(segs) = Sum(segs)[Len(segs)]
  BY DEF Manual!Total, Sum

LEMMA SumExists ==
  ASSUME NEW segs, NEW m \in Nat
  PROVE  \E sum : sum = [n \in 0..m |-> SumOf(segs, sum, n)]
  <1> DEFINE Exists(k) == \E sum : sum = [n \in 0..k |-> SumOf(segs, sum, n)]
             Failing == {k \in Nat : ~Exists(k)}
  <1> SUFFICES ASSUME Failing # {} PROVE FALSE
    OBVIOUS
  <1>1. PICK k \in Failing : \A j \in Failing : k <= j
    BY LeastNumber
  <1>2. k # 0
    <2> DEFINE zero == [n \in 0..0 |-> 0]
    <2>1. zero = [n \in 0..0 |-> SumOf(segs, zero, n)]
      BY DEF SumOf
    <2> QED
      BY <2>1
  <1>3. k \in Nat /\ k - 1 \in Nat /\ k - 1 \notin Failing
    BY <1>1, <1>2
  <1>4. PICK g : g = [n \in 0..k - 1 |-> SumOf(segs, g, n)]
    BY <1>3
  <1> DEFINE h == [n \in 0..k |-> IF n = k THEN SumOf(segs, g, k) ELSE g[n]]
  <1>5. \A n \in 0..k : h[n] = SumOf(segs, h, n)
    <2> SUFFICES ASSUME NEW n \in 0..k PROVE h[n] = SumOf(segs, h, n)
      OBVIOUS
    <2>1. n # 0 => n - 1 \in 0..k - 1 /\ h[n - 1] = g[n - 1]
      BY <1>3
    <2>2. SumOf(segs, h, n) = SumOf(segs, g, n)
      BY <2>1 DEF SumOf
    <2>3. n # k => n \in 0..k - 1 /\ h[n] = g[n]
      BY <1>3
    <2>4. n # k => g[n] = SumOf(segs, g, n)
      BY <1>4, <2>3
    <2>5. n = k => h[n] = SumOf(segs, g, n)
      OBVIOUS
    <2> QED
      BY <2>2, <2>3, <2>4, <2>5
  <1>6. h = [n \in 0..k |-> h[n]]
    OBVIOUS
  <1> HIDE DEF h
  <1>7. h = [n \in 0..k |-> SumOf(segs, h, n)]
    BY <1>5, <1>6
  <1>8. Exists(k)
    BY <1>7
  <1> QED
    BY <1>8

LEMMA SumIs ==
  ASSUME NEW segs, Len(segs) \in Nat
  PROVE  /\ Sum(segs)[0] = 0
         /\ \A n \in 1..Len(segs) : Sum(segs)[n] = Sum(segs)[n - 1] + segs[n].length
  <1> DEFINE sum == Sum(segs)
  <1>1. \E g : g = [n \in 0..Len(segs) |-> SumOf(segs, g, n)]
    BY SumExists
  <1>2. sum = [n \in 0..Len(segs) |-> SumOf(segs, sum, n)]
    BY Zenon, <1>1 DEF Sum, SumOf
  <1> HIDE DEF sum
  <1>3. \A n \in 0..Len(segs) : sum[n] = SumOf(segs, sum, n)
    BY <1>2
  <1>4. (\A n \in 1..Len(segs) : n \in 0..Len(segs) /\ n # 0) /\ 0 \in 0..Len(segs)
    OBVIOUS
  <1>5. sum[0] = 0 /\ \A n \in 1..Len(segs) : sum[n] = sum[n - 1] + segs[n].length
    BY <1>3, <1>4 DEF SumOf
  <1> QED
    BY <1>5 DEF sum

\* Segments of any whole length, for the sums alone.
Sized == [number : Nat, length : Nat]

LEMMA SumType ==
  ASSUME NEW segs \in Seq(Sized), NEW m \in 0..Len(segs)
  PROVE  Sum(segs)[m] \in Nat
  <1>0. Len(segs) \in Nat /\ \A i \in 1..Len(segs) : segs[i].length \in Nat
    <2>1. \A i \in 1..Len(segs) : segs[i] \in Sized
      BY ElementOfSeq
    <2> QED
      BY <2>1, LenProperties DEF Sized
  <1> DEFINE Failing == {k \in 0..Len(segs) : Sum(segs)[k] \notin Nat}
  <1> SUFFICES ASSUME Failing # {} PROVE FALSE
    BY <1>0
  <1>1. PICK k \in Failing : \A j \in Failing : k <= j
    <2>1. Failing \subseteq Nat
      BY <1>0
    <2> QED
      BY <2>1, LeastNumber
  <1>2. k # 0
    <2>1. Sum(segs)[0] = 0
      BY <1>0, SumIs
    <2> QED
      BY <1>1, <2>1
  <1>3. k \in 1..Len(segs) /\ k - 1 \in 0..Len(segs) /\ ~(k <= k - 1)
    BY <1>0, <1>1, <1>2
  <1>4. Sum(segs)[k - 1] \in Nat
    BY <1>1, <1>3
  <1>5. Sum(segs)[k] \in Nat
    <2>1. Sum(segs)[k] = Sum(segs)[k - 1] + segs[k].length
      BY <1>0, <1>3, SumIs
    <2> QED
      BY <1>0, <1>3, <1>4, <2>1
  <1> QED
    BY <1>1, <1>5

LEMMA TotalOfNone == Manual!Total(<<>>) = 0
  <1>1. Len(<<>>) = 0
    BY EmptySeq
  <1> QED
    BY <1>1, TotalIsSum, SumIs

LEMMA TotalOfMore ==
  ASSUME NEW segs \in Seq(Sized), NEW s \in Sized
  PROVE  Manual!Total(Append(segs, s)) = Manual!Total(segs) + s.length
  <1> DEFINE t == Append(segs, s)
             n == Len(segs)
  <1>1. /\ n \in Nat /\ Len(t) = n + 1 /\ t[n + 1] = s
        /\ \A i \in 1..n : t[i] = segs[i]
    BY AppendProperties, LenProperties
  <1> DEFINE Failing == {k \in 0..n : Sum(segs)[k] # Sum(t)[k]}
  <1>2. Failing = {}
    <2> HIDE DEF t, n
    <2> SUFFICES ASSUME Failing # {} PROVE FALSE
      OBVIOUS
    <2>1. PICK k \in Failing : \A j \in Failing : k <= j
      <3>1. Failing \subseteq Nat
        BY <1>1
      <3> QED
        BY <3>1, LeastNumber
    <2>2. Len(segs) = n /\ Len(segs) \in Nat /\ Len(t) \in Nat
      BY <1>1 DEF n
    <2>3. k # 0
      <3>1. Sum(segs)[0] = 0 /\ Sum(t)[0] = 0
        BY <2>2, SumIs
      <3> QED
        BY <2>1, <3>1
    <2>4. k \in 1..n /\ k \in 1..Len(t) /\ k - 1 \in 0..n /\ ~(k <= k - 1)
      BY <1>1, <2>1, <2>3
    <2>5. Sum(segs)[k - 1] = Sum(t)[k - 1]
      BY <2>1, <2>4
    <2>6. Sum(segs)[k] = Sum(segs)[k - 1] + segs[k].length /\ Sum(t)[k] = Sum(t)[k - 1] + t[k].length
      BY <2>2, <2>4, SumIs
    <2> QED
      BY <1>1, <2>1, <2>4, <2>5, <2>6
  <1>3. Sum(t)[n + 1] = Sum(t)[n] + s.length
    <2> HIDE DEF t, n
    <2>1. n + 1 \in 1..Len(t) /\ Len(t) \in Nat /\ (n + 1) - 1 = n
      BY <1>1
    <2> QED
      BY <1>1, <2>1, SumIs
  <1>4. Sum(segs)[n] = Sum(t)[n]
    BY <1>1, <1>2
  <1>5. Manual!Total(t) = Sum(t)[n + 1] /\ Manual!Total(segs) = Sum(segs)[n]
    BY <1>1, TotalIsSum
  <1> QED
    BY <1>3, <1>4, <1>5

LEMMA TotalOfTail ==
  ASSUME NEW segs \in Seq(Sized), segs # <<>>
  PROVE  Manual!Total(Tail(segs)) = Manual!Total(segs) - segs[1].length
  <1> DEFINE t == Tail(segs)
             n == Len(segs)
  <1>1. /\ n \in Nat \ {0} /\ Len(t) = n - 1 /\ Len(t) \in Nat
        /\ \A i \in 1..n - 1 : t[i] = segs[i + 1]
    <2>1. n \in Nat \ {0}
      BY LenProperties, EmptySeq
    <2>2. Len(t) = n - 1 /\ \A i \in 1..Len(t) : t[i] = segs[i + 1]
      BY HeadTailProperties
    <2> QED
      BY <2>1, <2>2
  <1>2. t \in Seq(Sized) /\ segs[1] \in Sized /\ \A i \in 1..n : segs[i].length \in Nat
    <2>1. t \in Seq(Sized)
      BY HeadTailProperties
    <2>2. \A i \in 1..n : segs[i] \in Sized
      BY ElementOfSeq
    <2> QED
      BY <1>1, <2>1, <2>2 DEF Sized
  <1>3. /\ \A k \in 0..n : Sum(segs)[k] \in Nat
        /\ \A k \in 0..n - 1 : Sum(t)[k] \in Nat
    <2>1. \A k \in 0..Len(t) : Sum(t)[k] \in Nat
      BY <1>2, SumType
    <2> QED
      BY <1>1, <2>1, SumType
  <1> DEFINE Failing == {k \in 0..n - 1 : Sum(t)[k] # Sum(segs)[k + 1] - segs[1].length}
  <1>4. Failing = {}
    <2>2. Len(segs) = n /\ Len(segs) \in Nat /\ Len(t) \in Nat
      BY <1>1
    <2> HIDE DEF t, n
    <2> SUFFICES ASSUME Failing # {} PROVE FALSE
      OBVIOUS
    <2>1. PICK k \in Failing : \A j \in Failing : k <= j
      <3>1. Failing \subseteq Nat
        BY <1>1
      <3> QED
        BY <3>1, LeastNumber
    <2>3. k # 0
      <3>1. Sum(segs)[0] = 0 /\ Sum(t)[0] = 0
        BY <2>2, SumIs
      <3>2. 1 \in 1..Len(segs) /\ 1 - 1 = 0
        BY <1>1, <2>2
      <3>3. Sum(segs)[1] = Sum(segs)[0] + segs[1].length
        BY <2>2, <3>2, SumIs
      <3>4. segs[1].length \in Nat
        BY <1>2, <2>2, <3>2
      <3> QED
        BY <2>1, <3>1, <3>3, <3>4
    <2>4. k \in 1..n - 1 /\ k \in 1..Len(t) /\ k + 1 \in 1..Len(segs) /\ k - 1 \in 0..n - 1
          /\ ~(k <= k - 1) /\ (k + 1) - 1 = k /\ (k - 1) + 1 = k /\ k \in 0..n /\ 1 \in 1..n
      BY <1>1, <2>1, <2>2, <2>3
    <2>5. Sum(t)[k - 1] = Sum(segs)[k] - segs[1].length
      BY <2>1, <2>4
    <2>6. Sum(t)[k] = Sum(t)[k - 1] + t[k].length
      BY <2>2, <2>4, SumIs
    <2>7. Sum(segs)[k + 1] = Sum(segs)[k] + segs[k + 1].length
      BY <2>2, <2>4, SumIs
    <2>8. t[k] = segs[k + 1]
      BY <1>1, <2>4
    <2>9. Sum(segs)[k] \in Nat /\ segs[k + 1].length \in Nat /\ segs[1].length \in Nat
      BY <1>2, <1>3, <2>2, <2>4
    <2>10. Sum(t)[k] = Sum(segs)[k + 1] - segs[1].length
      BY <2>5, <2>6, <2>7, <2>8, <2>9
    <2> QED
      BY <2>1, <2>10
  <1>5. n - 1 \in 0..n - 1 /\ (n - 1) + 1 = n
    BY <1>1
  <1>6. Sum(t)[n - 1] = Sum(segs)[n] - segs[1].length
    BY <1>4, <1>5
  <1>7. Manual!Total(t) = Sum(t)[n - 1] /\ Manual!Total(segs) = Sum(segs)[n]
    BY <1>1, TotalIsSum
  <1> QED
    BY <1>6, <1>7

-----------------------------------------------------------------------------
\* The buffer.

\* The segment on its way is the newest, and newer than all in the buffer and all flushed.
Newest ==
  /\ \A i \in DOMAIN audioBuffer : audioBuffer[i].number <= finalized
  /\ \A f \in flushed : f <= finalized
  /\ routing # <<>> =>
       /\ routing[1].number = finalized
       /\ \A i \in DOMAIN audioBuffer : audioBuffer[i].number < finalized
       /\ \A f \in flushed : f < finalized

\* As long as no 'c' has come between, the counter is right.
Counted == clears = 0 => duration = Manual!Total(audioBuffer)

BufferInv == Manual!TypeOK /\ Manual!HandedOverInOrder /\ Newest /\ Counted

LEMMA Bounds ==
  /\ Ceiling \in Nat /\ MaxSegments \in Nat /\ MaxClears \in Nat
  /\ Manual!Segment \subseteq Sized
  /\ \A s \in Manual!Segment : s.number \in 1..MaxSegments /\ s.length \in Nat
  <1>1. Ceiling \in Nat /\ MaxSegments \in Nat /\ MaxClears \in Nat
    BY AudioPathAssumption DEF Manual!BufferAssumption
  <1>2. 1..MaxSegments \subseteq Nat /\ 1..(MaxBlocks + PreBlocks) \subseteq Nat
    BY <1>1, VoiceAssumption
  <1> QED
    BY <1>1, <1>2 DEF Manual!Segment, Sized

\* The buffer is a sequence of segments.
LEMMA BufferType ==
  ASSUME BufferInv
  PROVE  /\ audioBuffer \in Seq(Manual!Segment) /\ audioBuffer \in Seq(Sized)
         /\ Len(audioBuffer) \in Nat /\ DOMAIN audioBuffer = 1..Len(audioBuffer)
         /\ \A i \in DOMAIN audioBuffer : audioBuffer[i] \in Manual!Segment /\ audioBuffer[i].number \in Nat
         /\ finalized \in Nat /\ flushed \subseteq Nat /\ duration \in Int /\ segments \in Nat
  <1>1. audioBuffer \in Seq(Manual!Segment)
    BY DEF BufferInv, Manual!TypeOK
  <1>2. Len(audioBuffer) \in Nat /\ DOMAIN audioBuffer = 1..Len(audioBuffer)
    BY <1>1, LenProperties
  <1>3. \A i \in DOMAIN audioBuffer : audioBuffer[i] \in Manual!Segment
    BY <1>1, <1>2, ElementOfSeq
  <1>4. audioBuffer \in Seq(Sized)
    BY <1>1, Bounds, SeqMonotonic
  <1>5. 1..MaxSegments \subseteq Nat /\ 0..MaxSegments \subseteq Nat
    BY Bounds
  <1> QED
    BY <1>1, <1>2, <1>3, <1>4, <1>5, Bounds DEF BufferInv, Manual!TypeOK

LEMMA BufferInit == Manual!Init => BufferInv
  <1> SUFFICES ASSUME Manual!Init PROVE BufferInv
    OBVIOUS
  <1>1. DOMAIN <<>> = {} /\ \A T : <<>> \in Seq(T)
    BY EmptySeq
  <1>2. 0 \in 0..MaxSegments /\ 0 \in 0..MaxClears
    BY Bounds
  <1> QED
    BY <1>1, <1>2, TotalOfNone
       DEF Manual!Init, BufferInv, Manual!TypeOK, Manual!HandedOverInOrder, Newest, Counted

LEMMA BufferStutter == BufferInv /\ UNCHANGED manualVars => BufferInv'
  <1> SUFFICES ASSUME BufferInv, UNCHANGED manualVars PROVE BufferInv'
    OBVIOUS
  <1>1. /\ UNCHANGED <<finalized, routing, audioBuffer, duration, segments>>
        /\ UNCHANGED <<recordingActive, toggling, flushed, clears>>
    BY DEF manualVars
  <1>2. Manual!Total(audioBuffer)' = Manual!Total(audioBuffer)
    BY <1>1 DEF Manual!Total
  <1> QED
    BY <1>1, <1>2 DEF BufferInv, Manual!TypeOK, Manual!HandedOverInOrder, Newest, Counted

LEMMA RouteStep ==
  ASSUME BufferInv, NEW length \in 1..(MaxBlocks + PreBlocks), Manual!RouteSegment(length)
  PROVE  BufferInv'
  <1>1. /\ finalized < MaxSegments /\ routing = <<>> /\ finalized' = finalized + 1
        /\ routing' = (IF recordingActive THEN <<[number |-> finalized', length |-> length]>> ELSE <<>>)
        /\ UNCHANGED <<audioBuffer, duration, segments, recordingActive, toggling, flushed, clears>>
    BY DEF Manual!RouteSegment, Manual!bufferVars, Manual!gateVars
  <1>2. finalized \in 0..MaxSegments /\ MaxSegments \in Nat
    BY Bounds DEF BufferInv, Manual!TypeOK
  <1>3. finalized' \in 0..MaxSegments /\ finalized' \in 1..MaxSegments /\ finalized' = finalized + 1
    BY <1>1, <1>2
  <1>4. [number |-> finalized', length |-> length] \in Manual!Segment
    BY <1>3 DEF Manual!Segment
  <1>5. Manual!TypeOK'
    BY <1>1, <1>3, <1>4 DEF BufferInv, Manual!TypeOK
  <1>6. Newest'
    <2>1. \A i \in DOMAIN audioBuffer : audioBuffer[i].number < finalized'
      BY <1>1, BufferType DEF BufferInv, Newest
    <2>2. \A f \in flushed : f < finalized'
      BY <1>1, BufferType DEF BufferInv, Newest
    <2>3. routing' # <<>> => routing'[1].number = finalized'
      BY <1>1
    <2>4. \A n \in Nat : n < finalized' => n <= finalized'
      BY <1>3
    <2> QED
      BY <1>1, <2>1, <2>2, <2>3, <2>4, BufferType DEF Newest
  <1>7. Manual!HandedOverInOrder' /\ Counted'
    BY <1>1 DEF BufferInv, Manual!HandedOverInOrder, Counted, Manual!Total
  <1> QED
    BY <1>5, <1>6, <1>7 DEF BufferInv

\* The buffer without its oldest segment, if that is evicted.
Remaining ==
  IF duration + routing[1].length > Ceiling /\ audioBuffer # <<>> THEN Tail(audioBuffer) ELSE audioBuffer

LEMMA RemainingSegments ==
  ASSUME BufferInv
  PROVE  /\ Remaining \in Seq(Manual!Segment) /\ Remaining \in Seq(Sized)
         /\ Len(Remaining) \in Nat /\ DOMAIN Remaining = 1..Len(Remaining)
         /\ \/ Remaining = audioBuffer
            \/ \A i \in DOMAIN Remaining : i + 1 \in DOMAIN audioBuffer /\ Remaining[i] = audioBuffer[i + 1]
         /\ \A i \in DOMAIN Remaining : \E j \in DOMAIN audioBuffer : Remaining[i] = audioBuffer[j]
  <1>1. CASE Remaining = audioBuffer
    BY <1>1, BufferType
  <1>2. CASE audioBuffer # <<>> /\ Remaining = Tail(audioBuffer)
    <2>1. /\ Remaining \in Seq(Manual!Segment) /\ Remaining \in Seq(Sized)
          /\ Len(Remaining) = Len(audioBuffer) - 1
          /\ \A i \in 1..Len(Remaining) : Remaining[i] = audioBuffer[i + 1]
      <3>1. audioBuffer \in Seq(Manual!Segment) /\ audioBuffer \in Seq(Sized)
        BY BufferType
      <3> QED
        BY <1>2, <3>1, HeadTailProperties
    <2>2. Len(Remaining) \in Nat /\ DOMAIN Remaining = 1..Len(Remaining)
      BY <2>1, LenProperties
    <2>3. \A i \in DOMAIN Remaining : i + 1 \in DOMAIN audioBuffer
      BY <2>1, <2>2, BufferType
    <2> QED
      BY <2>1, <2>2, <2>3
  <1> QED
    BY <1>1, <1>2 DEF Remaining

LEMMA AppendStep ==
  ASSUME BufferInv, Manual!AppendSegment
  PROVE  BufferInv'
  <1> DEFINE s == routing[1]
             evicts == duration + s.length > Ceiling /\ audioBuffer # <<>>
             n == Len(Remaining)
  <1>1. /\ routing # <<>> /\ routing' = <<>>
        /\ audioBuffer' = Append(Remaining, s)
        /\ duration' = duration + s.length - (IF evicts THEN audioBuffer[1].length ELSE 0)
        /\ segments' = (IF evicts /\ segments > 0 THEN segments - 1 ELSE segments) + 1
        /\ UNCHANGED <<finalized, recordingActive, toggling, flushed, clears>>
    BY DEF Manual!AppendSegment, Manual!Evicts, Manual!gateVars, Remaining
  <1>2. /\ s \in Manual!Segment /\ s \in Sized /\ s.number \in Nat /\ s.length \in Nat
        /\ s.number = finalized
    <2>1. s \in Manual!Segment
      BY <1>1 DEF BufferInv, Manual!TypeOK
    <2>2. 1..MaxSegments \subseteq Nat
      BY Bounds
    <2> QED
      BY <1>1, <2>1, <2>2, Bounds DEF BufferInv, Newest
  <1> HIDE DEF s
  <1>3. /\ audioBuffer' \in Seq(Manual!Segment) /\ n \in Nat /\ Len(audioBuffer') = n + 1
        /\ DOMAIN audioBuffer' = 1..n + 1
        /\ audioBuffer'[n + 1] = s /\ \A i \in 1..n : audioBuffer'[i] = Remaining[i]
        /\ \A i \in 1..n + 1 : i \in 1..n \/ i = n + 1
    <2>1. Remaining \in Seq(Manual!Segment) /\ n \in Nat
      BY RemainingSegments
    <2>2. /\ audioBuffer' \in Seq(Manual!Segment) /\ Len(audioBuffer') = n + 1
          /\ audioBuffer'[n + 1] = s /\ \A i \in 1..n : audioBuffer'[i] = Remaining[i]
      BY <1>1, <1>2, <2>1, AppendProperties
    <2>3. DOMAIN audioBuffer' = 1..n + 1
      BY <2>2, LenProperties
    <2> QED
      BY <2>1, <2>2, <2>3
  <1>4. DOMAIN Remaining = 1..n
    BY RemainingSegments
  <1>5. \A i \in 1..n : Remaining[i].number \in Nat /\ Remaining[i].number < finalized
    <2>1. \A j \in DOMAIN audioBuffer : audioBuffer[j].number \in Nat /\ audioBuffer[j].number < finalized
      BY <1>1, BufferType DEF BufferInv, Newest
    <2> QED
      BY <1>4, <2>1, RemainingSegments
  <1>6. \A i, j \in 1..n : i < j => Remaining[i].number < Remaining[j].number
    <2>1. \A i, j \in DOMAIN audioBuffer : i < j => audioBuffer[i].number < audioBuffer[j].number
      BY DEF BufferInv, Manual!HandedOverInOrder
    <2>2. CASE Remaining = audioBuffer
      BY <1>4, <2>1, <2>2
    <2>3. CASE \A i \in DOMAIN Remaining : i + 1 \in DOMAIN audioBuffer /\ Remaining[i] = audioBuffer[i + 1]
      <3>1. \A i, j \in 1..n : i < j => i + 1 < j + 1
        BY <1>3
      <3> QED
        BY <1>4, <2>1, <2>3, <3>1
    <2> QED
      BY <2>2, <2>3, RemainingSegments
  <1>7. Manual!HandedOverInOrder'
    <2>1. ASSUME NEW i \in DOMAIN audioBuffer', NEW j \in DOMAIN audioBuffer', i < j
          PROVE  audioBuffer'[i].number < audioBuffer'[j].number
      <3>1. i \in 1..n
        BY <1>3, <2>1
      <3>2. CASE j \in 1..n
        BY <1>3, <1>6, <2>1, <3>1, <3>2
      <3>3. CASE j = n + 1
        BY <1>2, <1>3, <1>5, <3>1, <3>3
      <3> QED
        BY <1>3, <3>2, <3>3
    <2>2. ASSUME NEW f \in flushed', NEW i \in DOMAIN audioBuffer'
          PROVE  f < audioBuffer'[i].number
      <3>1. f \in flushed
        BY <1>1
      <3>2. CASE i \in 1..n
        <4>1. \A j \in DOMAIN audioBuffer : f < audioBuffer[j].number
          BY <3>1 DEF BufferInv, Manual!HandedOverInOrder
        <4>2. f < Remaining[i].number
          BY <1>4, <3>2, <4>1, RemainingSegments
        <4> QED
          BY <1>3, <3>2, <4>2
      <3>3. CASE i = n + 1
        BY <1>1, <1>2, <1>3, <3>1, <3>3 DEF BufferInv, Newest
      <3> QED
        BY <1>3, <3>2, <3>3
    <2> QED
      BY <2>1, <2>2 DEF Manual!HandedOverInOrder
  <1>8. Newest'
    <2>1. \A i \in DOMAIN audioBuffer' : audioBuffer'[i].number <= finalized
      <3>1. \A i \in 1..n : Remaining[i].number <= finalized
        BY <1>5, BufferType
      <3>2. s.number <= finalized
        BY <1>2
      <3> QED
        BY <1>3, <3>1, <3>2
    <2> QED
      BY <1>1, <2>1 DEF BufferInv, Newest
  <1>9. segments' \in Nat /\ duration' \in Int
    <2>1. audioBuffer # <<>> => audioBuffer[1].length \in Nat
      <3>1. audioBuffer # <<>> => 1 \in DOMAIN audioBuffer
        BY BufferType, EmptySeq
      <3> QED
        BY <3>1, BufferType, Bounds
    <2>2. segments' \in Nat
      BY <1>1, BufferType
    <2>3. (IF evicts THEN audioBuffer[1].length ELSE 0) \in Nat
      BY <2>1
    <2> HIDE DEF evicts
    <2>4. duration \in Int
      BY BufferType
    <2> QED
      BY <1>1, <1>2, <2>2, <2>3, <2>4
  <1>10. Manual!TypeOK'
    BY <1>1, <1>3, <1>9 DEF BufferInv, Manual!TypeOK
  <1>11. Counted'
    <2> SUFFICES ASSUME clears' = 0 PROVE duration' = Manual!Total(audioBuffer)'
      BY DEF Counted
    <2>1. duration = Manual!Total(audioBuffer) /\ duration \in Int
      BY <1>1, BufferType DEF BufferInv, Counted
    <2>2. Manual!Total(audioBuffer)' = Manual!Total(Append(Remaining, s))
      BY <1>1 DEF Manual!Total
    <2>3. Manual!Total(Append(Remaining, s)) = Manual!Total(Remaining) + s.length
      BY <1>2, RemainingSegments, TotalOfMore
    <2>4. CASE evicts
      <3>1. Remaining = Tail(audioBuffer) /\ audioBuffer # <<>>
        BY <2>4 DEF Remaining, s
      <3>2. Manual!Total(Remaining) = Manual!Total(audioBuffer) - audioBuffer[1].length
        BY <3>1, BufferType, TotalOfTail
      <3>3. audioBuffer[1].length \in Nat
        <4>1. 1 \in DOMAIN audioBuffer
          BY <3>1, BufferType, EmptySeq
        <4> QED
          BY <4>1, BufferType, Bounds
      <3>4. duration' = duration + s.length - audioBuffer[1].length
        BY <1>1, <2>4
      <3> QED
        BY <1>2, <2>1, <2>2, <2>3, <3>2, <3>3, <3>4
    <2>5. CASE ~evicts
      <3>1. Remaining = audioBuffer
        BY <2>5 DEF Remaining, s
      <3>2. duration' = duration + s.length - 0
        BY <1>1, <2>5
      <3> QED
        BY <1>2, <2>1, <2>2, <2>3, <3>1, <3>2
    <2> QED
      BY <2>4, <2>5
  <1> QED
    BY <1>7, <1>8, <1>10, <1>11 DEF BufferInv

LEMMA OperatorStep ==
  ASSUME BufferInv,
         \/ Manual!Flush
         \/ Manual!Clear
         \/ \E k \in Operator : Manual!ReadGate(k) \/ Manual!WriteGate(k)
  PROVE  BufferInv'
  <1>0. DOMAIN <<>> = {} /\ (\A T : <<>> \in Seq(T)) /\ Manual!Total(<<>>)' = 0
    <2>1. Manual!Total(<<>>)' = Manual!Total(<<>>)
      BY DEF Manual!Total
    <2> QED
      BY <2>1, EmptySeq, TotalOfNone
  <1>1. CASE Manual!Flush
    <2>1. /\ audioBuffer # <<>> /\ flushed' = flushed \cup Manual!Numbers(audioBuffer)
          /\ audioBuffer' = <<>> /\ duration' = 0 /\ segments' = 0
          /\ UNCHANGED <<finalized, routing, recordingActive, toggling, clears>>
      BY <1>1 DEF Manual!Flush, Manual!gateVars
    <2>2. \A f \in flushed' : f \in flushed \/ \E i \in DOMAIN audioBuffer : f = audioBuffer[i].number
      BY <2>1 DEF Manual!Numbers
    <2>3. flushed' \subseteq 1..MaxSegments
      BY <2>2, BufferType, Bounds DEF BufferInv, Manual!TypeOK
    <2>4. Manual!TypeOK'
      BY <1>0, <2>1, <2>3 DEF BufferInv, Manual!TypeOK
    <2>5. Newest'
      BY <1>0, <2>1, <2>2 DEF BufferInv, Newest
    <2>6. Manual!HandedOverInOrder'
      BY <1>0, <2>1 DEF Manual!HandedOverInOrder
    <2>7. Manual!Total(audioBuffer)' = 0
      BY <1>0, <2>1 DEF Manual!Total
    <2> QED
      BY <2>1, <2>4, <2>5, <2>6, <2>7 DEF BufferInv, Counted
  <1>2. CASE Manual!Clear
    <2>1. /\ clears < MaxClears /\ clears' = clears + 1 /\ audioBuffer' = <<>>
          /\ UNCHANGED <<finalized, routing, duration, segments, recordingActive, toggling, flushed>>
      BY <1>2 DEF Manual!Clear, Manual!gateVars
    <2>2. clears \in 0..MaxClears /\ MaxClears \in Nat
      BY Bounds DEF BufferInv, Manual!TypeOK
    <2>3. clears' \in 0..MaxClears /\ clears' # 0
      BY <2>1, <2>2
    <2>4. Manual!TypeOK'
      BY <1>0, <2>1, <2>3 DEF BufferInv, Manual!TypeOK
    <2> QED
      BY <1>0, <2>1, <2>3, <2>4 DEF BufferInv, Newest, Counted, Manual!HandedOverInOrder
  <1>3. CASE \E k \in Operator : Manual!ReadGate(k) \/ Manual!WriteGate(k)
    <2>1. PICK k \in Operator : Manual!ReadGate(k) \/ Manual!WriteGate(k)
      BY <1>3
    <2>2. /\ UNCHANGED <<finalized, routing, audioBuffer, duration, segments, flushed, clears>>
          /\ recordingActive' \in BOOLEAN
          /\ \E r \in {"no", "on", "off"} : toggling' = [toggling EXCEPT ![k] = r]
      BY <2>1 DEF Manual!ReadGate, Manual!WriteGate, Manual!bufferVars, BufferInv, Manual!TypeOK
    <2>3. Manual!TypeOK'
      BY <2>2 DEF BufferInv, Manual!TypeOK
    <2>4. Manual!Total(audioBuffer)' = Manual!Total(audioBuffer)
      BY <2>2 DEF Manual!Total
    <2> QED
      BY <2>2, <2>3, <2>4 DEF BufferInv, Newest, Counted, Manual!HandedOverInOrder
  <1> QED
    BY <1>1, <1>2, <1>3

-----------------------------------------------------------------------------
\* The path.

PathInv == VoiceInv /\ BufferInv

LEMMA PathStep == PathInv /\ [PathNext]_pathVars => PathInv'
  <1> SUFFICES ASSUME PathInv, [PathNext]_pathVars PROVE PathInv'
    OBVIOUS
  <1> USE DEF PathInv
  <1>1. CASE \E silent \in BOOLEAN : Capture(silent) /\ UNCHANGED manualVars
    BY <1>1, CaptureStep, BufferStutter
  <1>2. CASE VADTurn
    <2>1. VAD /\ SegmentLength \in 1..(MaxBlocks + PreBlocks)
      BY <1>2, SegmentLengthBounded DEF VADTurn
    <2>2. VoiceInv'
      BY <2>1, ProcessFrameStep, CheckIdleStep DEF VAD
    <2>3. Manual!RouteSegment(SegmentLength) \/ UNCHANGED manualVars
      BY <1>2 DEF VADTurn
    <2> QED
      BY <2>1, <2>2, <2>3, RouteStep, BufferStutter
  <1>3. CASE RouteAppend
    BY <1>3, VoiceStutter, AppendStep DEF RouteAppend
  <1>4. CASE Operators
    BY <1>4, VoiceStutter, OperatorStep DEF Operators
  <1>5. CASE UNCHANGED pathVars
    BY <1>5, VoiceStutter, BufferStutter DEF pathVars
  <1> QED
    BY <1>1, <1>2, <1>3, <1>4, <1>5 DEF PathNext, MainThread

LEMMA PathInvariant == PathSpec => []PathInv
  <1>1. PathInit => PathInv
    BY VoiceInit, BufferInit DEF PathInit, PathInv
  <1> QED
    BY <1>1, PathStep, PTL DEF PathSpec

\* Every variable of the orchestrator and of the buffer keeps its type: a segment is never
\* longer than MaxBlocks and the pre-buffer, the queue and the pre-buffer keep their bounds.
THEOREM PathTypeCorrect == PathSpec => [](TypeOK /\ Manual!TypeOK)
  <1>1. PathInv => TypeOK /\ Manual!TypeOK
    BY DEF PathInv, VoiceInv, BufferInv
  <1> QED
    BY <1>1, PathInvariant, PTL

\* What was said leaves in the order it was said, and once, for any queue, pre-buffer,
\* segment length and silence, and any operators: nothing is lost or repeated before the
\* buffer, and a flush carries newer segments than every flush before it.
THEOREM NothingSaidTwice == PathSpec => []SpeechInOrder
  <1>1. PathInv => SpeechInOrder
    BY DEF PathInv, VoiceInv, BufferInv, SpeechInOrder
  <1> QED
    BY <1>1, PathInvariant, PTL

\* And nothing goes missing behind the orchestrator without one of the three reasons the
\* operator is told of (_route_segment, append_segment, the keyboard's c).
THEOREM NothingLostUnsaid == PathSpec => LostForAReason
  <1>1. PathInv /\ [PathNext]_pathVars =>
          [\/ Missing' \subseteq Missing
           \/ ~recordingActive
           \/ clears' > 0
           \/ /\ routing # <<>>
              /\ Manual!Total(audioBuffer) + routing[1].length > Ceiling]_pathVars
    <2> SUFFICES ASSUME PathInv, PathNext, recordingActive, ~(clears' > 0),
                        ~(routing # <<>> /\ Manual!Total(audioBuffer) + routing[1].length > Ceiling)
                 PROVE  Missing' \subseteq Missing
      OBVIOUS
    <2>0. BufferInv
      BY DEF PathInv
    <2>1. CASE UNCHANGED manualVars
      BY <2>1 DEF manualVars, Missing, Manual!Numbers
    <2>2. CASE \E length \in 1..(MaxBlocks + PreBlocks) : Manual!RouteSegment(length)
      <3>1. /\ finalized' = finalized + 1 /\ audioBuffer' = audioBuffer /\ flushed' = flushed
            /\ DOMAIN routing' = {1} /\ routing'[1].number = finalized'
        BY <2>2 DEF Manual!RouteSegment, Manual!bufferVars
      <3>2. finalized' \in Manual!Numbers(routing)'
        BY <3>1 DEF Manual!Numbers
      <3>3. routing = <<>> /\ Manual!Numbers(routing) = {}
        BY <2>2 DEF Manual!RouteSegment, Manual!Numbers
      <3>4. Manual!Numbers(audioBuffer)' = Manual!Numbers(audioBuffer)
        BY <3>1 DEF Manual!Numbers
      <3>5. \A n \in 1..finalized' : n = finalized' \/ n \in 1..finalized
        BY <2>0, <3>1, BufferType
      <3> QED
        BY <3>1, <3>2, <3>3, <3>4, <3>5 DEF Missing
    <2>3. CASE Manual!AppendSegment
      <3> DEFINE s == routing[1]
      <3>1. /\ routing # <<>> /\ routing' = <<>> /\ clears' = clears
            /\ audioBuffer' = Append(Remaining, s)
            /\ finalized' = finalized /\ flushed' = flushed
        BY <2>3 DEF Manual!AppendSegment, Manual!Evicts, Remaining
      <3>2. clears = 0
        <4>1. clears \in Nat
          BY <2>0, Bounds DEF BufferInv, Manual!TypeOK
        <4> QED
          BY <3>1, <4>1
      <3>3. Remaining = audioBuffer
        BY <2>0, <3>1, <3>2 DEF BufferInv, Counted, Remaining
      <3>4. s \in Manual!Segment /\ DOMAIN routing = {1}
        BY <2>0, <3>1 DEF BufferInv, Manual!TypeOK
      <3> HIDE DEF s
      <3>5. /\ DOMAIN audioBuffer' = 1..Len(audioBuffer) + 1 /\ Len(audioBuffer) \in Nat
            /\ DOMAIN audioBuffer = 1..Len(audioBuffer)
            /\ audioBuffer'[Len(audioBuffer) + 1] = s
            /\ \A i \in 1..Len(audioBuffer) : audioBuffer'[i] = audioBuffer[i]
        <4>1. audioBuffer \in Seq(Manual!Segment) /\ Len(audioBuffer) \in Nat
              /\ DOMAIN audioBuffer = 1..Len(audioBuffer)
          BY <2>0, BufferType
        <4>2. /\ audioBuffer' \in Seq(Manual!Segment) /\ Len(audioBuffer') = Len(audioBuffer) + 1
              /\ audioBuffer'[Len(audioBuffer) + 1] = s
              /\ \A i \in 1..Len(audioBuffer) : audioBuffer'[i] = audioBuffer[i]
          BY <3>1, <3>3, <3>4, <4>1, AppendProperties
        <4>3. DOMAIN audioBuffer' = 1..Len(audioBuffer) + 1
          BY <4>2, LenProperties
        <4> QED
          BY <4>1, <4>2, <4>3
      <3>6. Manual!Numbers(audioBuffer) \subseteq Manual!Numbers(audioBuffer)'
        <4>1. \A i \in DOMAIN audioBuffer : i \in DOMAIN audioBuffer' /\ audioBuffer'[i] = audioBuffer[i]
          BY <3>5
        <4> QED
          BY <4>1 DEF Manual!Numbers
      <3>7. Manual!Numbers(routing) \subseteq Manual!Numbers(audioBuffer)'
        <4>1. Len(audioBuffer) + 1 \in DOMAIN audioBuffer'
          BY <3>5
        <4>2. Manual!Numbers(routing) = {s.number}
          BY <3>4 DEF Manual!Numbers, s
        <4> QED
          BY <3>5, <4>1, <4>2 DEF Manual!Numbers
      <3> QED
        BY <3>1, <3>6, <3>7 DEF Missing
    <2>4. CASE Manual!Flush
      BY <2>4 DEF Manual!Flush, Manual!Numbers, Missing
    <2>5. CASE Manual!Clear
      <3>1. clears \in Nat /\ clears' = clears + 1
        BY <2>0, <2>5, Bounds DEF BufferInv, Manual!TypeOK, Manual!Clear
      <3> QED
        BY <3>1
    <2>6. CASE \E k \in Operator : Manual!ReadGate(k) \/ Manual!WriteGate(k)
      BY <2>6 DEF Manual!ReadGate, Manual!WriteGate, Manual!bufferVars, Missing, Manual!Numbers
    <2>7. VAD => SegmentLength \in 1..(MaxBlocks + PreBlocks)
      BY SegmentLengthBounded DEF PathInv
    <2> QED
      BY <2>1, <2>2, <2>3, <2>4, <2>5, <2>6, <2>7 DEF PathNext, MainThread, VADTurn, RouteAppend, Operators
  <1> QED
    BY <1>1, PathInvariant, PTL DEF PathSpec, LostForAReason
=============================================================================
