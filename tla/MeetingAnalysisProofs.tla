------------------------- MODULE MeetingAnalysisProofs -------------------------
(***************************************************************************)
(* Theorems of generate_meeting_analysis(): what the shared cursor is good *)
(* for, for any number of analysing threads, and until when it is.         *)
(***************************************************************************)
EXTENDS MeetingAnalysis, TLAPS

\* The window holds lines of the cleaned text, and that lines of the copy.
LEMMA WindowHolds ==
  ASSUME NEW a
  PROVE  Window(a) \subseteq Cleaned(a) /\ Cleaned(a) = {i \in NewEntries(a) : size[i] > 0}
  <1>1. Window(a) \subseteq Cleaned(a)
    BY Zenon DEF Window
  <1> QED
    BY <1>1 DEF Cleaned

\* A copy holds lines that were appended, and that are lost only after it.
CopyOfLog ==
  \A a \in Analyst : copy[a].after <= lost /\ copy[a].after + copy[a].len <= lines

TypedCopies == TypeOK /\ CopyOfLog

LEMMA TypedCopiesInvariant == Spec => []TypedCopies
<1> USE MeetingAssumption
<1>1. Init => TypedCopies
  <2> SUFFICES ASSUME Init PROVE TypedCopies
    OBVIOUS
  <2>1. overlapped \in BOOLEAN
    BY Zenon DEF Init
  <2> QED BY <2>1 DEF Init, TypedCopies, TypeOK, CopyOfLog, Line
<1>2. TypedCopies /\ [Next]_vars => TypedCopies'
  <2> SUFFICES ASSUME TypedCopies, [Next]_vars PROVE TypedCopies'
    OBVIOUS
  <2> USE DEF TypedCopies, TypeOK, CopyOfLog, logVars, doneVars, LogLen, Line
  <2>1. CASE Append
    <3>1. lines' \in Line /\ size' \in [Line -> Length \cup {0}]
      BY <2>1 DEF Append
    <3> QED BY <2>1, <3>1 DEF Append
  <2>2. CASE Clear   BY <2>2 DEF Clear
  <2>3. ASSUME NEW a \in Analyst, Analysis(a) PROVE TypedCopies'
    <3>1. CASE CopyLog(a)     BY <3>1 DEF CopyLog
    <3>2. CASE ReadCursor(a)  BY <3>2 DEF ReadCursor, Smaller
    <3>3. CASE Report(a)
      <4>1. NewEntries(a) \subseteq Line
        <5>1. /\ copy[a].after \in Nat /\ copy[a].len \in Nat /\ from[a] \in Nat
              /\ copy[a].after + copy[a].len <= MaxLines
          OBVIOUS
        <5> QED BY <5>1 DEF NewEntries
      <4>2. covered' \subseteq Line /\ cut' \subseteq Line
        BY <3>3, <4>1, WindowHolds DEF Report
      <4> QED BY <3>3, <4>2 DEF Report
    <3>4. CASE Fail(a)        BY <3>4 DEF Fail
    <3>5. CASE Advance(a)     BY <3>5 DEF Advance
    <3> QED BY <2>3, <3>1, <3>2, <3>3, <3>4, <3>5 DEF Analysis
  <2>4. CASE UNCHANGED vars  BY <2>4 DEF vars
  <2> QED BY <2>1, <2>2, <2>3, <2>4 DEF Next
<1> QED BY <1>1, <1>2, PTL DEF Spec

\* Every variable keeps its type; the log never holds more than LogMax lines.
THEOREM MeetingTypeCorrect == Spec => []TypeOK
<1>1. TypedCopies => TypeOK  BY DEF TypedCopies
<1> QED BY <1>1, TypedCopiesInvariant, PTL

-----------------------------------------------------------------------------
\* Nothing is skipped while the log loses nothing.

\* Positions are line numbers, and whatever a thread has passed over, or will
\* pass over for the cursor it is about to write, is settled.
PrefixReported ==
  lost = 0 =>
    /\ cursor <= lines /\ 1..cursor \subseteq Settled
    /\ \A a \in Analyst :
         /\ copy[a].after = 0
         /\ apc[a] \in {"asking", "reported"} => 1..from[a] \subseteq Settled
         /\ apc[a] = "reported" => 1..copy[a].len \subseteq Settled

\* What is settled stays so: a line has its length before it is one of the lines.
LEMMA SettledStays == TypedCopies /\ [Next]_vars => Settled \subseteq Settled'
<1> SUFFICES ASSUME TypedCopies, [Next]_vars PROVE Settled \subseteq Settled'
  OBVIOUS
<1> USE MeetingAssumption
<1>1. covered \subseteq covered' /\ cut \subseteq cut'
  BY DEF Next, Append, Clear, Analysis, CopyLog, ReadCursor, Report, Fail, Advance, vars, doneVars
<1>2. ASSUME NEW i \in 1..lines PROVE i \in 1..lines' /\ size'[i] = size[i]
  <2>1. CASE Append
    <3>1. lines \in Nat /\ lines < MaxLines /\ lines' = lines + 1
      BY <2>1 DEF Append, TypedCopies, TypeOK
    <3>2. i \in Line /\ i # lines' /\ i \in 1..lines'
      BY <3>1 DEF Line
    <3>3. PICK chars \in Length : size' = [size EXCEPT ![lines'] = chars]
      BY <2>1 DEF Append
    <3>4. size \in [Line -> Length \cup {0}]
      BY DEF TypedCopies, TypeOK
    <3> QED BY <3>2, <3>3, <3>4
  <2>2. CASE ~Append
    BY <2>2 DEF Next, Clear, Analysis, CopyLog, ReadCursor, Report, Fail, Advance, vars, logVars
  <2> QED BY <2>1, <2>2
<1> QED BY <1>1, <1>2 DEF Settled

\* While transcript_log has lost no line, however many threads analyse at once and
\* whichever of them fail, no line is passed over that an analysis has not reported on
\* or been reported without, for being filler or beyond the window
\* (generate_meeting_analysis, clean_meeting_transcript, MAX_MEETING_ANALYSIS_CHARS).
THEOREM NothingIsSkipped == Spec => []NothingSkippedUntilLost
<1> USE MeetingAssumption
<1>1. Init => PrefixReported
  BY DEF Init, PrefixReported
<1>2. TypedCopies /\ PrefixReported /\ [Next]_vars => PrefixReported'
  <2> SUFFICES ASSUME TypedCopies, PrefixReported, [Next]_vars, lost' = 0
               PROVE  /\ cursor' <= lines' /\ 1..cursor' \subseteq Settled'
                      /\ \A a \in Analyst :
                           /\ copy'[a].after = 0
                           /\ apc'[a] \in {"asking", "reported"} => 1..from'[a] \subseteq Settled'
                           /\ apc'[a] = "reported" => 1..copy'[a].len \subseteq Settled'
    BY DEF PrefixReported
  <2>0. Settled \subseteq Settled'
    BY SettledStays
  <2> USE DEF TypedCopies, TypeOK, CopyOfLog, PrefixReported, logVars, LogLen, Line
  <2>1. CASE Append  BY <2>0, <2>1 DEF Append
  <2>2. CASE Clear
    <3>1. lost = 0  BY <2>2 DEF Clear
    <3> QED BY <2>0, <2>2, <3>1 DEF Clear
  <2>3. ASSUME NEW a \in Analyst, Analysis(a)
        PROVE  /\ cursor' <= lines' /\ 1..cursor' \subseteq Settled'
               /\ \A b \in Analyst :
                    /\ copy'[b].after = 0
                    /\ apc'[b] \in {"asking", "reported"} => 1..from'[b] \subseteq Settled'
                    /\ apc'[b] = "reported" => 1..copy'[b].len \subseteq Settled'
    <3>0. lost = 0
      BY <2>3 DEF Analysis, CopyLog, ReadCursor, Report, Fail, Advance
    <3>1. CASE CopyLog(a)     BY <2>0, <3>0, <3>1 DEF CopyLog
    <3>2. CASE ReadCursor(a)  BY <2>0, <3>0, <3>2 DEF ReadCursor, Smaller
    <3>3. CASE Report(a)
      <4>1. NewEntries(a) \subseteq Settled'
        <5> SUFFICES ASSUME NEW i \in NewEntries(a) PROVE i \in Settled'
          OBVIOUS
        <5>1. i \in 1..lines /\ size[i] \in Nat
          <6>1. copy[a].after \in Nat /\ copy[a].len \in Nat /\ from[a] \in Nat /\ lines \in Nat
            OBVIOUS
          <6>2. copy[a].after + copy[a].len <= lines
            OBVIOUS
          <6>3. i \in 1..lines
            BY <6>1, <6>2 DEF NewEntries
          <6>4. i \in Line /\ size \in [Line -> Length \cup {0}]
            BY <6>1, <6>3
          <6>5. Length \cup {0} \subseteq Nat
            OBVIOUS
          <6>6. size[i] \in Length \cup {0}
            BY Zenon, <6>4
          <6> QED BY Zenon, <6>3, <6>5, <6>6
        <5>2. CASE size[i] > 0
          <6>1. i \in Cleaned(a)
            BY <5>2, WindowHolds
          <6>2. i \in covered' \cup cut'
            BY <3>3, <6>1 DEF Report
          <6> QED BY <6>2 DEF Settled
        <5>3. CASE size[i] = 0
          BY <2>0, <5>1, <5>3 DEF Settled
        <5> QED BY <5>1, <5>2, <5>3
      <4>2. 1..copy[a].len \subseteq Settled'
        BY <2>0, <3>0, <3>3, <4>1 DEF Report, NewEntries
      <4> QED BY <2>0, <3>0, <3>3, <4>2 DEF Report
    <3>4. CASE Fail(a)        BY <2>0, <3>0, <3>4 DEF Fail
    <3>5. CASE Advance(a)     BY <2>0, <3>0, <3>5 DEF Advance
    <3> QED BY <2>3, <3>1, <3>2, <3>3, <3>4, <3>5 DEF Analysis
  <2>4. CASE UNCHANGED vars  BY <2>0, <2>4 DEF vars
  <2> QED BY <2>1, <2>2, <2>3, <2>4 DEF Next
<1>3. TypedCopies /\ PrefixReported => NothingSkippedUntilLost
  BY DEF TypedCopies, TypeOK, PrefixReported, NothingSkippedUntilLost, NothingSkipped, Smaller, LogLen
<1> QED BY <1>1, <1>2, <1>3, TypedCopiesInvariant, PTL DEF Spec

-----------------------------------------------------------------------------
\* Analyses that do not overlap report nothing twice.

Below(bound) == \A i \in covered : i <= bound

\* What has been reported on lies before the cursor, counted from the line the
\* running analysis' copy starts after, from the log's start while none runs.
ReportedBelow ==
  ~overlapped =>
    /\ \A a, b \in Analyst : apc[a] # "idle" /\ apc[b] # "idle" => a = b
    /\ (\A a \in Analyst : apc[a] = "idle") => Below(lost + cursor)
    /\ \A a \in Analyst :
         /\ apc[a] = "copied" => Below(copy[a].after + cursor)
         /\ apc[a] = "asking" => /\ from[a] = cursor
                                 /\ from[a] < copy[a].len
                                 /\ Below(copy[a].after + cursor)
         /\ apc[a] = "reported" => Below(copy[a].after + copy[a].len)

\* Until two analyses overlap no line is reported on twice, even though 'c' and the
\* deque move the log under the cursor (generate_meeting_analysis).
THEOREM ReportedOnlyOnce == Spec => ReportedOnce
<1> USE MeetingAssumption
<1>1. Init => ReportedBelow
  BY DEF Init, ReportedBelow, Below
<1>2. TypedCopies /\ ReportedBelow /\ [Next]_vars => ReportedBelow'
  <2> SUFFICES ASSUME TypedCopies, ReportedBelow, [Next]_vars PROVE ReportedBelow'
    OBVIOUS
  <2> USE DEF TypedCopies, TypeOK, CopyOfLog, ReportedBelow, Below, logVars, doneVars, LogLen, Line
  <2>1. CASE Append  BY <2>1 DEF Append
  <2>2. CASE Clear   BY <2>2 DEF Clear
  <2>3. ASSUME NEW a \in Analyst, Analysis(a) PROVE ReportedBelow'
    <3> SUFFICES ASSUME ~overlapped' PROVE ReportedBelow'
      OBVIOUS
    <3>0. ~overlapped
      BY <2>3 DEF Analysis, CopyLog, ReadCursor, Report, Fail, Advance
    <3>1. CASE CopyLog(a)
      <4>1. \A b \in Analyst : apc[b] = "idle"
        BY <3>1 DEF CopyLog
      <4> QED BY <3>0, <3>1, <4>1 DEF CopyLog
    <3>2. CASE ~CopyLog(a)
      <4>1. apc[a] # "idle"
        BY <2>3, <3>2 DEF Analysis, ReadCursor, Report, Fail, Advance
      <4>2. \A b \in Analyst : b # a => apc[b] = "idle"
        BY <3>0, <4>1
      <4>3. CASE ReadCursor(a)  BY <3>0, <4>2, <4>3 DEF ReadCursor, Smaller
      <4>4. CASE Report(a)
        <5>1. Window(a) \subseteq NewEntries(a)
          BY WindowHolds
        <5> QED BY <3>0, <4>2, <4>4, <5>1 DEF Report, NewEntries
      <4>5. CASE Fail(a)        BY <3>0, <4>2, <4>5 DEF Fail
      <4>6. CASE Advance(a)     BY <3>0, <4>2, <4>6 DEF Advance
      <4> QED BY <2>3, <3>2, <4>3, <4>4, <4>5, <4>6 DEF Analysis
    <3> QED BY <3>1, <3>2
  <2>4. CASE UNCHANGED vars  BY <2>4 DEF vars
  <2> QED BY <2>1, <2>2, <2>3, <2>4 DEF Next
<1>3. TypedCopies /\ ReportedBelow =>
        \A a \in Analyst : apc[a] = "asking" /\ ~overlapped
                              => NewEntries(a) \cap covered = {}
  BY DEF TypedCopies, TypeOK, ReportedBelow, Below, NewEntries, Line
<1>4. Spec => [](TypedCopies /\ ReportedBelow)
  BY <1>1, <1>2, TypedCopiesInvariant, PTL DEF Spec
<1>5. TypedCopies /\ ReportedBelow /\ [Next]_vars =>
        [\A a \in Analyst : apc[a] = "asking" /\ apc'[a] = "reported" /\ ~overlapped
                              => NewEntries(a) \cap covered = {}]_vars
  BY <1>3
<1> QED BY <1>4, <1>5, PTL DEF Spec, ReportedOnce
=============================================================================
