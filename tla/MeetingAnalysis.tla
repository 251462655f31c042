---------------------------- MODULE MeetingAnalysis ----------------------------
(***************************************************************************)
(* transcript_log and generate_meeting_analysis() (phantom_runtime.py):    *)
(* threads that each take a copy of the log, read the shared cursor, ask   *)
(* the provider about the entries past it for as long as that takes, and   *)
(* move the cursor to the length of their copy.  The reply worker and the  *)
(* threads that 'g' starts run it, at the same time if it comes to that.   *)
(*                                                                         *)
(* Lines are numbered as they are appended.  The log is a deque that loses *)
(* its oldest line at LogMax, so it holds lines lost+1 .. lines.  Of the   *)
(* text of a line only its length matters, in what unit is left open.      *)
(***************************************************************************)
EXTENDS Integers, FiniteSetsExt

CONSTANTS
  Analyst,      \* threads that may run an analysis
  LogMax,       \* maxlen of transcript_log
  Length,       \* lengths that lines have once cleaned up; 0 is a filler line's
  MaxChars,     \* MAX_MEETING_ANALYSIS_CHARS
  MaxLines,     \* bound: lines appended
  MaxClears     \* bound: uses of the keyboard's 'c'

ASSUME MeetingAssumption ==
  /\ LogMax \in Nat \ {0} /\ MaxLines \in Nat /\ MaxClears \in Nat
  /\ Length \subseteq Nat /\ MaxChars \in Nat

VARIABLES
  lines,      \* lines appended so far
  lost,       \* of these, the lines no longer in transcript_log
  clears,     \* uses of 'c'
  size,       \* size[i]: the length of line i, 0 before there is one
  cursor,     \* _meeting_cursor
  apc,        \* apc[a]: where thread a stands in generate_meeting_analysis
  copy,       \* copy[a]: log_copy, as the line before it and its length
  from,       \* from[a]: the local variable cursor
  covered,    \* the lines some analysis has reported on
  cut,        \* the lines a reported analysis has left out as too far back
  overlapped  \* history: two analyses have been in flight at once

logVars == <<lines, lost, clears, size>>
doneVars == <<covered, cut>>
vars == <<logVars, cursor, apc, copy, from, doneVars, overlapped>>

Line == 1..MaxLines

TypeOK ==
  /\ lines \in 0..MaxLines
  /\ lost \in 0..lines
  /\ lines - lost <= LogMax
  /\ clears \in 0..MaxClears
  /\ size \in [Line -> Length \cup {0}]
  /\ cursor \in 0..MaxLines
  /\ apc \in [Analyst -> {"idle", "copied", "asking", "reported"}]
  /\ copy \in [Analyst -> [after : 0..MaxLines, len : 0..MaxLines]]
  /\ from \in [Analyst -> 0..MaxLines]
  /\ covered \subseteq Line /\ cut \subseteq Line
  /\ overlapped \in BOOLEAN

Init ==
  /\ lines = 0 /\ lost = 0 /\ clears = 0 /\ cursor = 0
  /\ size = [i \in Line |-> 0]
  /\ apc = [a \in Analyst |-> "idle"]
  /\ copy = [a \in Analyst |-> [after |-> 0, len |-> 0]]
  /\ from = [a \in Analyst |-> 0]
  /\ covered = {} /\ cut = {} /\ overlapped = FALSE

LogLen == lines - lost

\* new_entries = log_copy[cursor:]
NewEntries(a) == copy[a].after + from[a] + 1 .. copy[a].after + copy[a].len

Smaller(m, n) == IF m < n THEN m ELSE n

\* clean_meeting_transcript: what is left of the new entries.
Cleaned(a) == {i \in NewEntries(a) : size[i] > 0}

\* lines[-MAX_MEETING_ANALYSIS_CHARS:], as far as it holds whole lines.
Window(a) ==
  {i \in Cleaned(a) : MapThenSumSet(LAMBDA j : size[j], {j \in Cleaned(a) : j >= i}) <= MaxChars}

-----------------------------------------------------------------------------
\* The log.

Append ==
  /\ lines < MaxLines
  /\ lines' = lines + 1
  /\ \E chars \in Length : size' = [size EXCEPT ![lines'] = chars]
  /\ lost' = IF LogLen = LogMax THEN lost + 1 ELSE lost
  /\ UNCHANGED <<clears, cursor, apc, copy, from, doneVars, overlapped>>

\* The keyboard's 'c'; the cursor stays where it is.
Clear ==
  /\ clears < MaxClears
  /\ clears' = clears + 1 /\ lost' = lines
  /\ UNCHANGED <<lines, size, cursor, apc, copy, from, doneVars, overlapped>>

-----------------------------------------------------------------------------
\* generate_meeting_analysis(); an empty log ends it at once.

CopyLog(a) ==
  /\ apc[a] = "idle" /\ LogLen > 0
  /\ apc' = [apc EXCEPT ![a] = "copied"]
  /\ copy' = [copy EXCEPT ![a] = [after |-> lost, len |-> LogLen]]
  /\ overlapped' = (overlapped \/ \E b \in Analyst \ {a} : apc[b] # "idle")
  /\ UNCHANGED <<logVars, cursor, from, doneVars>>

\* cursor = min(_meeting_cursor, len(log_copy)); no new entry ends it.
ReadCursor(a) ==
  LET c == Smaller(cursor, copy[a].len)
  IN  /\ apc[a] = "copied"
      /\ apc' = [apc EXCEPT ![a] = IF c < copy[a].len THEN "asking" ELSE "idle"]
      /\ from' = [from EXCEPT ![a] = c]
      /\ UNCHANGED <<logVars, cursor, copy, doneVars, overlapped>>

\* The provider answers: the analysis is emitted and its memory extracted, of the text
\* it was given.
Report(a) ==
  /\ apc[a] = "asking"
  /\ apc' = [apc EXCEPT ![a] = "reported"]
  /\ covered' = covered \cup Window(a)
  /\ cut' = cut \cup (Cleaned(a) \ Window(a))
  /\ UNCHANGED <<logVars, cursor, copy, from, overlapped>>

\* ... or raises, and the cursor stays.
Fail(a) ==
  /\ apc[a] = "asking"
  /\ apc' = [apc EXCEPT ![a] = "idle"]
  /\ UNCHANGED <<logVars, cursor, copy, from, doneVars, overlapped>>

\* Mutated form: the cursor counts the new entries only.
AdvanceByNew(a) ==
  /\ apc[a] = "reported"
  /\ apc' = [apc EXCEPT ![a] = "idle"]
  /\ cursor' = copy[a].len - from[a]
  /\ UNCHANGED <<logVars, copy, from, doneVars, overlapped>>

\* Mutated form: the log's present length, not the copy's.
AdvanceToEnd(a) ==
  /\ apc[a] = "reported"
  /\ apc' = [apc EXCEPT ![a] = "idle"]
  /\ cursor' = LogLen
  /\ UNCHANGED <<logVars, copy, from, doneVars, overlapped>>

\* _meeting_cursor = len(log_copy)
Advance(a) ==
  /\ apc[a] = "reported"
  /\ apc' = [apc EXCEPT ![a] = "idle"]
  /\ cursor' = copy[a].len
  /\ UNCHANGED <<logVars, copy, from, doneVars, overlapped>>

Analysis(a) == CopyLog(a) \/ ReadCursor(a) \/ Report(a) \/ Fail(a) \/ Advance(a)

Next == Append \/ Clear \/ \E a \in Analyst : Analysis(a)

Spec == Init /\ [][Next]_vars

-----------------------------------------------------------------------------
\* Properties.

\* Lines that no analysis has to report on any more.
Settled == covered \cup cut \cup {i \in 1..lines : size[i] = 0}

\* "min() guards against cursor drift when transcript_log is cleared/rotated": the
\* lines that the next analysis will pass over, those of the log that lie before the
\* cursor, have been reported on, had nothing to say, or were announced as truncated.
NothingSkipped == lost + 1 .. lost + Smaller(cursor, LogLen) \subseteq Settled

\* "advance cursor only after successful analysis": as long as the log has lost no
\* line, no failed analysis and no other thread's cursor makes one go unreported.  What
\* does is the window: of a longer text an analysis that is reported reads the last
\* MaxChars only, and the cursor moves past the rest as well; a filler line is dropped.
NothingSkippedUntilLost == lost = 0 => NothingSkipped

\* "next call covers only new entries since last run": however the log is cleared and
\* rotates under the cursor, no line is reported on, and no question or decision
\* extracted from it, twice -- as long as no two analyses have overlapped.
ReportedOnce ==
  [][\A a \in Analyst : apc[a] = "asking" /\ apc'[a] = "reported" /\ ~overlapped
                          => NewEntries(a) \cap covered = {}]_vars
=============================================================================
