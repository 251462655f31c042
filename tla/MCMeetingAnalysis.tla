--------------------------- MODULE MCMeetingAnalysis ---------------------------
\* Constants of the runs of MeetingAnalysis.
EXTENDS MeetingAnalysis, TLC

CONSTANTS a1, a2, a3

\* The threads that analyse are interchangeable.
Threads == Permutations(Analyst)
=============================================================================
