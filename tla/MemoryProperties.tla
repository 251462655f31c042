--------------------------- MODULE MemoryProperties ---------------------------
(***************************************************************************)
(* What the reports built from the memory files owe their reader,          *)
(* whatever the extractions, merges and kills of SubjectMerge have made of *)
(* the files.                                                              *)
(***************************************************************************)
EXTENDS SubjectMerge, MemoryReports

Loaded == [subject |-> disk["subject"], question |-> Questions, decision |-> Decisions, fact |-> disk["fact"]]
\* A thread that is in no call may ask for a report, the builders take the lock; and the
\* reports that are dear to evaluate are asked for when no thread is in a call.
Asked == saving = <<>> /\ todo[Main] = <<>> /\ \E t \in Thread : todo[t] = <<>>
Idle == saving = <<>> /\ \A t \in DOMAIN todo : todo[t] = <<>>
Reported(asked) == IF asked THEN Buckets(Loaded) ELSE {}

\* _subject_merge_validate accepts a chain of MaxHops merges, at which _subject_resolve_merge
\* already gives up and returns the subject it was asked about.
AtLimit(id, subjects) ==
  LET c == Chain(id, subjects) IN c[MaxHops] # 0 /\ c[MaxHops + 1] = 0

\* The context compresses the block of a merged subject.  An open decision is hidden by
\* that only when the validation has an error to show instead, or at the end of a chain
\* as long as it accepts.
HiddenOnlyIfReported ==
  \A c \in {x \in Reported(Asked) : Compressible(x)} :
    Open(c) # {} => MergeErrors(disk["subject"]) # {} \/ AtLimit(c.id, disk["subject"])

\* A question that is reported as missing information is OPEN, or it was added together
\* with its answer; one answered later by a fact, a decision or its answer never is.
MissingInfoIsOpen ==
  \A r \in Seeded(Reported(Idle)), i \in DOMAIN Questions :
    r.type = "MISSING_INFO" /\ Questions[i].id = r.ref =>
      Questions[i].status = "OPEN" \/ (Questions[i].answer /\ Questions[i].link = NoLink)

\* Every merge that was executed is what the registry says: no later one of the same source
\* has taken its place, and no kill or torn file has lost it.
MergesStand ==
  \A i \in DOMAIN disk["approval"] :
    LET a == disk["approval"][i]
    IN a.status # "PENDING" =>
         SubjectById(a.target, disk["subject"]) # 0 /\ MergedInto(a.source, disk["subject"]) = a.target

\* The timeline looks for the value of an answer among the records of the question's own
\* subject.  A fact and the questions it answered are found there together, whatever
\* merges moved one without the other, unless the validation finds the registry wrong or a
\* chain is as long as it accepts, a merge that was begun does not stand, or a file is torn.
AnswerBesideQuestion ==
  /\ TornFiles \cap {"fact", "approval"} = {}
  /\ MergeErrors(disk["subject"]) = {} /\ MergesStand
  /\ \A id \in Ids("subject") : ~AtLimit(id, disk["subject"])
  =>
    \A c \in Reported(Asked) : \A q \in Entries(c, "ANSWERED") : q.source = "fact" => SourceFound(q, c)

\* Nothing that is left to do goes unseen: no open decision is hidden by the compression
\* of a merged subject without an error, and the sections agree on what is left: a subject
\* that is only to be monitored has nothing that keeps its block from being compressed, a
\* context without a reasoning section is about a first subject with nothing open, and the
\* totals are 0 only when there is nothing open anywhere.
NothingOverlooked ==
  LET all == Reported(Idle)  total == DashboardSummary(all)
      quiet(c) == Recommendation(AnswerContext(c)).type = "MONITOR"
  IN /\ HiddenOnlyIfReported
     /\ \A c \in all : quiet(c) => Compressible(c) /\ MissingInfo(c) = {}
     /\ "A35" \notin ToSet(Sections(all)) =>
          \A c \in {x \in all : x.id = DashboardList(all)[1].id} : Entries(c, "OPEN") = {} /\ Open(c) = {}
     /\ total.questions + total.decisions = 0 => \A c \in all : quiet(c) \/ Lifecycle(c) = "NEW"

\* The five stable passes put the dashboard in the order its comments give: inconsistent
\* subjects first, then blocked ones, then by violations and by the latest event.
Precedes(x, y) ==
  LET key(e) == <<Flag(e.consistency = "INCONSISTENT"), Flag(e.status = "BLOCKED"),
                  0 - e.violations, 0 - e.latest, e.id>>
  IN \E k \in 1..5 : key(x)[k] < key(y)[k] /\ \A j \in 1..(k - 1) : key(x)[j] = key(y)[j]
DashboardInOrder ==
  LET list == DashboardList(Reported(Idle))
  IN \A i \in 2..Len(list) : Precedes(list[i - 1], list[i])

\* No fact is derived from another over more than the depth limit, nor from itself.
DerivedNoDeeper ==
  \A c \in Reported(Idle) :
    LET edges == {e \in FactGraph(c) : e.relation = "DERIVED_FROM"}
    IN /\ ~HasCycle(edges)
       /\ ~\E p \in [1..(DerivedDepth + 1) -> edges] : \A k \in 1..DerivedDepth : p[k].target = p[k + 1].source

\* The reports say what the files say: nothing answered later is missing information,
\* the dashboard is in its order, and derivations are neither deep nor circular
\* (A29, A35, _fact_graph).
ReportsRight == MissingInfoIsOpen /\ DashboardInOrder /\ DerivedNoDeeper
=============================================================================
