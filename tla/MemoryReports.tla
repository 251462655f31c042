----------------------------- MODULE MemoryReports -----------------------------
(***************************************************************************)
(* What the memory layer reports of its files (phantom_runtime.py: the     *)
(* report builders A26-A35 and B27-B30, the sections they become, and      *)
(* memory_build_context).  Every report is a function of m, the files as   *)
(* the builders load them: m.subject, m.question, m.decision, m.fact.      *)
(* The order of a list, its limit and its wording are left out where no    *)
(* report depends on them; an id stands for the time stamp.                *)
(***************************************************************************)
EXTENDS MemoryRecords

CONSTANTS DerivedDepth, MaxDepth   \* _A31_DERIVED_DEPTH_DEFAULT, _A34_MAX_DEPTH

ASSUME MemoryReportsAssumption == {DerivedDepth, MaxDepth} \subseteq Nat \ {0}

\* The ids of records are the order they were made in.
Latest(S) == CHOOSE x \in S : \A y \in S : y.id <= x.id
Older(x, S) == {y \in S : y.id < x.id}

-----------------------------------------------------------------------------
\* Buckets: the records of a subject and of all that was merged into it; 0 is
\* "_unassigned".

\* Mutated form: the records of a merged subject stay with it.
BucketOfMerged(r, m) == r.subject

BucketOf(r, m) == ResolveMerge(r.subject, m.subject)
Records(m) == ToSet(m.question) \cup ToSet(m.decision) \cup ToSet(m.fact)
SubjectIds(m) == {BucketOf(r, m) : r \in Records(m)} \ {0}

Bucket(b, m) ==
  LET of(s) == {r \in ToSet(s) : BucketOf(r, m) = b}  at == SubjectById(b, m.subject)
  IN [id |-> b, questions |-> of(m.question), decisions |-> of(m.decision), facts |-> of(m.fact),
      name |-> IF at = 0 THEN 0 ELSE m.subject[at].name,
      merged |-> at # 0 /\ m.subject[at].merged # 0]

Buckets(m) == {Bucket(b, m) : b \in SubjectIds(m)}

Open(c) == {d \in c.decisions : d.status = "OPEN"}
Pending(c) == {q \in c.questions : ~IsResolved(q)}

SubjectStatus(c) == IF Open(c) = {} /\ Pending(c) = {} THEN "RESOLVED" ELSE "OPEN"

Lifecycle(c) ==
  CASE c.facts = {} /\ c.decisions = {} /\ c.questions # {} -> "NEW"
    [] ~(c.facts = {} /\ c.decisions = {} /\ c.questions # {}) /\ SubjectStatus(c) = "OPEN" -> "ACTIVE"
    [] OTHER -> "RESOLVED"

\* A merged subject's block is always compressed, an unmerged one's when nothing is left.
Compressible(c) == c.merged \/ (SubjectStatus(c) = "RESOLVED" /\ Lifecycle(c) = "RESOLVED")

\* A subject is mentioned once, when it is created.
PriorityScore(c) ==
  100 * Cardinality(Open(c)) + 10 * Cardinality(Pending(c)) + (IF c.name # 0 THEN 1 ELSE 0)

-----------------------------------------------------------------------------
\* A26-A30: answers, timeline, priority, recommendation, dashboard.

\* _a26_make_answer_entry: a question without a link is reported OPEN.
EntryStatus(q) == IF q.link.type = "none" \/ q.status = "OPEN" THEN "OPEN" ELSE "ANSWERED"

Entries(c, status) == {q \in c.questions : EntryStatus(q) = status}

\* The value an answer's link leads to: that of a fact or decision of the same bucket.
SourceFound(q, c) ==
  CASE q.link.type = "fact" -> \E f \in c.facts : f.id = q.link.id
    [] q.link.type = "decision" -> \E d \in c.decisions : d.id = q.link.id
    [] OTHER -> FALSE

AnswerContext(c) ==
  [id |-> c.id, lifecycle |-> Lifecycle(c), priority |-> PriorityScore(c),
   openQuestions |-> Cardinality(Entries(c, "OPEN")), openDecisions |-> Cardinality(Open(c))]

Timeline(all) ==
  UNION {{[subject |-> c.id, question |-> q.id, found |-> SourceFound(q, c)] : q \in Entries(c, "ANSWERED")} : c \in all}

RankScore(x) == x.priority + 50 * x.openQuestions + 100 * x.openDecisions

\* Mutated form: a subject without open decisions is left alone.
RecommendationTypeDecisions(x) ==
  CASE x.lifecycle = "NEW" -> "COLLECT_INFORMATION"
    [] x.lifecycle # "NEW" /\ x.openDecisions > 0 -> "FOLLOW_UP_DECISION"
    [] OTHER -> "MONITOR"

RecommendationType(x) ==
  CASE x.lifecycle = "NEW" -> "COLLECT_INFORMATION"
    [] x.lifecycle # "NEW" /\ x.openDecisions > 0 -> "FOLLOW_UP_DECISION"
    [] x.lifecycle # "NEW" /\ x.openDecisions = 0 /\ x.openQuestions > 0 -> "ANSWER_QUESTION"
    [] OTHER -> "MONITOR"

Recommendation(x) ==
  [id |-> x.id, type |-> RecommendationType(x),
   priority |-> CASE x.priority >= 100 -> "HIGH" [] x.priority \in 10..99 -> "MEDIUM" [] OTHER -> "LOW"]

\* A record is in one bucket, so that what is open in any of them adds up to the sums.
DashboardSummary(all) ==
  LET context == {AnswerContext(c) : c \in all}
      number(l) == Cardinality({x \in context : x.lifecycle = l})
  IN [active |-> number("ACTIVE"), new |-> number("NEW"), resolved |-> number("RESOLVED"),
      questions |-> Cardinality(UNION {Entries(c, "OPEN") : c \in all}),
      decisions |-> Cardinality(UNION {Open(c) : c \in all}),
      top |-> {x \in context : \A y \in context : RankScore(x) >= RankScore(y)}]

-----------------------------------------------------------------------------
\* B27: the status the facts' words and the decisions' statuses speak for.

\* External: the words that give a status away, in two languages.
Keyword == [
  CANCELLED |-> [ja |-> {"chushi", "haishi"}, en |-> {"cancelled", "canceled"}],
  DONE      |-> [ja |-> {"kanryo", "kaiketsu"}, en |-> {"completed", "done"}],
  BLOCKED   |-> [ja |-> {"horyu", "teishi"}, en |-> {"blocked", "on-hold", "stalled"}],
  ACTIVE    |-> [ja |-> {"shinkochu", "taiochu"}, en |-> {"in-progress", "underway"}],
  PLANNED   |-> [ja |-> {"yotei", "keikaku"}, en |-> {"planned", "planning", "scheduled"}]]
StatusPriority == <<"CANCELLED", "DONE", "BLOCKED", "ACTIVE", "PLANNED">>

\* _B29_NORMALIZE_MAP, and what B27 takes a decision's status for.
Normalized(status) ==
  CASE status = "OPEN" -> "PLANNED" [] status = "IN_PROGRESS" -> "ACTIVE" [] OTHER -> status

Says(f, s, language) == f.value \cap Keyword[s][language] # {}
Signals(c) ==
  {r \in (DOMAIN Keyword) \X {"ja", "en"} : \E f \in c.facts : Says(f, r[1], r[2])}
  \cup {<<Normalized(d.status), "decision">> : d \in c.decisions}

\* The status of the highest priority; its confidence in hundredths grows with its rules.
StatusEntry(c) ==
  LET given == {r[1] : r \in Signals(c)}
      best == StatusPriority[First({i \in DOMAIN StatusPriority : StatusPriority[i] \in given})]
      evidence == Cardinality({r \in Signals(c) : r[1] = best})
  IN IF given = {} THEN [status |-> IF Lifecycle(c) = "ACTIVE" THEN "ACTIVE" ELSE "UNKNOWN", confidence |-> 0]
     ELSE [status |-> best, confidence |-> Min({30 + 13 * evidence, 95})]

-----------------------------------------------------------------------------
\* B28, B29: facts and decisions, and the statuses they hint at, one after the other.

Events(c) == c.facts \cup c.decisions

Hint(e) ==
  IF "status" \in DOMAIN e THEN e.status
  ELSE LET said == {i \in DOMAIN StatusPriority : Says(e, StatusPriority[i], "ja") \/ Says(e, StatusPriority[i], "en")}
       IN IF said = {} THEN "none" ELSE StatusPriority[First(said)]

Hinted(c) == {e \in Events(c) : Hint(e) # "none"}

\* RULE4 and RULE5: an event after one whose status should have been final.
Violations(c) ==
  LET hinted == Hinted(c)
      before(e) == Normalized(Hint(Latest(Older(e, hinted))))
  IN {e \in hinted : Older(e, hinted) # {} /\ before(e) \in {"DONE", "CANCELLED"}
                       /\ before(e) # Normalized(Hint(e))}

Consistency(c) ==
  CASE Cardinality(Hinted(c)) <= 1 -> "UNKNOWN"
    [] Cardinality(Hinted(c)) > 1 /\ Violations(c) # {} -> "INCONSISTENT"
    [] OTHER -> "CONSISTENT"

-----------------------------------------------------------------------------
\* B30: one entry per subject, in five stable passes from the least key to the most.

StatusDashboard(c) ==
  [id |-> c.id, status |-> StatusEntry(c).status, consistency |-> Consistency(c),
   violations |-> Cardinality(Violations(c)), length |-> Cardinality(Events(c)),
   latest |-> IF Events(c) = {} THEN 0 ELSE Latest(Events(c)).id]

Flag(b) == IF b THEN 0 ELSE 1
Keys(e) == <<Flag(e.consistency = "INCONSISTENT"), Flag(e.status = "BLOCKED"), 0 - e.violations, 0 - e.latest, e.id>>

\* s in the order of its entries' k-th keys, and where those are equal in the order it has.
StableSort(s, k) ==
  LET before(x, y) == x[1][k] < y[1][k] \/ (x[1][k] = y[1][k] /\ x[2] < y[2])
      placed == SortSeq([i \in DOMAIN s |-> <<Keys(s[i]), i>>], before)
  IN [i \in DOMAIN s |-> s[placed[i][2]]]

DashboardSort(s) == FoldLeft(StableSort, s, <<5, 4, 3, 2, 1>>)

DashboardList(all) == DashboardSort(SetToSeq({StatusDashboard(c) : c \in all}))

-----------------------------------------------------------------------------
\* A31: the relations between the facts and decisions of a subject.  The pairs that B29
\* could supply are supplied by no caller, and no record has a source turn.

\* External: some of the words that turn a statement round.
NegationMarkers == {"not", "no", "never", "cancelled", "canceled", "stopped", "nai", "chushi"}

FactNode(f) ==
  [id |-> f.id, type |-> IF f.type = "status" THEN "STATUS" ELSE "CONTEXT", tokens |-> f.value, confidence |-> 10]
ActionNode(d) ==
  [id |-> d.id, type |-> "ACTION", tokens |-> ToSet(Words[d.text]), confidence |-> d.confidence]
FactNodes(c) == {FactNode(f) : f \in c.facts} \cup {ActionNode(d) : d \in c.decisions}

Similarity(x, y) == IF x.tokens \cup y.tokens = {} THEN 0
                    ELSE (100 * Cardinality(x.tokens \cap y.tokens)) \div Cardinality(x.tokens \cup y.tokens)
Negated(x) == x.tokens \cap NegationMarkers # {}
Contradict(x, y) == x.type # "STATUS" /\ Similarity(x, y) >= 20 /\ Negated(x) # Negated(y)

\* The evidence is the fact of the higher confidence, and of two alike the older one.
SupportsIt(x, y) == x.confidence > y.confidence \/ (x.confidence = y.confidence /\ x.id < y.id)

Relation(x, y) ==
  CASE Contradict(x, y) -> "CONTRADICTS"
    [] ~Contradict(x, y) /\ Similarity(x, y) >= 50 -> IF SupportsIt(x, y) THEN "SUPPORTS" ELSE "none"
    [] ~Contradict(x, y) /\ Similarity(x, y) \in 30..49 -> "RELATED_TO"
    [] OTHER -> "none"

Edge(x, y, relation) == [source |-> x.id, target |-> y.id, relation |-> relation]

\* How long a chain of similar facts ends in each.
ChainDepth(nodes) ==
  LET depth[x \in nodes] ==
        LET older == Older(x, nodes)
        IN IF older = {} THEN 0
           ELSE IF Similarity(Latest(older), x) < 50 THEN 0 ELSE depth[Latest(older)] + 1
  IN depth

\* Mutated form: the link that goes too deep is made, the next one is not.
DerivedFromDeeper(nodes) ==
  {Edge(x, Latest(Older(x, nodes)), "DERIVED_FROM") : x \in {y \in nodes : ChainDepth(nodes)[y] \in 1..(DerivedDepth + 1)}}

\* _a31_apply_depth_limit: each derives from the one before it, to a depth.
DerivedFrom(nodes) ==
  {Edge(x, Latest(Older(x, nodes)), "DERIVED_FROM") : x \in {y \in nodes : ChainDepth(nodes)[y] \in 1..DerivedDepth}}

FactGraph(c) ==
  LET nodes == FactNodes(c)
      pairs == {p \in nodes \X nodes : p[1] # p[2] /\ p[1].type = p[2].type /\ Relation(p[1], p[2]) # "none"}
  IN {Edge(p[1], p[2], Relation(p[1], p[2])) : p \in pairs}
     \cup UNION {DerivedFrom({x \in nodes : x.type = t}) : t \in {"STATUS", "CONTEXT", "ACTION"}}

\* _a31_has_cycle: facts that each derive from one of them.
HasCycle(edges) ==
  LET from == {e \in edges : e.relation = "DERIVED_FROM"}
  IN \E S \in SUBSET {e.source : e \in from} :
        S # {} /\ \A x \in S : \E e \in from : e.source = x /\ e.target \in S

-----------------------------------------------------------------------------
\* A32: the relations between subjects, both ways.

SubjectTokens(c) == UNION {f.value : f \in c.facts}
SubjectRelated(a, b) ==
  LET x == SubjectTokens(a)  y == SubjectTokens(b)
  IN x \cup y # {} /\ 10 * Cardinality(x \cap y) >= 3 * Cardinality(x \cup y)

SubjectEdge(a, b, relation) == [source |-> a.id, target |-> b.id, relation |-> relation]
SubjectGraph(all) ==
  LET pairs == {p \in all \X all : p[1].id # p[2].id}
  IN {SubjectEdge(p[1], p[2], "RELATED_TO") : p \in {q \in pairs : SubjectRelated(q[1], q[2])}}
     \cup {SubjectEdge(p[1], p[2], "MERGE_CANDIDATE")
            : p \in {q \in pairs : 0 \notin {q[1].name, q[2].name} /\ MergeConfidence(q[1].name, q[2].name) > 0}}

-----------------------------------------------------------------------------
\* A33: findings, which repeat what A31 and B29 found.

Finding(entity, id, verdict) == [entity |-> entity, id |-> id, verdict |-> verdict]

Findings(c) ==
  LET against == {e \in FactGraph(c) : e.relation = "CONTRADICTS"}
      status == IF Events(c) = {} THEN "UNKNOWN" ELSE Consistency(c)
  IN {Finding("FACT", e.source, "INCONSISTENT") : e \in against}
     \cup (IF against # {} \/ status = "INCONSISTENT" THEN {Finding("SUBJECT", c.id, "INCONSISTENT")} ELSE {})
     \cup {Finding("DECISION", c.id, status)}

Verdict(c) ==
  LET given == {f.verdict : f \in Findings(c)}
  IN CASE "INCONSISTENT" \in given -> "INCONSISTENT"
       [] "INCONSISTENT" \notin given /\ "UNKNOWN" \in given -> "UNKNOWN"
       [] OTHER -> "CONSISTENT"

-----------------------------------------------------------------------------
\* A34: what is within reach of a subject, and A35: what there is to say about it.

ClampDepth(n) == Max({1, Min({MaxDepth, n})})

\* _a34_collect_related_subjects: along RELATED_TO alone.
Reach(b, all, n) ==
  LET edges == {e \in SubjectGraph(all) : e.relation = "RELATED_TO"}
      reach[k \in 0..ClampDepth(n)] ==
        IF k = 0 THEN {b} ELSE reach[k - 1] \cup {e.target : e \in {x \in edges : x.source \in reach[k - 1]}}
  IN reach[ClampDepth(n)]

Item(type, id, c, flag) == [type |-> type, id |-> id, subject |-> c.id, flag |-> flag]

\* The seed's facts are all there, another subject's only where they are related.
Expanded(b, all, n) ==
  LET items(c) ==
        LET flag == Verdict(c)
            related == UNION {{e.source, e.target} : e \in {x \in FactGraph(c) : x.relation # "CONTRADICTS"}}
        IN {Item("SUBJECT", c.id, c, flag)}
           \cup {Item("FACT", id, c, flag) : id \in IF c.id = b THEN {f.id : f \in c.facts} ELSE related}
           \cup {Item("DECISION", d.id, c, flag) : d \in c.decisions}
  IN UNION {items(c) : c \in {x \in all : x.id \in Reach(b, all, n)}}

Reason(type, subject, ref) == [type |-> type, subject |-> subject, ref |-> ref]

MissingInfo(c) == {Reason("MISSING_INFO", c.id, q.id) : q \in Entries(c, "OPEN")}
FollowUp(c) == {Reason("FOLLOW_UP", c.id, d.id) : d \in {x \in c.decisions : x.status \notin DecisionTerminal}}
Contradictions(c) ==
  {Reason("CONTRADICTION_EXPLANATION", c.id, f.id) : f \in {x \in Findings(c) : x.verdict = "INCONSISTENT"}}

Scope(b, all) == {b} \cup {i.subject : i \in Expanded(b, all, 1)}
Reasoning(b, all) ==
  UNION {MissingInfo(c) \cup FollowUp(c) \cup Contradictions(c) : c \in {x \in all : x.id \in Scope(b, all)}}

-----------------------------------------------------------------------------
\* The sections of the context that is put before a model: memory_build_context.

\* The seed of the reasoning is the first of B30.
Seeded(all) == IF all = {} THEN {} ELSE Reasoning(DashboardList(all)[1].id, all)

\* The twelve plugins in their order, and those that have anything to show.
Plugins == <<"A27", "A28", "A29", "A30", "B27", "B28", "B29", "B30", "A31", "A32", "A33", "A35">>
HasSection(p, all) ==
  CASE p = "A27" -> Timeline(all) # {}
    [] p = "B28" -> \E c \in all : Hinted(c) # {}
    [] p = "B29" -> \E c \in all : Events(c) # {}
    [] p = "A31" -> \E c \in all : FactGraph(c) # {}
    [] p = "A32" -> \E e \in SubjectGraph(all) : e.relation = "RELATED_TO"
    [] p = "A35" -> Seeded(all) # {}
    [] OTHER -> all # {}
Sections(all) == Those(Plugins, LAMBDA p : HasSection(p, all))
=============================================================================
