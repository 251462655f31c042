-------------------------------- MODULE Memory --------------------------------
(***************************************************************************)
(* The memory files and the threads that extract what a meeting analysis   *)
(* said into them (phantom_runtime.py: _memory_extract_and_save and what   *)
(* it calls).                                                              *)
(*                                                                         *)
(* Each function loads a file, changes it and rewrites it in one           *)
(* acquisition of _memory_lock, but an extraction is a long row of them,   *)
(* and what one has seen may have changed when the next one acts on it.    *)
(* A thread's row is todo[t]; the head is its next acquisition, and puts   *)
(* in its place what it leaves to be done.  A save truncates the file      *)
(* before it writes: a kill in between leaves one that loads as empty.     *)
(***************************************************************************)
EXTENDS MemoryRecords

CONSTANTS
  Main,            \* the main thread, which runs memory_init()
  Thread,          \* the threads that generate meeting analyses
  Analyses,        \* what an analysis may say: see Extraction
  Stored,          \* bound: what the files may hold at first
  MaxSummaries, MaxQuestions, MaxDecisions, MaxClusters,  \* the caps of the files
  MaxCalls,        \* bound: calls of each thread
  MaxKills         \* bound: kills

Files == {"subject", "owner", "fact", "question", "decision", "cluster", "summary", "approval", "history"}

Text == DOMAIN SubjectIn
Owner == [base : Nat, suffix : STRING]
Analysis ==
  [summary : BOOLEAN, questions : Seq(Text), completed : SUBSET Text, signals : SUBSET STRING,
   actions : Seq([text : Text, keyword : BOOLEAN, owner : Owner, due : BOOLEAN]),
   facts : Seq([name : Nat, type : STRING, value : SUBSET STRING])]

FirstId == 100   \* the records stored before have ids up to this one

\* What one record says of another, here or in another file: the owner_id of a decision, the
\* link of an answer and its fact, the place of a question among the clusters.
NamesOwner(d, owners) ==
  d.ownerId # 0 => d.ownerId \in DOMAIN owners /\ owners[d.ownerId] = d.owner.base
LinkAgrees(q) == q.source = "fact" => q.link = Link("fact", q.fact)
FactThere(q, facts) == q.source = "fact" => \E j \in DOMAIN facts : facts[j].id = q.fact
InCluster(q, clusters) ==
  q.cluster # 0 =>
    \/ \E j \in DOMAIN clusters : clusters[j].id = q.cluster /\ q.id \in clusters[j].members
    \/ Len(clusters) = MaxClusters /\ \A j \in DOMAIN clusters : clusters[j].id > q.cluster

\* The merges that were begun, and two subjects that these have left together: every set
\* that has both or neither of each pair has both or neither of the two.
Executed(approvals) == {<<a.source, a.target>> : a \in {x \in ToSet(approvals) : x.status # "PENDING"}}
Together(x, y, pairs) ==
  \A S \in SUBSET ({x, y} \cup UNION {{p[1], p[2]} : p \in pairs}) :
    (\A p \in pairs : p[1] \in S <=> p[2] \in S) => (x \in S <=> y \in S)
FactBeside(q, facts, approvals) ==
  q.source = "fact" =>
    \E j \in DOMAIN facts : facts[j].id = q.fact /\ Together(q.subject, facts[j].subject, Executed(approvals))

\* What the files hold at first was saved by a process that was not killed: what one record
\* says of another holds, a record has an id of its own, once it is loaded, the clusters
\* come by age, a fact and what it answered have been merged together, and no approval is
\* RUNNING.
StoredSubjects(s) == s \in Seq([id : 1..FirstId, name : Nat, merged : Nat])
StoredDecisions(s, owners) ==
  /\ s \in Seq([id : 0..FirstId, text : Nat \ {0}, subject : Nat, owner : Owner, ownerId : Nat,
                 status : DecisionStatus, fact : Nat, confidence : Nat])
  /\ \A i, j \in DOMAIN s : WithId(s[i]).id = WithId(s[j]).id => i = j
  /\ owners \in Seq(Nat) /\ \A i \in DOMAIN s : NamesOwner(s[i], owners)
StoredQuestions(s, facts, clusters, approvals) ==
  /\ s \in Seq([id : 0..FirstId, text : Nat \ {0}, subject : Nat, answer : BOOLEAN,
                 status : QuestionStatus \cup {"absent"}, source : {"none", "fact", "decision", "answer"},
                 fact : Nat, decision : Nat, cluster : Nat, types : SUBSET STRING,
                 link : [type : {"absent", "none", "fact", "decision", "direct"}, id : Nat]])
  /\ facts \in Seq([id : 1..FirstId, subject : Nat, type : STRING, value : SUBSET STRING])
  /\ clusters \in Seq([id : 1..FirstId, norm : Seq(STRING), key : STRING, members : SUBSET Int])
  /\ \A i, j \in DOMAIN s : WithId(s[i]).id = WithId(s[j]).id => i = j
  /\ Len(clusters) <= MaxClusters /\ \A i, j \in DOMAIN clusters : i < j => clusters[i].id < clusters[j].id
  /\ \A i \in DOMAIN s : /\ LinkAgrees(QuestionsLoaded(s)[i]) /\ FactBeside(QuestionsLoaded(s)[i], facts, approvals)
                         /\ InCluster(s[i], clusters) /\ (s[i].id = 0 => s[i].cluster = 0)
StoredApprovals(s) ==
  s \in Seq([id : 1..FirstId, source : Nat, target : Nat, status : {"PENDING", "APPROVED", "FAILED"}])

ASSUME MemoryAssumption ==
  /\ IsFiniteSet(Thread) /\ Main \notin Thread
  /\ {MaxSummaries, MaxQuestions, MaxDecisions, MaxClusters} \subseteq Nat \ {0}
  /\ MaxCalls \in Nat /\ MaxKills \in Nat
  /\ Analyses \subseteq Analysis
  /\ \A files \in Stored :
       /\ DOMAIN files = Files
       /\ StoredSubjects(files["subject"])
       /\ StoredDecisions(files["decision"], files["owner"])
       /\ StoredQuestions(files["question"], files["fact"], files["cluster"], files["approval"])
       /\ StoredApprovals(files["approval"])

VARIABLES
  disk,     \* the files, by name
  saving,   \* what the holder of _memory_lock still has to write, <<>> when it is free
  todo,     \* todo[t]: the acquisitions t has ahead of it
  serial,   \* ids handed out
  calls,    \* calls[t]: calls t has made
  torn      \* the files a kill has torn, one entry per kill

vars == <<disk, saving, todo, serial, calls, torn>>

Init ==
  /\ disk \in Stored
  /\ saving = <<>>
  /\ todo = [t \in Thread \cup {Main} |-> IF t = Main THEN <<[op |-> "init"]>> ELSE <<>>]
  /\ serial = FirstId
  /\ calls = [t \in Thread |-> 0]
  /\ torn = <<>>

-----------------------------------------------------------------------------
\* One acquisition of the lock, and the writes that end it.

Next1(t) == Head(todo[t])
Doing(t, op) == saving = <<>> /\ todo[t] # <<>> /\ Next1(t).op = op
Write(file, value) == [file |-> file, value |-> value]
NewId == serial + 1

\* t writes and goes on with `more` before what it had ahead of it.
Section(t, writes, more) ==
  /\ saving' = writes
  /\ todo' = [todo EXCEPT ![t] = more \o Tail(@)]
  /\ UNCHANGED <<disk, calls, torn>>

\* _memory_save_file, _owner_registry_save
Save ==
  /\ saving # <<>>
  /\ disk' = [disk EXCEPT ![Head(saving).file] = Head(saving).value]
  /\ saving' = Tail(saving)
  /\ UNCHANGED <<todo, serial, calls, torn>>

Questions == QuestionsLoaded(disk["question"])
Decisions == DecisionsLoaded(disk["decision"])

Unowned(d) == d.owner # Nobody /\ d.ownerId = 0

\* The registry with the owners of the first n decisions in it.
Registered(n) ==
  LET reg[k \in 0..n] ==
        IF k = 0 THEN disk["owner"]
        ELSE IF Unowned(Decisions[k]) THEN WithOwner(Decisions[k].owner, reg[k - 1]) ELSE reg[k - 1]
  IN reg[n]
OwnedDecisions ==
  Where(Decisions, Unowned, LAMBDA d : [d EXCEPT !.ownerId = OwnerId(d.owner, Registered(Len(Decisions)))])

\* memory_init: _owner_migrate_decisions gives the decisions of earlier versions the id
\* of their owner, and saves both files if there was any.
OwnerMigrateDecisions(t) ==
  /\ Doing(t, "init") /\ UNCHANGED serial
  /\ Section(t, IF Holding(Decisions, Unowned) = {} THEN <<>>
                ELSE <<Write("owner", Registered(Len(Decisions))), Write("decision", OwnedDecisions)>>, <<>>)

-----------------------------------------------------------------------------
\* What is extracted from an analysis, in this order.

\* A step of `then` waits for the subject of this name, looked up and, failing that, created.
ForSubject(name, then) ==
  IF name = 0 THEN then ELSE [op |-> "find", name |-> name, then |-> then]

\* _decision_confidence in tenths, and the threshold of a candidate line.
DecisionConfidence(a) ==
  LET has(b, n) == IF b THEN n ELSE 0
      score == 5 + has(a.keyword, 3) + has(SubjectIn[a.text] # 0, 2)
                 + has(a.owner # Nobody, 1) + has(a.due, 1)
  IN IF ~a.keyword /\ SubjectIn[a.text] = 0 THEN 0 ELSE IF score > 10 THEN 10 ELSE score

QuestionOp(x) == [op |-> "similar", text |-> x]
DecisionOp(a) ==
  ForSubject(SubjectIn[a.text],
    [op |-> "owner", text |-> a.text, subject |-> 0, owner |-> a.owner, ownerId |-> 0,
     confidence |-> DecisionConfidence(a)])
FactOp(f) ==
  ForSubject(f.name, [op |-> "fact", subject |-> 0, type |-> f.type, value |-> f.value])

Extraction(a) ==
  LET saved == Those(a.actions, LAMBDA x : DecisionConfidence(x) >= 5)
  IN (IF a.summary THEN <<[op |-> "summary"]>> ELSE <<>>)
     \o [i \in DOMAIN a.questions |-> QuestionOp(a.questions[i])]
     \o <<[op |-> "completed", texts |-> a.completed]>>
     \o [i \in DOMAIN saved |-> DecisionOp(saved[i])]
     \o <<[op |-> "transition", to |-> Transition(a.signals)]>>
     \o [i \in DOMAIN a.facts |-> FactOp(a.facts[i])]

\* A thread that is done with its last call makes another.
Call(t) ==
  /\ todo[t] = <<>> /\ todo[Main] = <<>> /\ calls[t] < MaxCalls
  /\ calls' = [calls EXCEPT ![t] = @ + 1]
  /\ UNCHANGED <<disk, saving, serial, torn>>

ExtractAndSave(t) ==
  Call(t) /\ \E a \in Analyses : todo' = [todo EXCEPT ![t] = Extraction(a)]

-----------------------------------------------------------------------------
\* Summaries and subjects.

AddSummary(t) ==
  /\ Doing(t, "summary") /\ UNCHANGED serial
  /\ Section(t, <<Write("summary", Capped(Append(disk["summary"], t), MaxSummaries))>>, <<>>)

\* Mutated form: the name of a subject that was merged is free for another.
FindSubjectUnmerged(t) ==
  LET id == SubjectFind(Next1(t).name, SelectSeq(disk["subject"], LAMBDA s : s.merged = 0))
  IN /\ Doing(t, "find") /\ UNCHANGED serial
     /\ Section(t, <<>>, IF id # 0 THEN <<[Next1(t).then EXCEPT !.subject = id]>>
                         ELSE <<[Next1(t) EXCEPT !.op = "create"]>>)

\* _subject_get_or_create: _subject_find and _subject_create, one acquisition each.
FindSubject(t) ==
  LET id == SubjectFind(Next1(t).name, disk["subject"])
  IN /\ Doing(t, "find") /\ UNCHANGED serial
     /\ Section(t, <<>>, IF id # 0 THEN <<[Next1(t).then EXCEPT !.subject = id]>>
                         ELSE <<[Next1(t) EXCEPT !.op = "create"]>>)

CreateSubject(t) ==
  /\ Doing(t, "create") /\ serial' = NewId
  /\ Section(t, <<Write("subject", Append(disk["subject"], [id |-> NewId, name |-> Next1(t).name, merged |-> 0]))>>,
             <<[Next1(t).then EXCEPT !.subject = NewId]>>)

-----------------------------------------------------------------------------
\* Questions.

\* memory_question_similar_exists, asked before the question is added.
SimilarQuestion(t) ==
  /\ Doing(t, "similar") /\ UNCHANGED serial
  /\ Section(t, <<>>, IF SimilarExists(Next1(t).text, disk["question"]) THEN <<>>
                      ELSE <<ForSubject(SubjectIn[Next1(t).text],
                               [op |-> "question", text |-> Next1(t).text, subject |-> 0])>>)

\* A question that comes with its answer is ANSWERED, and has no link to it.
NewQuestion(id, x, subject, answer) ==
  [id |-> id, text |-> x, subject |-> subject, answer |-> answer,
   status |-> IF answer THEN "ANSWERED" ELSE "OPEN", source |-> IF answer THEN "answer" ELSE "none",
   fact |-> 0, decision |-> 0, link |-> NoLink, types |-> {}, cluster |-> 0]

AddQuestion(t) ==
  /\ Doing(t, "question") /\ serial' = NewId
  /\ Section(t, <<Write("question",
        Capped(Append(Questions, NewQuestion(NewId, Next1(t).text, Next1(t).subject, TRUE)), MaxQuestions))>>,
             <<[op |-> "cluster", id |-> NewId, text |-> Next1(t).text]>>)

\* What the cluster's assignment writes to the two files.
Clustered(o) ==
  LET clusters == ClusterAssigned(o.id, o.text, NewId, disk["cluster"], MaxClusters)
      at == First(Holding(clusters, LAMBDA c : o.id \in c.members))
  IN [clusters |-> Write("cluster", clusters),
      question |-> Write("question", Where(Questions, LAMBDA q : q.id = o.id,
                                           LAMBDA q : [q EXCEPT !.cluster = clusters[at].id]))]

\* _question_cluster_assign: the clusters first, then the question's place among them.
AssignCluster(t) ==
  /\ Doing(t, "cluster") /\ serial' = NewId
  /\ Section(t, <<Clustered(Next1(t)).clusters, Clustered(Next1(t)).question>>, <<>>)

-----------------------------------------------------------------------------
\* Decisions.

\* _memory_detect_completed_decisions: the OPEN ones the analysis calls completed ...
DetectCompleted(t) ==
  LET open == Those(disk["decision"], LAMBDA d : d.status = "OPEN" /\ d.text \in Next1(t).texts)
  IN /\ Doing(t, "completed") /\ UNCHANGED serial
     /\ Section(t, <<>>, [i \in DOMAIN open |-> [op |-> "update", text |-> open[i].text]])

\* ... and memory_update_decision_status for each: the last one of that text, whatever it is.
UpdateDecisionStatus(t) ==
  LET same == Holding(disk["decision"], LAMBDA d : d.text = Next1(t).text)
  IN /\ Doing(t, "update") /\ UNCHANGED serial
     /\ Section(t, IF same = {} THEN <<>>
                   ELSE <<Write("decision", [disk["decision"] EXCEPT ![Final(same)].status = "DONE"])>>, <<>>)

\* _owner_get_or_create
ForOwner(t) ==
  LET p == Next1(t).owner  registry == WithOwner(p, disk["owner"])
      then == [Next1(t) EXCEPT !.op = "decision"]
  IN /\ Doing(t, "owner") /\ UNCHANGED serial
     /\ IF p = Nobody THEN Section(t, <<>>, <<then>>)
        ELSE Section(t, <<Write("owner", registry)>>, <<[then EXCEPT !.ownerId = OwnerId(p, registry)]>>)

AddDecision(t) ==
  LET o == Next1(t)
      d == [id |-> NewId, text |-> o.text, subject |-> o.subject, owner |-> o.owner,
            ownerId |-> o.ownerId, status |-> "OPEN", fact |-> 0, confidence |-> o.confidence]
  IN /\ Doing(t, "decision") /\ serial' = NewId
     /\ Section(t, <<Write("decision", Capped(Append(Decisions, d), MaxDecisions))>>, <<>>)

\* Mutated form: the signal is applied to every decision.
ApplyTransitionToAll(t) ==
  LET to == Next1(t).to
  IN /\ Doing(t, "transition") /\ UNCHANGED serial
     /\ Section(t, IF to = "none" THEN <<>>
                   ELSE <<Write("decision", Where(Decisions, LAMBDA d : TRUE,
                                                  LAMBDA d : [d EXCEPT !.status = to]))>>, <<>>)

\* _memory_apply_status_transition: one signal for all that are OPEN.
ApplyTransition(t) ==
  LET to == Next1(t).to
      updated == Where(Decisions, LAMBDA d : d.status = "OPEN", LAMBDA d : UpdateStatus(d, to))
  IN /\ Doing(t, "transition") /\ UNCHANGED serial
     /\ Section(t, IF to = "none" \/ updated = Decisions THEN <<>> ELSE <<Write("decision", updated)>>, <<>>)

-----------------------------------------------------------------------------
\* Facts, and what they resolve.

\* _fact_create appends the fact and then links decisions and questions to it.
AddFact(t) ==
  LET o == Next1(t)
      f == [id |-> NewId, subject |-> o.subject, type |-> o.type, value |-> o.value]
  IN /\ Doing(t, "fact") /\ serial' = NewId
     /\ Section(t, <<Write("fact", Append(disk["fact"], f))>>,
          (IF Completes(o.type, o.value) THEN <<[op |-> "decisionLinks", fact |-> f]>> ELSE <<>>)
          \o <<[op |-> "questionLinks", fact |-> f]>>)

\* _fact_resolve_links: the subject's OPEN decisions, to be marked one by one.
LinkDecisions(t) ==
  LET f == Next1(t).fact
      open == Those(Decisions, LAMBDA d : d.subject = f.subject /\ d.status = "OPEN")
  IN /\ Doing(t, "decisionLinks") /\ UNCHANGED serial
     /\ Section(t, <<>>, [i \in DOMAIN open |-> [op |-> "markDone", id |-> open[i].id, fact |-> f.id]])

\* _decision_mark_done, whatever has become of the decision since.
MarkDone(t) ==
  LET hit(d) == d.id = Next1(t).id
  IN /\ Doing(t, "markDone") /\ UNCHANGED serial
     /\ Section(t, IF Holding(Decisions, hit) = {} THEN <<>>
                   ELSE <<Write("decision", Where(Decisions, hit,
                            LAMBDA d : [d EXCEPT !.status = "DONE", !.fact = Next1(t).fact]))>>, <<>>)

\* _question_resolve_links: the subject's unresolved questions this type of fact answers.
LinkQuestions(t) ==
  LET f == Next1(t).fact
      open == Those(Questions, LAMBDA q : q.subject = f.subject /\ ~IsResolved(q)
                                            /\ FactTypeMatches(q, f.type))
  IN /\ Doing(t, "questionLinks") /\ UNCHANGED serial
     /\ Section(t, <<>>, [i \in DOMAIN open |-> [op |-> "markAnswered", id |-> open[i].id, fact |-> f.id]])

MarkQuestion(t) ==
  LET hit(q) == q.id = Next1(t).id
  IN /\ Doing(t, "markAnswered") /\ UNCHANGED serial
     /\ Section(t, IF Holding(Questions, hit) = {} THEN <<>>
                   ELSE <<Write("question", Where(Questions, hit,
                            LAMBDA q : MarkAnswered(q, Next1(t).fact)))>>, <<>>)

\* _question_mark_answered_by_decision and _question_mark_answered_by_answer.
MarkQuestionBy(t) ==
  LET hit(q) == q.id = Next1(t).id
  IN /\ Doing(t, "answeredBy") /\ UNCHANGED serial
     /\ Section(t, IF Holding(Questions, hit) = {} THEN <<>>
                   ELSE <<Write("question", Where(Questions, hit,
                            LAMBDA q : MarkAnsweredBy(q, Next1(t).source, Next1(t).decision)))>>, <<>>)

-----------------------------------------------------------------------------
\* SIGKILL, and the program started again: the file being written is torn, or its save
\* had not begun; memory_init() comes first.
Kill ==
  /\ Len(torn) < MaxKills
  /\ \E file \in {"none"} \cup (IF saving = <<>> THEN {} ELSE {Head(saving).file}) :
       /\ disk' = [disk EXCEPT ![IF file = "none" THEN "summary" ELSE file] =
                     IF file = "none" THEN @ ELSE <<>>]
       /\ torn' = Append(torn, file)
  /\ saving' = <<>>
  /\ todo' = [t \in DOMAIN todo |-> IF t = Main THEN <<[op |-> "init"]>> ELSE <<>>]
  /\ UNCHANGED <<serial, calls>>

ExtractionStep(t) ==
  \/ AddSummary(t) \/ FindSubject(t) \/ CreateSubject(t)
  \/ SimilarQuestion(t) \/ AddQuestion(t) \/ AssignCluster(t)
  \/ DetectCompleted(t) \/ UpdateDecisionStatus(t) \/ ForOwner(t) \/ AddDecision(t)
  \/ ApplyTransition(t)
  \/ AddFact(t) \/ LinkDecisions(t) \/ MarkDone(t) \/ LinkQuestions(t) \/ MarkQuestion(t)
=============================================================================
