----------------------------- MODULE SubjectMerge -----------------------------
(***************************************************************************)
(* Merging subjects (phantom_runtime.py: the approval queue, the merge     *)
(* transaction and its history, the automatic merge) beside the            *)
(* extractions of Memory.  A transaction is six acquisitions of the lock   *)
(* and is not rolled back: its last check only reports what it finds.      *)
(***************************************************************************)
EXTENDS Memory

CONSTANTS
  Operator,      \* threads from which the merge functions are called
  AutoMerge,     \* AUTO_MERGE_ENABLED
  AutoExecute    \* AUTO_MERGE_EXECUTE_APPROVED

ASSUME SubjectMergeAssumption ==
  Operator \subseteq Thread /\ {AutoMerge, AutoExecute} \subseteq BOOLEAN

Ids(file) == {disk[file][i].id : i \in DOMAIN disk[file]}

\* A file with the approval's status set.
Approved(id, status) ==
  Where(disk["approval"], LAMBDA a : a.id = id, LAMBDA a : [a EXCEPT !.status = status])

NameOf(id) ==
  LET at == SubjectById(id, disk["subject"]) IN IF at = 0 THEN 0 ELSE disk["subject"][at].name

-----------------------------------------------------------------------------
\* The approval queue.

\* _merge_approval_create: one PENDING record for a pair.
CreateApproval(t) ==
  LET o == Next1(t)
      same == Holding(disk["approval"], LAMBDA a : a.source = o.source /\ a.target = o.target
                                                     /\ a.status = "PENDING")
      id == IF same # {} THEN disk["approval"][First(same)].id ELSE NewId
      record == [id |-> NewId, source |-> o.source, target |-> o.target, status |-> "PENDING"]
  IN /\ Doing(t, "approve") /\ serial' = IF same # {} THEN serial ELSE NewId
     /\ Section(t, IF same # {} THEN <<>> ELSE <<Write("approval", Append(disk["approval"], record))>>,
                   IF o.execute THEN <<[op |-> "execute", id |-> id]>> ELSE <<>>)

Transaction(source, target, approval) ==
  [op |-> "names", source |-> source, target |-> target, approval |-> approval,
   names |-> <<0, 0>>, ok |-> FALSE]

\* Mutated form: a record that is RUNNING is executed, too.
ExecuteApprovalAgain(t) ==
  LET at == Holding(disk["approval"], LAMBDA a : a.id = Next1(t).id /\ a.status # "FAILED")
  IN /\ Doing(t, "execute") /\ UNCHANGED serial
     /\ IF at = {} THEN Section(t, <<>>, <<>>)
        ELSE LET a == disk["approval"][First(at)]
             IN Section(t, <<Write("approval", Approved(a.id, "RUNNING"))>>,
                           <<Transaction(a.source, a.target, a.id)>>)

\* _merge_approval_execute: PENDING -> RUNNING, saved before the transaction.
ExecuteApproval(t) ==
  LET at == Holding(disk["approval"], LAMBDA a : a.id = Next1(t).id /\ a.status = "PENDING")
  IN /\ Doing(t, "execute") /\ UNCHANGED serial
     /\ IF at = {} THEN Section(t, <<>>, <<>>)
        ELSE LET a == disk["approval"][First(at)]
             IN Section(t, <<Write("approval", Approved(a.id, "RUNNING"))>>,
                           <<Transaction(a.source, a.target, a.id)>>)

\* ... and RUNNING -> APPROVED or FAILED after it.
SettleApproval(t) ==
  /\ Doing(t, "settle") /\ UNCHANGED serial
  /\ Section(t, <<Write("approval", Approved(Next1(t).approval,
                                             IF Next1(t).ok THEN "APPROVED" ELSE "FAILED"))>>, <<>>)

-----------------------------------------------------------------------------
\* _subject_merge_transaction

TransactionNames(t) ==
  /\ Doing(t, "names") /\ UNCHANGED serial
  /\ Section(t, <<>>, <<[Next1(t) EXCEPT !.op = "move fact",
                                         !.names = <<NameOf(Next1(t).source), NameOf(Next1(t).target)>>]>>)

\* Saved only if there was anything to move.
MoveRecords(t, op, file, loaded, after) ==
  LET tx == Next1(t)  mine(r) == r.subject = tx.source
  IN /\ Doing(t, op) /\ UNCHANGED serial
     /\ Section(t, IF Holding(loaded, mine) = {} THEN <<>>
                   ELSE <<Write(file, Where(loaded, mine, LAMBDA r : [r EXCEPT !.subject = tx.target]))>>,
                   <<[tx EXCEPT !.op = after]>>)

\* _fact_migrate_subject, _question_migrate_subject, _decision_migrate_subject
MoveFacts(t) == MoveRecords(t, "move fact", "fact", disk["fact"], "move question")
MoveQuestions(t) == MoveRecords(t, "move question", "question", Questions, "move decision")
MoveDecisions(t) == MoveRecords(t, "move decision", "decision", Decisions, "registry")

\* _subject_merge_execute
MergeRegistry(t) ==
  LET tx == Next1(t)  at == Holding(disk["subject"], LAMBDA s : s.id = tx.source)
  IN /\ Doing(t, "registry") /\ UNCHANGED serial
     /\ Section(t, IF at = {} THEN <<>>
                   ELSE <<Write("subject", [disk["subject"] EXCEPT ![First(at)].merged = tx.target])>>,
                   <<[tx EXCEPT !.op = "validate", !.ok = at # {}]>>)

\* The whole registry is validated, after the fact.
Validate(t) ==
  LET ok == Next1(t).ok /\ MergeErrors(disk["subject"]) = {}
  IN /\ Doing(t, "validate") /\ UNCHANGED serial
     /\ Section(t, <<>>, <<[Next1(t) EXCEPT !.op = IF ok THEN "history" ELSE "settle", !.ok = ok]>>)

AppendHistory(t) ==
  LET tx == Next1(t)
      record == [id |-> NewId, source |-> tx.source, target |-> tx.target,
                 recommendation |-> IF 0 \in {tx.names[1], tx.names[2]} THEN "IGNORE"
                                    ELSE MergeRecommendation(tx.names[1], tx.names[2])]
  IN /\ Doing(t, "history") /\ serial' = NewId
     /\ Section(t, <<Write("history", Append(disk["history"], record))>>, <<[tx EXCEPT !.op = "settle"]>>)

-----------------------------------------------------------------------------
\* _subject_auto_merge_candidates: the plan, then ids for its names, then one pair at a
\* time; the plan is a set here, and its pairs come in any order.

\* What is left to do of the plan.
AutoPairs(pairs) == IF pairs = {} THEN <<>> ELSE <<[op |-> "autoPair", pairs |-> pairs]>>

AutoPlan(t) ==
  /\ Doing(t, "auto") /\ UNCHANGED serial
  /\ Section(t, <<>>, IF AutoMerge THEN <<[op |-> "autoIds", plan |->
                         {p \in MergePlan(disk["subject"]) : MergeConfidence(p.source, p.target) >= 95}]>>
                      ELSE <<>>)

\* Of two subjects of one name the later one stands for it.
AutoIds(t) ==
  LET id(n) == disk["subject"][Final(Holding(disk["subject"], LAMBDA s : s.name = n))].id
  IN /\ Doing(t, "autoIds") /\ UNCHANGED serial
     /\ Section(t, <<>>, AutoPairs({[source |-> id(p.source), target |-> id(p.target)] : p \in Next1(t).plan}))

AutoPair(t) ==
  /\ Doing(t, "autoPair") /\ UNCHANGED serial
  /\ \E p \in Next1(t).pairs :
       Section(t, <<>>, (IF ResolveMerge(p.source, disk["subject"]) # p.source THEN <<>>
                         ELSE <<[op |-> "approve", source |-> p.source, target |-> p.target,
                                 execute |-> AutoExecute]>>)
                        \o AutoPairs(Next1(t).pairs \ {p}))

-----------------------------------------------------------------------------
\* The calls, and all the steps.

RequestMerge(t) ==
  /\ Call(t)
  /\ \E s, u \in Ids("subject") :
       todo' = [todo EXCEPT ![t] = <<[op |-> "approve", source |-> s, target |-> u, execute |-> TRUE]>>]
AutoMergeCall(t) == Call(t) /\ todo' = [todo EXCEPT ![t] = <<[op |-> "auto"]>>]
AnswerCall(t) ==
  /\ Call(t)
  /\ \E q \in Ids("question"), d \in Ids("decision") \cup {0} :
       todo' = [todo EXCEPT ![t] = <<[op |-> "answeredBy", id |-> q, decision |-> d,
                                      source |-> IF d = 0 THEN "answer" ELSE "decision"]>>]

MergeStep(t) ==
  \/ CreateApproval(t) \/ ExecuteApproval(t) \/ SettleApproval(t)
  \/ TransactionNames(t)
  \/ MoveFacts(t) \/ MoveQuestions(t) \/ MoveDecisions(t)
  \/ MergeRegistry(t) \/ Validate(t) \/ AppendHistory(t)
  \/ AutoPlan(t) \/ AutoIds(t) \/ AutoPair(t)

Next ==
  \/ Save \/ Kill \/ OwnerMigrateDecisions(Main)
  \/ \E t \in Thread : ExtractAndSave(t) \/ ExtractionStep(t)
  \/ \E t \in Operator : RequestMerge(t) \/ AutoMergeCall(t) \/ AnswerCall(t) \/ MarkQuestionBy(t)
                           \/ MergeStep(t)

Spec == Init /\ [][Next]_vars

-----------------------------------------------------------------------------
\* Properties.

\* Whatever signals, completions and facts later analyses bring, a decision that is DONE
\* stays so for as long as it is kept.
DoneIsFinal ==
  [][\A i \in DOMAIN Decisions, j \in DOMAIN Decisions' :
       Decisions[i].status = "DONE" /\ Decisions[i].id = Decisions'[j].id
         => Decisions'[j].status = "DONE"]_vars

\* One thread at a time executes an approval, and one that is RUNNING is being executed or
\* was when the process was killed.
Executing(t, id) == \E i \in DOMAIN todo[t] : "approval" \in DOMAIN todo[t][i] /\ todo[t][i].approval = id
ExecutedOnce ==
  \A i \in DOMAIN disk["approval"] :
    LET by == {t \in Thread : Executing(t, disk["approval"][i].id)}
    IN /\ Cardinality(by) <= 1
       /\ disk["approval"][i].status = "RUNNING" /\ torn = <<>> /\ saving = <<>> => by # {}

TornFiles == {torn[i] : i \in DOMAIN torn}

\* _subject_get_or_create looks up and creates in two acquisitions of the lock.  However
\* extractions and merges interleave, a name that was in the registry is never created
\* again, and threads that race to create one make at most one subject each.
SubjectsPerName ==
  \A i \in DOMAIN disk["subject"] :
     LET new == {j \in DOMAIN disk["subject"] : /\ disk["subject"][j].name = disk["subject"][i].name
                                                /\ disk["subject"][j].id > FirstId}
     IN /\ Cardinality(new) <= Cardinality(Thread)
        /\ disk["subject"][i].id <= FirstId => new = {}

\* The owner registry and the decisions are two files: a decision's owner_id names the
\* owner of the decision in the registry, whatever honorific the text used and wherever a
\* kill struck, and once memory_init() is done none that has an owner lacks it.
OwnerNamed ==
  "owner" \notin TornFiles =>
    \A i \in DOMAIN disk["decision"] :
      LET d == disk["decision"][i]
      IN /\ NamesOwner(d, disk["owner"])
         /\ todo[Main] = <<>> /\ saving = <<>> /\ d.owner.base # 0 => d.ownerId # 0

\* The link of a question answered by a fact is the fact that resolved it last, and that
\* fact is in its file, also when two extractions answer one question at the same time.
AnswerLinked ==
  \A i \in DOMAIN Questions :
    LinkAgrees(Questions[i]) /\ ("fact" \notin TornFiles => FactThere(Questions[i], disk["fact"]))

\* A question's cluster_id names a cluster that holds it, or one that was evicted from a
\* full file: a kill between the two writes leaves no reference to a cluster never made.
ClusterHolds ==
  "cluster" \notin TornFiles =>
    \A i \in DOMAIN disk["question"] : InCluster(disk["question"][i], disk["cluster"])

\* What one file refers to in another is there: the fact that answered a question, and
\* the cluster that holds it, wherever threads interleave and a kill strikes.
LinksHold == AnswerLinked /\ ClusterHolds
=============================================================================
