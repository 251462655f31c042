----------------------------- MODULE MemoryRecords -----------------------------
(***************************************************************************)
(* The records of the memory layer (phantom_runtime.py) and what its       *)
(* functions decide about one record, or one list of records, at a time:   *)
(* status transitions, the migration of older records, question similarity *)
(* and clusters, owners, and the chains of merged subjects.                *)
(*                                                                         *)
(* A text and a name are numbers; the constants say what the program's     *)
(* regular expressions make of them.  An id is a number too, handed out in *)
(* the order of creation, so that it also stands for the time stamp; 0 is  *)
(* no id.  A fact's value is the set of its words.                         *)
(***************************************************************************)
EXTENDS Integers, FiniteSets, SequencesExt

CONSTANTS
  SubjectIn,    \* SubjectIn[x]: the bracketed name in text x, or 0
  Letters,      \* Letters[n]: name n in lower case, a sequence
  Words,        \* Words[x]: the words of question x, split at its particles
  Script,       \* Script[x]: how many characters of x are [cjk, ascii, total]
  MaxHops       \* how far a chain of merged subjects is followed

ASSUME MemoryRecordsAssumption == MaxHops \in Nat \ {0}

\* s with F applied where P holds, the last n of s, the places where P holds, and what is there.
Where(s, P(_), F(_)) == [i \in DOMAIN s |-> IF P(s[i]) THEN F(s[i]) ELSE s[i]]
Capped(s, n) == SubSeq(s, IF Len(s) > n THEN Len(s) - n + 1 ELSE 1, Len(s))
Holding(s, P(_)) == {i \in DOMAIN s : P(s[i])}
Those(s, P(_)) ==
  LET at == Holding(s, P)
  IN [k \in 1..Cardinality(at) |-> s[CHOOSE i \in at : Cardinality({j \in at : j < i}) = k - 1]]
First(S) == CHOOSE i \in S : \A j \in S : i <= j
Final(S) == CHOOSE i \in S : \A j \in S : i >= j

-----------------------------------------------------------------------------
\* Statuses.

DecisionStatus == {"OPEN", "IN_PROGRESS", "BLOCKED", "DONE", "CANCELLED"}
DecisionTerminal == {"DONE", "CANCELLED"}

DecisionCanTransition(current, new) ==
  current \in DecisionStatus \ DecisionTerminal /\ new \in DecisionStatus

UpdateStatus(d, new) ==
  IF d.status # new /\ DecisionCanTransition(d.status, new)
    THEN [d EXCEPT !.status = new] ELSE d

\* The signal a whole analysis gives: CANCELLED before BLOCKED before IN_PROGRESS.
Transition(signals) ==
  CASE "CANCELLED" \in signals -> "CANCELLED"
    [] "CANCELLED" \notin signals /\ "BLOCKED" \in signals -> "BLOCKED"
    [] signals = {"IN_PROGRESS"} -> "IN_PROGRESS"
    [] OTHER -> "none"

QuestionStatus == {"OPEN", "ANSWERED"}
QuestionCanTransition(current, new) ==
  current = new \/ (current = "OPEN" /\ new \in QuestionStatus)

IsResolved(q) ==
  IF q.status # "absent" THEN q.status = "ANSWERED"
  ELSE q.answer \/ q.fact # 0 \/ q.decision # 0

NoLink == [type |-> "none", id |-> 0]
Link(type, id) == [type |-> type, id |-> id]

FactTypeMatches(q, type) ==
  type \in IF q.types = {} THEN {"status", "result", "schedule", "options"} ELSE q.types

\* A fact of this type and value completes the decisions about its subject.
Completes(type, value) == type = "status" /\ value = {"done"}

\* Mutated form: a question answered before keeps the link it had.
MarkAnsweredOnce(q, f) ==
  [q EXCEPT !.fact = f,
            !.status = IF q.status = "OPEN" THEN "ANSWERED" ELSE @,
            !.source = IF q.status = "OPEN" THEN "fact" ELSE @,
            !.link = IF q.status = "OPEN" THEN Link("fact", f) ELSE @]

\* _question_mark_answered: the last fact wins, ANSWERED -> ANSWERED being a transition.
MarkAnswered(q, f) ==
  IF QuestionCanTransition(q.status, "ANSWERED")
    THEN [q EXCEPT !.fact = f, !.status = "ANSWERED", !.source = "fact", !.link = Link("fact", f)]
    ELSE [q EXCEPT !.fact = f]

\* _question_mark_answered_by_decision, _question_mark_answered_by_answer
MarkAnsweredBy(q, source, d) ==
  IF q.status = "ANSWERED" \/ (source = "answer" /\ ~q.answer) THEN q
  ELSE [q EXCEPT !.status = "ANSWERED", !.source = source,
                 !.decision = IF source = "decision" THEN d ELSE @,
                 !.link = IF source = "decision" THEN Link("decision", d) ELSE Link("direct", 0)]

-----------------------------------------------------------------------------
\* Migration on load.

LegacyId(x) == 0 - x

ResolutionOf(q) ==
  CASE q.fact # 0 -> "fact"
    [] q.fact = 0 /\ q.decision # 0 -> "decision"
    [] q.fact = 0 /\ q.decision = 0 /\ q.answer -> "answer"
    [] OTHER -> "none"

AnswerLink(q) ==
  CASE q.source = "fact" -> Link("fact", q.fact)
    [] q.source = "decision" -> Link("decision", q.decision)
    [] q.source = "answer" -> Link("direct", 0)
    [] OTHER -> NoLink

WithId(r) == IF r.id = 0 THEN [r EXCEPT !.id = LegacyId(r.text)] ELSE r

WithStatus(q) ==
  IF q.status # "absent" THEN q
  ELSE [q EXCEPT !.source = ResolutionOf(q),
                 !.status = IF ResolutionOf(q) = "none" THEN "OPEN" ELSE "ANSWERED"]

WithLink(q) == IF q.link.type = "absent" THEN [q EXCEPT !.link = AnswerLink(q)] ELSE q

QuestionsLoaded(s) == [i \in DOMAIN s |-> WithLink(WithStatus(WithId(s[i])))]
DecisionsLoaded(s) == [i \in DOMAIN s |-> WithId(s[i])]

-----------------------------------------------------------------------------
\* Question texts and clusters.  Percentages stand for the scores.

\* External: the regular expressions and the stop list know these words.
Particles == {"wa", "ga", "wo", "ni", "desuka", "masuka"}
StopWords == {"a", "an", "the", "is", "are", "do", "does", "have", "has",
              "you", "your", "we", "our", "they", "it", "its", "use", "using"}
CanonicalDict ==
  [w \in {"mfa", "2fa", "two-factor", "multi-factor"} |-> "mfa"] @@
  [w \in {"password-management", "credential-management"} |-> "auth_mgmt"] @@
  [w \in {"vpn", "virtual-private-network"} |-> "vpn"]

DetectLanguage(x) ==
  CASE Script[x].total # 0 /\ 5 * Script[x].cjk > Script[x].total -> "ja"
    [] 5 * Script[x].cjk <= Script[x].total /\ 5 * Script[x].ascii > 2 * Script[x].total -> "en"
    [] OTHER -> "unknown"

Canonical(w) == IF w \in DOMAIN CanonicalDict THEN CanonicalDict[w] ELSE w
Normalize(x) ==
  LET dropped == IF DetectLanguage(x) = "en" THEN StopWords ELSE Particles
      kept == SelectSeq(Words[x], LAMBDA w : w \notin dropped)
  IN [i \in DOMAIN kept |-> Canonical(kept[i])]

\* The first canonical token, if there is one.
CanonicalKey(norm) ==
  LET keys == SelectSeq(norm, LAMBDA w : \E v \in DOMAIN CanonicalDict : CanonicalDict[v] = w)
  IN IF keys = <<>> THEN "none" ELSE Head(keys)

\* External: difflib.SequenceMatcher.ratio(), over words.
Ratio(a, b) ==
  IF a \o b = <<>> THEN 100
  ELSE (200 * Cardinality(ToSet(a) \cap ToSet(b))) \div (Len(a) + Len(b))

Jaccard(A, B) ==
  IF A = {} \/ B = {} THEN 0 ELSE (100 * Cardinality(A \cap B)) \div Cardinality(A \cup B)

\* _content_question
Content(x) == SelectSeq(Normalize(x), LAMBDA w : w \notin Particles)

\* memory_question_similar_exists
SimilarExists(x, questions) ==
  \E i \in DOMAIN questions :
     LET y == questions[i].text
     IN \/ Normalize(x) = Normalize(y)
        \/ Ratio(Normalize(x), Normalize(y)) >= 85
        \/ Ratio(Content(x), Content(y)) >= 85

\* The first cluster of the best wording: of those that share a word each is measured by
\* its ratio and, if that does not improve on the best so far, by its overlap.
ClosestCluster(norm, clusters) ==
  LET Compare(best, i) ==
        LET with == clusters[i].norm
            ratio == Ratio(norm, with)
            overlap == IF Len(norm) >= 2 /\ Len(with) >= 2 THEN Jaccard(ToSet(norm), ToSet(with)) ELSE 0
            apart == with # <<>> /\ ToSet(norm) \cap ToSet(with) = {}
            alike == ratio >= 85 /\ ratio > best.score
        IN CASE ~apart /\ alike -> [at |-> i, score |-> ratio]
             [] ~apart /\ ~alike /\ overlap >= 60 /\ overlap > best.score -> [at |-> i, score |-> overlap]
             [] OTHER -> best
  IN FoldLeftDomain(Compare, [at |-> 0, score |-> 0], clusters).at

\* The cluster a question belongs to: the exact text, then the key, then the wording.
FindCluster(norm, clusters) ==
  LET exact == Holding(clusters, LAMBDA c : c.norm = norm)
      keyed == Holding(clusters, LAMBDA c : CanonicalKey(norm) # "none" /\ c.key = CanonicalKey(norm))
      close == DOMAIN clusters \cap {ClosestCluster(norm, clusters)}
  IN CASE exact # {} -> First(exact)
       [] exact = {} /\ keyed # {} -> First(keyed)
       [] exact = {} /\ keyed = {} /\ close # {} -> First(close)
       [] OTHER -> 0

\* The clusters with question q in its place, a new cluster for it if none matches.
ClusterAssigned(q, x, id, clusters, max) ==
  LET norm == Normalize(x)  at == FindCluster(norm, clusters)
  IN IF at # 0 THEN [clusters EXCEPT ![at].members = @ \cup {q}]
     ELSE Append(IF Len(clusters) >= max THEN Capped(clusters, max - 1) ELSE clusters,
                 [id |-> id, norm |-> norm, key |-> CanonicalKey(norm), members |-> {q}])

-----------------------------------------------------------------------------
\* Owners: the registry is the sequence of their base names, an owner's id its place
\* (_owner_next_id: the largest plus one); a person is a base name with an honorific.

Person(base, suffix) == [base |-> base, suffix |-> suffix]
Nobody == Person(0, "")

\* Mutated form: who is named with another honorific is somebody else.
OwnerStripNothing(p) == IF p.suffix = "" THEN p.base ELSE 100 + p.base

OwnerStripSuffix(p) == p.base

OwnerId(p, registry) ==
  LET matches == Holding(registry, LAMBDA name : name = OwnerStripSuffix(p))
  IN IF matches = {} THEN 0 ELSE First(matches)

\* _owner_get_or_create_nolock: the registry with p in it.
WithOwner(p, registry) ==
  IF OwnerId(p, registry) # 0 THEN registry ELSE Append(registry, OwnerStripSuffix(p))

-----------------------------------------------------------------------------
\* Subjects.

SubjectById(id, subjects) ==
  LET at == Holding(subjects, LAMBDA s : s.id = id) IN IF at = {} THEN 0 ELSE Final(at)

SubjectFind(name, subjects) ==
  LET at == Holding(subjects, LAMBDA s : s.name = name) IN IF at = {} THEN 0 ELSE subjects[First(at)].id

\* The subject that id was merged into, or 0.
MergedInto(id, subjects) ==
  IF SubjectById(id, subjects) = 0 THEN 0 ELSE subjects[SubjectById(id, subjects)].merged

\* The chain of merges from id, one step further at each place.
Chain(id, subjects) ==
  LET c[n \in 0..(MaxHops + 1)] ==
        IF n = 0 THEN id ELSE IF c[n - 1] = 0 THEN 0 ELSE MergedInto(c[n - 1], subjects)
  IN c

\* _subject_resolve_merge: the end of the chain, or id itself when there is none within
\* MaxHops subjects, because the chain comes back to one it has passed or is too long.
ResolveMerge(id, subjects) ==
  LET c == Chain(id, subjects)
      ends == {n \in 0..(MaxHops - 1) : c[n] # 0 /\ c[n + 1] = 0}
  IN IF ends = {} THEN id ELSE c[First(ends)]

\* _subject_merge_validate, one kind of error per subject.
MergeError(s, subjects) ==
  LET c == Chain(s.id, subjects)
  IN CASE s.merged = 0 -> "none"
       [] s.merged = s.id -> "self"
       [] s.merged \notin {0, s.id} /\ SubjectById(s.merged, subjects) = 0 -> "missing"
       [] s.merged \notin {0, s.id} /\ SubjectById(s.merged, subjects) # 0 ->
            IF \E n \in 1..MaxHops : c[n] # 0 /\ \E k \in 0..(n - 1) : c[k] = c[n] THEN "cycle"
            ELSE IF c[MaxHops + 1] # 0 THEN "deep" ELSE "none"

MergeErrors(subjects) == {s \in ToSet(subjects) : MergeError(s, subjects) # "none"}

MergeConfidence(a, b) ==
  LET x == Letters[a]  y == Letters[b]
  IN CASE x = y -> 100
       [] x # y /\ (IsPrefix(x, y) \/ IsPrefix(y, x)) -> 70
       [] x # y /\ ~(IsPrefix(x, y) \/ IsPrefix(y, x)) /\ (IsSuffix(x, y) \/ IsSuffix(y, x)) -> 60
       [] OTHER -> 0

MergeRecommendation(a, b) ==
  CASE MergeConfidence(a, b) >= 90 -> "APPROVE"
    [] MergeConfidence(a, b) \in 60..89 -> "REVIEW"
    [] OTHER -> "IGNORE"

\* Pairs of names in order, two subjects of one name included.
MergeCandidates(subjects) ==
  LET names == {subjects[i].name : i \in DOMAIN subjects}
  IN {p \in names \X names :
        /\ p[1] <= p[2] /\ MergeConfidence(p[1], p[2]) > 0
        /\ \E i, j \in DOMAIN subjects : i # j /\ {subjects[i].name, subjects[j].name} = {p[1], p[2]}}

\* The longer name is the target, and of two as long the smaller.
MergePlan(subjects) ==
  {IF Len(Letters[p[1]]) > Len(Letters[p[2]]) \/ Len(Letters[p[1]]) = Len(Letters[p[2]])
     THEN [source |-> p[2], target |-> p[1]] ELSE [source |-> p[1], target |-> p[2]]
   : p \in {c \in MergeCandidates(subjects) : MergeRecommendation(c[1], c[2]) = "APPROVE"}}
=============================================================================
