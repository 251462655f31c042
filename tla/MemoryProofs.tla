------------------------------ MODULE MemoryProofs ------------------------------
(***************************************************************************)
(* Theorems of the memory files.                                           *)
(***************************************************************************)
EXTENDS MemoryProperties, SequenceTheorems, FiniteSetTheorems, WellFoundedInduction, TLAPS

-----------------------------------------------------------------------------
\* Sequences of anything.

IsSeq(s) == s \in Seq({s[i] : i \in DOMAIN s})

LEMMA SomeSeq == \A S : \A s \in Seq(S) : IsSeq(s)
  BY DEF IsSeq

LEMMA SeqFacts ==
  ASSUME NEW s, IsSeq(s)
  PROVE  /\ Len(s) \in Nat /\ DOMAIN s = 1..Len(s)
         /\ s # <<>> => Len(s) > 0 /\ Head(s) = s[1]
  <1> DEFINE S == {s[i] : i \in DOMAIN s}
  <1>1. s \in Seq(S)
    BY DEF IsSeq
  <1>2. Len(s) \in Nat /\ DOMAIN s = 1..Len(s)
    BY <1>1, LenProperties
  <1>3. s # <<>> => Len(s) > 0
    BY <1>1, <1>2, EmptySeq
  <1> QED
    BY <1>2, <1>3

LEMMA EmptyIsSeq == IsSeq(<<>>) /\ Len(<<>>) = 0 /\ DOMAIN <<>> = {}
  <1>1. <<>> \in Seq({}) /\ Len(<<>>) = 0
    BY EmptySeq
  <1>2. IsSeq(<<>>)
    BY <1>1, SomeSeq
  <1>3. DOMAIN <<>> = {}
    OBVIOUS
  <1> QED
    BY <1>1, <1>2, <1>3

LEMMA OneIsSeq == \A a : IsSeq(<<a>>) /\ Len(<<a>>) = 1 /\ DOMAIN <<a>> = {1} /\ <<a>>[1] = a
  <1> TAKE a
  <1>1. <<a>> \in Seq({a})
    OBVIOUS
  <1>2. IsSeq(<<a>>)
    BY <1>1, SomeSeq
  <1> QED
    BY <1>2

LEMMA TwoIsSeq ==
  \A a, b : /\ IsSeq(<<a, b>>) /\ Len(<<a, b>>) = 2 /\ DOMAIN <<a, b>> = {1, 2}
            /\ <<a, b>>[1] = a /\ <<a, b>>[2] = b
  <1> TAKE a, b
  <1>1. <<a, b>> \in Seq({a, b})
    OBVIOUS
  <1>2. IsSeq(<<a, b>>)
    BY <1>1, SomeSeq
  <1> QED
    BY <1>2

LEMMA ConcatIsSeq ==
  ASSUME NEW r, IsSeq(r), NEW s, IsSeq(s)
  PROVE  /\ IsSeq(r \o s) /\ Len(r \o s) = Len(r) + Len(s)
         /\ \A i \in DOMAIN (r \o s) : \/ i \in DOMAIN r /\ (r \o s)[i] = r[i]
                                       \/ /\ i > Len(r) /\ i - Len(r) \in DOMAIN s
                                          /\ (r \o s)[i] = s[i - Len(r)]
         /\ \A i \in DOMAIN r : i \in DOMAIN (r \o s) /\ (r \o s)[i] = r[i]
  <1> DEFINE S == {r[i] : i \in DOMAIN r} \cup {s[i] : i \in DOMAIN s}
  <1>1. r \in Seq(S) /\ s \in Seq(S)
    BY DEF IsSeq
  <1>2. /\ r \o s \in Seq(S) /\ Len(r \o s) = Len(r) + Len(s)
        /\ \A i \in 1..(Len(r) + Len(s)) : (r \o s)[i] = IF i <= Len(r) THEN r[i] ELSE s[i - Len(r)]
    BY <1>1, ConcatProperties
  <1>3. /\ DOMAIN (r \o s) = 1..(Len(r) + Len(s)) /\ Len(r) \in Nat /\ Len(s) \in Nat
        /\ DOMAIN r = 1..Len(r) /\ DOMAIN s = 1..Len(s)
    BY <1>1, <1>2, LenProperties
  <1>4. IsSeq(r \o s)
    BY <1>2, SomeSeq
  <1> QED
    BY <1>2, <1>3, <1>4

LEMMA TailIsSeq ==
  ASSUME NEW s, IsSeq(s), s # <<>>
  PROVE  /\ IsSeq(Tail(s)) /\ Len(Tail(s)) = Len(s) - 1
         /\ \A i \in DOMAIN Tail(s) : i + 1 \in DOMAIN s /\ Tail(s)[i] = s[i + 1]
  <1> DEFINE S == {s[i] : i \in DOMAIN s}
  <1>1. s \in Seq(S)
    BY DEF IsSeq
  <1>2. Len(s) \in Nat /\ DOMAIN s = 1..Len(s)
    BY <1>1, LenProperties
  <1>3. /\ Tail(s) \in Seq(S) /\ Len(Tail(s)) = Len(s) - 1
        /\ \A i \in 1..Len(Tail(s)) : Tail(s)[i] = s[i + 1]
    BY <1>1, HeadTailProperties
  <1>4. DOMAIN Tail(s) = 1..Len(Tail(s))
    BY <1>3, LenProperties
  <1>5. IsSeq(Tail(s))
    BY <1>3, SomeSeq
  <1> QED
    BY <1>2, <1>3, <1>4, <1>5

LEMMA AppendIsSeq ==
  ASSUME NEW s, IsSeq(s), NEW a
  PROVE  /\ IsSeq(Append(s, a)) /\ Len(Append(s, a)) = Len(s) + 1
         /\ \A i \in DOMAIN Append(s, a) : \/ i \in DOMAIN s /\ Append(s, a)[i] = s[i]
                                           \/ i = Len(s) + 1 /\ Append(s, a)[i] = a
  <1> DEFINE S == {s[i] : i \in DOMAIN s} \cup {a}
  <1>1. s \in Seq(S)
    BY DEF IsSeq
  <1>2. /\ Append(s, a) \in Seq(S) /\ Len(Append(s, a)) = Len(s) + 1
        /\ \A i \in 1..Len(s) : Append(s, a)[i] = s[i]
        /\ Append(s, a)[Len(s) + 1] = a
    BY <1>1, AppendProperties
  <1>3. DOMAIN Append(s, a) = 1..(Len(s) + 1) /\ DOMAIN s = 1..Len(s) /\ Len(s) \in Nat
    BY <1>1, <1>2, LenProperties
  <1>4. IsSeq(Append(s, a))
    BY <1>2, SomeSeq
  <1> QED
    BY <1>2, <1>3, <1>4

\* A set of numbers that is not empty has a least one.
LEMMA LeastNumber ==
  ASSUME NEW S, S \subseteq Nat, S # {}
  PROVE  \E n \in S : \A m \in S : n <= m
  <1>1. PICK R : IsWellFoundedOn(R, Nat) /\ R = {ss \in Nat \X Nat : ss[1] < ss[2]}
    BY Zenon, NatLessThanWellFounded DEF OpToRel
  <1>2. PICK n \in S : \A m \in S : <<m, n>> \notin R
    BY <1>1, WFMin
  <1>3. ASSUME NEW m \in S PROVE n <= m
    <2>1. m \in Nat /\ n \in Nat
      OBVIOUS
    <2>2. ~(m < n)
      BY <1>1, <1>2, <2>1
    <2> QED
      BY <2>1, <2>2
  <1> QED
    BY <1>3

LEMMA FirstIs ==
  ASSUME NEW S, S \subseteq Nat, S # {}
  PROVE  First(S) \in S /\ \A j \in S : First(S) <= j
  BY LeastNumber, Zenon DEF First

\* A list as long as another, or as the places in another.
LEMMA ListIsSeq ==
  ASSUME NEW n \in Nat, NEW s, s = [i \in 1..n |-> s[i]]
  PROVE  IsSeq(s) /\ Len(s) = n /\ DOMAIN s = 1..n
  BY DEF IsSeq

LEMMA PlacesCounted ==
  ASSUME NEW s, IsSeq(s), NEW at, at \subseteq DOMAIN s
  PROVE  Cardinality(at) \in Nat
  <1>1. IsFiniteSet(1..Len(s))
    BY SeqFacts, FS_Interval
  <1> QED
    BY <1>1, SeqFacts, FS_Subset, FS_CardinalityType

-----------------------------------------------------------------------------
\* What the threads have ahead of them.

TransactionOps ==
  {"names", "move fact", "move question", "move decision", "registry", "validate", "history", "settle"}

\* What an acquisition carries, whatever the files hold: the owner of a decision gets its id
\* before the decision is added, and what waits for a subject is not about an answer.
Plain(o) == "op" \in DOMAIN o /\ "approval" \notin DOMAIN o /\ o.op \notin TransactionOps
Apt(o) ==
  /\ o.op \in {"owner", "decision"} => {"owner", "ownerId"} \subseteq DOMAIN o
  /\ o.op = "owner" => o.ownerId = 0
  /\ o.op = "decision" => (o.owner.base # 0 => o.ownerId # 0)
  /\ o.op = "answeredBy" => o.source # "fact"
Waits(o) ==
  /\ {"name", "then"} \subseteq DOMAIN o
  /\ Plain(o.then) /\ Apt(o.then) /\ o.then.op \in {"question", "owner", "fact"}

\* Acquisitions that are part of no transaction; those of them that carry no id of a record;
\* one that creates a subject; and one of a transaction.
Carriers == {"decision", "markAnswered", "questionLinks"}
Calm(o) == Plain(o) /\ Apt(o) /\ o.op # "create" /\ (o.op = "find" => Waits(o))
Free(o) == Calm(o) /\ o.op \notin Carriers
Creates(o) == Plain(o) /\ o.op = "create" /\ Waits(o)
InTransaction(o) == {"op", "approval"} \subseteq DOMAIN o /\ o.op \in TransactionOps

\* A thread is in one transaction at most, and goes on with it before anything else; and it
\* creates a subject right after it has looked for it.
FreeRow(s) == IsSeq(s) /\ \A i \in DOMAIN s : Free(s[i])
CalmRow(s) == IsSeq(s) /\ \A i \in DOMAIN s : Calm(s[i])
Row(s) == IsSeq(s) /\ \A i \in DOMAIN s : Calm(s[i]) \/ (i = 1 /\ (InTransaction(s[i]) \/ Creates(s[i])))

Executes(s, id) == \E i \in DOMAIN s : "approval" \in DOMAIN s[i] /\ s[i].approval = id

LEMMA FreeNothing == FreeRow(<<>>)
  BY EmptyIsSeq DEF FreeRow

LEMMA FreeOne == \A o : Free(o) => FreeRow(<<o>>)
  BY OneIsSeq DEF FreeRow

LEMMA FreeIsCalm == \A s : FreeRow(s) => CalmRow(s)
  BY DEF FreeRow, CalmRow, Free

LEMMA CreatesIsRow == \A o : Creates(o) => Row(<<o>>) /\ \A id : ~Executes(<<o>>, id)
  <1> TAKE o
  <1>1. IsSeq(<<o>>) /\ DOMAIN <<o>> = {1} /\ <<o>>[1] = o
    BY OneIsSeq
  <1>2. Creates(o) => "approval" \notin DOMAIN o
    BY DEF Creates, Plain
  <1> QED
    BY <1>1, <1>2 DEF Row, Executes

LEMMA FreeConcat ==
  ASSUME NEW r, FreeRow(r), NEW s, FreeRow(s)
  PROVE  FreeRow(r \o s)
  <1>1. IsSeq(r) /\ IsSeq(s)
    BY DEF FreeRow
  <1> QED
    BY <1>1, ConcatIsSeq DEF FreeRow

LEMMA CalmIsRow == \A s : CalmRow(s) => Row(s) /\ \A id : ~Executes(s, id)
  BY DEF CalmRow, Row, Calm, Plain, Executes

LEMMA FreeIsRow == \A s : FreeRow(s) => Row(s) /\ \A id : ~Executes(s, id)
  BY FreeIsCalm, CalmIsRow

LEMMA CalmTail ==
  ASSUME NEW s, Row(s), s # <<>>
  PROVE  CalmRow(Tail(s))
  <1>1. /\ IsSeq(Tail(s))
        /\ \A i \in DOMAIN Tail(s) : i + 1 \in DOMAIN s /\ Tail(s)[i] = s[i + 1]
    BY TailIsSeq DEF Row
  <1>2. DOMAIN Tail(s) = 1..Len(Tail(s)) /\ Len(Tail(s)) \in Nat
    BY <1>1, SeqFacts
  <1>3. ASSUME NEW i \in DOMAIN Tail(s) PROVE Calm(Tail(s)[i])
    <2>1. i + 1 # 1
      BY <1>2
    <2> QED
      BY <1>1, <2>1 DEF Row
  <1> QED
    BY <1>1, <1>3 DEF CalmRow

LEMMA RowConcat ==
  ASSUME NEW r, Row(r), NEW s, CalmRow(s)
  PROVE  /\ Row(r \o s)
         /\ \A id : Executes(r \o s, id) <=> Executes(r, id)
  <1>1. IsSeq(r) /\ IsSeq(s)
    BY DEF Row, CalmRow
  <1>2. /\ IsSeq(r \o s)
        /\ \A i \in DOMAIN (r \o s) : \/ i \in DOMAIN r /\ (r \o s)[i] = r[i]
                                      \/ /\ i > Len(r) /\ i - Len(r) \in DOMAIN s
                                         /\ (r \o s)[i] = s[i - Len(r)]
        /\ \A i \in DOMAIN r : i \in DOMAIN (r \o s) /\ (r \o s)[i] = r[i]
    BY <1>1, ConcatIsSeq
  <1>3. \A i \in DOMAIN (r \o s) : \/ i \in DOMAIN r /\ (r \o s)[i] = r[i]
                                   \/ Calm((r \o s)[i])
    BY <1>2 DEF CalmRow
  <1>4. Row(r \o s)
    BY <1>2, <1>3 DEF Row
  <1>5. \A o : Calm(o) => "approval" \notin DOMAIN o
    BY DEF Calm, Plain
  <1> QED
    BY <1>2, <1>3, <1>4, <1>5 DEF Executes

Actor == Thread \cup {Main}
TodoOK == todo = [t \in Actor |-> todo[t]] /\ \A t \in Actor : Row(todo[t])

LEMMA SectionRow ==
  ASSUME TodoOK, NEW t \in Actor, todo[t] # <<>>, NEW w, NEW more, Row(more), Section(t, w, more)
  PROVE  /\ TodoOK'
         /\ \A u \in Actor \ {t} : todo'[u] = todo[u]
         /\ \A id : Executes(todo'[t], id) <=> Executes(more, id)
  <1>1. todo' = [todo EXCEPT ![t] = more \o Tail(todo[t])]
    BY DEF Section
  <1>2. /\ todo' = [u \in Actor |-> todo'[u]]
        /\ todo'[t] = more \o Tail(todo[t])
        /\ \A u \in Actor \ {t} : todo'[u] = todo[u]
    BY <1>1 DEF TodoOK
  <1>3. CalmRow(Tail(todo[t]))
    BY CalmTail DEF TodoOK
  <1>4. Row(todo'[t]) /\ \A id : Executes(todo'[t], id) <=> Executes(more, id)
    BY <1>2, <1>3, RowConcat
  <1>5. TodoOK'
    BY <1>2, <1>4 DEF TodoOK
  <1> QED
    BY <1>2, <1>4, <1>5

-----------------------------------------------------------------------------
\* The approvals, as they are once the save that is under way is done.

Approvals == IF saving # <<>> /\ saving[1].file = "approval" THEN saving[1].value ELSE disk["approval"]

RecordsTo(s, last) ==
  IsSeq(s) /\ \A i \in DOMAIN s : /\ {"id", "status"} \subseteq DOMAIN s[i]
                                  /\ s[i].id \in Int /\ s[i].id <= last

ExecutionType ==
  /\ TodoOK
  /\ serial \in Nat
  /\ IsSeq(torn)
  /\ DOMAIN disk = Files
  /\ IsSeq(saving) /\ \A i \in DOMAIN saving : saving[i].file = "approval" => Len(saving) = 1
  /\ RecordsTo(disk["approval"], serial) /\ RecordsTo(Approvals, serial)

\* An approval is executed by one thread and no longer PENDING ...
OneEach ==
  /\ \A t, u \in Actor : \A id : Executes(todo[t], id) /\ Executes(todo[u], id) => t = u
  /\ \A t \in Actor : \A id : Executes(todo[t], id) =>
       /\ id \in Int /\ id <= serial
       /\ \A i \in DOMAIN Approvals : Approvals[i].id = id => Approvals[i].status # "PENDING"

\* ... and what is RUNNING is being executed, as long as nothing was killed.
Attended ==
  torn = <<>> => \A i \in DOMAIN Approvals :
    Approvals[i].status = "RUNNING" => \E t \in Thread : Executes(todo[t], Approvals[i].id)

ExecutionInv == ExecutionType /\ OneEach /\ Attended

\* A step that changes neither the approvals nor who executes them.
LEMMA SameExecution ==
  ASSUME ExecutionInv, TodoOK', serial' \in Nat, serial' >= serial, torn' = torn,
         DOMAIN disk' = Files,
         disk'["approval"] \in {disk["approval"], Approvals},
         IsSeq(saving'), \A i \in DOMAIN saving' : saving'[i].file = "approval" => Len(saving') = 1,
         Approvals' = Approvals,
         \A t \in Actor : \A id : Executes(todo'[t], id) <=> Executes(todo[t], id)
  PROVE  ExecutionInv'
  <1>1. RecordsTo(disk'["approval"], serial') /\ RecordsTo(Approvals', serial')
    BY DEF ExecutionInv, ExecutionType, RecordsTo
  <1>2. ExecutionType'
    BY <1>1 DEF ExecutionInv, ExecutionType
  <1>3. OneEach'
    <2>1. \A id \in Int : id <= serial => id <= serial'
      BY DEF ExecutionInv, ExecutionType
    <2>2. \A t, u \in Actor : \A id : Executes(todo'[t], id) /\ Executes(todo'[u], id) => t = u
      BY DEF ExecutionInv, OneEach
    <2>3. ASSUME NEW t \in Actor, NEW id, Executes(todo'[t], id)
          PROVE  /\ id \in Int /\ id <= serial'
                 /\ \A i \in DOMAIN Approvals' : Approvals'[i].id = id => Approvals'[i].status # "PENDING"
      <3>1. Executes(todo[t], id)
        BY <2>3
      <3> QED
        BY <3>1, <2>1 DEF ExecutionInv, OneEach
    <2> QED
      BY <2>2, <2>3 DEF OneEach
  <1>4. Attended'
    BY DEF ExecutionInv, Attended, Actor
  <1> QED
    BY <1>2, <1>3, <1>4 DEF ExecutionInv

NoApproval(w) == IsSeq(w) /\ \A i \in DOMAIN w : w[i].file # "approval"

LEMMA SectionKeeps ==
  ASSUME ExecutionInv, NEW t \in Actor, saving = <<>>, todo[t] # <<>>,
         NEW w, NoApproval(w), NEW more, Row(more), Section(t, w, more),
         serial' \in Nat, serial' >= serial,
         \A id : Executes(more, id) <=> Executes(todo[t], id)
  PROVE  ExecutionInv'
  <1>1. /\ TodoOK'
        /\ \A u \in Actor \ {t} : todo'[u] = todo[u]
        /\ \A id : Executes(todo'[t], id) <=> Executes(more, id)
    BY SectionRow DEF ExecutionInv, ExecutionType
  <1>2. saving' = w /\ disk' = disk /\ torn' = torn
    BY DEF Section
  <1>3. Approvals = disk["approval"]
    BY DEF Approvals
  <1>4. Approvals' = disk["approval"]
    <2>1. w # <<>> => w[1].file # "approval"
      BY SeqFacts DEF NoApproval
    <2> QED
      BY <1>2, <2>1 DEF Approvals
  <1>5. DOMAIN disk' = Files
    BY <1>2 DEF ExecutionInv, ExecutionType
  <1>6. \A u \in Actor : \A id : Executes(todo'[u], id) <=> Executes(todo[u], id)
    BY <1>1
  <1> QED
    BY <1>1, <1>2, <1>3, <1>4, <1>5, <1>6, SameExecution DEF NoApproval

LEMMA HeadOfRow ==
  ASSUME NEW s, Row(s), s # <<>>
  PROVE  /\ Head(s).op \notin TransactionOps =>
              /\ IF Head(s).op = "create" THEN Creates(Head(s)) ELSE Calm(Head(s))
              /\ \A id : ~Executes(s, id)
         /\ Head(s).op \in TransactionOps =>
              InTransaction(Head(s)) /\ \A id : Executes(s, id) <=> Head(s).approval = id
  <1>1. Len(s) \in Nat /\ DOMAIN s = 1..Len(s) /\ Len(s) > 0 /\ Head(s) = s[1]
    BY SeqFacts DEF Row
  <1>2. Calm(s[1]) \/ InTransaction(s[1]) \/ Creates(s[1])
    BY <1>1 DEF Row
  <1>3. \A o : Calm(o) => o.op \notin TransactionOps \cup {"create"} /\ "approval" \notin DOMAIN o
    BY DEF Calm, Plain
  <1>4. \A o : InTransaction(o) => o.op \in TransactionOps /\ "approval" \in DOMAIN o
    BY DEF InTransaction
  <1>5. \A o : Creates(o) => o.op \notin TransactionOps /\ o.op = "create" /\ "approval" \notin DOMAIN o
    BY DEF Creates, Plain
  <1>6. \A i \in DOMAIN s : i # 1 => "approval" \notin DOMAIN s[i]
    BY <1>3 DEF Row
  <1>7. CASE Head(s).op \notin TransactionOps
    <2>1. IF s[1].op = "create" THEN Creates(s[1]) ELSE Calm(s[1])
      BY <1>1, <1>2, <1>3, <1>4, <1>5, <1>7
    <2>2. "approval" \notin DOMAIN s[1]
      BY <2>1, <1>3, <1>5
    <2> QED
      BY <1>1, <1>6, <1>7, <2>1, <2>2 DEF Executes
  <1>8. CASE Head(s).op \in TransactionOps
    <2>1. InTransaction(s[1])
      BY <1>1, <1>2, <1>3, <1>5, <1>8
    <2>2. \A id : Executes(s, id) <=> s[1].approval = id
      BY <1>1, <1>4, <1>6, <2>1 DEF Executes
    <2> QED
      BY <1>1, <1>8, <2>1, <2>2
  <1> QED
    BY <1>7, <1>8

\* An acquisition outside of any transaction.
LEMMA PlainStep ==
  ASSUME ExecutionInv, NEW t \in Actor, saving = <<>>, todo[t] # <<>>,
         Next1(t).op \notin TransactionOps,
         NEW w, NoApproval(w), NEW more, Row(more), \A id : ~Executes(more, id), Section(t, w, more),
         serial' \in Nat, serial' >= serial
  PROVE  ExecutionInv'
  <1>1. Row(todo[t])
    BY DEF ExecutionInv, ExecutionType, TodoOK
  <1>2. \A id : ~Executes(todo[t], id)
    BY <1>1, HeadOfRow DEF Next1
  <1>3. Row(more) /\ \A id : Executes(more, id) <=> Executes(todo[t], id)
    BY <1>2
  <1> QED
    BY <1>3, SectionKeeps

\* A transaction that goes on.
LEMMA TransactionStep ==
  ASSUME ExecutionInv, NEW t \in Actor, saving = <<>>, todo[t] # <<>>,
         Next1(t).op \in TransactionOps,
         NEW w, NoApproval(w), NEW o, InTransaction(o), o.approval = Next1(t).approval,
         Section(t, w, <<o>>),
         serial' \in Nat, serial' >= serial
  PROVE  ExecutionInv'
  <1>1. Row(todo[t])
    BY DEF ExecutionInv, ExecutionType, TodoOK
  <1>2. \A id : Executes(todo[t], id) <=> Next1(t).approval = id
    BY <1>1, HeadOfRow DEF Next1
  <1>3. Row(<<o>>)
    BY OneIsSeq DEF Row
  <1>4. <<o>> # <<>> /\ Head(<<o>>) = o
    OBVIOUS
  <1>5. \A id : Executes(<<o>>, id) <=> o.approval = id
    <2>1. o.op \in TransactionOps
      BY DEF InTransaction
    <2> QED
      BY <1>3, <1>4, <2>1, HeadOfRow
  <1>6. \A id : Executes(<<o>>, id) <=> Executes(todo[t], id)
    BY <1>2, <1>5
  <1> QED
    BY <1>3, <1>6, SectionKeeps

LEMMA OneApproval ==
  ASSUME ExecutionInv, NEW v, RecordsTo(v, serial'), saving' = <<Write("approval", v)>>, disk' = disk,
         serial' \in Nat, serial' >= serial, torn' = torn, TodoOK'
  PROVE  ExecutionType' /\ Approvals' = v
  <1>1. Len(saving') = 1 /\ IsSeq(saving') /\ saving' # <<>> /\ saving'[1] = Write("approval", v)
    BY OneIsSeq
  <1>2. Approvals' = v
    BY <1>1 DEF Approvals, Write
  <1>3. RecordsTo(disk'["approval"], serial')
    BY DEF ExecutionInv, ExecutionType, RecordsTo
  <1> QED
    BY <1>1, <1>2, <1>3 DEF ExecutionInv, ExecutionType

LEMMA CreateStep ==
  ASSUME ExecutionInv, NEW t \in Thread, CreateApproval(t)
  PROVE  ExecutionInv'
  <1> DEFINE o == Next1(t)
             same == Holding(disk["approval"], LAMBDA a : a.source = o.source /\ a.target = o.target
                                                            /\ a.status = "PENDING")
             id == IF same # {} THEN disk["approval"][First(same)].id ELSE NewId
             record == [id |-> NewId, source |-> o.source, target |-> o.target, status |-> "PENDING"]
             more == IF o.execute THEN <<[op |-> "execute", id |-> id]>> ELSE <<>>
             writes == IF same # {} THEN <<>> ELSE <<Write("approval", Append(disk["approval"], record))>>
  <1>1. /\ saving = <<>> /\ todo[t] # <<>> /\ o.op = "approve" /\ t \in Actor
        /\ serial' = IF same # {} THEN serial ELSE NewId
        /\ Section(t, writes, more)
    BY DEF CreateApproval, Doing, Actor
  <1> HIDE DEF same, id
  <1>2. serial \in Nat /\ serial' \in Nat /\ serial' >= serial
    BY <1>1 DEF ExecutionInv, ExecutionType, NewId
  <1>3. Free([op |-> "execute", id |-> id])
    BY DEF Free, Calm, Apt, Carriers, Plain, TransactionOps
  <1>4. FreeRow(more)
    BY <1>3, FreeOne, FreeNothing
  <1>5. o.op \notin TransactionOps
    BY <1>1 DEF TransactionOps
  <1>6. CASE same # {}
    <2>1. writes = <<>> /\ NoApproval(<<>>)
      BY <1>6, EmptyIsSeq DEF NoApproval
    <2> HIDE DEF more, writes
    <2> QED
      BY <1>1, <1>2, <1>4, <1>5, <2>1, FreeIsRow, PlainStep
  <1>7. CASE same = {}
    <2> DEFINE v == Append(disk["approval"], record)
    <2>1. /\ saving' = <<Write("approval", v)>> /\ disk' = disk /\ torn' = torn
          /\ serial' = serial + 1
      BY <1>1, <1>7 DEF Section, NewId
    <2>2. Approvals = disk["approval"]
      BY <1>1 DEF Approvals
    <2>3. /\ IsSeq(v)
          /\ \A i \in DOMAIN v : \/ i \in DOMAIN disk["approval"] /\ v[i] = disk["approval"][i]
                                 \/ v[i] = record
      <3>1. IsSeq(disk["approval"])
        BY DEF ExecutionInv, ExecutionType, RecordsTo
      <3> HIDE DEF record
      <3> QED
        BY <3>1, AppendIsSeq
    <2>4. record.id = serial + 1 /\ record.status = "PENDING" /\ {"id", "status"} \subseteq DOMAIN record
      BY DEF NewId
    <2> HIDE DEF v, record
    <2>5. RecordsTo(v, serial')
      BY <1>2, <2>1, <2>3, <2>4 DEF ExecutionInv, ExecutionType, RecordsTo
    <2>6. Row(more) /\ \A x : ~Executes(more, x)
      BY <1>4, FreeIsRow
    <2> HIDE DEF more, writes
    <2>7. /\ TodoOK'
          /\ \A u \in Actor \ {t} : todo'[u] = todo[u]
          /\ \A x : ~Executes(todo'[t], x)
      BY <1>1, <2>6, SectionRow DEF ExecutionInv, ExecutionType
    <2>8. \A x : ~Executes(todo[t], x)
      <3>1. Row(todo[t])
        BY <1>1 DEF ExecutionInv, ExecutionType, TodoOK
      <3> QED
        BY <1>1, <1>5, <3>1, HeadOfRow, FreeIsRow DEF Next1
    <2>9. ExecutionType' /\ Approvals' = v
      BY <1>2, <2>1, <2>5, <2>7, OneApproval
    <2>10. \A u \in Actor : \A x : Executes(todo'[u], x) <=> Executes(todo[u], x)
      BY <2>7, <2>8
    <2>11. OneEach'
      <3>1. \A u, w \in Actor : \A x : Executes(todo'[u], x) /\ Executes(todo'[w], x) => u = w
        BY <2>10 DEF ExecutionInv, OneEach
      <3>2. ASSUME NEW u \in Actor, NEW x, Executes(todo'[u], x)
            PROVE  /\ x \in Int /\ x <= serial'
                   /\ \A i \in DOMAIN v : v[i].id = x => v[i].status # "PENDING"
        <4>1. x \in Int /\ x <= serial
              /\ \A i \in DOMAIN disk["approval"] : disk["approval"][i].id = x => disk["approval"][i].status # "PENDING"
          BY <2>2, <2>10, <3>2 DEF ExecutionInv, OneEach
        <4> QED
          BY <1>2, <2>1, <2>3, <2>4, <4>1
      <3> QED
        BY <2>9, <3>1, <3>2 DEF OneEach
    <2>12. Attended'
      <3>1. \A i \in DOMAIN v : v[i].status = "RUNNING" =>
              i \in DOMAIN disk["approval"] /\ v[i] = disk["approval"][i]
        BY <2>3, <2>4
      <3> QED
        BY <2>1, <2>2, <2>9, <2>10, <3>1 DEF ExecutionInv, Attended, Actor
    <2> QED
      BY <2>9, <2>11, <2>12 DEF ExecutionInv
  <1> QED
    BY <1>6, <1>7

LEMMA ApprovedIs ==
  ASSUME ExecutionType, NEW id, NEW status
  PROVE  LET v == Approved(id, status)  s == disk["approval"]
         IN /\ RecordsTo(v, serial) /\ DOMAIN v = DOMAIN s
            /\ \A i \in DOMAIN s : /\ v[i].id = s[i].id
                                   /\ v[i].status = IF s[i].id = id THEN status ELSE s[i].status
  <1> DEFINE s == disk["approval"]
             v == Approved(id, status)
  <1>1. IsSeq(s) /\ Len(s) \in Nat /\ DOMAIN s = 1..Len(s)
    BY SeqFacts DEF ExecutionType, RecordsTo
  <1>2. v = [i \in 1..Len(s) |-> IF s[i].id = id THEN [s[i] EXCEPT !.status = status] ELSE s[i]]
    BY <1>1 DEF Approved, Where
  <1> HIDE DEF v
  <1>3. IsSeq(v) /\ DOMAIN v = DOMAIN s
    BY <1>1, <1>2, ListIsSeq
  <1>4. ASSUME NEW i \in DOMAIN s
        PROVE  /\ {"id", "status"} \subseteq DOMAIN v[i] /\ v[i].id = s[i].id
               /\ v[i].status = IF s[i].id = id THEN status ELSE s[i].status
    <2>1. v[i] = IF s[i].id = id THEN [s[i] EXCEPT !.status = status] ELSE s[i]
      BY <1>1, <1>2
    <2>2. {"id", "status"} \subseteq DOMAIN s[i]
      BY DEF ExecutionType, RecordsTo
    <2> QED
      BY <2>1, <2>2
  <1>5. RecordsTo(v, serial)
    BY <1>3, <1>4 DEF ExecutionType, RecordsTo
  <1> QED
    BY <1>3, <1>4, <1>5 DEF v

LEMMA ExecuteStep ==
  ASSUME ExecutionInv, NEW t \in Thread, ExecuteApproval(t)
  PROVE  ExecutionInv'
  <1> DEFINE at == Holding(disk["approval"], LAMBDA a : a.id = Next1(t).id /\ a.status = "PENDING")
             a == disk["approval"][First(at)]
             v == Approved(a.id, "RUNNING")
             o == Transaction(a.source, a.target, a.id)
  <1>1. /\ saving = <<>> /\ todo[t] # <<>> /\ Next1(t).op = "execute" /\ t \in Actor
        /\ serial' = serial
        /\ IF at = {} THEN Section(t, <<>>, <<>>) ELSE Section(t, <<Write("approval", v)>>, <<o>>)
    BY DEF ExecuteApproval, Doing, Actor
  <1>2. Next1(t).op \notin TransactionOps
    BY <1>1 DEF TransactionOps
  <1>3. serial \in Nat /\ serial' \in Nat /\ serial' >= serial
    BY <1>1 DEF ExecutionInv, ExecutionType
  <1>4. CASE at = {}
    <2>1. NoApproval(<<>>)
      BY EmptyIsSeq DEF NoApproval
    <2> QED
      BY <1>1, <1>2, <1>3, <1>4, <2>1, FreeNothing, FreeIsRow, PlainStep
  <1>5. CASE at # {}
    <2> DEFINE s == disk["approval"]
    <2>1. First(at) \in DOMAIN s /\ a.status = "PENDING"
      <3>1. DOMAIN s = 1..Len(s) /\ Len(s) \in Nat
        BY SeqFacts DEF ExecutionInv, ExecutionType, RecordsTo
      <3>2. at \subseteq DOMAIN s /\ at \subseteq Nat
        BY <3>1 DEF Holding
      <3>3. First(at) \in at
        BY <1>5, <3>2, FirstIs
      <3> QED
        BY <3>2, <3>3 DEF Holding
    <2>2. /\ saving' = <<Write("approval", v)>> /\ disk' = disk /\ torn' = torn
          /\ Section(t, <<Write("approval", v)>>, <<o>>)
      BY <1>1, <1>5 DEF Section
    <2> HIDE DEF at
    <2>3. Approvals = s
      BY <1>1 DEF Approvals
    <2>4. /\ RecordsTo(v, serial) /\ DOMAIN v = DOMAIN s
          /\ \A i \in DOMAIN s : /\ v[i].id = s[i].id
                                 /\ v[i].status = IF s[i].id = a.id THEN "RUNNING" ELSE s[i].status
      BY ApprovedIs DEF ExecutionInv
    <2>5. InTransaction(o) /\ o.approval = a.id
      BY DEF InTransaction, Transaction, TransactionOps
    <2>6. a.id \in Int /\ a.id <= serial
      BY <2>1 DEF ExecutionInv, ExecutionType, RecordsTo
    <2> HIDE DEF v, o, a
    <2>7. Row(<<o>>) /\ \A x : Executes(<<o>>, x) <=> x = a.id
      <3>1. Row(<<o>>) /\ <<o>> # <<>> /\ Head(<<o>>) = o
        BY <2>5, OneIsSeq DEF Row
      <3> QED
        BY <2>5, <3>1, HeadOfRow DEF InTransaction
    <2>8. /\ TodoOK'
          /\ \A u \in Actor \ {t} : todo'[u] = todo[u]
          /\ \A x : Executes(todo'[t], x) <=> x = a.id
      BY <1>1, <2>2, <2>7, SectionRow DEF ExecutionInv, ExecutionType
    <2>9. \A x : ~Executes(todo[t], x)
      <3>1. Row(todo[t])
        BY <1>1 DEF ExecutionInv, ExecutionType, TodoOK
      <3> QED
        BY <1>1, <1>2, <3>1, HeadOfRow, FreeIsRow DEF Next1
    <2>10. \A u \in Actor : ~Executes(todo[u], a.id)
      BY <2>1, <2>3 DEF ExecutionInv, OneEach, a
    <2>11. ExecutionType' /\ Approvals' = v
      BY <1>1, <1>3, <2>2, <2>4, <2>8, OneApproval
    <2>12. OneEach'
      <3>1. \A u, w \in Actor : \A x : Executes(todo'[u], x) /\ Executes(todo'[w], x) => u = w
        BY <2>8, <2>10 DEF ExecutionInv, OneEach
      <3>2. ASSUME NEW u \in Actor, NEW x, Executes(todo'[u], x)
            PROVE  /\ x \in Int /\ x <= serial'
                   /\ \A i \in DOMAIN v : v[i].id = x => v[i].status # "PENDING"
        <4>1. CASE u = t
          BY <1>1, <2>4, <2>6, <2>8, <3>2, <4>1
        <4>2. CASE u # t
          <5>1. Executes(todo[u], x)
            BY <2>8, <3>2, <4>2
          <5>2. x \in Int /\ x <= serial /\ \A i \in DOMAIN s : s[i].id = x => s[i].status # "PENDING"
            BY <2>3, <5>1 DEF ExecutionInv, OneEach
          <5> QED
            BY <1>1, <2>4, <5>2
        <4> QED
          BY <4>1, <4>2
      <3> QED
        BY <2>11, <3>1, <3>2 DEF OneEach
    <2>13. Attended'
      <3>1. ASSUME torn' = <<>>, NEW i \in DOMAIN v, v[i].status = "RUNNING"
            PROVE  \E u \in Thread : Executes(todo'[u], v[i].id)
        <4>1. CASE v[i].id = a.id
          BY <2>8, <4>1
        <4>2. CASE v[i].id # a.id
          <5>1. i \in DOMAIN s /\ s[i].status = "RUNNING" /\ s[i].id = v[i].id
            BY <2>4, <3>1, <4>2
          <5>2. PICK u \in Thread : Executes(todo[u], v[i].id)
            BY <2>2, <2>3, <3>1, <5>1 DEF ExecutionInv, Attended
          <5>3. u # t /\ u \in Actor
            BY <2>9, <5>2 DEF Actor
          <5> QED
            BY <2>8, <5>2, <5>3
        <4> QED
          BY <4>1, <4>2
      <3> QED
        BY <2>11, <3>1 DEF Attended
    <2> QED
      BY <2>11, <2>12, <2>13 DEF ExecutionInv
  <1> QED
    BY <1>4, <1>5

LEMMA SettleStep ==
  ASSUME ExecutionInv, NEW t \in Thread, SettleApproval(t)
  PROVE  ExecutionInv'
  <1> DEFINE s == disk["approval"]
             id == Next1(t).approval
             status == IF Next1(t).ok THEN "APPROVED" ELSE "FAILED"
             v == Approved(id, status)
  <1>1. /\ saving = <<>> /\ todo[t] # <<>> /\ Next1(t).op = "settle" /\ t \in Actor
        /\ serial' = serial
        /\ Section(t, <<Write("approval", v)>>, <<>>)
    BY DEF SettleApproval, Doing, Actor
  <1>2. Next1(t).op \in TransactionOps
    BY <1>1 DEF TransactionOps
  <1>3. serial \in Nat /\ serial' \in Nat /\ serial' >= serial
    BY <1>1 DEF ExecutionInv, ExecutionType
  <1>4. saving' = <<Write("approval", v)>> /\ disk' = disk /\ torn' = torn
    BY <1>1 DEF Section
  <1>5. Approvals = s
    BY <1>1 DEF Approvals
  <1>6. status \notin {"PENDING", "RUNNING"}
    OBVIOUS
  <1> HIDE DEF status, id
  <1>7. /\ RecordsTo(v, serial) /\ DOMAIN v = DOMAIN s
        /\ \A i \in DOMAIN s : /\ v[i].id = s[i].id
                               /\ v[i].status = IF s[i].id = id THEN status ELSE s[i].status
    BY ApprovedIs DEF ExecutionInv
  <1> HIDE DEF v
  <1>8. /\ TodoOK'
        /\ \A u \in Actor \ {t} : todo'[u] = todo[u]
        /\ \A x : ~Executes(todo'[t], x)
    <2>1. Row(<<>>) /\ \A x : ~Executes(<<>>, x)
      BY FreeNothing, FreeIsRow
    <2> QED
      BY <1>1, <2>1, SectionRow DEF ExecutionInv, ExecutionType
  <1>9. \A x : Executes(todo[t], x) <=> id = x
    <2>1. Row(todo[t])
      BY <1>1 DEF ExecutionInv, ExecutionType, TodoOK
    <2> QED
      BY <1>1, <1>2, <2>1, HeadOfRow DEF Next1, id
  <1>10. ExecutionType' /\ Approvals' = v
    BY <1>1, <1>3, <1>4, <1>7, <1>8, OneApproval
  <1>11. OneEach'
    <2>1. \A u, w \in Actor : \A x : Executes(todo'[u], x) /\ Executes(todo'[w], x) => u = w
      BY <1>8 DEF ExecutionInv, OneEach
    <2>2. ASSUME NEW u \in Actor, NEW x, Executes(todo'[u], x)
          PROVE  /\ x \in Int /\ x <= serial'
                 /\ \A i \in DOMAIN v : v[i].id = x => v[i].status # "PENDING"
      <3>1. Executes(todo[u], x)
        BY <1>8, <2>2
      <3>2. x \in Int /\ x <= serial /\ \A i \in DOMAIN s : s[i].id = x => s[i].status # "PENDING"
        BY <1>5, <3>1 DEF ExecutionInv, OneEach
      <3> QED
        BY <1>1, <1>6, <1>7, <3>2
    <2> QED
      BY <1>10, <2>1, <2>2 DEF OneEach
  <1>12. Attended'
    <2>1. ASSUME torn' = <<>>, NEW i \in DOMAIN v, v[i].status = "RUNNING"
          PROVE  \E u \in Thread : Executes(todo'[u], v[i].id)
      <3>1. i \in DOMAIN s /\ s[i].status = "RUNNING" /\ s[i].id = v[i].id /\ v[i].id # id
        BY <1>6, <1>7, <2>1
      <3>2. PICK u \in Thread : Executes(todo[u], v[i].id)
        BY <1>4, <1>5, <2>1, <3>1 DEF ExecutionInv, Attended
      <3>3. u # t /\ u \in Actor
        BY <1>9, <3>1, <3>2 DEF Actor
      <3> QED
        BY <1>8, <3>2, <3>3
    <2> QED
      BY <1>10, <2>1 DEF Attended
  <1> QED
    BY <1>10, <1>11, <1>12 DEF ExecutionInv

LEMMA CallStep ==
  ASSUME ExecutionInv, NEW t \in Thread, Call(t), NEW s, FreeRow(s), todo' = [todo EXCEPT ![t] = s]
  PROVE  ExecutionInv'
  <1>1. todo[t] = <<>> /\ UNCHANGED <<disk, saving, serial, torn>> /\ t \in Actor
    BY DEF Call, Actor
  <1>2. Row(s) /\ \A x : ~Executes(s, x) /\ ~Executes(<<>>, x)
    BY FreeNothing, FreeIsRow
  <1>3. /\ todo' = [u \in Actor |-> todo'[u]] /\ todo'[t] = s
        /\ \A u \in Actor \ {t} : todo'[u] = todo[u]
    BY <1>1 DEF ExecutionInv, ExecutionType, TodoOK
  <1>4. TodoOK'
    BY <1>2, <1>3 DEF ExecutionInv, ExecutionType, TodoOK
  <1>5. \A u \in Actor : \A x : Executes(todo'[u], x) <=> Executes(todo[u], x)
    BY <1>1, <1>2, <1>3
  <1>6. Approvals' = Approvals
    BY <1>1 DEF Approvals
  <1>7. serial' \in Nat /\ serial' >= serial /\ DOMAIN disk' = Files
    BY <1>1 DEF ExecutionInv, ExecutionType
  <1>8. IsSeq(saving') /\ \A i \in DOMAIN saving' : saving'[i].file = "approval" => Len(saving') = 1
    BY <1>1 DEF ExecutionInv, ExecutionType
  <1> QED
    BY <1>1, <1>4, <1>5, <1>6, <1>7, <1>8, SameExecution

LEMMA SaveStep ==
  ASSUME ExecutionInv, Save
  PROVE  ExecutionInv'
  <1>1. /\ saving # <<>> /\ saving' = Tail(saving) /\ UNCHANGED <<todo, serial, torn>>
        /\ disk' = [disk EXCEPT ![Head(saving).file] = Head(saving).value]
    BY DEF Save
  <1>2. IsSeq(saving) /\ Len(saving) \in Nat /\ DOMAIN saving = 1..Len(saving)
        /\ Len(saving) > 0 /\ Head(saving) = saving[1]
    BY <1>1, SeqFacts DEF ExecutionInv, ExecutionType
  <1>3. /\ IsSeq(saving') /\ Len(saving') = Len(saving) - 1 /\ DOMAIN saving' = 1..Len(saving')
        /\ \A i \in DOMAIN saving' : i + 1 \in DOMAIN saving /\ saving'[i] = saving[i + 1]
    BY <1>1, <1>2, TailIsSeq, SeqFacts
  <1>4. \A i \in DOMAIN saving' : saving'[i].file # "approval"
    BY <1>2, <1>3 DEF ExecutionInv, ExecutionType
  <1>5. saving' # <<>> => 1 \in DOMAIN saving'
    BY <1>3, SeqFacts
  <1>6. disk'["approval"] = Approvals
    <2>1. "approval" \in Files
      BY DEF Files
    <2> QED
      BY <1>1, <1>2, <2>1 DEF Approvals, ExecutionInv, ExecutionType
  <1>7. Approvals' = disk'["approval"]
    BY <1>4, <1>5 DEF Approvals
  <1>8. DOMAIN disk' = Files /\ serial' \in Nat /\ serial' >= serial
    BY <1>1 DEF ExecutionInv, ExecutionType
  <1>9. TodoOK' /\ \A u \in Actor : \A x : Executes(todo'[u], x) <=> Executes(todo[u], x)
    BY <1>1 DEF ExecutionInv, ExecutionType, TodoOK
  <1> QED
    BY <1>1, <1>3, <1>4, <1>6, <1>7, <1>8, <1>9, SameExecution

LEMMA InitRow == FreeRow(<<[op |-> "init"]>>)
  <1>1. Free([op |-> "init"])
    BY DEF Free, Calm, Apt, Carriers, Plain, TransactionOps
  <1> QED
    BY <1>1, FreeOne

LEMMA KillStep ==
  ASSUME ExecutionInv, Kill
  PROVE  ExecutionInv'
  <1>1. PICK file \in {"none"} \cup (IF saving = <<>> THEN {} ELSE {Head(saving).file}) :
          /\ disk' = [disk EXCEPT ![IF file = "none" THEN "summary" ELSE file] =
                        IF file = "none" THEN @ ELSE <<>>]
          /\ torn' = Append(torn, file)
    BY DEF Kill
  <1>2. /\ saving' = <<>> /\ serial' = serial
        /\ todo' = [t \in DOMAIN todo |-> IF t = Main THEN <<[op |-> "init"]>> ELSE <<>>]
    BY DEF Kill
  <1>3. DOMAIN disk' = Files /\ disk'["approval"] \in {disk["approval"], <<>>}
    BY <1>1 DEF ExecutionInv, ExecutionType, Files
  <1>4. IsSeq(torn') /\ torn' # <<>>
    <2>1. IsSeq(torn')  /\ Len(torn') = Len(torn) + 1 /\ Len(torn) \in Nat
      BY <1>1, AppendIsSeq, SeqFacts DEF ExecutionInv, ExecutionType
    <2> QED
      BY <2>1, EmptyIsSeq
  <1>5. RecordsTo(<<>>, serial) /\ RecordsTo(disk'["approval"], serial')
    BY <1>2, <1>3, EmptyIsSeq DEF ExecutionInv, ExecutionType, RecordsTo
  <1>6. Approvals' = disk'["approval"]
    BY <1>2 DEF Approvals
  <1>7. TodoOK' /\ \A t \in Actor : \A x : ~Executes(todo'[t], x)
    <2>1. DOMAIN todo = Actor
      BY DEF ExecutionInv, ExecutionType, TodoOK
    <2>2. \A t \in Actor : FreeRow(todo'[t])
      BY <1>2, <2>1, InitRow, FreeNothing
    <2>3. \A t \in Actor : Row(todo'[t]) /\ \A x : ~Executes(todo'[t], x)
      BY <2>2, FreeIsRow
    <2>4. todo' = [t \in Actor |-> todo'[t]]
      BY <1>2, <2>1
    <2> QED
      BY <2>3, <2>4 DEF TodoOK
  <1>8. IsSeq(saving') /\ \A i \in DOMAIN saving' : saving'[i].file = "approval" => Len(saving') = 1
    BY <1>2, EmptyIsSeq
  <1>9. ExecutionType'
    BY <1>2, <1>3, <1>4, <1>5, <1>6, <1>7, <1>8 DEF ExecutionInv, ExecutionType
  <1>10. OneEach'
    BY <1>7 DEF OneEach
  <1>11. Attended'
    BY <1>4 DEF Attended
  <1> QED
    BY <1>9, <1>10, <1>11 DEF ExecutionInv

LEMMA ExecutionInit == Init => ExecutionInv
  <1> SUFFICES ASSUME Init PROVE ExecutionInv
    OBVIOUS
  <1>1. /\ disk \in Stored /\ saving = <<>> /\ serial = FirstId /\ torn = <<>>
        /\ todo = [t \in Thread \cup {Main} |-> IF t = Main THEN <<[op |-> "init"]>> ELSE <<>>]
    BY DEF Init
  <1> DEFINE s == disk["approval"]
  <1>2. /\ DOMAIN disk = Files
        /\ s \in Seq([id : 1..FirstId, source : Nat, target : Nat, status : {"PENDING", "APPROVED", "FAILED"}])
    BY <1>1, MemoryAssumption DEF StoredApprovals
  <1>3. /\ IsSeq(s)
        /\ \A i \in DOMAIN s : s[i] \in [id : 1..FirstId, source : Nat, target : Nat,
                                         status : {"PENDING", "APPROVED", "FAILED"}]
    <2>1. IsSeq(s)
      BY <1>2, SomeSeq
    <2>2. DOMAIN s = 1..Len(s)
      BY <1>2, LenProperties
    <2> QED
      BY <1>2, <2>1, <2>2, LenProperties
  <1>4. RecordsTo(s, serial) /\ \A i \in DOMAIN s : s[i].status # "RUNNING"
    <2>1. \A i \in DOMAIN s : /\ {"id", "status"} \subseteq DOMAIN s[i]
                             /\ s[i].id \in 1..FirstId /\ s[i].status \in {"PENDING", "APPROVED", "FAILED"}
      BY <1>3
    <2>2. serial = 100 /\ IsSeq(s)
      BY <1>1, <1>3 DEF FirstId
    <2>3. \A i \in DOMAIN s : /\ {"id", "status"} \subseteq DOMAIN s[i]
                             /\ s[i].id \in Int /\ s[i].id <= serial /\ s[i].status # "RUNNING"
      BY <2>1, <2>2 DEF FirstId
    <2> HIDE DEF s
    <2> QED
      BY <2>2, <2>3 DEF RecordsTo
  <1>5. Approvals = s
    BY <1>1 DEF Approvals
  <1>6. TodoOK /\ \A t \in Actor : \A x : ~Executes(todo[t], x)
    <2>1. \A t \in Actor : FreeRow(todo[t])
      BY <1>1, InitRow, FreeNothing DEF Actor
    <2>2. \A t \in Actor : Row(todo[t]) /\ \A x : ~Executes(todo[t], x)
      BY <2>1, FreeIsRow
    <2>3. todo = [t \in Actor |-> todo[t]]
      BY <1>1 DEF Actor
    <2> QED
      BY <2>2, <2>3 DEF TodoOK
  <1>7. ExecutionType
    BY <1>1, <1>2, <1>4, <1>5, <1>6, EmptyIsSeq DEF ExecutionType, FirstId
  <1>8. OneEach /\ Attended
    BY <1>4, <1>5, <1>6 DEF OneEach, Attended
  <1> QED
    BY <1>7, <1>8 DEF ExecutionInv

-----------------------------------------------------------------------------
\* The lists of decisions and of questions.

\* The id a decision has once it is loaded.
LoadedId(r) == IF r.id = 0 THEN LegacyId(r.text) ELSE r.id

DecisionFields == {"id", "text", "status", "owner", "ownerId"}
DecisionRow(r, last) ==
  /\ DecisionFields \subseteq DOMAIN r
  /\ r.id \in Int /\ r.id <= last
  /\ r.id = 0 => r.text \in Nat \ {0}

DecisionList(s, last) ==
  /\ IsSeq(s) /\ \A i \in DOMAIN s : DecisionRow(s[i], last)
  /\ \A i, j \in DOMAIN s : LoadedId(s[i]) = LoadedId(s[j]) => i = j

\* What is DONE in s is DONE in v, if it is there.
Keeps(s, v) ==
  \A i \in DOMAIN s, j \in DOMAIN v :
    s[i].status = "DONE" /\ LoadedId(s[i]) = LoadedId(v[j]) => v[j].status = "DONE"

ListWrites(w, last) ==
  /\ IsSeq(w)
  /\ \A i \in DOMAIN w :
       /\ w[i].file = "question" => IsSeq(w[i].value)
       /\ w[i].file = "decision" =>
            DecisionList(w[i].value, last) /\ Keeps(disk["decision"], w[i].value)
  /\ \A i, j \in DOMAIN w : w[i].file = "decision" /\ w[j].file = "decision" => i = j

ListsInv ==
  /\ DOMAIN disk = Files /\ serial \in Nat
  /\ DecisionList(disk["decision"], serial) /\ IsSeq(disk["question"])
  /\ ListWrites(saving, serial)

LEMMA NoWrites == NoApproval(<<>>) /\ \A last : ListWrites(<<>>, last)
  BY EmptyIsSeq DEF ListWrites, NoApproval

LEMMA OneWrite ==
  ASSUME NEW last, NEW file, NEW value,
         file = "question" => IsSeq(value),
         file = "decision" => DecisionList(value, last) /\ Keeps(disk["decision"], value)
  PROVE  /\ ListWrites(<<Write(file, value)>>, last)
         /\ file # "approval" => NoApproval(<<Write(file, value)>>)
  <1> DEFINE w == <<Write(file, value)>>
  <1>1. Write(file, value).file = file /\ Write(file, value).value = value
    BY DEF Write
  <1>2. IsSeq(w) /\ DOMAIN w = {1} /\ w[1] = Write(file, value)
    BY OneIsSeq
  <1> HIDE DEF w
  <1>3. ListWrites(w, last) /\ (file # "approval" => NoApproval(w))
    BY <1>1, <1>2 DEF ListWrites, NoApproval
  <1> QED
    BY <1>3 DEF w

\* Two writes, the first of another file.
LEMMA TwoWrites ==
  ASSUME NEW last, NEW file, file \notin {"approval", "decision", "question"}, NEW value,
         NEW other, other # "approval", NEW second,
         other = "question" => IsSeq(second),
         other = "decision" => DecisionList(second, last) /\ Keeps(disk["decision"], second)
  PROVE  /\ ListWrites(<<Write(file, value), Write(other, second)>>, last)
         /\ NoApproval(<<Write(file, value), Write(other, second)>>)
  <1> DEFINE w == <<Write(file, value), Write(other, second)>>
  <1>1. /\ Write(file, value).file = file
        /\ Write(other, second).file = other /\ Write(other, second).value = second
    BY DEF Write
  <1>2. IsSeq(w) /\ DOMAIN w = {1, 2} /\ w[1] = Write(file, value) /\ w[2] = Write(other, second)
    BY TwoIsSeq
  <1> HIDE DEF w
  <1>3. ListWrites(w, last) /\ NoApproval(w)
    BY <1>1, <1>2 DEF ListWrites, NoApproval
  <1> QED
    BY <1>3 DEF w

\* What loading does to a decision, and to all of them.
LEMMA LoadedRow ==
  ASSUME NEW last \in Nat, NEW r, DecisionRow(r, last)
  PROVE  /\ DecisionRow(WithId(r), last) /\ WithId(r).id # 0
         /\ WithId(r).id = LoadedId(r) /\ LoadedId(WithId(r)) = LoadedId(r)
         /\ WithId(r).status = r.status /\ WithId(r).owner = r.owner /\ WithId(r).ownerId = r.ownerId
  <1>1. CASE r.id = 0
    <2>1. r.text \in Nat \ {0} /\ LegacyId(r.text) \in Int /\ LegacyId(r.text) < 0
      BY <1>1 DEF DecisionRow, LegacyId
    <2>2. WithId(r) = [r EXCEPT !.id = LegacyId(r.text)]
      BY <1>1 DEF WithId
    <2>3. /\ DOMAIN WithId(r) = DOMAIN r /\ WithId(r).id = LegacyId(r.text)
          /\ WithId(r).status = r.status /\ WithId(r).owner = r.owner /\ WithId(r).ownerId = r.ownerId
      BY <2>2 DEF DecisionRow, DecisionFields
    <2>4. LoadedId(r) = LegacyId(r.text) /\ LoadedId(WithId(r)) = LegacyId(r.text)
      BY <1>1, <2>1, <2>3 DEF LoadedId
    <2>5. DecisionRow(WithId(r), last)
      BY <2>1, <2>3 DEF DecisionRow
    <2> QED
      BY <2>1, <2>3, <2>4, <2>5
  <1>2. CASE r.id # 0
    BY <1>2 DEF WithId, LoadedId
  <1> QED
    BY <1>1, <1>2

LEMMA DecisionsAre ==
  ASSUME ListsInv
  PROVE  /\ IsSeq(Decisions) /\ IsSeq(disk["decision"]) /\ DOMAIN Decisions = DOMAIN disk["decision"]
         /\ \A i \in DOMAIN disk["decision"] :
              /\ DecisionRow(Decisions[i], serial) /\ Decisions[i].id # 0
              /\ Decisions[i].id = LoadedId(disk["decision"][i])
              /\ LoadedId(Decisions[i]) = LoadedId(disk["decision"][i])
              /\ Decisions[i].status = disk["decision"][i].status
              /\ Decisions[i].owner = disk["decision"][i].owner
              /\ Decisions[i].ownerId = disk["decision"][i].ownerId
  <1> DEFINE s == disk["decision"]
  <1>1. DecisionList(s, serial) /\ serial \in Nat
    BY DEF ListsInv
  <1>2. IsSeq(s) /\ Len(s) \in Nat /\ DOMAIN s = 1..Len(s)
    BY <1>1, SeqFacts DEF DecisionList
  <1>3. DOMAIN Decisions = DOMAIN s /\ \A i \in DOMAIN s : Decisions[i] = WithId(s[i])
    BY DEF Decisions, DecisionsLoaded
  <1>4. Decisions = [i \in 1..Len(s) |-> Decisions[i]]
    BY <1>2 DEF Decisions, DecisionsLoaded
  <1>5. IsSeq(Decisions)
    BY <1>2, <1>4, ListIsSeq
  <1> QED
    BY <1>1, <1>2, <1>3, <1>5, LoadedRow DEF DecisionList

LEMMA QuestionsAre ==
  ASSUME ListsInv
  PROVE  IsSeq(Questions) /\ DOMAIN Questions = DOMAIN disk["question"]
  <1>1. IsSeq(disk["question"])
    BY DEF ListsInv
  <1>2. Len(disk["question"]) \in Nat /\ DOMAIN disk["question"] = 1..Len(disk["question"])
    BY <1>1, SeqFacts
  <1>3. Questions = [i \in 1..Len(disk["question"]) |-> Questions[i]]
    BY <1>2 DEF Questions, QuestionsLoaded
  <1> QED
    BY <1>2, <1>3, ListIsSeq

\* The same decisions, with something changed in each.
LEMMA SameDecisions ==
  ASSUME ListsInv, NEW last \in Nat, serial <= last,
         NEW v, v = [i \in DOMAIN disk["decision"] |-> v[i]],
         \A i \in DOMAIN disk["decision"] :
           /\ DecisionFields \subseteq DOMAIN v[i]
           /\ \/ v[i].id = Decisions[i].id
              \/ v[i].id = disk["decision"][i].id /\ v[i].text = disk["decision"][i].text
           /\ disk["decision"][i].status = "DONE" => v[i].status = "DONE"
  PROVE  DecisionList(v, last) /\ Keeps(disk["decision"], v)
  <1> DEFINE s == disk["decision"]
  <1>1. DecisionList(s, serial) /\ serial \in Nat
    BY DEF ListsInv
  <1>2. IsSeq(s) /\ Len(s) \in Nat /\ DOMAIN s = 1..Len(s)
    BY <1>1, SeqFacts DEF DecisionList
  <1>3. IsSeq(v) /\ DOMAIN v = DOMAIN s
    BY <1>2, ListIsSeq
  <1>4. ASSUME NEW i \in DOMAIN s
        PROVE  DecisionRow(v[i], last) /\ LoadedId(v[i]) = LoadedId(s[i])
    <2>1. /\ DecisionFields \subseteq DOMAIN v[i]
          /\ \/ v[i].id = Decisions[i].id
             \/ v[i].id = s[i].id /\ v[i].text = s[i].text
      OBVIOUS
    <2>2. /\ DecisionRow(s[i], serial)
          /\ DecisionRow(Decisions[i], serial) /\ Decisions[i].id # 0
          /\ Decisions[i].id = LoadedId(s[i])
      BY <1>1, DecisionsAre DEF DecisionList
    <2> HIDE DEF s
    <2>3. CASE v[i].id = Decisions[i].id
      BY <1>1, <2>1, <2>2, <2>3 DEF DecisionRow, LoadedId
    <2>4. CASE v[i].id = s[i].id /\ v[i].text = s[i].text
      BY <1>1, <2>1, <2>2, <2>4 DEF DecisionRow, LoadedId
    <2> QED
      BY <2>1, <2>3, <2>4
  <1>5. \A i, j \in DOMAIN s : LoadedId(s[i]) = LoadedId(s[j]) => i = j
    BY <1>1 DEF DecisionList
  <1>6. DecisionList(v, last)
    BY <1>3, <1>4, <1>5 DEF DecisionList
  <1>7. Keeps(s, v)
    BY <1>3, <1>4, <1>5 DEF Keeps
  <1> QED
    BY <1>6, <1>7

LEMMA CappedIsSeq ==
  ASSUME NEW s, IsSeq(s), NEW n \in Nat
  PROVE  /\ IsSeq(Capped(s, n))
         /\ \A i \in DOMAIN Capped(s, n) :
              LET k == i + (IF Len(s) > n THEN Len(s) - n ELSE 0)
              IN k \in DOMAIN s /\ Capped(s, n)[i] = s[k]
  <1> DEFINE S == {s[i] : i \in DOMAIN s}
             m == IF Len(s) > n THEN Len(s) - n + 1 ELSE 1
             c == Capped(s, n)
  <1>1. Len(s) \in Nat /\ DOMAIN s = 1..Len(s)
    BY SeqFacts
  <1>2. m \in Int /\ m >= 1 /\ m <= Len(s) + 1
    BY <1>1
  <1>3. \A i \in m..Len(s) : s[i] \in S
    BY <1>1, <1>2
  <1> HIDE DEF S, m
  <1>4. /\ c \in Seq(S) /\ Len(c) = IF m <= Len(s) THEN Len(s) - m + 1 ELSE 0
        /\ \A i \in 1..(Len(s) - m + 1) : c[i] = s[m + i - 1]
    BY <1>1, <1>2, <1>3, SubSeqProperties DEF Capped, m
  <1> HIDE DEF c
  <1>5. IsSeq(c) /\ DOMAIN c = 1..Len(c)
    BY <1>4, SomeSeq, LenProperties
  <1>6. ASSUME NEW i \in DOMAIN c
        PROVE  m + i - 1 \in DOMAIN s /\ c[i] = s[m + i - 1]
    BY <1>1, <1>2, <1>4, <1>5
  <1>7. \A i \in DOMAIN c : m + i - 1 = i + (IF Len(s) > n THEN Len(s) - n ELSE 0)
    BY <1>1, <1>5 DEF m
  <1>8. ASSUME NEW i \in DOMAIN c
        PROVE  LET k == i + (IF Len(s) > n THEN Len(s) - n ELSE 0)
               IN k \in DOMAIN s /\ c[i] = s[k]
    BY <1>6, <1>7
  <1> QED
    BY <1>5, <1>8 DEF c

\* A new decision in a list that forgets the oldest ones.
LEMMA NewDecision ==
  ASSUME ListsInv, NEW d, DecisionRow(d, serial + 1), d.id = serial + 1, NEW n \in Nat
  PROVE  LET v == Capped(Append(Decisions, d), n)
         IN DecisionList(v, serial + 1) /\ Keeps(disk["decision"], v)
  <1> DEFINE s == disk["decision"]
             u == Append(Decisions, d)
             v == Capped(u, n)
             shift == IF Len(u) > n THEN Len(u) - n ELSE 0
  <1>1. DecisionList(s, serial) /\ serial \in Nat
    BY DEF ListsInv
  <1>2. /\ IsSeq(Decisions) /\ DOMAIN Decisions = DOMAIN s
        /\ DOMAIN Decisions = 1..Len(Decisions) /\ Len(Decisions) \in Nat
    BY DecisionsAre, SeqFacts
  <1>3. /\ IsSeq(u) /\ Len(u) = Len(Decisions) + 1
        /\ \A i \in DOMAIN u : \/ i \in DOMAIN Decisions /\ u[i] = Decisions[i]
                               \/ i = Len(Decisions) + 1 /\ u[i] = d
    BY <1>2, AppendIsSeq
  <1>4. \A i \in DOMAIN s : /\ DecisionRow(Decisions[i], serial) /\ Decisions[i].id # 0
                            /\ Decisions[i].id = LoadedId(s[i])
                            /\ LoadedId(Decisions[i]) = LoadedId(s[i])
                            /\ Decisions[i].status = s[i].status
    BY DecisionsAre
  <1>5. LoadedId(d) = serial + 1
    BY <1>1 DEF LoadedId
  <1> HIDE DEF s, u
  <1>6. ASSUME NEW i \in DOMAIN u
        PROVE  /\ DecisionRow(u[i], serial + 1)
               /\ \/ i \in DOMAIN s /\ LoadedId(u[i]) = LoadedId(s[i]) /\ u[i].status = s[i].status
                                    /\ LoadedId(u[i]) <= serial
                  \/ i = Len(Decisions) + 1 /\ LoadedId(u[i]) = serial + 1
    <2>1. CASE i \in DOMAIN s /\ u[i] = Decisions[i]
      BY <1>1, <1>4, <2>1 DEF DecisionRow
    <2>2. CASE i = Len(Decisions) + 1 /\ u[i] = d
      BY <1>5, <2>2
    <2> QED
      BY <1>2, <1>3, <2>1, <2>2
  <1>7. \A i, j \in DOMAIN s : LoadedId(s[i]) = LoadedId(s[j]) => i = j
    BY <1>1 DEF DecisionList
  <1>8. /\ IsSeq(v) /\ Len(u) \in Nat /\ shift \in Nat
        /\ \A i \in DOMAIN v : i \in Nat /\ i + shift \in DOMAIN u /\ v[i] = u[i + shift]
    <2>1. Len(u) \in Nat /\ shift \in Nat
      BY <1>3, SeqFacts
    <2>2. /\ IsSeq(v)
          /\ \A i \in DOMAIN v : i + shift \in DOMAIN u /\ v[i] = u[i + shift]
      BY <1>3, CappedIsSeq
    <2>3. \A i \in DOMAIN v : i \in Nat
      BY <2>2, SeqFacts
    <2> QED
      BY <2>1, <2>2, <2>3
  <1> HIDE DEF v, shift
  <1>9. ASSUME NEW i \in DOMAIN v, NEW j \in DOMAIN v, LoadedId(v[i]) = LoadedId(v[j])
        PROVE  i = j
    <2>1. i + shift = j + shift
      BY <1>1, <1>6, <1>7, <1>8, <1>9
    <2> QED
      BY <1>8, <2>1
  <1>10. DecisionList(v, serial + 1)
    BY <1>6, <1>8, <1>9 DEF DecisionList
  <1>11. Keeps(s, v)
    <2>1. ASSUME NEW i \in DOMAIN s, NEW j \in DOMAIN v, s[i].status = "DONE",
                 LoadedId(s[i]) = LoadedId(v[j])
          PROVE  v[j].status = "DONE"
      <3>1. LoadedId(s[i]) <= serial
        BY <1>1, <1>4 DEF DecisionRow
      <3>2. /\ j + shift \in DOMAIN s /\ LoadedId(v[j]) = LoadedId(s[j + shift])
            /\ v[j].status = s[j + shift].status
        BY <1>1, <1>6, <1>8, <2>1, <3>1
      <3>3. i = j + shift
        BY <1>7, <2>1, <3>2
      <3> QED
        BY <2>1, <3>2, <3>3
    <2> QED
      BY <2>1 DEF Keeps
  <1> QED
    BY <1>10, <1>11 DEF v, s, u

-----------------------------------------------------------------------------
\* What the records of one file say of those of another.

\* A file once the first of the writes w is done: those that others refer to come first.
After(w, files, file) == IF w # <<>> /\ w[1].file = file THEN w[1].value ELSE files[file]
Referred == {"owner", "fact", "cluster", "subject"}

Extends(r, s) == IsSeq(s) /\ \A i \in DOMAIN r : i \in DOMAIN s /\ s[i] = r[i]

\* Every decision has the id of its owner, and the id is its owner's.
NamedAll(v, owners) == \A i \in DOMAIN v : NamesOwner(v[i], owners)
WholeAll(v) == \A i \in DOMAIN v : v[i].owner.base # 0 => v[i].ownerId # 0

IdIn(id, s) == \E j \in DOMAIN s : s[j].id = id
FactList(s) == IsSeq(s) /\ \A i \in DOMAIN s : "id" \in DOMAIN s[i]
KeepsIds(r, s) == \A i \in DOMAIN r : IdIn(r[i].id, s)

\* Clusters come by age, and the place of a question among them is there or was evicted.
ClusterList(s, last) ==
  /\ IsSeq(s) /\ Len(s) <= MaxClusters
  /\ \A i \in DOMAIN s : /\ {"id", "members"} \subseteq DOMAIN s[i]
                         /\ s[i].id \in Nat /\ s[i].id <= last
  /\ \A i, j \in DOMAIN s : i < j => s[i].id < s[j].id
KeepsPlaces(r, s) == \A q : q.cluster \in Nat /\ InCluster(q, r) => InCluster(q, s)

\* A question as it is loaded, and all that may be written: loading them changes nothing.
Load(q) == WithLink(WithStatus(WithId(q)))
QuestionFields == {"id", "text", "subject", "answer", "status", "source", "fact", "decision", "link",
                   "types", "cluster"}
LoadedQuestion(q) ==
  /\ QuestionFields \subseteq DOMAIN q
  /\ q.id # 0 /\ q.status \in QuestionStatus /\ q.link.type # "absent" /\ q.cluster \in Nat
Known(q, facts, clusters, lost) ==
  /\ LinkAgrees(q)
  /\ "fact" \notin lost => FactThere(q, facts)
  /\ "cluster" \notin lost => InCluster(q, clusters)
QuestionList(v, facts, clusters, lost) ==
  IsSeq(v) /\ \A i \in DOMAIN v : LoadedQuestion(v[i]) /\ Known(v[i], facts, clusters, lost)

SubjectList(s, last) ==
  IsSeq(s) /\ \A i \in DOMAIN s : /\ {"id", "name"} \subseteq DOMAIN s[i]
                                  /\ s[i].id \in Nat \ {0} /\ s[i].id <= last
KeepsNames(r, s) == \A i \in DOMAIN r : i \in DOMAIN s /\ s[i].id = r[i].id /\ s[i].name = r[i].name

\* What the writes w put beside what the files hold, with `lost` the files a kill has torn.
FitsFile(file, value, w, files, last, lost) ==
  /\ file = "owner" => Extends(files["owner"], value)
  /\ file = "fact" => FactList(value) /\ KeepsIds(files["fact"], value)
  /\ file = "cluster" => ClusterList(value, last) /\ KeepsPlaces(files["cluster"], value)
  /\ file = "subject" => SubjectList(value, last) /\ KeepsNames(files["subject"], value)
  /\ file = "decision" /\ "owner" \notin lost => NamedAll(value, After(w, files, "owner"))
  /\ file = "question" => QuestionList(value, After(w, files, "fact"), After(w, files, "cluster"), lost)
Fits(w, files, last, lost) ==
  \A i \in DOMAIN w :
    /\ w[i].file \in Referred => i = 1
    /\ FitsFile(w[i].file, w[i].value, w, files, last, lost)

\* A question that is in a cluster had its id when it was saved.
SamePlace(q, loaded) == q.cluster = loaded.cluster /\ (q.cluster # 0 => q.id = loaded.id)

FilesInv ==
  /\ serial >= FirstId
  /\ IsSeq(disk["owner"]) /\ FactList(disk["fact"])
  /\ ClusterList(disk["cluster"], serial) /\ SubjectList(disk["subject"], serial)
  /\ "owner" \notin TornFiles => NamedAll(disk["decision"], disk["owner"])
  /\ QuestionList(Questions, disk["fact"], disk["cluster"], TornFiles)
  /\ \A i \in DOMAIN disk["question"] : SamePlace(disk["question"][i], Questions[i])
  /\ Fits(saving, disk, serial, TornFiles)

\* The ids that threads carry from one acquisition to a later one.
Refers(o, owners, facts, lost) ==
  /\ o.op = "decision" /\ "owner" \notin lost => NamesOwner(o, owners)
  /\ o.op = "markAnswered" /\ "fact" \notin lost => IdIn(o.fact, facts)
  /\ o.op = "questionLinks" /\ "fact" \notin lost => IdIn(o.fact.id, facts)
RefersAll(s, owners, facts, lost) == \A i \in DOMAIN s : Refers(s[i], owners, facts, lost)
CarriedInv ==
  \A t \in Thread :
    RefersAll(todo[t], After(saving, disk, "owner"), After(saving, disk, "fact"), TornFiles)

\* memory_init() is over before any thread starts, and leaves no decision without the id of
\* its owner.
StartInv ==
  /\ todo[Main] # <<>> => todo[Main] = <<[op |-> "init"]>> /\ saving = <<>> /\ \A t \in Thread : todo[t] = <<>>
  /\ todo[Main] = <<>> =>
       /\ \A i \in DOMAIN saving : saving[i].file = "decision" => WholeAll(saving[i].value)
       /\ (\A i \in DOMAIN saving : saving[i].file # "decision") => WholeAll(disk["decision"])

\* The subjects of a name that were created, and the threads that have found none.
NewOnes(s, n) == {j \in DOMAIN s : s[j].name = n /\ s[j].id > FirstId}
Creating(n) == {t \in Thread : todo[t] # <<>> /\ Head(todo[t]).op = "create" /\ Head(todo[t]).name = n}
Room(s) ==
  /\ \A n : Cardinality(NewOnes(s, n)) + Cardinality(Creating(n)) <= Cardinality(Thread)
  /\ \A n : \A i \in DOMAIN s : s[i].name = n /\ s[i].id <= FirstId => NewOnes(s, n) = {} /\ Creating(n) = {}
SubjectsInv == Room(After(saving, disk, "subject"))

SaidInv == FilesInv /\ CarriedInv /\ StartInv /\ SubjectsInv

MemoryInv == ExecutionInv /\ ListsInv /\ SaidInv

LEMMA NamesGrow == \A d, r, s : Extends(r, s) /\ NamesOwner(d, r) => NamesOwner(d, s)
  BY DEF Extends, NamesOwner

LEMMA IdsGrow == \A id, r, s : KeepsIds(r, s) /\ IdIn(id, r) => IdIn(id, s)
  BY DEF KeepsIds, IdIn

LEMMA RefersGrow ==
  \A o, p, r, a, b, lost :
    Extends(p, a) /\ KeepsIds(r, b) /\ Refers(o, p, r, lost) => Refers(o, a, b, lost)
  BY NamesGrow, IdsGrow DEF Refers

LEMMA KnownGrow ==
  \A q, r, s, a, b, lost :
    /\ q.cluster \in Nat /\ KeepsIds(r, s) /\ KeepsPlaces(a, b) /\ Known(q, r, a, lost)
      => Known(q, s, b, lost)
  <1> SUFFICES ASSUME NEW q, NEW r, NEW s, NEW a, NEW b, NEW lost,
                      q.cluster \in Nat, KeepsIds(r, s), KeepsPlaces(a, b), Known(q, r, a, lost)
               PROVE  Known(q, s, b, lost)
    OBVIOUS
  <1>1. FactThere(q, r) => FactThere(q, s)
    BY DEF FactThere, KeepsIds, IdIn
  <1>2. InCluster(q, a) => InCluster(q, b)
    BY DEF KeepsPlaces
  <1> QED
    BY <1>1, <1>2 DEF Known

LEMMA NothingChanges ==
  \A s : /\ IsSeq(s) => Extends(s, s)
         /\ KeepsIds(s, s) /\ KeepsPlaces(s, s) /\ KeepsNames(s, s)
  BY DEF Extends, KeepsIds, IdIn, KeepsPlaces, KeepsNames

\* The files that others refer to are only added to.
LEMMA AfterKeeps ==
  ASSUME NEW w, IsSeq(w), NEW files, NEW last, NEW lost, Fits(w, files, last, lost),
         IsSeq(files["owner"])
  PROVE  /\ Extends(files["owner"], After(w, files, "owner"))
         /\ KeepsIds(files["fact"], After(w, files, "fact"))
         /\ KeepsPlaces(files["cluster"], After(w, files, "cluster"))
         /\ KeepsNames(files["subject"], After(w, files, "subject"))
  <1>1. CASE w = <<>>
    BY <1>1, NothingChanges DEF After
  <1>2. CASE w # <<>>
    <2>1. 1 \in DOMAIN w
      BY <1>2, SeqFacts
    <2>2. FitsFile(w[1].file, w[1].value, w, files, last, lost)
      BY <2>1 DEF Fits
    <2> QED
      BY <2>2, NothingChanges DEF After, FitsFile
  <1> QED
    BY <1>1, <1>2

\* A file the writes leave alone.
LEMMA NotWritten ==
  \A w, files, file : w = <<>> => After(w, files, file) = files[file]
  BY DEF After

\* Ids only grow.
LEMMA ListsGrow ==
  ASSUME NEW last \in Nat, NEW next \in Nat, last <= next
  PROVE  /\ \A s : ClusterList(s, last) => ClusterList(s, next)
         /\ \A s : SubjectList(s, last) => SubjectList(s, next)
  BY DEF ClusterList, SubjectList

LEMMA SectionSaid ==
  ASSUME MemoryInv, NEW t \in Actor, saving = <<>>, todo[t] # <<>>,
         NEW w, IsSeq(w), NEW more, IsSeq(more), Section(t, w, more), serial' \in {serial, serial + 1},
         Fits(w, disk, serial', TornFiles),
         RefersAll(more, After(w, disk, "owner"), After(w, disk, "fact"), TornFiles)
  PROVE  FilesInv' /\ CarriedInv'
  <1>1. /\ disk' = disk /\ saving' = w /\ torn' = torn
        /\ todo' = [todo EXCEPT ![t] = more \o Tail(todo[t])]
    BY DEF Section
  <1>2. TornFiles' = TornFiles /\ Questions' = Questions
    BY <1>1 DEF TornFiles, Questions
  <1>3. FilesInv /\ serial \in Nat /\ FirstId \in Nat
    BY DEF MemoryInv, SaidInv, ListsInv, FirstId
  <1>4. serial' \in Nat /\ serial <= serial' /\ serial' >= FirstId
    BY <1>3 DEF FilesInv
  <1>5. FilesInv'
    BY <1>1, <1>2, <1>3, <1>4, ListsGrow DEF FilesInv
  <1>6. /\ Extends(disk["owner"], After(w, disk, "owner"))
        /\ KeepsIds(disk["fact"], After(w, disk, "fact"))
    BY <1>3, AfterKeeps DEF FilesInv
  <1>7. \A u \in Thread : RefersAll(todo[u], After(w, disk, "owner"), After(w, disk, "fact"), TornFiles)
    <2>1. \A u \in Thread : RefersAll(todo[u], disk["owner"], disk["fact"], TornFiles)
      BY NotWritten DEF MemoryInv, SaidInv, CarriedInv
    <2> QED
      BY <1>6, <2>1, RefersGrow DEF RefersAll
  <1>8. TodoOK /\ IsSeq(todo[t])
    BY DEF MemoryInv, ExecutionInv, ExecutionType, TodoOK, Row
  <1>9. ASSUME NEW u \in Thread
        PROVE  RefersAll(todo'[u], After(w, disk, "owner"), After(w, disk, "fact"), TornFiles)
    <2>1. CASE u # t
      BY <1>1, <1>7, <1>8, <2>1 DEF TodoOK, Actor
    <2>2. CASE u = t
      <3>1. todo'[u] = more \o Tail(todo[t])
        BY <1>1, <1>8, <2>2 DEF TodoOK
      <3>2. /\ IsSeq(Tail(todo[t]))
            /\ \A i \in DOMAIN Tail(todo[t]) : i + 1 \in DOMAIN todo[t] /\ Tail(todo[t])[i] = todo[t][i + 1]
        BY <1>8, TailIsSeq
      <3>3. RefersAll(Tail(todo[t]), After(w, disk, "owner"), After(w, disk, "fact"), TornFiles)
        BY <1>7, <2>2, <3>2 DEF RefersAll
      <3>4. \A i \in DOMAIN (more \o Tail(todo[t])) :
              \/ i \in DOMAIN more /\ (more \o Tail(todo[t]))[i] = more[i]
              \/ /\ i > Len(more) /\ i - Len(more) \in DOMAIN Tail(todo[t])
                 /\ (more \o Tail(todo[t]))[i] = Tail(todo[t])[i - Len(more)]
        BY <3>2, ConcatIsSeq
      <3> QED
        BY <3>1, <3>3, <3>4 DEF RefersAll
    <2> QED
      BY <2>1, <2>2
  <1>10. CarriedInv'
    BY <1>1, <1>2, <1>9 DEF CarriedInv
  <1> QED
    BY <1>5, <1>10

LEMMA LoadedStays == \A q : LoadedQuestion(q) => Load(q) = q
  BY DEF LoadedQuestion, QuestionStatus, Load, WithId, WithStatus, WithLink

LEMMA LoadedList ==
  ASSUME NEW v, IsSeq(v), \A i \in DOMAIN v : LoadedQuestion(v[i])
  PROVE  QuestionsLoaded(v) = v
  <1>1. Len(v) \in Nat /\ DOMAIN v = 1..Len(v) /\ v \in Seq({v[i] : i \in DOMAIN v})
    BY SeqFacts DEF IsSeq
  <1>2. QuestionsLoaded(v) = [i \in 1..Len(v) |-> v[i]]
    BY <1>1, LoadedStays DEF QuestionsLoaded, Load
  <1>3. v = [i \in 1..Len(v) |-> v[i]]
    BY <1>1
  <1> QED
    BY <1>2, <1>3

\* A save does to the files what the holder of the lock was about to do.
LEMMA SaveAfter ==
  ASSUME MemoryInv, Save
  PROVE  /\ saving # <<>> /\ IsSeq(saving) /\ 1 \in DOMAIN saving /\ IsSeq(saving')
         /\ \A i \in DOMAIN saving' : /\ i + 1 \in DOMAIN saving /\ saving'[i] = saving[i + 1]
                                      /\ i + 1 # 1
         /\ DOMAIN disk' = Files
         /\ \A f \in Files : disk'[f] = IF saving[1].file = f THEN saving[1].value ELSE disk[f]
         /\ \A f \in Referred : After(saving', disk', f) = After(saving, disk, f)
                                /\ disk'[f] = After(saving, disk, f)
         /\ FitsFile(saving[1].file, saving[1].value, saving, disk, serial, TornFiles)
  <1>1. /\ saving # <<>> /\ saving' = Tail(saving)
        /\ disk' = [disk EXCEPT ![Head(saving).file] = Head(saving).value]
    BY DEF Save
  <1>2. DOMAIN disk = Files /\ IsSeq(saving) /\ Fits(saving, disk, serial, TornFiles)
    BY DEF MemoryInv, ListsInv, ListWrites, SaidInv, FilesInv
  <1>3. 1 \in DOMAIN saving /\ Head(saving) = saving[1]
    BY <1>1, <1>2, SeqFacts
  <1>4. /\ IsSeq(saving')
        /\ \A i \in DOMAIN saving' : i \in Nat \ {0} /\ i + 1 \in DOMAIN saving /\ saving'[i] = saving[i + 1]
    BY <1>1, <1>2, TailIsSeq, SeqFacts
  <1>5. /\ DOMAIN disk' = Files
        /\ \A f \in Files : disk'[f] = IF saving[1].file = f THEN saving[1].value ELSE disk[f]
    BY <1>1, <1>2, <1>3
  <1>6. ASSUME NEW f \in Referred
        PROVE  After(saving', disk', f) = After(saving, disk, f) /\ disk'[f] = After(saving, disk, f)
    <2>1. f \in Files
      BY DEF Referred, Files
    <2>2. disk'[f] = After(saving, disk, f)
      BY <1>1, <1>5, <2>1 DEF After
    <2>3. saving' # <<>> => saving'[1].file # f
      <3>1. saving' # <<>> => 1 \in DOMAIN saving'
        BY <1>4, SeqFacts
      <3>2. \A i \in DOMAIN saving' : saving'[i].file \notin Referred
        BY <1>2, <1>4 DEF Fits
      <3> QED
        BY <3>1, <3>2
    <2> QED
      BY <2>2, <2>3 DEF After
  <1>7. FitsFile(saving[1].file, saving[1].value, saving, disk, serial, TornFiles)
    BY <1>2, <1>3 DEF Fits
  <1>8. \A i \in DOMAIN saving' : i + 1 # 1
    BY <1>4
  <1> QED
    BY <1>1, <1>2, <1>3, <1>4, <1>5, <1>6, <1>7, <1>8

LEMMA SaveSaid ==
  ASSUME MemoryInv, Save
  PROVE  SaidInv'
  <1>1. torn' = torn /\ todo' = todo /\ serial' = serial /\ TornFiles' = TornFiles
    BY DEF Save, TornFiles
  <1>2. FilesInv /\ ListsInv /\ serial \in Nat
    BY DEF MemoryInv, SaidInv, ListsInv
  <1> DEFINE file == saving[1].file
             value == saving[1].value
  <1>3. /\ saving # <<>> /\ IsSeq(saving) /\ 1 \in DOMAIN saving /\ IsSeq(saving')
        /\ \A i \in DOMAIN saving' : /\ i + 1 \in DOMAIN saving /\ saving'[i] = saving[i + 1]
                                     /\ i + 1 # 1
        /\ DOMAIN disk' = Files
        /\ \A f \in Files : disk'[f] = IF file = f THEN value ELSE disk[f]
        /\ \A f \in Referred : After(saving', disk', f) = After(saving, disk, f)
                               /\ disk'[f] = After(saving, disk, f)
        /\ FitsFile(file, value, saving, disk, serial, TornFiles)
    BY SaveAfter
  <1>4. /\ disk'["owner"] = IF file = "owner" THEN value ELSE disk["owner"]
        /\ disk'["fact"] = IF file = "fact" THEN value ELSE disk["fact"]
        /\ disk'["cluster"] = IF file = "cluster" THEN value ELSE disk["cluster"]
        /\ disk'["subject"] = IF file = "subject" THEN value ELSE disk["subject"]
        /\ disk'["decision"] = IF file = "decision" THEN value ELSE disk["decision"]
        /\ disk'["question"] = IF file = "question" THEN value ELSE disk["question"]
    BY <1>3 DEF Files
  <1>5. /\ Extends(disk["owner"], After(saving, disk, "owner"))
        /\ KeepsIds(disk["fact"], After(saving, disk, "fact"))
        /\ KeepsPlaces(disk["cluster"], After(saving, disk, "cluster"))
    BY <1>2, <1>3, AfterKeeps DEF FilesInv
  <1>6. \A f \in {"owner", "fact", "cluster", "subject"} : disk'[f] = After(saving, disk, f)
    BY <1>3 DEF Referred
  <1>7. /\ IsSeq(disk'["owner"]) /\ FactList(disk'["fact"])
        /\ ClusterList(disk'["cluster"], serial) /\ SubjectList(disk'["subject"], serial)
    BY <1>2, <1>3, <1>4 DEF FilesInv, FitsFile, Extends
  <1>8. "owner" \notin TornFiles => NamedAll(disk'["decision"], disk'["owner"])
    <2>1. CASE file = "decision"
      BY <1>3, <1>4, <1>6, <2>1 DEF FitsFile
    <2>2. CASE file # "decision"
      BY <1>2, <1>4, <1>5, <1>6, <2>2, NamesGrow DEF FilesInv, NamedAll
    <2> QED
      BY <2>1, <2>2
  <1>9. /\ QuestionList(Questions', disk'["fact"], disk'["cluster"], TornFiles)
        /\ \A i \in DOMAIN disk'["question"] : SamePlace(disk'["question"][i], Questions'[i])
    <2>1. CASE file = "question"
      <3>1. QuestionList(value, disk'["fact"], disk'["cluster"], TornFiles)
        BY <1>3, <1>6, <2>1 DEF FitsFile
      <3>2. disk'["question"] = value
        BY <1>4, <2>1
      <3>3. Questions' = value
        <4>1. QuestionsLoaded(value) = value
          BY <3>1, LoadedList DEF QuestionList
        <4> QED
          BY <3>2, <4>1 DEF Questions
      <3> QED
        BY <3>1, <3>2, <3>3 DEF SamePlace
    <2>2. CASE file # "question"
      <3>1. disk'["question"] = disk["question"] /\ Questions' = Questions
        BY <1>4, <2>2 DEF Questions
      <3>2. QuestionList(Questions, disk'["fact"], disk'["cluster"], TornFiles)
        BY <1>2, <1>5, <1>6, KnownGrow DEF FilesInv, QuestionList, LoadedQuestion
      <3> QED
        BY <1>2, <3>1, <3>2 DEF FilesInv
    <2> QED
      BY <2>1, <2>2
  <1>10. Fits(saving', disk', serial, TornFiles)
    <2> SUFFICES ASSUME NEW i \in DOMAIN saving'
                 PROVE  /\ saving'[i].file \notin Referred
                        /\ FitsFile(saving'[i].file, saving'[i].value, saving', disk', serial, TornFiles)
      BY DEF Fits
    <2>1. i + 1 \in DOMAIN saving /\ saving'[i] = saving[i + 1] /\ i + 1 # 1
      BY <1>3
    <2>2. /\ saving'[i].file \notin Referred
          /\ FitsFile(saving'[i].file, saving'[i].value, saving, disk, serial, TornFiles)
      BY <1>2, <2>1 DEF FilesInv, Fits
    <2>3. \A f \in {"owner", "fact", "cluster"} : After(saving', disk', f) = After(saving, disk, f)
      BY <1>3 DEF Referred
    <2> QED
      BY <2>2, <2>3 DEF FitsFile, Referred
  <1>11. FilesInv'
    BY <1>1, <1>2, <1>7, <1>8, <1>9, <1>10 DEF FilesInv
  <1>12. CarriedInv' /\ SubjectsInv'
    <2>1. \A f \in {"owner", "fact", "subject"} : After(saving', disk', f) = After(saving, disk, f)
      BY <1>3 DEF Referred
    <2>2. \A n : Creating(n)' = Creating(n)
      BY <1>1 DEF Creating
    <2>3. CarriedInv'
      BY <1>1, <2>1 DEF MemoryInv, SaidInv, CarriedInv
    <2>4. Room(After(saving, disk, "subject"))'
      BY <2>1, <2>2 DEF MemoryInv, SaidInv, SubjectsInv, Room
    <2> QED
      BY <2>1, <2>3, <2>4 DEF SubjectsInv
  <1>13. StartInv'
    <2>1. StartInv /\ ListWrites(saving, serial)
      BY DEF MemoryInv, SaidInv, ListsInv
    <2>2. todo[Main] = <<>>
      BY <1>3, <2>1 DEF StartInv
    <2>3. \A i \in DOMAIN saving : saving[i].file = "decision" => WholeAll(saving[i].value)
      BY <2>1, <2>2 DEF StartInv
    <2>4. \A i \in DOMAIN saving' : saving'[i].file = "decision" => WholeAll(saving'[i].value)
      BY <1>3, <2>3
    <2>5. ASSUME \A i \in DOMAIN saving' : saving'[i].file # "decision" PROVE WholeAll(disk'["decision"])
      <3>1. CASE file = "decision"
        BY <1>3, <1>4, <2>3, <3>1
      <3>2. CASE file # "decision"
        <4>1. ASSUME NEW i \in DOMAIN saving PROVE saving[i].file # "decision"
          <5>1. DOMAIN saving = 1..Len(saving) /\ Len(saving) \in Nat
            BY <1>3, SeqFacts
          <5>2. CASE i = 1
            BY <3>2, <5>2
          <5>3. CASE i # 1
            <6>1. saving' = Tail(saving) /\ Len(Tail(saving)) = Len(saving) - 1
              BY <1>3, TailIsSeq DEF Save
            <6>2. DOMAIN saving' = 1..(Len(saving) - 1)
              BY <1>3, <6>1, SeqFacts
            <6>3. i - 1 \in DOMAIN saving' /\ (i - 1) + 1 = i
              BY <5>1, <5>3, <6>2
            <6> QED
              BY <1>3, <2>5, <6>3
          <5> QED
            BY <5>2, <5>3
        <4> QED
          BY <1>4, <2>1, <2>2, <3>2, <4>1 DEF StartInv
      <3> QED
        BY <3>1, <3>2
    <2> QED
      BY <1>1, <2>2, <2>4, <2>5 DEF StartInv
  <1> QED
    BY <1>11, <1>12, <1>13 DEF SaidInv

LEMMA NewOnesFinite ==
  ASSUME NEW s, IsSeq(s), NEW n
  PROVE  IsFiniteSet(NewOnes(s, n)) /\ Cardinality(NewOnes(s, n)) \in Nat
  <1>1. IsFiniteSet(1..Len(s)) /\ DOMAIN s = 1..Len(s)
    BY SeqFacts, FS_Interval
  <1>2. NewOnes(s, n) \subseteq 1..Len(s)
    BY <1>1 DEF NewOnes
  <1> QED
    BY <1>1, <1>2, FS_Subset, FS_CardinalityType

LEMMA CreatingFinite ==
  ASSUME NEW n
  PROVE  /\ IsFiniteSet(Creating(n)) /\ Creating(n) \subseteq Thread
         /\ Cardinality(Creating(n)) \in Nat /\ Cardinality(Thread) \in Nat
         /\ Cardinality(Creating(n)) <= Cardinality(Thread)
  <1>1. IsFiniteSet(Thread) /\ Creating(n) \subseteq Thread
    BY MemoryAssumption DEF Creating
  <1> QED
    BY <1>1, FS_Subset, FS_CardinalityType

LEMMA NewOnesKept ==
  ASSUME NEW r, NEW s, IsSeq(s), KeepsNames(r, s), NEW n
  PROVE  NewOnes(r, n) \subseteq NewOnes(s, n) /\ Cardinality(NewOnes(r, n)) <= Cardinality(NewOnes(s, n))
  <1>1. NewOnes(r, n) \subseteq NewOnes(s, n)
    BY DEF NewOnes, KeepsNames
  <1> QED
    BY <1>1, NewOnesFinite, FS_Subset

\* The subjects once the save that is under way is done.
LEMMA SubjectsAfter ==
  ASSUME MemoryInv
  PROVE  /\ SubjectList(After(saving, disk, "subject"), serial)
         /\ KeepsNames(disk["subject"], After(saving, disk, "subject"))
  <1>1. FilesInv /\ IsSeq(saving)
    BY DEF MemoryInv, ListsInv, ListWrites, SaidInv
  <1>2. KeepsNames(disk["subject"], After(saving, disk, "subject"))
    BY <1>1, AfterKeeps DEF FilesInv
  <1>3. SubjectList(After(saving, disk, "subject"), serial)
    <2>1. CASE saving # <<>> /\ saving[1].file = "subject"
      <3>1. 1 \in DOMAIN saving
        BY <1>1, <2>1, SeqFacts
      <3> QED
        BY <1>1, <2>1, <3>1 DEF FilesInv, Fits, FitsFile, After
    <2>2. CASE ~(saving # <<>> /\ saving[1].file = "subject")
      BY <1>1, <2>2 DEF FilesInv, After
    <2> QED
      BY <2>1, <2>2
  <1> QED
    BY <1>2, <1>3

\* What is on disk now has room, too.
LEMMA RoomOnDisk ==
  ASSUME MemoryInv
  PROVE  /\ \A n : Cardinality(NewOnes(disk["subject"], n)) <= Cardinality(Thread)
         /\ \A i \in DOMAIN disk["subject"] :
              disk["subject"][i].id <= FirstId => NewOnes(disk["subject"], disk["subject"][i].name) = {}
  <1> DEFINE s == After(saving, disk, "subject")
  <1>1. SubjectList(s, serial) /\ KeepsNames(disk["subject"], s)
    BY SubjectsAfter
  <1>2. Room(s)
    BY DEF MemoryInv, SaidInv, SubjectsInv
  <1> HIDE DEF s
  <1>3. ASSUME NEW n PROVE Cardinality(NewOnes(disk["subject"], n)) <= Cardinality(Thread)
    <2>1. /\ Cardinality(NewOnes(disk["subject"], n)) <= Cardinality(NewOnes(s, n))
          /\ Cardinality(NewOnes(s, n)) \in Nat
      BY <1>1, NewOnesKept, NewOnesFinite DEF SubjectList
    <2>2. Cardinality(NewOnes(disk["subject"], n)) \in Nat
      BY NewOnesFinite DEF MemoryInv, SaidInv, FilesInv, SubjectList
    <2> QED
      BY <1>2, <2>1, <2>2, CreatingFinite DEF Room
  <1>4. ASSUME NEW i \in DOMAIN disk["subject"], disk["subject"][i].id <= FirstId
        PROVE  NewOnes(disk["subject"], disk["subject"][i].name) = {}
    <2>1. i \in DOMAIN s /\ s[i].id = disk["subject"][i].id /\ s[i].name = disk["subject"][i].name
      BY <1>1 DEF KeepsNames
    <2>2. NewOnes(s, s[i].name) = {}
      BY <1>2, <1>4, <2>1 DEF Room
    <2> QED
      BY <1>1, <2>1, <2>2, NewOnesKept DEF SubjectList
  <1> QED
    BY <1>3, <1>4

LEMMA KillSaid ==
  ASSUME MemoryInv, Kill
  PROVE  SaidInv'
  <1>1. PICK file \in {"none"} \cup (IF saving = <<>> THEN {} ELSE {Head(saving).file}) :
          /\ disk' = [disk EXCEPT ![IF file = "none" THEN "summary" ELSE file] =
                        IF file = "none" THEN @ ELSE <<>>]
          /\ torn' = Append(torn, file)
    BY DEF Kill
  <1>2. /\ saving' = <<>> /\ serial' = serial
        /\ todo' = [t \in DOMAIN todo |-> IF t = Main THEN <<[op |-> "init"]>> ELSE <<>>]
    BY DEF Kill
  <1>3. /\ DOMAIN disk = Files /\ IsSeq(torn) /\ DOMAIN todo = Actor /\ FilesInv /\ IsSeq(disk["question"])
    BY DEF MemoryInv, ExecutionInv, ExecutionType, TodoOK, ListsInv, SaidInv
  <1>4. TornFiles \subseteq TornFiles' /\ file \in TornFiles'
    <2>1. IsSeq(torn') /\ Len(torn') = Len(torn) + 1 /\ Len(torn) \in Nat /\ DOMAIN torn = 1..Len(torn)
          /\ DOMAIN torn' = 1..(Len(torn) + 1)
      BY <1>1, <1>3, AppendIsSeq, SeqFacts
    <2>2. \A i \in DOMAIN torn' : \/ i \in DOMAIN torn /\ torn'[i] = torn[i]
                                  \/ i = Len(torn) + 1 /\ torn'[i] = file
      BY <1>1, <1>3, AppendIsSeq
    <2>3. \A i \in DOMAIN torn : i \in DOMAIN torn' /\ torn'[i] = torn[i]
      BY <2>1, <2>2
    <2>4. Len(torn) + 1 \in DOMAIN torn' /\ torn'[Len(torn) + 1] = file
      BY <2>1, <2>2
    <2> QED
      BY <2>3, <2>4 DEF TornFiles
  <1>5. \A f \in Files : disk'[f] = disk[f] \/ (f = file /\ disk'[f] = <<>>)
    BY <1>1, <1>3
  <1>6. /\ disk'["owner"] \in {disk["owner"], <<>>}
        /\ disk'["fact"] \in {disk["fact"], <<>>}
        /\ disk'["cluster"] \in {disk["cluster"], <<>>}
        /\ disk'["subject"] \in {disk["subject"], <<>>}
        /\ disk'["decision"] \in {disk["decision"], <<>>}
        /\ disk'["question"] \in {disk["question"], <<>>}
        /\ \A f \in {"owner", "fact", "cluster"} : f \notin TornFiles' => disk'[f] = disk[f]
    BY <1>4, <1>5 DEF Files
  <1>7. FilesInv'
    <2>1. FactList(<<>>) /\ ClusterList(<<>>, serial) /\ SubjectList(<<>>, serial) /\ IsSeq(<<>>)
      BY EmptyIsSeq, MemoryAssumption DEF FactList, ClusterList, SubjectList
    <2>2. /\ IsSeq(disk'["owner"]) /\ FactList(disk'["fact"])
          /\ ClusterList(disk'["cluster"], serial) /\ SubjectList(disk'["subject"], serial)
      BY <1>3, <1>6, <2>1 DEF FilesInv
    <2>3. "owner" \notin TornFiles' => NamedAll(disk'["decision"], disk'["owner"])
      BY <1>3, <1>4, <1>6, EmptyIsSeq DEF FilesInv, NamedAll
    <2>4. /\ QuestionList(Questions', disk'["fact"], disk'["cluster"], TornFiles')
          /\ \A i \in DOMAIN disk'["question"] : SamePlace(disk'["question"][i], Questions'[i])
      <3>1. CASE disk'["question"] = disk["question"]
        <4>1. Questions' = Questions
          BY <3>1 DEF Questions
        <4>2. \A q : Known(q, disk["fact"], disk["cluster"], TornFiles)
                       => Known(q, disk'["fact"], disk'["cluster"], TornFiles')
          BY <1>4, <1>6 DEF Known
        <4>3. QuestionList(Questions, disk'["fact"], disk'["cluster"], TornFiles')
          BY <1>3, <4>2 DEF FilesInv, QuestionList
        <4> QED
          BY <1>3, <3>1, <4>1, <4>3 DEF FilesInv
      <3>2. CASE disk'["question"] = <<>>
        <4>1. QuestionsLoaded(<<>>) = <<>>
          BY EmptyIsSeq, LoadedList
        <4>2. Questions' = <<>>
          BY <3>2, <4>1 DEF Questions
        <4> QED
          BY <3>2, <4>2, EmptyIsSeq DEF QuestionList
      <3> QED
        BY <1>6, <3>1, <3>2
    <2>5. Fits(saving', disk', serial', TornFiles')
      BY <1>2, EmptyIsSeq DEF Fits
    <2> QED
      BY <1>2, <1>3, <2>2, <2>3, <2>4, <2>5 DEF FilesInv
  <1>8. todo'[Main] = <<[op |-> "init"]>> /\ \A t \in Thread : todo'[t] = <<>>
    BY <1>2, <1>3, MemoryAssumption DEF Actor
  <1>9. CarriedInv' /\ StartInv'
    <2>1. <<[op |-> "init"]>> # <<>>
      OBVIOUS
    <2> QED
      BY <1>2, <1>8, <2>1, EmptyIsSeq DEF CarriedInv, RefersAll, StartInv
  <1>10. SubjectsInv'
    <2>1. After(saving', disk', "subject") = disk'["subject"]
      BY <1>2 DEF After
    <2>2. \A n : Creating(n)' = {}
      BY <1>8 DEF Creating
    <2>3. /\ \A n : Cardinality(NewOnes(disk'["subject"], n)) <= Cardinality(Thread)
          /\ \A i \in DOMAIN disk'["subject"] :
               disk'["subject"][i].id <= FirstId => NewOnes(disk'["subject"], disk'["subject"][i].name) = {}
      <3>1. CASE disk'["subject"] = disk["subject"]
        BY <3>1, RoomOnDisk
      <3>2. CASE disk'["subject"] = <<>>
        <4>1. \A n : NewOnes(<<>>, n) = {}
          BY EmptyIsSeq DEF NewOnes
        <4>2. Cardinality({}) = 0 /\ Cardinality(Thread) \in Nat
          BY FS_EmptySet, CreatingFinite
        <4>3. ASSUME NEW n PROVE Cardinality(NewOnes(<<>>, n)) <= Cardinality(Thread)
          <5>1. Cardinality(NewOnes(<<>>, n)) = 0
            BY <4>1, <4>2
          <5> QED
            BY <4>2, <5>1
        <4>4. \A i \in DOMAIN disk'["subject"] : FALSE
          BY <3>2, EmptyIsSeq
        <4> QED
          BY <3>2, <4>3, <4>4
      <3> QED
        BY <1>6, <3>1, <3>2
    <2>4. IsSeq(disk'["subject"])
      BY <1>7 DEF FilesInv, SubjectList
    <2>5. Room(disk["subject"])'
      <3>1. ASSUME NEW n
            PROVE  Cardinality(NewOnes(disk'["subject"], n)) + Cardinality(Creating(n)') <= Cardinality(Thread)
        <4>1. Cardinality(Creating(n)') = 0
          BY <2>2, FS_EmptySet
        <4>2. Cardinality(NewOnes(disk'["subject"], n)) \in Nat
          BY <2>4, NewOnesFinite
        <4>3. Cardinality(NewOnes(disk'["subject"], n)) <= Cardinality(Thread)
          BY <2>3
        <4> QED
          BY <4>1, <4>2, <4>3
      <3> QED
        BY <2>2, <2>3, <3>1 DEF Room
    <2> QED
      BY <2>1, <2>5 DEF SubjectsInv
  <1> QED
    BY <1>7, <1>9, <1>10 DEF SaidInv

\* A thread that is at work is one of those that memory_init() was over for.
LEMMA AtWork ==
  ASSUME MemoryInv, NEW t \in Thread, saving = <<>>, todo[t] # <<>>
  PROVE  /\ t \in Actor /\ t # Main /\ todo[Main] = <<>> /\ WholeAll(disk["decision"])
         /\ todo[t] \in {todo[u] : u \in Thread} /\ Row(todo[t])
         /\ RefersAll(todo[t], disk["owner"], disk["fact"], TornFiles)
         /\ 1 \in DOMAIN todo[t] /\ Next1(t) = todo[t][1]
  <1>1. StartInv /\ CarriedInv /\ TodoOK /\ t \in Actor /\ t # Main
    BY MemoryAssumption DEF MemoryInv, SaidInv, ExecutionInv, ExecutionType, Actor
  <1>2. todo[Main] = <<>> /\ WholeAll(disk["decision"])
    BY <1>1, EmptyIsSeq DEF StartInv
  <1>3. Row(todo[t])
    BY <1>1 DEF TodoOK
  <1>4. RefersAll(todo[t], disk["owner"], disk["fact"], TornFiles)
    BY <1>1, NotWritten DEF CarriedInv
  <1>5. 1 \in DOMAIN todo[t] /\ Next1(t) = todo[t][1]
    BY <1>3, SeqFacts DEF Row, Next1
  <1> QED
    BY <1>1, <1>2, <1>3, <1>4, <1>5

\* The rows of the other threads stay as they are.
LEMMA OthersStay ==
  ASSUME MemoryInv, NEW t \in Actor, todo[t] # <<>>, NEW w, NEW more, Section(t, w, more)
  PROVE  /\ todo'[t] = more \o Tail(todo[t]) /\ CalmRow(Tail(todo[t]))
         /\ \A u \in Actor \ {t} : todo'[u] = todo[u]
  <1>1. TodoOK
    BY DEF MemoryInv, ExecutionInv, ExecutionType
  <1>2. CalmRow(Tail(todo[t]))
    BY <1>1, CalmTail DEF TodoOK
  <1> QED
    BY <1>1, <1>2 DEF TodoOK, Section

\* An acquisition that neither looks for a subject nor creates one.
SameNames(r, s) == DOMAIN r = DOMAIN s /\ KeepsNames(r, s)
LEMMA SteadyRoom ==
  ASSUME MemoryInv, NEW t \in Actor, saving = <<>>, todo[t] # <<>>, Next1(t).op # "create",
         NEW w, NEW more, IsSeq(more), \A i \in DOMAIN more : more[i].op # "create", Section(t, w, more),
         SameNames(disk["subject"], After(w, disk, "subject"))
  PROVE  SubjectsInv'
  <1> DEFINE s == After(w, disk, "subject")
  <1>2. /\ todo'[t] = more \o Tail(todo[t]) /\ CalmRow(Tail(todo[t]))
        /\ \A u \in Actor \ {t} : todo'[u] = todo[u]
    BY OthersStay
  <1>3. todo'[t] # <<>> => Head(todo'[t]).op # "create"
    <2> DEFINE row == more \o Tail(todo[t])
    <2>1. /\ IsSeq(row)
          /\ \A i \in DOMAIN row : \/ i \in DOMAIN more /\ row[i] = more[i]
                                   \/ i - Len(more) \in DOMAIN Tail(todo[t])
                                      /\ row[i] = Tail(todo[t])[i - Len(more)]
      BY <1>2, ConcatIsSeq DEF CalmRow
    <2>2. \A i \in DOMAIN row : row[i].op # "create"
      BY <1>2, <2>1 DEF CalmRow, Calm
    <2>3. row # <<>> => 1 \in DOMAIN row /\ Head(row) = row[1]
      BY <2>1, SeqFacts
    <2> QED
      BY <1>2, <2>2, <2>3
  <1>4. \A n : Creating(n)' = Creating(n)
    <2> SUFFICES ASSUME NEW n, NEW u \in Thread
                 PROVE  (todo'[u] # <<>> /\ Head(todo'[u]).op = "create" /\ Head(todo'[u]).name = n)
                          <=> (todo[u] # <<>> /\ Head(todo[u]).op = "create" /\ Head(todo[u]).name = n)
      BY DEF Creating
    <2>1. CASE u = t
      BY <1>3, <2>1 DEF Next1
    <2>2. CASE u # t
      BY <1>2, <2>2 DEF Actor
    <2> QED
      BY <2>1, <2>2
  <1>5. saving' = w /\ disk' = disk
    BY DEF Section
  <1>6. Room(disk["subject"])
    BY NotWritten DEF MemoryInv, SaidInv, SubjectsInv
  <1>7. \A n : NewOnes(s, n) = NewOnes(disk["subject"], n)
    BY DEF NewOnes, SameNames, KeepsNames
  <1>8. \A i \in DOMAIN s : /\ i \in DOMAIN disk["subject"] /\ s[i].id = disk["subject"][i].id
                            /\ s[i].name = disk["subject"][i].name
    BY DEF SameNames, KeepsNames
  <1> HIDE DEF s
  <1>9. ASSUME NEW n
        PROVE  Cardinality(NewOnes(s, n)) + Cardinality(Creating(n)') <= Cardinality(Thread)
    <2>1. NewOnes(s, n) = NewOnes(disk["subject"], n) /\ Creating(n)' = Creating(n)
      BY <1>4, <1>7
    <2>2. Cardinality(NewOnes(disk["subject"], n)) + Cardinality(Creating(n)) <= Cardinality(Thread)
      BY <1>6 DEF Room
    <2> QED
      BY <2>1, <2>2
  <1>10. ASSUME NEW n, NEW i \in DOMAIN s, s[i].name = n, s[i].id <= FirstId
         PROVE  NewOnes(s, n) = {} /\ Creating(n)' = {}
    <2>1. NewOnes(s, n) = NewOnes(disk["subject"], n) /\ Creating(n)' = Creating(n)
      BY <1>4, <1>7
    <2>2. NewOnes(disk["subject"], n) = {} /\ Creating(n) = {}
      BY <1>6, <1>8, <1>10 DEF Room
    <2> QED
      BY <2>1, <2>2
  <1>11. After(saving', disk', "subject") = s
    BY <1>5 DEF s
  <1>12. Room(After(saving, disk, "subject"))'
    BY <1>9, <1>10, <1>11 DEF Room
  <1> QED
    BY <1>12 DEF SubjectsInv

-----------------------------------------------------------------------------
\* What every acquisition of the lock does.

WholeWrites(w) == \A i \in DOMAIN w : w[i].file = "decision" => WholeAll(w[i].value)
Shape(t) ==
  /\ saving = <<>> /\ todo[t] # <<>> /\ serial' \in {serial, serial + 1}
  /\ \E w, more :
       /\ Section(t, w, more) /\ NoApproval(w) /\ ListWrites(w, serial')
       /\ Fits(w, disk, serial', TornFiles)
       /\ RefersAll(more, After(w, disk, "owner"), After(w, disk, "fact"), TornFiles)
       /\ \/ Next1(t).op \notin TransactionOps /\ Row(more) /\ \A id : ~Executes(more, id)
          \/ /\ Next1(t).op \in TransactionOps
             /\ \E o : more = <<o>> /\ InTransaction(o) /\ o.approval = Next1(t).approval
  /\ StartInv' /\ SubjectsInv'

LEMMA ListsKept ==
  ASSUME ListsInv, NEW t, NEW w, NEW more, Section(t, w, more),
         serial' \in Nat, serial' >= serial, ListWrites(w, serial')
  PROVE  ListsInv'
  <1>1. saving' = w /\ disk' = disk
    BY DEF Section
  <1>2. DecisionList(disk["decision"], serial')
    BY DEF ListsInv, DecisionList, DecisionRow
  <1> QED
    BY <1>1, <1>2 DEF ListsInv, ListWrites

LEMMA ShapeStep ==
  ASSUME MemoryInv, NEW t \in Actor, Shape(t)
  PROVE  MemoryInv'
  <1>1. PICK w, more :
          /\ Section(t, w, more) /\ NoApproval(w) /\ ListWrites(w, serial')
          /\ Fits(w, disk, serial', TornFiles)
          /\ RefersAll(more, After(w, disk, "owner"), After(w, disk, "fact"), TornFiles)
          /\ \/ Next1(t).op \notin TransactionOps /\ Row(more) /\ \A id : ~Executes(more, id)
             \/ /\ Next1(t).op \in TransactionOps
                /\ \E o : more = <<o>> /\ InTransaction(o) /\ o.approval = Next1(t).approval
    BY DEF Shape
  <1>2. /\ saving = <<>> /\ todo[t] # <<>>
        /\ serial' \in {serial, serial + 1} /\ serial' \in Nat /\ serial' >= serial
    BY DEF Shape, MemoryInv, ListsInv
  <1>3. ListsInv'
    BY <1>1, <1>2, ListsKept DEF MemoryInv
  <1>4. ExecutionInv'
    <2>1. CASE Next1(t).op \notin TransactionOps /\ Row(more) /\ \A id : ~Executes(more, id)
      BY <1>1, <1>2, <2>1, PlainStep DEF MemoryInv
    <2>2. ASSUME NEW o, Next1(t).op \in TransactionOps, more = <<o>>, InTransaction(o),
                 o.approval = Next1(t).approval
          PROVE  ExecutionInv'
      BY <1>1, <1>2, <2>2, TransactionStep DEF MemoryInv
    <2> QED
      BY <1>1, <2>1, <2>2
  <1>5. FilesInv' /\ CarriedInv'
    <2>1. IsSeq(w) /\ IsSeq(more)
      BY <1>1, OneIsSeq DEF NoApproval, Row
    <2> QED
      BY <1>1, <1>2, <2>1, SectionSaid
  <1>6. StartInv' /\ SubjectsInv'
    BY DEF Shape
  <1> QED
    BY <1>3, <1>4, <1>5, <1>6 DEF MemoryInv, SaidInv

LEMMA FreeList ==
  ASSUME NEW n \in Nat, NEW s, s = [i \in 1..n |-> s[i]], \A i \in 1..n : Free(s[i])
  PROVE  FreeRow(s)
  BY ListIsSeq DEF FreeRow

LEMMA CalmList ==
  ASSUME NEW n \in Nat, NEW s, s = [i \in 1..n |-> s[i]], \A i \in 1..n : Calm(s[i])
  PROVE  CalmRow(s)
  BY ListIsSeq DEF CalmRow

LEMMA FreeRefers == \A s, owners, facts, lost : FreeRow(s) => RefersAll(s, owners, facts, lost)
  BY DEF FreeRow, Free, Carriers, RefersAll, Refers

\* What a thread that is in no transaction finds at the head of its row.
LEMMA HeadIsCalm ==
  ASSUME MemoryInv, NEW t \in Thread, saving = <<>>, todo[t] # <<>>, Next1(t).op \notin TransactionOps
  PROVE  /\ IF Next1(t).op = "create" THEN Creates(Next1(t)) ELSE Calm(Next1(t))
         /\ Refers(Next1(t), disk["owner"], disk["fact"], TornFiles)
  <1>1. Row(todo[t]) /\ Next1(t) = Head(todo[t])
    BY AtWork DEF Next1
  <1>2. Refers(Next1(t), disk["owner"], disk["fact"], TornFiles)
    BY AtWork DEF RefersAll
  <1> QED
    BY <1>1, <1>2, HeadOfRow

LEMMA HeadIsTransaction ==
  ASSUME MemoryInv, NEW t \in Thread, saving = <<>>, todo[t] # <<>>, Next1(t).op \in TransactionOps
  PROVE  InTransaction(Next1(t))
  <1>1. Row(todo[t]) /\ Next1(t) = Head(todo[t])
    BY AtWork DEF Next1
  <1> QED
    BY <1>1, HeadOfRow

\* Writes to any files but the approvals that keep what was said, and the subjects' names.
Steady(w, last) ==
  /\ NoApproval(w) /\ ListWrites(w, last) /\ Fits(w, disk, last, TornFiles) /\ WholeWrites(w)
  /\ SameNames(disk["subject"], After(w, disk, "subject"))

\* A file that may be written alone.
Harmless(file, value, last) ==
  /\ file \notin {"approval", "cluster"}
  /\ file = "question" => QuestionList(value, disk["fact"], disk["cluster"], TornFiles)
  /\ file = "decision" => /\ DecisionList(value, last) /\ Keeps(disk["decision"], value)
                          /\ WholeAll(value)
                          /\ "owner" \notin TornFiles => NamedAll(value, disk["owner"])
  /\ file = "owner" => Extends(disk["owner"], value)
  /\ file = "fact" => FactList(value) /\ KeepsIds(disk["fact"], value)
  /\ file = "subject" => SubjectList(value, last) /\ SameNames(disk["subject"], value)

LEMMA SteadyNothing == \A last : Steady(<<>>, last)
  <1> TAKE last
  <1>1. After(<<>>, disk, "subject") = disk["subject"]
    BY NotWritten
  <1>2. SameNames(disk["subject"], disk["subject"])
    BY NothingChanges DEF SameNames
  <1>3. Fits(<<>>, disk, last, TornFiles) /\ WholeWrites(<<>>)
    BY EmptyIsSeq DEF Fits, WholeWrites
  <1> QED
    BY <1>1, <1>2, <1>3, NoWrites DEF Steady

LEMMA SteadyWrite ==
  ASSUME NEW last, NEW file, NEW value, Harmless(file, value, last)
  PROVE  Steady(<<Write(file, value)>>, last)
  <1> DEFINE w == <<Write(file, value)>>
  <1>1. Write(file, value).file = file /\ Write(file, value).value = value
    BY DEF Write
  <1>2. IsSeq(w) /\ DOMAIN w = {1} /\ w[1] = Write(file, value) /\ w # <<>>
    BY OneIsSeq
  <1>3. NoApproval(w) /\ ListWrites(w, last)
    BY OneWrite DEF Harmless, QuestionList
  <1> HIDE DEF w
  <1>4. \A f : After(w, disk, f) = IF f = file THEN value ELSE disk[f]
    BY <1>1, <1>2 DEF After
  <1>5. FitsFile(file, value, w, disk, last, TornFiles)
    BY <1>4 DEF FitsFile, Harmless, SameNames
  <1>6. Fits(w, disk, last, TornFiles) /\ WholeWrites(w)
    BY <1>1, <1>2, <1>5 DEF Fits, WholeWrites, Harmless
  <1>7. SameNames(disk["subject"], After(w, disk, "subject"))
    BY <1>4, NothingChanges DEF SameNames, Harmless
  <1> QED
    BY <1>3, <1>6, <1>7 DEF Steady, w

\* memory_init() stays over.
LEMMA StartedStays ==
  ASSUME MemoryInv, NEW t \in Thread, saving = <<>>, todo[t] # <<>>,
         NEW w, WholeWrites(w), NEW more, Section(t, w, more)
  PROVE  StartInv'
  <1>1. t \in Actor /\ t # Main /\ todo[Main] = <<>> /\ WholeAll(disk["decision"])
    BY AtWork
  <1>2. todo'[Main] = <<>>
    BY <1>1, OthersStay DEF Actor
  <1>3. saving' = w /\ disk' = disk
    BY DEF Section
  <1> QED
    BY <1>1, <1>2, <1>3 DEF StartInv, WholeWrites

\* The acquisitions outside of any transaction that create no subject.
PlainOps ==
  {"summary", "find", "similar", "question", "cluster", "completed", "update", "owner", "decision",
   "transition", "fact", "decisionLinks", "markDone", "questionLinks", "markAnswered", "answeredBy",
   "auto", "autoIds", "autoPair"}

LEMMA OutsideTransactions == \A x \in PlainOps : x \notin TransactionOps /\ x # "create"
  BY Zenon DEF PlainOps, TransactionOps

\* An acquisition of them that goes on with none that does.
LEMMA CalmShape ==
  ASSUME MemoryInv, NEW t \in Thread, saving = <<>>, todo[t] # <<>>,
         Next1(t).op \in PlainOps, serial' \in {serial, serial + 1},
         NEW w, Steady(w, serial'), NEW more, CalmRow(more),
         RefersAll(more, After(w, disk, "owner"), After(w, disk, "fact"), TornFiles),
         Section(t, w, more)
  PROVE  Shape(t)
  <1>1. t \in Actor /\ Next1(t).op \notin TransactionOps /\ Next1(t).op # "create"
    BY AtWork, OutsideTransactions
  <1>2. StartInv'
    BY StartedStays DEF Steady
  <1>3. IsSeq(more) /\ \A i \in DOMAIN more : more[i].op # "create"
    BY DEF CalmRow, Calm
  <1>4. SubjectsInv'
    BY <1>1, <1>3, SteadyRoom DEF Steady
  <1>5. Row(more) /\ \A id : ~Executes(more, id)
    BY CalmIsRow
  <1> QED
    BY <1>1, <1>2, <1>4, <1>5 DEF Shape, Steady

\* ... and hands no id of a record on.
LEMMA PlainShape ==
  ASSUME MemoryInv, NEW t \in Thread, saving = <<>>, todo[t] # <<>>,
         Next1(t).op \in PlainOps, serial' \in {serial, serial + 1},
         NEW file, NEW value, Harmless(file, value, serial'),
         NEW w, w \in {<<>>, <<Write(file, value)>>}, NEW more, FreeRow(more), Section(t, w, more)
  PROVE  Shape(t)
  <1>1. Steady(w, serial')
    BY SteadyNothing, SteadyWrite
  <1> QED
    BY <1>1, FreeIsCalm, FreeRefers, CalmShape

\* ... and writes nothing.
LEMMA QuietShape ==
  ASSUME MemoryInv, NEW t \in Thread, saving = <<>>, todo[t] # <<>>,
         Next1(t).op \in PlainOps, serial' \in {serial, serial + 1},
         NEW more, FreeRow(more), Section(t, <<>>, more)
  PROVE  Shape(t)
  BY SteadyNothing, FreeIsCalm, FreeRefers, CalmShape

LEMMA OfTransaction ==
  \A o : o.op \in TransactionOps =>
    o.op # "create" /\ \A owners, facts, lost : Refers(o, owners, facts, lost)
  <1>1. \A x \in TransactionOps : x # "create" /\ x \notin Carriers
    BY Zenon DEF TransactionOps, Carriers
  <1> QED
    BY <1>1 DEF Carriers, Refers

\* The next acquisition of a transaction, which writes at most one file.
LEMMA TransactionShape ==
  ASSUME MemoryInv, NEW t \in Thread, saving = <<>>, todo[t] # <<>>, Next1(t).op \in TransactionOps,
         serial' \in {serial, serial + 1},
         NEW w, Steady(w, serial'), NEW o, Section(t, w, <<o>>),
         o.op \in TransactionOps, DOMAIN o = DOMAIN Next1(t), o.approval = Next1(t).approval
  PROVE  Shape(t)
  <1>1. InTransaction(o)
    BY HeadIsTransaction DEF InTransaction
  <1>2. t \in Actor
    BY AtWork
  <1>3. StartInv'
    BY StartedStays DEF Steady
  <1> DEFINE more == <<o>>
  <1>4. IsSeq(more) /\ DOMAIN more = {1} /\ more[1] = o
    BY OneIsSeq
  <1> HIDE DEF more
  <1>5. \A i \in DOMAIN more : more[i].op # "create"
    BY <1>4, OfTransaction
  <1>6. Next1(t).op # "create"
    BY OfTransaction
  <1>7. SubjectsInv'
    BY <1>2, <1>4, <1>5, <1>6, SteadyRoom DEF Steady, more
  <1>8. RefersAll(more, After(w, disk, "owner"), After(w, disk, "fact"), TornFiles)
    BY <1>4, OfTransaction DEF RefersAll
  <1> QED
    BY <1>1, <1>3, <1>7, <1>8 DEF Shape, Steady, more

-----------------------------------------------------------------------------
\* Summaries and subjects.

LEMMA SummaryShape ==
  ASSUME MemoryInv, NEW t \in Thread, AddSummary(t)
  PROVE  Shape(t)
  <1> DEFINE v == Capped(Append(disk["summary"], t), MaxSummaries)
  <1>1. /\ saving = <<>> /\ todo[t] # <<>> /\ Next1(t).op = "summary" /\ serial' = serial
        /\ Section(t, <<Write("summary", v)>>, <<>>)
    BY DEF AddSummary, Doing
  <1> HIDE DEF v
  <1>2. Harmless("summary", v, serial')
    BY DEF Harmless
  <1> QED
    BY <1>1, <1>2, FreeNothing, PlainShape DEF PlainOps

LEMMA FoundIsFree ==
  ASSUME NEW o, Waits(o), NEW id
  PROVE  Free([o.then EXCEPT !.subject = id])
  <1> DEFINE then == o.then
             found == [then EXCEPT !.subject = id]
  <1>1. Plain(then) /\ Apt(then) /\ then.op \in {"question", "owner", "fact"}
    BY DEF Waits
  <1> HIDE DEF then
  <1>2. /\ DOMAIN found = DOMAIN then
        /\ \A f \in DOMAIN then : f # "subject" => found[f] = then[f]
    OBVIOUS
  <1>3. "op" \in DOMAIN then /\ found.op = then.op /\ ("ownerId" \in DOMAIN then => found.ownerId = then.ownerId)
    BY <1>1, <1>2 DEF Plain
  <1> HIDE DEF found
  <1>4. Plain(found)
    BY <1>1, <1>2, <1>3 DEF Plain
  <1>5. Apt(found)
    BY <1>1, <1>2, <1>3 DEF Apt
  <1> QED
    BY <1>1, <1>3, <1>4, <1>5 DEF Free, Calm, Carriers, found, then

\* Nobody else's place changes when t's does.
LEMMA CreatingOthers ==
  ASSUME MemoryInv, NEW t \in Thread, saving = <<>>, todo[t] # <<>>, NEW w, NEW more, Section(t, w, more),
         NEW n
  PROVE  Creating(n)' \ {t} = Creating(n) \ {t}
  <1>1. \A u \in Thread \ {t} : todo'[u] = todo[u]
    BY AtWork, OthersStay DEF Actor
  <1> QED
    BY <1>1 DEF Creating

\* What is left of a row once its head is done, when something is put before it.
LEMMA NextHead ==
  ASSUME MemoryInv, NEW t \in Thread, saving = <<>>, todo[t] # <<>>, NEW w, NEW o, Section(t, w, <<o>>)
  PROVE  todo'[t] # <<>> /\ Head(todo'[t]) = o
  <1> DEFINE more == <<o>>
             row == more \o Tail(todo[t])
  <1>1. IsSeq(more) /\ Len(more) = 1 /\ DOMAIN more = {1} /\ more[1] = o
    BY OneIsSeq
  <1>2. todo'[t] = row /\ IsSeq(Tail(todo[t]))
    BY AtWork, OthersStay DEF CalmRow
  <1> HIDE DEF more
  <1>3. /\ IsSeq(row) /\ \A i \in DOMAIN more : i \in DOMAIN row /\ row[i] = more[i]
    BY <1>1, <1>2, ConcatIsSeq
  <1>4. 1 \in DOMAIN row /\ row[1] = o
    BY <1>1, <1>3
  <1>5. row # <<>> /\ Head(row) = row[1]
    BY <1>3, <1>4, SeqFacts, EmptyIsSeq
  <1> QED
    BY <1>2, <1>4, <1>5

\* The subjects on disk when nobody is saving.
LEMMA SubjectsNow ==
  ASSUME MemoryInv, saving = <<>>
  PROVE  /\ SubjectList(disk["subject"], serial) /\ serial \in Nat /\ serial >= FirstId
         /\ Room(disk["subject"])
  BY NotWritten DEF MemoryInv, SaidInv, FilesInv, ListsInv, SubjectsInv

LEMMA FindShape ==
  ASSUME MemoryInv, NEW t \in Thread, FindSubject(t)
  PROVE  Shape(t)
  <1> DEFINE id == SubjectFind(Next1(t).name, disk["subject"])
             o == Next1(t)
             found == [o.then EXCEPT !.subject = id]
             sought == [o EXCEPT !.op = "create"]
             more == IF id # 0 THEN <<found>> ELSE <<sought>>
  <1>1. saving = <<>> /\ todo[t] # <<>> /\ o.op = "find" /\ serial' = serial /\ Section(t, <<>>, more)
    BY DEF FindSubject, Doing
  <1>2. o.op \in PlainOps
    BY <1>1 DEF PlainOps
  <1>3. Calm(o) /\ Waits(o)
    <2>1. Calm(o)
      BY <1>1, <1>2, HeadIsCalm, OutsideTransactions
    <2> QED
      BY <1>1, <2>1 DEF Calm
  <1>4. CASE id # 0
    <2>1. FreeRow(<<found>>)
      BY <1>3, FoundIsFree, FreeOne
    <2>2. Section(t, <<>>, <<found>>)
      BY <1>1, <1>4
    <2> HIDE DEF found, id
    <2> QED
      BY <1>1, <1>2, <2>1, <2>2, QuietShape
  <1>5. CASE id = 0
    <2>1. Section(t, <<>>, <<sought>>)
      BY <1>1, <1>5
    <2>2. \A i \in DOMAIN disk["subject"] : disk["subject"][i].name # o.name
      <3> DEFINE at == Holding(disk["subject"], LAMBDA s : s.name = o.name)
      <3>1. at = {}
        <4>1. ASSUME at # {} PROVE FALSE
          <5>1. at \subseteq DOMAIN disk["subject"] /\ DOMAIN disk["subject"] \subseteq Nat
            BY <1>1, SubjectsNow, SeqFacts DEF SubjectList, Holding
          <5>2. id = disk["subject"][First(at)].id
            BY <4>1 DEF SubjectFind
          <5> HIDE DEF at
          <5>3. First(at) \in at
            BY <4>1, <5>1, FirstIs
          <5> QED
            BY <1>1, <1>5, <5>1, <5>2, <5>3, SubjectsNow DEF SubjectList
        <4> QED
          BY <4>1
      <3> QED
        BY <3>1 DEF Holding
    <2> HIDE DEF id
    <2>3. Creates(sought) /\ sought.name = o.name /\ sought.op = "create"
      <3> HIDE DEF o
      <3>1. "op" \in DOMAIN o /\ {"name", "then"} \subseteq DOMAIN o /\ "approval" \notin DOMAIN o
        BY <1>3 DEF Calm, Plain, Waits
      <3>2. /\ DOMAIN sought = DOMAIN o /\ sought.op = "create" /\ sought.name = o.name
            /\ sought.then = o.then
        BY <3>1
      <3> HIDE DEF sought
      <3>3. "create" \notin TransactionOps
        BY DEF TransactionOps
      <3> QED
        BY <1>3, <3>1, <3>2, <3>3 DEF Creates, Plain, Waits
    <2> HIDE DEF sought
    <2>4. Row(<<sought>>) /\ \A x : ~Executes(<<sought>>, x)
      BY <2>3, CreatesIsRow
    <2>5. Steady(<<>>, serial')
      BY SteadyNothing
    <2>6. RefersAll(<<sought>>, After(<<>>, disk, "owner"), After(<<>>, disk, "fact"), TornFiles)
      <3> DEFINE row == <<sought>>
      <3>1. DOMAIN row = {1} /\ row[1] = sought
        BY OneIsSeq
      <3> HIDE DEF row
      <3>2. RefersAll(row, After(<<>>, disk, "owner"), After(<<>>, disk, "fact"), TornFiles)
        BY <2>3, <3>1 DEF RefersAll, Refers
      <3> QED
        BY <3>2 DEF row
    <2>7. StartInv'
      BY <1>1, <2>1, <2>5, StartedStays DEF Steady
    <2>8. ASSUME NEW n, n # o.name PROVE Creating(n)' = Creating(n)
      <3>1. Creating(n)' \ {t} = Creating(n) \ {t}
        BY <1>1, <2>1, CreatingOthers
      <3>2. t \notin Creating(n)
        BY <1>1 DEF Creating, Next1
      <3>3. t \notin Creating(n)'
        BY <1>1, <2>1, <2>3, <2>8, NextHead DEF Creating
      <3> QED
        BY <3>1, <3>2, <3>3
    <2>9. ASSUME NEW n
          PROVE  Cardinality(NewOnes(disk["subject"], n)) + Cardinality(Creating(n)') <= Cardinality(Thread)
      <3>1. CASE n = o.name
        <4>1. NewOnes(disk["subject"], n) = {}
          BY <2>2, <3>1 DEF NewOnes
        <4>2. Cardinality(NewOnes(disk["subject"], n)) = 0
          BY <4>1, FS_EmptySet
        <4>3. IsFiniteSet(Thread) /\ Creating(n)' \subseteq Thread
          BY MemoryAssumption DEF Creating
        <4>4. Cardinality(Creating(n)') \in Nat /\ Cardinality(Creating(n)') <= Cardinality(Thread)
          BY <4>3, FS_Subset, FS_CardinalityType
        <4> QED
          BY <4>2, <4>4
      <3>2. CASE n # o.name
        <4>1. Creating(n)' = Creating(n)
          BY <2>8, <3>2
        <4>2. Cardinality(NewOnes(disk["subject"], n)) + Cardinality(Creating(n)) <= Cardinality(Thread)
          BY <1>1, SubjectsNow DEF Room
        <4> QED
          BY <4>1, <4>2
      <3> QED
        BY <3>1, <3>2
    <2>10. ASSUME NEW n, NEW i \in DOMAIN disk["subject"], disk["subject"][i].name = n,
                  disk["subject"][i].id <= FirstId
           PROVE  NewOnes(disk["subject"], n) = {} /\ Creating(n)' = {}
      <3>1. n # o.name
        BY <2>2, <2>10
      <3>2. Creating(n)' = Creating(n)
        BY <2>8, <3>1
      <3> QED
        BY <1>1, <2>10, <3>2, SubjectsNow DEF Room
    <2>11. After(saving', disk', "subject") = disk["subject"]
      BY <2>1, NotWritten DEF Section
    <2>12. Room(After(saving, disk, "subject"))'
      BY <2>9, <2>10, <2>11 DEF Room
    <2>13. o.op \notin TransactionOps
      BY <1>2, OutsideTransactions
    <2> QED
      BY <1>1, <2>1, <2>4, <2>5, <2>6, <2>7, <2>12, <2>13 DEF Shape, Steady, SubjectsInv
  <1> QED
    BY <1>4, <1>5

LEMMA CreateSubjectShape ==
  ASSUME MemoryInv, NEW t \in Thread, CreateSubject(t)
  PROVE  Shape(t)
  <1> DEFINE o == Next1(t)
             s == disk["subject"]
             new == [id |-> NewId, name |-> o.name, merged |-> 0]
             v == Append(s, new)
             w == <<Write("subject", v)>>
             found == [o.then EXCEPT !.subject = NewId]
  <1>1. /\ saving = <<>> /\ todo[t] # <<>> /\ o.op = "create" /\ serial' = serial + 1
        /\ Section(t, w, <<found>>)
    BY DEF CreateSubject, Doing, NewId
  <1>2. o.op \notin TransactionOps
    BY <1>1 DEF TransactionOps
  <1>3. Waits(o)
    BY <1>1, <1>2, HeadIsCalm DEF Creates
  <1>4. Free(found)
    BY <1>3, FoundIsFree
  <1>5. /\ new.id = serial + 1 /\ new.name = o.name /\ {"id", "name"} \subseteq DOMAIN new
        /\ serial \in Nat /\ serial >= FirstId /\ FirstId \in Nat
        /\ SubjectList(s, serial) /\ Room(s)
    BY <1>1, SubjectsNow DEF NewId, FirstId
  <1>6. o = Head(todo[t]) /\ t \in Actor
    BY <1>1, AtWork DEF Next1
  <1> HIDE DEF new, found, o, s
  <1>7. /\ IsSeq(v) /\ Len(s) \in Nat /\ DOMAIN s = 1..Len(s) /\ DOMAIN v = 1..(Len(s) + 1)
        /\ \A i \in DOMAIN s : i # Len(s) + 1 /\ i \in DOMAIN v /\ v[i] = s[i]
        /\ v[Len(s) + 1] = new /\ Len(s) + 1 \in DOMAIN v
        /\ \A i \in DOMAIN v : i \in DOMAIN s \/ i = Len(s) + 1
    <2>1. IsSeq(s)
      BY <1>5 DEF SubjectList
    <2>2. Len(s) \in Nat /\ DOMAIN s = 1..Len(s)
      BY <2>1, SeqFacts
    <2>3. /\ IsSeq(v) /\ Len(v) = Len(s) + 1
          /\ \A i \in DOMAIN v : \/ i \in DOMAIN s /\ v[i] = s[i]
                                 \/ i = Len(s) + 1 /\ v[i] = new
      BY <2>1, AppendIsSeq
    <2> HIDE DEF v
    <2>4. DOMAIN v = 1..(Len(s) + 1)
      BY <2>3, SeqFacts
    <2> QED
      BY <2>2, <2>3, <2>4
  <1> HIDE DEF v
  <1>8. SubjectList(v, serial + 1) /\ KeepsNames(s, v)
    BY <1>5, <1>7 DEF SubjectList, KeepsNames
  <1>9. IsSeq(w) /\ DOMAIN w = {1} /\ w[1].file = "subject" /\ w[1].value = v /\ w # <<>>
    <2>1. IsSeq(w) /\ DOMAIN w = {1} /\ w[1] = Write("subject", v) /\ w # <<>>
      BY OneIsSeq
    <2> HIDE DEF w
    <2> QED
      BY <2>1 DEF Write
  <1>10. NoApproval(w) /\ ListWrites(w, serial')
    BY OneWrite
  <1> HIDE DEF w
  <1>11. Fits(w, disk, serial', TornFiles) /\ WholeWrites(w) /\ After(w, disk, "subject") = v
    BY <1>1, <1>8, <1>9 DEF Fits, FitsFile, WholeWrites, After, s
  <1>12. StartInv'
    BY <1>1, <1>11, StartedStays DEF o
  <1>13. t \in Creating(o.name)
    BY <1>1, <1>6 DEF Creating
  <1>14. \A n : t \notin Creating(n)'
    <2>1. Head(todo'[t]) = found
      BY <1>1, NextHead
    <2>2. found.op # "create"
      BY <1>4 DEF Free, Calm
    <2> QED
      BY <2>1, <2>2 DEF Creating
  <1>15. ASSUME NEW n PROVE Creating(n)' = Creating(n) \ {t}
    <2>1. Creating(n)' \ {t} = Creating(n) \ {t}
      BY <1>1, CreatingOthers
    <2> QED
      BY <1>14, <2>1
  <1>16. ASSUME NEW n, n # o.name
         PROVE  Creating(n)' = Creating(n) /\ NewOnes(v, n) = NewOnes(s, n)
    <2>1. t \notin Creating(n)
      BY <1>6, <1>16 DEF Creating
    <2>2. NewOnes(v, n) = NewOnes(s, n)
      BY <1>5, <1>7, <1>16 DEF NewOnes
    <2> QED
      BY <1>15, <2>1, <2>2
  <1>17. ASSUME NEW n
         PROVE  Cardinality(NewOnes(v, n)) + Cardinality(Creating(n)') <= Cardinality(Thread)
    <2>1. Cardinality(NewOnes(s, n)) + Cardinality(Creating(n)) <= Cardinality(Thread)
      BY <1>5 DEF Room
    <2>2. CASE n = o.name
      <3>1. NewOnes(v, n) = NewOnes(s, n) \cup {Len(s) + 1} /\ Len(s) + 1 \notin NewOnes(s, n)
        BY <1>5, <1>7, <2>2 DEF NewOnes
      <3>2. IsFiniteSet(NewOnes(s, n)) /\ Cardinality(NewOnes(s, n)) \in Nat
        BY <1>5, NewOnesFinite DEF SubjectList
      <3>3. Cardinality(NewOnes(v, n)) = Cardinality(NewOnes(s, n)) + 1
        BY <3>1, <3>2, FS_AddElement
      <3>4. IsFiniteSet(Creating(n)) /\ Cardinality(Creating(n)) \in Nat
        BY CreatingFinite
      <3>5. Creating(n)' = Creating(n) \ {t} /\ t \in Creating(n)
        BY <1>13, <1>15, <2>2
      <3>6. Cardinality(Creating(n) \ {t}) = Cardinality(Creating(n)) - 1
        BY <3>4, <3>5, FS_RemoveElement
      <3>7. Cardinality(Creating(n)') = Cardinality(Creating(n)) - 1
        BY <3>5, <3>6
      <3> QED
        BY <2>1, <3>2, <3>3, <3>4, <3>7
    <2>3. CASE n # o.name
      <3>1. Creating(n)' = Creating(n) /\ NewOnes(v, n) = NewOnes(s, n)
        BY <1>16, <2>3
      <3> QED
        BY <2>1, <3>1
    <2> QED
      BY <2>2, <2>3
  <1>18. ASSUME NEW n, NEW i \in DOMAIN v, v[i].name = n, v[i].id <= FirstId
         PROVE  NewOnes(v, n) = {} /\ Creating(n)' = {}
    <2>1. i \in DOMAIN s /\ v[i] = s[i]
      BY <1>5, <1>7, <1>18
    <2>2. NewOnes(s, n) = {} /\ Creating(n) = {}
      BY <1>5, <1>18, <2>1 DEF Room
    <2>3. n # o.name
      BY <1>13, <2>2
    <2> QED
      BY <1>16, <2>2, <2>3
  <1>19. After(saving', disk', "subject") = v
    BY <1>1, <1>11 DEF Section
  <1>20. Room(After(saving, disk, "subject"))'
    BY <1>17, <1>18, <1>19 DEF Room
  <1>21. FreeRow(<<found>>)
    BY <1>4, FreeOne
  <1>22. /\ RefersAll(<<found>>, After(w, disk, "owner"), After(w, disk, "fact"), TornFiles)
         /\ Row(<<found>>) /\ \A id : ~Executes(<<found>>, id)
    BY <1>21, FreeRefers, FreeIsRow
  <1> QED
    BY <1>1, <1>2, <1>10, <1>11, <1>12, <1>20, <1>22 DEF Shape, SubjectsInv, o

\* What waits for a subject.
LEMMA FreeForSubject ==
  ASSUME NEW name, NEW then, Plain(then), Apt(then), then.op \in {"question", "owner", "fact"}
  PROVE  Free(ForSubject(name, then))
  <1>1. Free(then)
    BY DEF Free, Calm, Carriers
  <1> DEFINE o == [op |-> "find", name |-> name, then |-> then]
  <1>2. o.op = "find" /\ DOMAIN o = {"op", "name", "then"} /\ o.then = then
    OBVIOUS
  <1> HIDE DEF o
  <1>3. Waits(o)
    BY <1>2 DEF Waits
  <1>4. o.op \notin TransactionOps
    BY <1>2, OutsideTransactions DEF PlainOps
  <1>5. Free(o)
    BY <1>2, <1>3, <1>4 DEF Free, Calm, Carriers, Apt, Plain
  <1> QED
    BY <1>1, <1>5 DEF ForSubject, o

-----------------------------------------------------------------------------
\* Questions.

LEMMA SimilarShape ==
  ASSUME MemoryInv, NEW t \in Thread, SimilarQuestion(t)
  PROVE  Shape(t)
  <1> DEFINE then == [op |-> "question", text |-> Next1(t).text, subject |-> 0]
             asked == SimilarExists(Next1(t).text, disk["question"])
             name == SubjectIn[Next1(t).text]
             more == IF asked THEN <<>> ELSE <<ForSubject(name, then)>>
  <1>1. /\ saving = <<>> /\ todo[t] # <<>> /\ Next1(t).op = "similar" /\ serial' = serial
        /\ Section(t, <<>>, more)
    BY DEF SimilarQuestion, Doing
  <1>2. Plain(then) /\ Apt(then) /\ then.op = "question"
    BY DEF Plain, Apt, TransactionOps
  <1> HIDE DEF asked, then, name
  <1>3. FreeRow(more)
    BY <1>2, FreeForSubject, FreeOne, FreeNothing
  <1> HIDE DEF more
  <1> QED
    BY <1>1, <1>3, QuietShape DEF PlainOps

\* Questions as they are loaded ...
LEMMA QuestionsKnown ==
  ASSUME MemoryInv
  PROVE  /\ IsSeq(Questions)
         /\ \A i \in DOMAIN Questions :
              /\ LoadedQuestion(Questions[i])
              /\ Known(Questions[i], disk["fact"], disk["cluster"], TornFiles)
  BY DEF MemoryInv, SaidInv, FilesInv, QuestionList

\* ... with something changed in each.
LEMMA SameQuestions ==
  ASSUME MemoryInv, NEW facts, NEW clusters, NEW v, v = [i \in DOMAIN Questions |-> v[i]],
         \A i \in DOMAIN Questions : LoadedQuestion(v[i]) /\ Known(v[i], facts, clusters, TornFiles)
  PROVE  QuestionList(v, facts, clusters, TornFiles)
  <1>1. DOMAIN Questions = 1..Len(Questions) /\ Len(Questions) \in Nat
    BY QuestionsKnown, SeqFacts
  <1>2. IsSeq(v) /\ DOMAIN v = DOMAIN Questions
    BY <1>1, ListIsSeq
  <1> QED
    BY <1>2 DEF QuestionList

LEMMA AddQuestionShape ==
  ASSUME MemoryInv, NEW t \in Thread, AddQuestion(t)
  PROVE  Shape(t)
  <1> DEFINE q == NewQuestion(NewId, Next1(t).text, Next1(t).subject, TRUE)
             u == Append(Questions, q)
             v == Capped(u, MaxQuestions)
             o == [op |-> "cluster", id |-> NewId, text |-> Next1(t).text]
  <1>1. /\ saving = <<>> /\ todo[t] # <<>> /\ Next1(t).op = "question" /\ serial' = serial + 1
        /\ Section(t, <<Write("question", v)>>, <<o>>)
    BY DEF AddQuestion, Doing, NewId
  <1>2. Free(o)
    BY DEF Free, Calm, Carriers, Apt, Plain, TransactionOps
  <1>3. FreeRow(<<o>>)
    BY <1>2, FreeOne
  <1>4. LoadedQuestion(q) /\ \A facts, clusters, lost : Known(q, facts, clusters, lost)
    <2>1. serial \in Nat /\ NewId # 0
      BY DEF MemoryInv, ListsInv, NewId
    <2>2. /\ DOMAIN q = QuestionFields /\ q.id = NewId /\ q.status = "ANSWERED" /\ q.source = "answer"
          /\ q.link = NoLink /\ q.cluster = 0
      BY DEF NewQuestion, QuestionFields
    <2> HIDE DEF q
    <2>3. LoadedQuestion(q)
      BY <2>1, <2>2 DEF LoadedQuestion, QuestionStatus, NoLink
    <2> QED
      BY <2>2, <2>3 DEF Known, LinkAgrees, FactThere, InCluster
  <1> HIDE DEF q, o
  <1>5. /\ IsSeq(u)
        /\ \A i \in DOMAIN u : LoadedQuestion(u[i]) /\ Known(u[i], disk["fact"], disk["cluster"], TornFiles)
    BY <1>4, QuestionsKnown, AppendIsSeq
  <1> HIDE DEF u
  <1>6. MaxQuestions \in Nat
    BY MemoryAssumption
  <1>7. IsSeq(v) /\ \A i \in DOMAIN v : \E k \in DOMAIN u : v[i] = u[k]
    BY <1>5, <1>6, CappedIsSeq
  <1> HIDE DEF v
  <1>8. QuestionList(v, disk["fact"], disk["cluster"], TornFiles)
    BY <1>5, <1>7 DEF QuestionList
  <1>9. Harmless("question", v, serial')
    BY <1>8 DEF Harmless
  <1> QED
    BY <1>1, <1>3, <1>9, PlainShape DEF PlainOps

\* A question that a fact answers, and one that a decision or its own answer does.
LEMMA MarkedKnown ==
  ASSUME NEW q, LoadedQuestion(q), NEW facts, NEW clusters, NEW lost, Known(q, facts, clusters, lost)
  PROVE  /\ \A f : ("fact" \notin lost => IdIn(f, facts)) =>
              LoadedQuestion(MarkAnswered(q, f)) /\ Known(MarkAnswered(q, f), facts, clusters, lost)
         /\ \A source, d : source # "fact" =>
              /\ LoadedQuestion(MarkAnsweredBy(q, source, d))
              /\ Known(MarkAnsweredBy(q, source, d), facts, clusters, lost)
         /\ \A s : LET m == [q EXCEPT !.subject = s]
                   IN LoadedQuestion(m) /\ Known(m, facts, clusters, lost)
  <1>1. QuestionFields \subseteq DOMAIN q /\ q.id # 0 /\ q.status \in QuestionStatus /\ q.link.type # "absent"
    BY DEF LoadedQuestion
  <1>2. \A r : r.cluster = q.cluster /\ r.id = q.id => (InCluster(q, clusters) => InCluster(r, clusters))
    BY DEF InCluster
  <1>3. ASSUME NEW f, "fact" \notin lost => IdIn(f, facts)
        PROVE  LoadedQuestion(MarkAnswered(q, f)) /\ Known(MarkAnswered(q, f), facts, clusters, lost)
    <2> DEFINE m == MarkAnswered(q, f)
    <2>1. QuestionCanTransition(q.status, "ANSWERED")
      BY <1>1 DEF QuestionCanTransition, QuestionStatus
    <2>2. /\ DOMAIN m = DOMAIN q /\ m.id = q.id /\ m.cluster = q.cluster /\ m.status = "ANSWERED"
          /\ m.source = "fact" /\ m.fact = f /\ m.link = Link("fact", f)
      BY <1>1, <2>1 DEF MarkAnswered, QuestionFields
    <2> HIDE DEF m
    <2>3. LoadedQuestion(m)
      BY <1>1, <2>2 DEF LoadedQuestion, QuestionStatus, Link
    <2>4. LinkAgrees(m) /\ ("fact" \notin lost => FactThere(m, facts))
      BY <1>3, <2>2 DEF LinkAgrees, FactThere, IdIn
    <2> QED
      BY <1>2, <2>2, <2>3, <2>4 DEF Known, m
  <1>4. ASSUME NEW source, NEW d, source # "fact"
        PROVE  /\ LoadedQuestion(MarkAnsweredBy(q, source, d))
               /\ Known(MarkAnsweredBy(q, source, d), facts, clusters, lost)
    <2> DEFINE m == MarkAnsweredBy(q, source, d)
    <2>1. CASE m = q
      BY <2>1
    <2>2. CASE ~(q.status = "ANSWERED" \/ (source = "answer" /\ ~q.answer))
      <3>1. /\ DOMAIN m = DOMAIN q /\ m.id = q.id /\ m.cluster = q.cluster /\ m.status = "ANSWERED"
            /\ m.source = source /\ m.link \in {Link("decision", d), Link("direct", 0)}
        BY <1>1, <2>2 DEF MarkAnsweredBy, QuestionFields
      <3> HIDE DEF m
      <3>2. LoadedQuestion(m)
        BY <1>1, <3>1 DEF LoadedQuestion, QuestionStatus, Link
      <3>3. LinkAgrees(m) /\ FactThere(m, facts)
        BY <1>4, <3>1 DEF LinkAgrees, FactThere
      <3> QED
        BY <1>2, <3>1, <3>2, <3>3 DEF Known, m
    <2>3. m = q \/ ~(q.status = "ANSWERED" \/ (source = "answer" /\ ~q.answer))
      BY DEF MarkAnsweredBy
    <2> QED
      BY <2>1, <2>2, <2>3
  <1>5. ASSUME NEW s
        PROVE  LET m == [q EXCEPT !.subject = s] IN LoadedQuestion(m) /\ Known(m, facts, clusters, lost)
    <2> DEFINE m == [q EXCEPT !.subject = s]
    <2>1. /\ DOMAIN m = DOMAIN q /\ m.id = q.id /\ m.cluster = q.cluster /\ m.status = q.status
          /\ m.source = q.source /\ m.link = q.link /\ m.fact = q.fact
      BY <1>1 DEF QuestionFields
    <2> HIDE DEF m
    <2>2. LoadedQuestion(m) /\ LinkAgrees(m) = LinkAgrees(q) /\ FactThere(m, facts) = FactThere(q, facts)
      BY <1>1, <2>1 DEF LoadedQuestion, LinkAgrees, FactThere
    <2> QED
      BY <1>2, <2>1, <2>2 DEF Known, m
  <1> QED
    BY <1>3, <1>4, <1>5

LEMMA MarkQuestionShape ==
  ASSUME MemoryInv, NEW t \in Thread, MarkQuestion(t)
  PROVE  Shape(t)
  <1> DEFINE o == Next1(t)
             hit(q) == q.id = o.id
             v == Where(Questions, hit, LAMBDA q : MarkAnswered(q, o.fact))
             w == IF Holding(Questions, hit) = {} THEN <<>> ELSE <<Write("question", v)>>
  <1>1. /\ saving = <<>> /\ todo[t] # <<>> /\ o.op = "markAnswered" /\ serial' = serial
        /\ Section(t, w, <<>>)
    BY DEF MarkQuestion, Doing
  <1>2. w \in {<<>>, <<Write("question", v)>>}
    OBVIOUS
  <1>3. o.op \in PlainOps
    BY <1>1 DEF PlainOps
  <1>4. "fact" \notin TornFiles => IdIn(o.fact, disk["fact"])
    BY <1>1, <1>3, HeadIsCalm, OutsideTransactions DEF Refers
  <1> HIDE DEF o
  <1>5. /\ v = [i \in DOMAIN Questions |-> v[i]]
        /\ \A i \in DOMAIN Questions : v[i] \in {Questions[i], MarkAnswered(Questions[i], o.fact)}
    BY DEF Where
  <1> HIDE DEF v, w
  <1>6. ASSUME NEW i \in DOMAIN Questions
        PROVE  LoadedQuestion(v[i]) /\ Known(v[i], disk["fact"], disk["cluster"], TornFiles)
    BY <1>4, <1>5, QuestionsKnown, MarkedKnown
  <1>7. Harmless("question", v, serial')
    BY <1>5, <1>6, SameQuestions DEF Harmless
  <1> QED
    BY <1>1, <1>2, <1>3, <1>7, FreeNothing, PlainShape DEF o

LEMMA MarkQuestionByShape ==
  ASSUME MemoryInv, NEW t \in Thread, MarkQuestionBy(t)
  PROVE  Shape(t)
  <1> DEFINE o == Next1(t)
             hit(q) == q.id = o.id
             v == Where(Questions, hit, LAMBDA q : MarkAnsweredBy(q, o.source, o.decision))
             w == IF Holding(Questions, hit) = {} THEN <<>> ELSE <<Write("question", v)>>
  <1>1. /\ saving = <<>> /\ todo[t] # <<>> /\ o.op = "answeredBy" /\ serial' = serial
        /\ Section(t, w, <<>>)
    BY DEF MarkQuestionBy, Doing
  <1>2. w \in {<<>>, <<Write("question", v)>>}
    OBVIOUS
  <1>3. o.op \in PlainOps
    BY <1>1 DEF PlainOps
  <1>4. o.source # "fact"
    <2>1. Calm(o)
      BY <1>1, <1>3, HeadIsCalm, OutsideTransactions
    <2> QED
      BY <1>1, <2>1 DEF Calm, Apt
  <1> HIDE DEF o
  <1>5. /\ v = [i \in DOMAIN Questions |-> v[i]]
        /\ \A i \in DOMAIN Questions :
             v[i] \in {Questions[i], MarkAnsweredBy(Questions[i], o.source, o.decision)}
    BY DEF Where
  <1> HIDE DEF v, w
  <1>6. ASSUME NEW i \in DOMAIN Questions
        PROVE  LoadedQuestion(v[i]) /\ Known(v[i], disk["fact"], disk["cluster"], TornFiles)
    BY <1>4, <1>5, QuestionsKnown, MarkedKnown
  <1>7. Harmless("question", v, serial')
    BY <1>5, <1>6, SameQuestions DEF Harmless
  <1> QED
    BY <1>1, <1>2, <1>3, <1>7, FreeNothing, PlainShape DEF o

\* The place among the clusters that is found, and none that is lost but for the oldest.
LEMMA ClusterFound ==
  ASSUME NEW s, IsSeq(s), NEW norm
  PROVE  FindCluster(norm, s) \in DOMAIN s \cup {0}
  <1>1. DOMAIN s \subseteq Nat
    BY SeqFacts
  <1>2. \A S : S \subseteq DOMAIN s /\ S # {} => First(S) \in DOMAIN s
    BY <1>1, FirstIs
  <1> DEFINE exact == Holding(s, LAMBDA c : c.norm = norm)
             keyed == Holding(s, LAMBDA c : CanonicalKey(norm) # "none" /\ c.key = CanonicalKey(norm))
             close == DOMAIN s \cap {ClosestCluster(norm, s)}
  <1>3. exact \subseteq DOMAIN s /\ keyed \subseteq DOMAIN s /\ close \subseteq DOMAIN s
    BY DEF Holding
  <1>4. FindCluster(norm, s) = CASE exact # {} -> First(exact)
                                 [] exact = {} /\ keyed # {} -> First(keyed)
                                 [] exact = {} /\ keyed = {} /\ close # {} -> First(close)
                                 [] OTHER -> 0
    BY DEF FindCluster
  <1> HIDE DEF exact, keyed, close
  <1>5. FindCluster(norm, s) \in {First(exact), First(keyed), First(close), 0}
    BY <1>4
  <1> QED
    BY <1>2, <1>3, <1>4, <1>5

LEMMA CappedLength ==
  ASSUME NEW s, IsSeq(s), NEW n \in Nat
  PROVE  DOMAIN Capped(s, n) = 1..(IF Len(s) > n THEN n ELSE Len(s))
  <1> DEFINE S == {s[i] : i \in DOMAIN s}
             m == IF Len(s) > n THEN Len(s) - n + 1 ELSE 1
  <1>1. Len(s) \in Nat /\ DOMAIN s = 1..Len(s)
    BY SeqFacts
  <1>2. m \in Int /\ m >= 1 /\ m <= Len(s) + 1
    BY <1>1
  <1>3. \A i \in m..Len(s) : s[i] \in S
    BY <1>1, <1>2
  <1> HIDE DEF S, m
  <1>4. /\ Capped(s, n) \in Seq(S)
        /\ Len(Capped(s, n)) = IF m <= Len(s) THEN Len(s) - m + 1 ELSE 0
    BY <1>1, <1>2, <1>3, SubSeqProperties DEF Capped, m
  <1>5. Len(Capped(s, n)) = IF Len(s) > n THEN n ELSE Len(s)
    <2>1. CASE Len(s) > n
      <3>1. m = Len(s) - n + 1
        BY <2>1 DEF m
      <3> QED
        BY <1>1, <1>4, <2>1, <3>1
    <2>2. CASE ~(Len(s) > n)
      <3>1. m = 1
        BY <2>2 DEF m
      <3> QED
        BY <1>1, <1>4, <2>2, <3>1
    <2> QED
      BY <2>1, <2>2
  <1> QED
    BY <1>4, <1>5, LenProperties

LEMMA ClusterPlaced ==
  ASSUME NEW last \in Nat, NEW s, ClusterList(s, last), NEW id, NEW x
  PROVE  LET c == ClusterAssigned(id, x, last + 1, s, MaxClusters)
         IN ClusterList(c, last + 1) /\ KeepsPlaces(s, c) /\ \E j \in DOMAIN c : id \in c[j].members
  <1> DEFINE c == ClusterAssigned(id, x, last + 1, s, MaxClusters)
             at == FindCluster(Normalize(x), s)
             new == [id |-> last + 1, norm |-> Normalize(x), key |-> CanonicalKey(Normalize(x)),
                     members |-> {id}]
             base == IF Len(s) >= MaxClusters THEN Capped(s, MaxClusters - 1) ELSE s
             n == Len(s)
  <1> SUFFICES ClusterList(c, last + 1) /\ KeepsPlaces(s, c) /\ \E j \in DOMAIN c : id \in c[j].members
    OBVIOUS
  <1>1. /\ IsSeq(s) /\ n <= MaxClusters
        /\ \A i \in DOMAIN s : /\ {"id", "members"} \subseteq DOMAIN s[i]
                               /\ s[i].id \in Nat /\ s[i].id <= last
        /\ \A i, j \in DOMAIN s : i < j => s[i].id < s[j].id
    BY DEF ClusterList
  <1>2. /\ n \in Nat /\ DOMAIN s = 1..n
        /\ MaxClusters \in Nat /\ MaxClusters >= 1 /\ n <= MaxClusters
    <2>1. MaxClusters \in Nat /\ MaxClusters # 0
      BY MemoryAssumption
    <2> QED
      BY <1>1, <2>1, SeqFacts
  <1>3. c = IF at # 0 THEN [s EXCEPT ![at].members = @ \cup {id}] ELSE Append(base, new)
    BY DEF ClusterAssigned
  <1>4. at \in DOMAIN s \cup {0}
    BY <1>1, ClusterFound
  <1>5. new.id = last + 1 /\ new.members = {id} /\ {"id", "members"} \subseteq DOMAIN new
    OBVIOUS
  <1>8. base = IF n >= MaxClusters THEN Capped(s, MaxClusters - 1) ELSE s
    OBVIOUS
  <1> HIDE DEF at, new, base, c, n
  <1>6. CASE at # 0
    <2>1. /\ DOMAIN c = DOMAIN s /\ at \in DOMAIN s
          /\ \A i \in DOMAIN s : /\ DOMAIN c[i] = DOMAIN s[i] /\ c[i].id = s[i].id
                                 /\ s[i].members \subseteq c[i].members
          /\ id \in c[at].members
      <3>1. c = [s EXCEPT ![at].members = @ \cup {id}] /\ at \in DOMAIN s
        BY <1>3, <1>4, <1>6
      <3>2. /\ DOMAIN c = DOMAIN s /\ c[at] = [s[at] EXCEPT !.members = @ \cup {id}]
            /\ \A i \in DOMAIN s \ {at} : c[i] = s[i]
        BY <3>1
      <3> QED
        BY <1>1, <3>1, <3>2
    <2>2. IsSeq(c) /\ Len(c) = n
      <3>1. c = [i \in 1..n |-> c[i]]
        BY <1>2, <1>3, <1>6
      <3> QED
        BY <1>2, <3>1, ListIsSeq
    <2>3. ClusterList(c, last + 1)
      <3>1. \A i \in DOMAIN c : {"id", "members"} \subseteq DOMAIN c[i] /\ c[i].id \in Nat /\ c[i].id <= last + 1
        BY <1>1, <2>1
      <3>2. \A i, j \in DOMAIN c : i < j => c[i].id < c[j].id
        BY <1>1, <2>1
      <3> QED
        BY <1>2, <2>2, <3>1, <3>2 DEF ClusterList
    <2>4. KeepsPlaces(s, c)
      BY <2>1, <2>2 DEF KeepsPlaces, InCluster, n
    <2> QED
      BY <2>1, <2>3, <2>4
  <1>7. CASE at = 0
    <2> DEFINE shift == IF n >= MaxClusters THEN 1 ELSE 0
    <2>1. IsSeq(base) /\ Len(base) = n - shift /\ \A i \in DOMAIN base : i + shift \in DOMAIN s /\ base[i] = s[i + shift]
      <3>1. CASE n >= MaxClusters
        <4>1. n = MaxClusters /\ MaxClusters - 1 \in Nat /\ base = Capped(s, MaxClusters - 1)
          BY <1>2, <1>8, <3>1
        <4>2. IsSeq(base) /\ \A i \in DOMAIN base : i + 1 \in DOMAIN s /\ base[i] = s[i + 1]
          <5>1. IsSeq(Capped(s, MaxClusters - 1)) /\ \A i \in DOMAIN Capped(s, MaxClusters - 1) :
                   LET k == i + (IF n > MaxClusters - 1 THEN n - (MaxClusters - 1) ELSE 0)
                   IN k \in DOMAIN s /\ Capped(s, MaxClusters - 1)[i] = s[k]
            BY <1>1, <4>1, CappedIsSeq DEF n
          <5>2. (IF n > MaxClusters - 1 THEN n - (MaxClusters - 1) ELSE 0) = 1
            BY <1>2, <4>1
          <5> QED
            BY <4>1, <5>1, <5>2
        <4>3. DOMAIN base = 1..(MaxClusters - 1)
          <5>1. DOMAIN base = 1..(IF n > MaxClusters - 1 THEN MaxClusters - 1 ELSE n)
            BY <1>1, <4>1, CappedLength DEF n
          <5> QED
            BY <1>2, <4>1, <5>1
        <4>4. Len(base) = MaxClusters - 1
          <5>1. DOMAIN base = 1..Len(base) /\ Len(base) \in Nat
            BY <4>2, SeqFacts
          <5> QED
            BY <1>2, <4>3, <5>1
        <4> QED
          BY <3>1, <4>1, <4>2, <4>4
      <3>2. CASE ~(n >= MaxClusters)
        BY <1>1, <1>2, <1>8, <3>2 DEF n
      <3> QED
        BY <3>1, <3>2
    <2>2. \/ shift = 1 /\ n = MaxClusters
          \/ shift = 0 /\ n < MaxClusters
      <3>1. CASE n >= MaxClusters
        <4>1. n = MaxClusters /\ shift = 1
          BY <1>2, <3>1
        <4> QED
          BY <4>1
      <3>2. CASE ~(n >= MaxClusters)
        <4>1. n < MaxClusters /\ shift = 0
          BY <1>2, <3>2
        <4> QED
          BY <4>1
      <3> QED
        BY <3>1, <3>2
    <2> HIDE DEF shift
    <2>3. /\ IsSeq(c) /\ Len(c) = n - shift + 1 /\ DOMAIN c = 1..Len(c)
          /\ \A i \in DOMAIN c : \/ i + shift \in DOMAIN s /\ c[i] = s[i + shift] /\ i < Len(c)
                                 \/ i = Len(c) /\ c[i] = new
      <3>1. /\ IsSeq(c) /\ Len(c) = Len(base) + 1
            /\ \A i \in DOMAIN c : \/ i \in DOMAIN base /\ c[i] = base[i]
                                   \/ i = Len(base) + 1 /\ c[i] = new
        <4>1. c = Append(base, new)
          BY <1>3, <1>7
        <4> QED
          BY <2>1, <4>1, AppendIsSeq
      <3>2. DOMAIN c = 1..Len(c) /\ Len(c) \in Nat /\ DOMAIN base = 1..Len(base) /\ Len(base) \in Nat
        BY <2>1, <3>1, SeqFacts
      <3> QED
        BY <2>1, <3>1, <3>2
    <2>4. ASSUME NEW j \in DOMAIN s, j > shift PROVE j - shift \in DOMAIN c /\ c[j - shift] = s[j]
      <3> DEFINE k == j - shift
      <3>1. j \in 1..n /\ shift \in {0, 1}
        BY <1>2, <2>2
      <3>2. k \in 1..Len(c) /\ k + shift = j /\ k # Len(c)
        BY <1>2, <2>3, <2>4, <3>1
      <3> HIDE DEF k
      <3>3. k \in DOMAIN c /\ c[k] = s[k + shift]
        BY <2>3, <3>2
      <3> QED
        BY <3>2, <3>3 DEF k
    <2>5. Len(c) \in DOMAIN c /\ c[Len(c)] = new /\ Len(c) <= MaxClusters
      <3>1. Len(c) >= 1 /\ Len(c) \in Nat /\ Len(c) <= MaxClusters
        BY <1>2, <2>2, <2>3
      <3>2. Len(c) \in DOMAIN c
        BY <2>3, <3>1
      <3> QED
        BY <2>3, <3>1, <3>2
    <2>6. ClusterList(c, last + 1)
      <3>1. ASSUME NEW i \in DOMAIN c
            PROVE  {"id", "members"} \subseteq DOMAIN c[i] /\ c[i].id \in Nat /\ c[i].id <= last + 1
        BY <1>1, <1>5, <2>3
      <3>2. ASSUME NEW i \in DOMAIN c, NEW j \in DOMAIN c, i < j PROVE c[i].id < c[j].id
        <4>1. i + shift \in DOMAIN s /\ c[i] = s[i + shift]
          BY <2>3, <3>2
        <4>2. CASE j + shift \in DOMAIN s /\ c[j] = s[j + shift]
          <5>1. i + shift < j + shift
            BY <2>2, <2>3, <3>2
          <5> QED
            BY <1>1, <4>1, <4>2, <5>1
        <4>3. CASE c[j] = new
          BY <1>1, <1>5, <4>1, <4>3
        <4> QED
          BY <2>3, <4>2, <4>3
      <3> QED
        BY <2>3, <2>5, <3>1, <3>2 DEF ClusterList
    <2>7. KeepsPlaces(s, c)
      <3> SUFFICES ASSUME NEW q, q.cluster \in Nat, q.cluster # 0, InCluster(q, s)
                   PROVE  InCluster(q, c)
        BY DEF KeepsPlaces, InCluster
      <3>1. ASSUME n = MaxClusters, \A j \in DOMAIN c : c[j].id > q.cluster
            PROVE  InCluster(q, c)
        <4>1. Len(c) = MaxClusters
          BY <1>2, <2>2, <2>3, <3>1
        <4> QED
          BY <3>1, <4>1 DEF InCluster
      <3>2. ASSUME NEW j \in DOMAIN s, s[j].id = q.cluster, q.id \in s[j].members
            PROVE  InCluster(q, c)
        <4>1. CASE j > shift
          <5>1. j - shift \in DOMAIN c /\ c[j - shift] = s[j]
            BY <2>4, <4>1
          <5> QED
            BY <3>2, <5>1 DEF InCluster
        <4>2. CASE ~(j > shift)
          <5>1. shift = 1 /\ j = 1
            BY <1>2, <2>2, <4>2
          <5>2. ASSUME NEW i \in DOMAIN c PROVE c[i].id > q.cluster
            <6>1. CASE i + shift \in DOMAIN s /\ c[i] = s[i + shift]
              <7>1. j < i + shift
                BY <2>3, <5>1
              <7> QED
                BY <1>1, <3>2, <6>1, <7>1
            <6>2. CASE c[i] = new
              BY <1>1, <1>5, <3>2, <6>2
            <6> QED
              BY <2>3, <6>1, <6>2
          <5> QED
            BY <2>2, <3>1, <5>1, <5>2
        <4> QED
          BY <4>1, <4>2
      <3>3. ASSUME n = MaxClusters, \A j \in DOMAIN s : s[j].id > q.cluster
            PROVE  InCluster(q, c)
        <4>1. 1 \in DOMAIN s
          BY <1>2, <3>3
        <4>2. ASSUME NEW i \in DOMAIN c PROVE c[i].id > q.cluster
          <5>1. CASE i + shift \in DOMAIN s /\ c[i] = s[i + shift]
            BY <3>3, <5>1
          <5>2. CASE c[i] = new
            BY <1>1, <1>5, <3>3, <4>1, <5>2
          <5> QED
            BY <2>3, <5>1, <5>2
        <4> QED
          BY <3>1, <3>3, <4>2
      <3> QED
        BY <3>2, <3>3 DEF InCluster, n
    <2> QED
      BY <1>5, <2>5, <2>6, <2>7
  <1> QED
    BY <1>6, <1>7

\* The writes of a cluster's assignment: the clusters, and the questions that refer to them.
LEMMA SteadyClusters ==
  ASSUME MemoryInv, NEW last, NEW c, ClusterList(c, last), KeepsPlaces(disk["cluster"], c),
         NEW q, QuestionList(q, disk["fact"], c, TornFiles)
  PROVE  Steady(<<Write("cluster", c), Write("question", q)>>, last)
  <1> DEFINE a == Write("cluster", c)
             b == Write("question", q)
             w == <<a, b>>
  <1>1. a.file = "cluster" /\ a.value = c /\ b.file = "question" /\ b.value = q
    BY DEF Write
  <1>2. IsSeq(q)
    BY DEF QuestionList
  <1>3. NoApproval(w) /\ ListWrites(w, last)
    BY <1>2, TwoWrites
  <1> HIDE DEF a, b
  <1>4. IsSeq(w) /\ DOMAIN w = {1, 2} /\ w[1] = a /\ w[2] = b /\ w # <<>>
    BY TwoIsSeq
  <1> HIDE DEF w
  <1>5. \A f : After(w, disk, f) = IF f = "cluster" THEN c ELSE disk[f]
    BY <1>1, <1>4 DEF After
  <1>6. ASSUME NEW i \in DOMAIN w
        PROVE  /\ w[i].file \in Referred => i = 1
               /\ FitsFile(w[i].file, w[i].value, w, disk, last, TornFiles)
    <2>1. CASE i = 1
      BY <1>1, <1>4, <2>1 DEF FitsFile
    <2>2. CASE i = 2
      BY <1>1, <1>4, <1>5, <2>2 DEF FitsFile, Referred
    <2> QED
      BY <1>4, <2>1, <2>2
  <1>7. Fits(w, disk, last, TornFiles) /\ WholeWrites(w)
    BY <1>1, <1>4, <1>6 DEF Fits, WholeWrites
  <1>8. SameNames(disk["subject"], After(w, disk, "subject"))
    BY <1>5, NothingChanges DEF SameNames
  <1> QED
    BY <1>3, <1>7, <1>8 DEF Steady, w, a, b

LEMMA AssignClusterShape ==
  ASSUME MemoryInv, NEW t \in Thread, AssignCluster(t)
  PROVE  Shape(t)
  <1> DEFINE o == Next1(t)
             c == ClusterAssigned(o.id, o.text, NewId, disk["cluster"], MaxClusters)
             held == Holding(c, LAMBDA x : o.id \in x.members)
             k == c[First(held)].id
             v == Where(Questions, LAMBDA q : q.id = o.id, LAMBDA q : [q EXCEPT !.cluster = k])
             w == <<Write("cluster", c), Write("question", v)>>
  <1>1. /\ saving = <<>> /\ todo[t] # <<>> /\ o.op = "cluster" /\ serial' = serial + 1
        /\ Section(t, w, <<>>)
    BY DEF AssignCluster, Doing, NewId, Clustered, Write
  <1>2. o.op \in PlainOps
    BY <1>1 DEF PlainOps
  <1>3. serial \in Nat /\ ClusterList(disk["cluster"], serial)
    BY DEF MemoryInv, ListsInv, SaidInv, FilesInv
  <1>4. /\ ClusterList(c, serial + 1) /\ KeepsPlaces(disk["cluster"], c)
        /\ \E j \in DOMAIN c : o.id \in c[j].members
    BY <1>3, ClusterPlaced DEF NewId
  <1> HIDE DEF o, c
  <1>5. First(held) \in DOMAIN c /\ o.id \in c[First(held)].members
    <2>1. held \subseteq DOMAIN c /\ held # {} /\ DOMAIN c \subseteq Nat
      BY <1>4, SeqFacts DEF ClusterList, Holding
    <2>2. First(held) \in held
      BY <2>1, FirstIs
    <2> QED
      BY <2>2 DEF Holding
  <1>6. k \in Nat
    BY <1>4, <1>5 DEF ClusterList
  <1> HIDE DEF held
  <1>7. /\ v = [i \in DOMAIN Questions |-> v[i]]
        /\ \A i \in DOMAIN Questions :
             v[i] = IF Questions[i].id = o.id THEN [Questions[i] EXCEPT !.cluster = k] ELSE Questions[i]
    BY DEF Where
  <1> HIDE DEF v
  <1>8. ASSUME NEW i \in DOMAIN Questions
        PROVE  LoadedQuestion(v[i]) /\ Known(v[i], disk["fact"], c, TornFiles)
    <2> DEFINE q == Questions[i]
               m == [q EXCEPT !.cluster = k]
    <2>1. LoadedQuestion(q) /\ Known(q, disk["fact"], disk["cluster"], TornFiles)
      BY QuestionsKnown
    <2> HIDE DEF q
    <2>2. Known(q, disk["fact"], c, TornFiles)
      BY <1>4, <2>1, KnownGrow, NothingChanges DEF LoadedQuestion
    <2>3. ASSUME q.id = o.id PROVE LoadedQuestion(m) /\ Known(m, disk["fact"], c, TornFiles)
      <3>1. QuestionFields \subseteq DOMAIN q
        BY <2>1 DEF LoadedQuestion
      <3>2. /\ DOMAIN m = DOMAIN q /\ m.id = q.id /\ m.cluster = k /\ m.status = q.status
            /\ m.source = q.source /\ m.link = q.link /\ m.fact = q.fact
        BY <3>1 DEF QuestionFields
      <3>3. c[First(held)].id = k
        OBVIOUS
      <3> HIDE DEF m, k
      <3>4. LoadedQuestion(m) /\ LinkAgrees(m) = LinkAgrees(q)
            /\ FactThere(m, disk["fact"]) = FactThere(q, disk["fact"])
        BY <1>6, <2>1, <3>2 DEF LoadedQuestion, LinkAgrees, FactThere
      <3>5. InCluster(m, c)
        BY <1>5, <2>3, <3>2, <3>3 DEF InCluster
      <3> QED
        BY <2>2, <3>4, <3>5 DEF Known
    <2>4. v[i] = IF q.id = o.id THEN m ELSE q
      BY <1>7 DEF q
    <2> HIDE DEF m
    <2> QED
      BY <2>1, <2>2, <2>3, <2>4
  <1>9. QuestionList(v, disk["fact"], c, TornFiles)
    BY <1>7, <1>8, SameQuestions
  <1>10. Steady(w, serial')
    BY <1>1, <1>4, <1>9, SteadyClusters
  <1> HIDE DEF w
  <1>11. CalmRow(<<>>) /\ RefersAll(<<>>, After(w, disk, "owner"), After(w, disk, "fact"), TornFiles)
    BY FreeNothing, FreeIsCalm, FreeRefers
  <1> QED
    BY <1>1, <1>2, <1>10, <1>11, CalmShape DEF o

-----------------------------------------------------------------------------
\* Decisions.

\* The same decisions with something changed in each, but for their owners.
LEMMA HarmlessDecisions ==
  ASSUME MemoryInv, NEW t \in Thread, saving = <<>>, todo[t] # <<>>,
         NEW last \in Nat, serial <= last,
         NEW v, v = [i \in DOMAIN disk["decision"] |-> v[i]],
         \A i \in DOMAIN disk["decision"] :
           /\ DecisionFields \subseteq DOMAIN v[i]
           /\ \/ v[i].id = Decisions[i].id
              \/ v[i].id = disk["decision"][i].id /\ v[i].text = disk["decision"][i].text
           /\ disk["decision"][i].status = "DONE" => v[i].status = "DONE"
           /\ v[i].owner = disk["decision"][i].owner /\ v[i].ownerId = disk["decision"][i].ownerId
  PROVE  Harmless("decision", v, last)
  <1>1. DecisionList(v, last) /\ Keeps(disk["decision"], v)
    BY SameDecisions DEF MemoryInv
  <1>2. DOMAIN v = DOMAIN disk["decision"]
    OBVIOUS
  <1>3. WholeAll(v)
    BY <1>2, AtWork DEF WholeAll
  <1>4. "owner" \notin TornFiles => NamedAll(v, disk["owner"])
    BY <1>2 DEF MemoryInv, SaidInv, FilesInv, NamedAll, NamesOwner
  <1> QED
    BY <1>1, <1>3, <1>4 DEF Harmless

LEMMA DetectShape ==
  ASSUME MemoryInv, NEW t \in Thread, DetectCompleted(t)
  PROVE  Shape(t)
  <1> DEFINE at == {i \in DOMAIN disk["decision"] :
                      disk["decision"][i].status = "OPEN" /\ disk["decision"][i].text \in Next1(t).texts}
             open == Those(disk["decision"], LAMBDA d : d.status = "OPEN" /\ d.text \in Next1(t).texts)
             more == [i \in DOMAIN open |-> [op |-> "update", text |-> open[i].text]]
  <1>1. /\ saving = <<>> /\ todo[t] # <<>> /\ Next1(t).op = "completed" /\ serial' = serial
        /\ Section(t, <<>>, more)
    BY DEF DetectCompleted, Doing
  <1>2. Cardinality(at) \in Nat
    BY DecisionsAre, PlacesCounted DEF MemoryInv
  <1>3. DOMAIN open = 1..Cardinality(at)
    BY DEF Those, Holding
  <1> HIDE DEF at, open
  <1>4. FreeRow(more)
    <2>1. more = [i \in 1..Cardinality(at) |-> more[i]]
      BY <1>3
    <2>2. \A x : Free([op |-> "update", text |-> x])
      BY DEF Free, Calm, Apt, Carriers, Plain, TransactionOps
    <2>3. \A i \in 1..Cardinality(at) : Free(more[i])
      BY <1>3, <2>2
    <2> HIDE DEF more
    <2> QED
      BY <1>2, <2>1, <2>3, FreeList
  <1> HIDE DEF more
  <1> QED
    BY <1>1, <1>4, QuietShape DEF PlainOps

LEMMA UpdateShape ==
  ASSUME MemoryInv, NEW t \in Thread, UpdateDecisionStatus(t)
  PROVE  Shape(t)
  <1> DEFINE s == disk["decision"]
             same == Holding(s, LAMBDA d : d.text = Next1(t).text)
             k == Final(same)
             v == [s EXCEPT ![k].status = "DONE"]
             w == IF same = {} THEN <<>> ELSE <<Write("decision", v)>>
  <1>1. /\ saving = <<>> /\ todo[t] # <<>> /\ Next1(t).op = "update" /\ serial' = serial
        /\ Section(t, w, <<>>)
    BY DEF UpdateDecisionStatus, Doing
  <1>2. w \in {<<>>, <<Write("decision", v)>>}
    OBVIOUS
  <1>3. serial \in Nat /\ DecisionList(s, serial)
    BY DEF MemoryInv, ListsInv
  <1>4. Harmless("decision", v, serial')
    <2> HIDE DEF k
    <2>1. \A i \in DOMAIN s : DecisionRow(s[i], serial)
      BY <1>3 DEF DecisionList
    <2>2. DOMAIN v = DOMAIN s
      OBVIOUS
    <2>3. ASSUME NEW i \in DOMAIN s
          PROVE  /\ DecisionFields \subseteq DOMAIN v[i]
                 /\ v[i].id = s[i].id /\ v[i].text = s[i].text
                 /\ s[i].status = "DONE" => v[i].status = "DONE"
                 /\ v[i].owner = s[i].owner /\ v[i].ownerId = s[i].ownerId
      <3>1. v[i] = IF i = k THEN [s[i] EXCEPT !.status = "DONE"] ELSE s[i]
        OBVIOUS
      <3>2. DecisionFields \subseteq DOMAIN s[i]
        BY <2>1 DEF DecisionRow
      <3> HIDE DEF v
      <3> QED
        BY <3>1, <3>2 DEF DecisionFields
    <2>4. v = [i \in DOMAIN s |-> v[i]]
      BY <2>2
    <2>5. saving = <<>> /\ todo[t] # <<>> /\ serial' \in Nat /\ serial <= serial'
      BY <1>1, <1>3
    <2> HIDE DEF v, w
    <2> QED
      BY <2>3, <2>4, <2>5, HarmlessDecisions
  <1> HIDE DEF v, w
  <1> QED
    BY <1>1, <1>2, <1>4, FreeNothing, PlainShape DEF PlainOps

LEMMA ApplyShape ==
  ASSUME MemoryInv, NEW t \in Thread, ApplyTransition(t)
  PROVE  Shape(t)
  <1> DEFINE to == Next1(t).to
             v == Where(Decisions, LAMBDA d : d.status = "OPEN", LAMBDA d : UpdateStatus(d, to))
             w == IF to = "none" \/ v = Decisions THEN <<>> ELSE <<Write("decision", v)>>
  <1>1. /\ saving = <<>> /\ todo[t] # <<>> /\ Next1(t).op = "transition" /\ serial' = serial
        /\ Section(t, w, <<>>)
    BY DEF ApplyTransition, Doing
  <1>2. w \in {<<>>, <<Write("decision", v)>>}
    OBVIOUS
  <1>3. Harmless("decision", v, serial')
    <2>1. ListsInv /\ serial \in Nat
      BY DEF MemoryInv, ListsInv
    <2>2. /\ DOMAIN Decisions = DOMAIN disk["decision"]
          /\ \A i \in DOMAIN disk["decision"] :
               /\ DecisionRow(Decisions[i], serial) /\ Decisions[i].status = disk["decision"][i].status
               /\ Decisions[i].owner = disk["decision"][i].owner
               /\ Decisions[i].ownerId = disk["decision"][i].ownerId
      BY <2>1, DecisionsAre
    <2>3. /\ v = [i \in DOMAIN disk["decision"] |-> v[i]]
          /\ \A i \in DOMAIN disk["decision"] :
               v[i] = IF Decisions[i].status = "OPEN" THEN UpdateStatus(Decisions[i], to) ELSE Decisions[i]
      BY <2>2 DEF Where
    <2>5. saving = <<>> /\ todo[t] # <<>> /\ serial' \in Nat /\ serial <= serial'
      BY <1>1, <2>1
    <2> HIDE DEF v, w, to
    <2>4. ASSUME NEW i \in DOMAIN disk["decision"]
          PROVE  /\ DecisionFields \subseteq DOMAIN v[i] /\ v[i].id = Decisions[i].id
                 /\ disk["decision"][i].status = "DONE" => v[i].status = "DONE"
                 /\ v[i].owner = disk["decision"][i].owner /\ v[i].ownerId = disk["decision"][i].ownerId
      BY <2>2, <2>3 DEF UpdateStatus, DecisionRow, DecisionFields
    <2> QED
      BY <2>3, <2>4, <2>5, HarmlessDecisions
  <1> HIDE DEF v, w
  <1> QED
    BY <1>1, <1>2, <1>3, FreeNothing, PlainShape DEF PlainOps

LEMMA MarkDoneShape ==
  ASSUME MemoryInv, NEW t \in Thread, MarkDone(t)
  PROVE  Shape(t)
  <1> DEFINE hit(d) == d.id = Next1(t).id
             done(d) == [d EXCEPT !.status = "DONE", !.fact = Next1(t).fact]
             v == Where(Decisions, hit, done)
             w == IF Holding(Decisions, hit) = {} THEN <<>> ELSE <<Write("decision", v)>>
  <1>1. /\ saving = <<>> /\ todo[t] # <<>> /\ Next1(t).op = "markDone" /\ serial' = serial
        /\ Section(t, w, <<>>)
    BY DEF MarkDone, Doing
  <1>2. w \in {<<>>, <<Write("decision", v)>>}
    OBVIOUS
  <1>3. Harmless("decision", v, serial')
    <2>1. ListsInv /\ serial \in Nat
      BY DEF MemoryInv, ListsInv
    <2>2. /\ DOMAIN Decisions = DOMAIN disk["decision"]
          /\ \A i \in DOMAIN disk["decision"] :
               /\ DecisionRow(Decisions[i], serial) /\ Decisions[i].status = disk["decision"][i].status
               /\ Decisions[i].owner = disk["decision"][i].owner
               /\ Decisions[i].ownerId = disk["decision"][i].ownerId
      BY <2>1, DecisionsAre
    <2>5. saving = <<>> /\ todo[t] # <<>> /\ serial' \in Nat /\ serial <= serial'
      BY <1>1, <2>1
    <2>6. DOMAIN Decisions = DOMAIN disk["decision"]
      BY <2>2
    <2>3. /\ v = [i \in DOMAIN disk["decision"] |-> v[i]]
          /\ \A i \in DOMAIN disk["decision"] : v[i] \in {done(Decisions[i]), Decisions[i]}
      <3> HIDE DEF hit, done
      <3> QED
        BY <2>6 DEF Where
    <2>7. \A d : DecisionFields \subseteq DOMAIN d =>
            /\ DOMAIN done(d) = DOMAIN d /\ done(d).id = d.id /\ done(d).status = "DONE"
            /\ done(d).owner = d.owner /\ done(d).ownerId = d.ownerId
      BY DEF DecisionFields
    <2> HIDE DEF v
    <2>4. ASSUME NEW i \in DOMAIN disk["decision"]
          PROVE  /\ DecisionFields \subseteq DOMAIN v[i] /\ v[i].id = Decisions[i].id
                 /\ disk["decision"][i].status = "DONE" => v[i].status = "DONE"
                 /\ v[i].owner = disk["decision"][i].owner /\ v[i].ownerId = disk["decision"][i].ownerId
      <3> HIDE DEF hit, done
      <3> QED
        BY <2>2, <2>3, <2>7 DEF DecisionRow
    <2> HIDE DEF w, hit, done
    <2> QED
      BY <2>3, <2>4, <2>5, HarmlessDecisions
  <1> HIDE DEF v, w
  <1> QED
    BY <1>1, <1>2, <1>3, FreeNothing, PlainShape DEF PlainOps

LEMMA AddDecisionShape ==
  ASSUME MemoryInv, NEW t \in Thread, AddDecision(t)
  PROVE  Shape(t)
  <1> DEFINE o == Next1(t)
             d == [id |-> NewId, text |-> o.text, subject |-> o.subject, owner |-> o.owner,
                   ownerId |-> o.ownerId, status |-> "OPEN", fact |-> 0, confidence |-> o.confidence]
             u == Append(Decisions, d)
             v == Capped(u, MaxDecisions)
  <1>1. /\ saving = <<>> /\ todo[t] # <<>> /\ o.op = "decision" /\ serial' = serial + 1
        /\ Section(t, <<Write("decision", v)>>, <<>>)
    BY DEF AddDecision, Doing, NewId
  <1>2. serial \in Nat /\ ListsInv /\ MaxDecisions \in Nat
    BY MemoryAssumption DEF MemoryInv, ListsInv
  <1>3. DecisionRow(d, serial + 1) /\ d.id = serial + 1 /\ d.owner = o.owner /\ d.ownerId = o.ownerId
    BY <1>2 DEF DecisionRow, DecisionFields, NewId
  <1>4. o.op \in PlainOps
    BY <1>1 DEF PlainOps
  <1>5. Calm(o) /\ Refers(o, disk["owner"], disk["fact"], TornFiles)
    BY <1>1, <1>4, HeadIsCalm, OutsideTransactions
  <1>6. (o.owner.base # 0 => o.ownerId # 0) /\ ("owner" \notin TornFiles => NamesOwner(o, disk["owner"]))
    BY <1>1, <1>5 DEF Calm, Apt, Refers
  <1> HIDE DEF d, o
  <1>7. (d.owner.base # 0 => d.ownerId # 0) /\ ("owner" \notin TornFiles => NamesOwner(d, disk["owner"]))
    BY <1>3, <1>6 DEF NamesOwner
  <1>8. DecisionList(v, serial + 1) /\ Keeps(disk["decision"], v)
    BY <1>2, <1>3, NewDecision
  <1>9. ASSUME NEW i \in DOMAIN Decisions
        PROVE  /\ Decisions[i].owner.base # 0 => Decisions[i].ownerId # 0
               /\ "owner" \notin TornFiles => NamesOwner(Decisions[i], disk["owner"])
    <2>1. /\ i \in DOMAIN disk["decision"] /\ Decisions[i].owner = disk["decision"][i].owner
          /\ Decisions[i].ownerId = disk["decision"][i].ownerId
      BY <1>2, DecisionsAre
    <2>2. /\ WholeAll(disk["decision"])
          /\ "owner" \notin TornFiles => NamedAll(disk["decision"], disk["owner"])
      BY <1>1, AtWork DEF MemoryInv, SaidInv, FilesInv
    <2> QED
      BY <2>1, <2>2 DEF WholeAll, NamedAll, NamesOwner
  <1>10. IsSeq(u) /\ \A i \in DOMAIN u : u[i] = d \/ (i \in DOMAIN Decisions /\ u[i] = Decisions[i])
    <2>1. IsSeq(Decisions)
      BY <1>2, DecisionsAre
    <2> QED
      BY <2>1, AppendIsSeq
  <1> HIDE DEF u
  <1>11. \A i \in DOMAIN v : \E k \in DOMAIN u : v[i] = u[k]
    BY <1>2, <1>10, CappedIsSeq
  <1> HIDE DEF v
  <1>12. WholeAll(v)
    BY <1>7, <1>9, <1>10, <1>11 DEF WholeAll
  <1>13. "owner" \notin TornFiles => NamedAll(v, disk["owner"])
    BY <1>7, <1>9, <1>10, <1>11 DEF NamedAll
  <1>14. Harmless("decision", v, serial')
    BY <1>1, <1>8, <1>12, <1>13 DEF Harmless
  <1> QED
    BY <1>1, <1>4, <1>14, FreeNothing, PlainShape DEF o

-----------------------------------------------------------------------------
\* The owners of decisions.

LEMMA OwnerFound ==
  ASSUME NEW p, NEW r, IsSeq(r)
  PROVE  /\ OwnerId(p, r) # 0 => OwnerId(p, r) \in DOMAIN r /\ r[OwnerId(p, r)] = p.base
         /\ OwnerId(p, r) = 0 => \A i \in DOMAIN r : r[i] # p.base
  <1> DEFINE at == {i \in DOMAIN r : r[i] = p.base}
  <1>1. at \subseteq Nat /\ 0 \notin at
    BY SeqFacts
  <1>2. OwnerId(p, r) = IF at = {} THEN 0 ELSE First(at)
    BY DEF OwnerId, Holding, OwnerStripSuffix
  <1>3. at # {} => First(at) \in at
    BY <1>1, FirstIs
  <1> QED
    BY <1>1, <1>2, <1>3

LEMMA OwnerAdded ==
  ASSUME NEW p, NEW r, IsSeq(r)
  PROVE  Extends(r, WithOwner(p, r)) /\ OwnerId(p, WithOwner(p, r)) # 0
  <1>1. CASE OwnerId(p, r) # 0
    BY <1>1, NothingChanges DEF WithOwner
  <1>2. CASE OwnerId(p, r) = 0
    <2> DEFINE s == Append(r, p.base)
    <2>1. WithOwner(p, r) = s
      BY <1>2 DEF WithOwner, OwnerStripSuffix
    <2>2. /\ IsSeq(s) /\ Len(s) = Len(r) + 1
          /\ \A i \in DOMAIN s : \/ i \in DOMAIN r /\ s[i] = r[i]
                                 \/ i = Len(r) + 1 /\ s[i] = p.base
      BY AppendIsSeq
    <2>3. /\ DOMAIN s = 1..(Len(r) + 1) /\ DOMAIN r = 1..Len(r) /\ Len(r) \in Nat
      BY <2>2, SeqFacts
    <2> HIDE DEF s
    <2>4. Extends(r, s)
      BY <2>2, <2>3 DEF Extends
    <2>5. Len(r) + 1 \in DOMAIN s /\ s[Len(r) + 1] = p.base
      BY <2>2, <2>3
    <2>6. OwnerId(p, s) # 0
      BY <2>2, <2>5, OwnerFound
    <2> QED
      BY <2>1, <2>4, <2>6
  <1> QED
    BY <1>1, <1>2

\* The row of one acquisition.
LEMMA CalmOne ==
  \A o : /\ Calm(o) => CalmRow(<<o>>)
         /\ \A owners, facts, lost : Refers(o, owners, facts, lost) => RefersAll(<<o>>, owners, facts, lost)
  <1> TAKE o
  <1> DEFINE s == <<o>>
  <1>1. IsSeq(s) /\ DOMAIN s = {1} /\ s[1] = o
    BY OneIsSeq
  <1> HIDE DEF s
  <1>2. Calm(o) => CalmRow(s)
    BY <1>1 DEF CalmRow
  <1>3. \A owners, facts, lost : Refers(o, owners, facts, lost) => RefersAll(s, owners, facts, lost)
    BY <1>1 DEF RefersAll
  <1> QED
    BY <1>2, <1>3 DEF s

LEMMA NobodyHas == Nobody.base = 0
  <1>1. \A b, s : Person(b, s).base = b
    BY DEF Person
  <1> QED
    BY <1>1, Zenon DEF Nobody

LEMMA OwnerShape ==
  ASSUME MemoryInv, NEW t \in Thread, ForOwner(t)
  PROVE  Shape(t)
  <1> DEFINE o == Next1(t)
             p == o.owner
             registry == WithOwner(p, disk["owner"])
             id == OwnerId(p, registry)
             then == [o EXCEPT !.op = "decision"]
             owned == [then EXCEPT !.ownerId = id]
             u == <<Write("owner", registry)>>
             w == IF p = Nobody THEN <<>> ELSE u
             next == IF p = Nobody THEN then ELSE owned
  <1>1. saving = <<>> /\ todo[t] # <<>> /\ o.op = "owner" /\ serial' = serial
    BY DEF ForOwner, Doing
  <1>2. Section(t, w, <<next>>)
    BY DEF ForOwner
  <1>3. o.op \in PlainOps
    BY <1>1 DEF PlainOps
  <1>4. Plain(o) /\ {"owner", "ownerId"} \subseteq DOMAIN o /\ o.ownerId = 0
    <2>1. Calm(o)
      BY <1>1, <1>3, HeadIsCalm, OutsideTransactions
    <2> HIDE DEF o
    <2> QED
      BY <1>1, <2>1 DEF Calm, Apt
  <1>5. IsSeq(disk["owner"])
    BY DEF MemoryInv, SaidInv, FilesInv
  <1>6. Extends(disk["owner"], registry) /\ IsSeq(registry) /\ id # 0
    BY <1>5, OwnerAdded DEF Extends
  <1>7. id \in DOMAIN registry /\ registry[id] = p.base
    BY <1>6, OwnerFound
  <1>8. p = Nobody => p.base = 0
    BY NobodyHas
  <1>9. /\ DOMAIN then = DOMAIN o /\ then.op = "decision" /\ then.owner = p /\ then.ownerId = 0
        /\ DOMAIN owned = DOMAIN o /\ owned.op = "decision" /\ owned.owner = p /\ owned.ownerId = id
    <2> HIDE DEF o, id
    <2> QED
      BY <1>4 DEF Plain, p
  <1> HIDE DEF o, p, registry, id, then, owned
  <1>10. /\ DOMAIN next = DOMAIN o /\ next.op = "decision" /\ next.owner = p
         /\ next.ownerId = IF p = Nobody THEN 0 ELSE id
    BY <1>9
  <1>11. Steady(u, serial') /\ Steady(<<>>, serial')
    <2>1. Harmless("owner", registry, serial')
      BY <1>6 DEF Harmless
    <2> QED
      BY <2>1, SteadyWrite, SteadyNothing
  <1>12. After(u, disk, "owner") = registry
    <2>1. u # <<>> /\ u[1] = Write("owner", registry)
      BY OneIsSeq
    <2> HIDE DEF u
    <2> QED
      BY <2>1 DEF After, Write
  <1> HIDE DEF u
  <1>13. Steady(w, serial') /\ (p # Nobody => After(w, disk, "owner") = registry)
    BY <1>11, <1>12
  <1> HIDE DEF w, next
  <1>14. Calm(next)
    <2>1. "decision" \in PlainOps
      BY DEF PlainOps
    <2>2. Plain(next)
      BY <1>4, <1>10, <2>1, OutsideTransactions DEF Plain
    <2>3. Apt(next)
      BY <1>4, <1>6, <1>8, <1>10 DEF Apt
    <2> QED
      BY <1>10, <2>2, <2>3 DEF Calm
  <1>15. Refers(next, After(w, disk, "owner"), After(w, disk, "fact"), TornFiles)
    BY <1>7, <1>10, <1>13 DEF Refers, NamesOwner
  <1>16. CalmRow(<<next>>) /\ RefersAll(<<next>>, After(w, disk, "owner"), After(w, disk, "fact"), TornFiles)
    BY <1>14, <1>15, CalmOne
  <1> DEFINE more == <<next>>
  <1>17. serial' \in {serial, serial + 1} /\ Section(t, w, more) /\ CalmRow(more)
         /\ RefersAll(more, After(w, disk, "owner"), After(w, disk, "fact"), TornFiles)
    BY <1>1, <1>2, <1>16
  <1> HIDE DEF more
  <1> QED
    BY <1>1, <1>13, <1>3, <1>17, CalmShape DEF o

-----------------------------------------------------------------------------
\* Facts, and what they resolve.

LEMMA CalmConcat ==
  ASSUME NEW r, CalmRow(r), NEW s, CalmRow(s)
  PROVE  /\ CalmRow(r \o s)
         /\ \A owners, facts, lost :
              RefersAll(r, owners, facts, lost) /\ RefersAll(s, owners, facts, lost)
                => RefersAll(r \o s, owners, facts, lost)
  <1>1. IsSeq(r) /\ IsSeq(s)
    BY DEF CalmRow
  <1>2. /\ IsSeq(r \o s)
        /\ \A i \in DOMAIN (r \o s) : \/ i \in DOMAIN r /\ (r \o s)[i] = r[i]
                                      \/ /\ i > Len(r) /\ i - Len(r) \in DOMAIN s
                                         /\ (r \o s)[i] = s[i - Len(r)]
    BY <1>1, ConcatIsSeq
  <1>3. CalmRow(r \o s)
    BY <1>2 DEF CalmRow
  <1>4. ASSUME NEW owners, NEW facts, NEW lost,
               RefersAll(r, owners, facts, lost), RefersAll(s, owners, facts, lost)
        PROVE  RefersAll(r \o s, owners, facts, lost)
    BY <1>2, <1>4 DEF RefersAll
  <1> QED
    BY <1>3, <1>4

LEMMA FactAdded ==
  ASSUME NEW s, FactList(s), NEW f, "id" \in DOMAIN f
  PROVE  LET v == Append(s, f) IN FactList(v) /\ KeepsIds(s, v) /\ IdIn(f.id, v)
  <1> DEFINE v == Append(s, f)
  <1>1. IsSeq(s) /\ \A i \in DOMAIN s : "id" \in DOMAIN s[i]
    BY DEF FactList
  <1>2. /\ IsSeq(v) /\ Len(v) = Len(s) + 1
        /\ \A i \in DOMAIN v : \/ i \in DOMAIN s /\ v[i] = s[i]
                               \/ i = Len(s) + 1 /\ v[i] = f
    BY <1>1, AppendIsSeq
  <1>3. DOMAIN v = 1..(Len(s) + 1) /\ DOMAIN s = 1..Len(s) /\ Len(s) \in Nat
    BY <1>1, <1>2, SeqFacts
  <1> HIDE DEF v
  <1>4. FactList(v)
    BY <1>1, <1>2 DEF FactList
  <1>5. KeepsIds(s, v)
    <2> SUFFICES ASSUME NEW i \in DOMAIN s PROVE IdIn(s[i].id, v)
      BY DEF KeepsIds
    <2>1. i \in DOMAIN v /\ v[i] = s[i]
      BY <1>2, <1>3
    <2> QED
      BY <2>1 DEF IdIn
  <1>6. Len(s) + 1 \in DOMAIN v /\ v[Len(s) + 1] = f
    BY <1>2, <1>3
  <1>7. IdIn(f.id, v)
    BY <1>6 DEF IdIn
  <1> QED
    BY <1>4, <1>5, <1>7 DEF v

LEMMA AddFactShape ==
  ASSUME MemoryInv, NEW t \in Thread, AddFact(t)
  PROVE  Shape(t)
  <1> DEFINE f == [id |-> NewId, subject |-> Next1(t).subject, type |-> Next1(t).type,
                   value |-> Next1(t).value]
             v == Append(disk["fact"], f)
             complete == Completes(Next1(t).type, Next1(t).value)
             toDecisions == [op |-> "decisionLinks", fact |-> f]
             toQuestions == [op |-> "questionLinks", fact |-> f]
             first == IF complete THEN <<toDecisions>> ELSE <<>>
             w == <<Write("fact", v)>>
             more == first \o <<toQuestions>>
  <1>1. /\ saving = <<>> /\ todo[t] # <<>> /\ Next1(t).op = "fact" /\ serial' = serial + 1
        /\ Section(t, w, more)
    BY DEF AddFact, Doing, NewId
  <1>2. "id" \in DOMAIN f
    OBVIOUS
  <1> HIDE DEF f, complete
  <1>3. Free(toDecisions)
    BY DEF Free, Calm, Apt, Carriers, Plain, TransactionOps
  <1>4. Calm(toQuestions)
    BY DEF Calm, Apt, Plain, TransactionOps
  <1>5. FactList(v) /\ KeepsIds(disk["fact"], v) /\ IdIn(f.id, v)
    BY <1>2, FactAdded DEF MemoryInv, SaidInv, FilesInv
  <1>6. toQuestions.op = "questionLinks" /\ toQuestions.fact = f
    OBVIOUS
  <1> HIDE DEF v, toDecisions, toQuestions
  <1>7. w # <<>> /\ w[1] = Write("fact", v)
    BY OneIsSeq
  <1>8. Steady(w, serial')
    <2>1. Harmless("fact", v, serial')
      BY <1>5 DEF Harmless
    <2> QED
      BY <2>1, SteadyWrite
  <1> HIDE DEF w
  <1>9. After(w, disk, "fact") = v
    BY <1>7 DEF After, Write
  <1>10. Refers(toQuestions, After(w, disk, "owner"), After(w, disk, "fact"), TornFiles)
    BY <1>5, <1>6, <1>9 DEF Refers
  <1>11. CalmRow(first) /\ RefersAll(first, After(w, disk, "owner"), After(w, disk, "fact"), TornFiles)
    <2>1. FreeRow(first)
      BY <1>3, FreeOne, FreeNothing
    <2> HIDE DEF first
    <2> QED
      BY <2>1, FreeIsCalm, FreeRefers
  <1> HIDE DEF first
  <1>12. /\ CalmRow(<<toQuestions>>)
         /\ RefersAll(<<toQuestions>>, After(w, disk, "owner"), After(w, disk, "fact"), TornFiles)
    BY <1>4, <1>10, CalmOne
  <1>13. CalmRow(more) /\ RefersAll(more, After(w, disk, "owner"), After(w, disk, "fact"), TornFiles)
    BY <1>11, <1>12, CalmConcat
  <1> HIDE DEF more
  <1>14. Next1(t).op \in PlainOps /\ serial' \in {serial, serial + 1}
    BY <1>1 DEF PlainOps
  <1> QED
    BY <1>1, <1>8, <1>13, <1>14, CalmShape

LEMMA LinkDecisionsShape ==
  ASSUME MemoryInv, NEW t \in Thread, LinkDecisions(t)
  PROVE  Shape(t)
  <1> DEFINE f == Next1(t).fact
             at == {i \in DOMAIN Decisions : Decisions[i].subject = f.subject /\ Decisions[i].status = "OPEN"}
             open == Those(Decisions, LAMBDA d : d.subject = f.subject /\ d.status = "OPEN")
             more == [i \in DOMAIN open |-> [op |-> "markDone", id |-> open[i].id, fact |-> f.id]]
  <1>1. /\ saving = <<>> /\ todo[t] # <<>> /\ Next1(t).op = "decisionLinks" /\ serial' = serial
        /\ Section(t, <<>>, more)
    BY DEF LinkDecisions, Doing
  <1>2. Cardinality(at) \in Nat
    BY DecisionsAre, PlacesCounted DEF MemoryInv
  <1>3. DOMAIN open = 1..Cardinality(at)
    BY DEF Those, Holding
  <1> HIDE DEF at, open
  <1>4. FreeRow(more)
    <2>1. more = [i \in 1..Cardinality(at) |-> more[i]]
      BY <1>3
    <2>2. \A x, y : Free([op |-> "markDone", id |-> x, fact |-> y])
      BY DEF Free, Calm, Apt, Carriers, Plain, TransactionOps
    <2>3. \A i \in 1..Cardinality(at) : Free(more[i])
      BY <1>3, <2>2
    <2> HIDE DEF more
    <2> QED
      BY <1>2, <2>1, <2>3, FreeList
  <1> HIDE DEF more
  <1> QED
    BY <1>1, <1>4, QuietShape DEF PlainOps

LEMMA LinkQuestionsShape ==
  ASSUME MemoryInv, NEW t \in Thread, LinkQuestions(t)
  PROVE  Shape(t)
  <1> DEFINE o == Next1(t)
             f == o.fact
             at == {i \in DOMAIN Questions : Questions[i].subject = f.subject /\ ~IsResolved(Questions[i])
                                               /\ FactTypeMatches(Questions[i], f.type)}
             open == Those(Questions, LAMBDA q : q.subject = f.subject /\ ~IsResolved(q)
                                                   /\ FactTypeMatches(q, f.type))
             mark(x) == [op |-> "markAnswered", id |-> x, fact |-> f.id]
             more == [i \in DOMAIN open |-> mark(open[i].id)]
  <1>1. /\ saving = <<>> /\ todo[t] # <<>> /\ o.op = "questionLinks" /\ serial' = serial
        /\ Section(t, <<>>, more)
    BY DEF LinkQuestions, Doing
  <1>2. Cardinality(at) \in Nat
    BY QuestionsAre, PlacesCounted DEF MemoryInv
  <1>3. DOMAIN open = 1..Cardinality(at)
    BY DEF Those, Holding
  <1>4. o.op \in PlainOps /\ serial' \in {serial, serial + 1}
    BY <1>1 DEF PlainOps
  <1>5. "fact" \notin TornFiles => IdIn(f.id, disk["fact"])
    BY <1>1, <1>4, HeadIsCalm, OutsideTransactions DEF Refers
  <1> HIDE DEF at, open, o
  <1>6. \A x : Calm(mark(x))
    BY DEF Calm, Apt, Plain, TransactionOps
  <1>7. \A x : Refers(mark(x), disk["owner"], disk["fact"], TornFiles)
    BY <1>5 DEF Refers
  <1>8. \A i \in 1..Cardinality(at) : more[i] = mark(open[i].id)
    BY <1>3
  <1>9. more = [i \in 1..Cardinality(at) |-> more[i]] /\ DOMAIN more = 1..Cardinality(at)
    BY <1>3
  <1> HIDE DEF more, mark
  <1>10. CalmRow(more)
    BY <1>2, <1>6, <1>8, <1>9, CalmList
  <1>11. RefersAll(more, disk["owner"], disk["fact"], TornFiles)
    BY <1>7, <1>8, <1>9 DEF RefersAll
  <1>12. After(<<>>, disk, "owner") = disk["owner"] /\ After(<<>>, disk, "fact") = disk["fact"]
    BY NotWritten
  <1>13. Steady(<<>>, serial')
    BY SteadyNothing
  <1>14. /\ Section(t, <<>>, more)
         /\ RefersAll(more, After(<<>>, disk, "owner"), After(<<>>, disk, "fact"), TornFiles)
    BY <1>1, <1>11, <1>12
  <1> QED
    BY <1>1, <1>4, <1>10, <1>13, <1>14, CalmShape DEF o

-----------------------------------------------------------------------------
\* The acquisitions of a transaction.

LEMMA NamesShape ==
  ASSUME MemoryInv, NEW t \in Thread, TransactionNames(t)
  PROVE  Shape(t)
  <1> DEFINE tx == Next1(t)
             names == <<NameOf(tx.source), NameOf(tx.target)>>
             o == [tx EXCEPT !.op = "move fact", !.names = names]
  <1>1. /\ saving = <<>> /\ todo[t] # <<>> /\ tx.op = "names" /\ serial' = serial
        /\ Section(t, <<>>, <<o>>)
    BY DEF TransactionNames, Doing
  <1>2. tx.op \in TransactionOps
    BY <1>1 DEF TransactionOps
  <1>3. {"op", "approval"} \subseteq DOMAIN tx
    BY <1>1, <1>2, HeadIsTransaction DEF InTransaction
  <1> HIDE DEF tx, names
  <1>4. o.op \in TransactionOps /\ DOMAIN o = DOMAIN tx /\ o.approval = tx.approval
    BY <1>3 DEF TransactionOps
  <1> HIDE DEF o
  <1> QED
    BY <1>1, <1>2, <1>4, SteadyNothing, TransactionShape DEF tx

\* What becomes of a list of records that the transaction moves.
Moved(t, loaded) ==
  Where(loaded, LAMBDA r : r.subject = Next1(t).source, LAMBDA r : [r EXCEPT !.subject = Next1(t).target])

LEMMA MoveShape ==
  ASSUME MemoryInv, NEW t \in Thread, NEW op, NEW file, NEW loaded, NEW after,
         op \in TransactionOps, after \in TransactionOps,
         Doing(t, op) => Harmless(file, Moved(t, loaded), serial),
         MoveRecords(t, op, file, loaded, after)
  PROVE  Shape(t)
  <1> DEFINE tx == Next1(t)
             mine(r) == r.subject = tx.source
             u == <<Write(file, Moved(t, loaded))>>
             w == IF Holding(loaded, mine) = {} THEN <<>> ELSE u
             o == [tx EXCEPT !.op = after]
  <1>1. /\ saving = <<>> /\ todo[t] # <<>> /\ tx.op = op /\ serial' = serial
        /\ Section(t, w, <<o>>) /\ Doing(t, op)
    BY DEF MoveRecords, Doing, Moved
  <1>2. Steady(u, serial') /\ Steady(<<>>, serial')
    BY <1>1, SteadyWrite, SteadyNothing
  <1>3. {"op", "approval"} \subseteq DOMAIN tx
    BY <1>1, HeadIsTransaction DEF InTransaction
  <1> HIDE DEF tx, u
  <1>4. o.op \in TransactionOps /\ DOMAIN o = DOMAIN tx /\ o.approval = tx.approval
    BY <1>3
  <1>5. Steady(w, serial')
    BY <1>2
  <1> HIDE DEF o, w
  <1> QED
    BY <1>1, <1>4, <1>5, TransactionShape DEF tx

LEMMA MoveFactsShape ==
  ASSUME MemoryInv, NEW t \in Thread, MoveFacts(t)
  PROVE  Shape(t)
  <1> DEFINE s == disk["fact"]
             v == Moved(t, s)
             moved(r) == [r EXCEPT !.subject = Next1(t).target]
  <1>1. FactList(s)
    BY DEF MemoryInv, SaidInv, FilesInv
  <1>2. IsSeq(s) /\ DOMAIN s = 1..Len(s) /\ Len(s) \in Nat
    BY <1>1, SeqFacts DEF FactList
  <1>3. v = [i \in 1..Len(s) |-> v[i]] /\ DOMAIN v = DOMAIN s
    BY <1>2 DEF Moved, Where
  <1>4. \A i \in DOMAIN s : v[i] \in {s[i], moved(s[i])}
    BY DEF Moved, Where
  <1>5. \A r : "id" \in DOMAIN r => "id" \in DOMAIN moved(r) /\ moved(r).id = r.id
    OBVIOUS
  <1> HIDE DEF s, v, moved
  <1>6. \A i \in DOMAIN s : "id" \in DOMAIN v[i] /\ v[i].id = s[i].id
    BY <1>1, <1>4, <1>5 DEF FactList
  <1>7. IsSeq(v)
    BY <1>2, <1>3, ListIsSeq
  <1>8. FactList(v) /\ KeepsIds(s, v)
    BY <1>3, <1>6, <1>7 DEF FactList, KeepsIds, IdIn
  <1>9. Harmless("fact", v, serial)
    BY <1>8 DEF Harmless, s
  <1>10. "move fact" \in TransactionOps /\ "move question" \in TransactionOps
    BY Zenon DEF TransactionOps
  <1>11. /\ MoveRecords(t, "move fact", "fact", disk["fact"], "move question")
         /\ Harmless("fact", Moved(t, disk["fact"]), serial)
    BY <1>9, Zenon DEF v, s, MoveFacts
  <1> QED
    BY <1>10, <1>11, MoveShape, Zenon

LEMMA MoveQuestionsShape ==
  ASSUME MemoryInv, NEW t \in Thread, MoveQuestions(t)
  PROVE  Shape(t)
  <1> DEFINE v == Moved(t, Questions)
             moved(r) == [r EXCEPT !.subject = Next1(t).target]
  <1>1. /\ v = [i \in DOMAIN Questions |-> v[i]]
        /\ \A i \in DOMAIN Questions : v[i] \in {Questions[i], moved(Questions[i])}
    BY DEF Moved, Where
  <1>2. \A q : LoadedQuestion(q) /\ Known(q, disk["fact"], disk["cluster"], TornFiles)
          => LoadedQuestion(moved(q)) /\ Known(moved(q), disk["fact"], disk["cluster"], TornFiles)
    BY MarkedKnown
  <1> HIDE DEF v, moved
  <1>3. ASSUME NEW i \in DOMAIN Questions
        PROVE  LoadedQuestion(v[i]) /\ Known(v[i], disk["fact"], disk["cluster"], TornFiles)
    BY <1>1, <1>2, QuestionsKnown
  <1>4. Harmless("question", v, serial)
    BY <1>1, <1>3, SameQuestions DEF Harmless
  <1>5. "move question" \in TransactionOps /\ "move decision" \in TransactionOps
    BY Zenon DEF TransactionOps
  <1>6. /\ MoveRecords(t, "move question", "question", Questions, "move decision")
        /\ Harmless("question", Moved(t, Questions), serial)
    BY <1>4, Zenon DEF v, MoveQuestions
  <1> QED
    BY <1>5, <1>6, MoveShape, Zenon

LEMMA MoveDecisionsShape ==
  ASSUME MemoryInv, NEW t \in Thread, MoveDecisions(t)
  PROVE  Shape(t)
  <1> DEFINE v == Moved(t, Decisions)
             moved(r) == [r EXCEPT !.subject = Next1(t).target]
  <1>1. ListsInv /\ serial \in Nat
    BY DEF MemoryInv, ListsInv
  <1>2. /\ DOMAIN Decisions = DOMAIN disk["decision"]
        /\ \A i \in DOMAIN disk["decision"] :
             /\ DecisionRow(Decisions[i], serial) /\ Decisions[i].status = disk["decision"][i].status
             /\ Decisions[i].owner = disk["decision"][i].owner
             /\ Decisions[i].ownerId = disk["decision"][i].ownerId
    BY <1>1, DecisionsAre
  <1>3. DOMAIN Decisions = DOMAIN disk["decision"]
    BY <1>2
  <1>4. /\ v = [i \in DOMAIN disk["decision"] |-> v[i]]
        /\ \A i \in DOMAIN disk["decision"] : v[i] \in {moved(Decisions[i]), Decisions[i]}
    BY <1>3 DEF Moved, Where
  <1>5. \A d : DecisionFields \subseteq DOMAIN d =>
          /\ DOMAIN moved(d) = DOMAIN d /\ moved(d).id = d.id /\ moved(d).status = d.status
          /\ moved(d).owner = d.owner /\ moved(d).ownerId = d.ownerId
    BY DEF DecisionFields
  <1> HIDE DEF v, moved
  <1>6. ASSUME NEW i \in DOMAIN disk["decision"]
        PROVE  /\ DecisionFields \subseteq DOMAIN v[i] /\ v[i].id = Decisions[i].id
               /\ disk["decision"][i].status = "DONE" => v[i].status = "DONE"
               /\ v[i].owner = disk["decision"][i].owner /\ v[i].ownerId = disk["decision"][i].ownerId
    BY <1>2, <1>4, <1>5 DEF DecisionRow
  <1>7. ASSUME Doing(t, "move decision") PROVE Harmless("decision", v, serial)
    <2>1. saving = <<>> /\ todo[t] # <<>>
      BY <1>7, Zenon DEF Doing
    <2>2. serial \in Nat /\ serial <= serial
      BY <1>1
    <2> QED
      BY <1>4, <1>6, <2>1, <2>2, HarmlessDecisions
  <1>8. "move decision" \in TransactionOps /\ "registry" \in TransactionOps
    BY Zenon DEF TransactionOps
  <1>9. /\ MoveRecords(t, "move decision", "decision", Decisions, "registry")
        /\ Doing(t, "move decision") => Harmless("decision", Moved(t, Decisions), serial)
    BY <1>7, Zenon DEF v, MoveDecisions
  <1> QED
    BY <1>8, <1>9, MoveShape, Zenon

LEMMA RegistryShape ==
  ASSUME MemoryInv, NEW t \in Thread, MergeRegistry(t)
  PROVE  Shape(t)
  <1> DEFINE tx == Next1(t)
             s == disk["subject"]
             at == Holding(s, LAMBDA r : r.id = tx.source)
             k == First(at)
             v == [s EXCEPT ![k].merged = tx.target]
             u == <<Write("subject", v)>>
             w == IF at = {} THEN <<>> ELSE u
             o == [tx EXCEPT !.op = "validate", !.ok = at # {}]
  <1>1. /\ saving = <<>> /\ todo[t] # <<>> /\ tx.op = "registry" /\ serial' = serial
        /\ Section(t, w, <<o>>)
    BY DEF MergeRegistry, Doing
  <1>2. tx.op \in TransactionOps
    BY <1>1 DEF TransactionOps
  <1>3. {"op", "approval"} \subseteq DOMAIN tx
    BY <1>1, <1>2, HeadIsTransaction DEF InTransaction
  <1>4. SubjectList(s, serial)
    BY <1>1, SubjectsNow
  <1> HIDE DEF k, at
  <1>5. IsSeq(s) /\ DOMAIN s = 1..Len(s) /\ Len(s) \in Nat
    BY <1>4, SeqFacts DEF SubjectList
  <1>6. DOMAIN v = DOMAIN s /\ v = [i \in 1..Len(s) |-> v[i]]
    BY <1>5
  <1>7. ASSUME NEW i \in DOMAIN s
        PROVE  {"id", "name"} \subseteq DOMAIN v[i] /\ v[i].id = s[i].id /\ v[i].name = s[i].name
    <2>1. v[i] = IF i = k THEN [s[i] EXCEPT !.merged = tx.target] ELSE s[i]
      OBVIOUS
    <2>2. {"id", "name"} \subseteq DOMAIN s[i]
      BY <1>4 DEF SubjectList
    <2> HIDE DEF v, s
    <2> QED
      BY <2>1, <2>2
  <1> HIDE DEF tx, s, v
  <1>8. IsSeq(v)
    BY <1>5, <1>6, ListIsSeq
  <1>9. SubjectList(v, serial) /\ SameNames(s, v)
    BY <1>4, <1>6, <1>7, <1>8 DEF SubjectList, SameNames, KeepsNames
  <1>10. Harmless("subject", v, serial')
    BY <1>1, <1>9 DEF Harmless, s
  <1>11. Steady(u, serial') /\ Steady(<<>>, serial')
    BY <1>10, SteadyWrite, SteadyNothing
  <1> HIDE DEF u
  <1>12. Steady(w, serial')
    BY <1>11
  <1> HIDE DEF w
  <1>13. o.op \in TransactionOps /\ DOMAIN o = DOMAIN tx /\ o.approval = tx.approval
    BY <1>3 DEF TransactionOps
  <1> HIDE DEF o
  <1> QED
    BY <1>1, <1>2, <1>12, <1>13, TransactionShape DEF tx

LEMMA ValidateShape ==
  ASSUME MemoryInv, NEW t \in Thread, Validate(t)
  PROVE  Shape(t)
  <1> DEFINE tx == Next1(t)
             ok == tx.ok /\ MergeErrors(disk["subject"]) = {}
             o == [tx EXCEPT !.op = IF ok THEN "history" ELSE "settle", !.ok = ok]
  <1>1. /\ saving = <<>> /\ todo[t] # <<>> /\ tx.op = "validate" /\ serial' = serial
        /\ Section(t, <<>>, <<o>>)
    BY DEF Validate, Doing
  <1>2. tx.op \in TransactionOps
    BY <1>1 DEF TransactionOps
  <1>3. {"op", "approval"} \subseteq DOMAIN tx
    BY <1>1, <1>2, HeadIsTransaction DEF InTransaction
  <1> HIDE DEF tx, ok
  <1>4. o.op \in TransactionOps /\ DOMAIN o = DOMAIN tx /\ o.approval = tx.approval
    BY <1>3 DEF TransactionOps
  <1> HIDE DEF o
  <1> QED
    BY <1>1, <1>2, <1>4, SteadyNothing, TransactionShape DEF tx

LEMMA HistoryShape ==
  ASSUME MemoryInv, NEW t \in Thread, AppendHistory(t)
  PROVE  Shape(t)
  <1> DEFINE tx == Next1(t)
             record == [id |-> NewId, source |-> tx.source, target |-> tx.target,
                        recommendation |-> IF 0 \in {tx.names[1], tx.names[2]} THEN "IGNORE"
                                           ELSE MergeRecommendation(tx.names[1], tx.names[2])]
             v == Append(disk["history"], record)
             o == [tx EXCEPT !.op = "settle"]
  <1>1. /\ saving = <<>> /\ todo[t] # <<>> /\ tx.op = "history" /\ serial' = serial + 1
        /\ Section(t, <<Write("history", v)>>, <<o>>)
    BY DEF AppendHistory, Doing, NewId
  <1>2. tx.op \in TransactionOps
    BY <1>1 DEF TransactionOps
  <1>3. {"op", "approval"} \subseteq DOMAIN tx
    BY <1>1, <1>2, HeadIsTransaction DEF InTransaction
  <1> HIDE DEF tx, v
  <1>5. Harmless("history", v, serial')
    BY DEF Harmless
  <1>6. Steady(<<Write("history", v)>>, serial')
    BY <1>5, SteadyWrite
  <1>4. o.op \in TransactionOps /\ DOMAIN o = DOMAIN tx /\ o.approval = tx.approval
    BY <1>3 DEF TransactionOps
  <1> HIDE DEF o
  <1> QED
    BY <1>1, <1>2, <1>4, <1>6, TransactionShape DEF tx

-----------------------------------------------------------------------------
\* The automatic merge.

LEMMA AutoPairsFree == \A pairs : FreeRow(AutoPairs(pairs))
  <1> TAKE pairs
  <1> DEFINE o == [op |-> "autoPair", pairs |-> pairs]
  <1>1. Free(o)
    BY DEF Free, Calm, Apt, Carriers, Plain, TransactionOps
  <1> HIDE DEF o
  <1>2. FreeRow(<<o>>) /\ FreeRow(<<>>)
    BY <1>1, FreeOne, FreeNothing
  <1> QED
    BY <1>2 DEF AutoPairs, o

LEMMA AutoPlanShape ==
  ASSUME MemoryInv, NEW t \in Thread, AutoPlan(t)
  PROVE  Shape(t)
  <1> DEFINE plan == {p \in MergePlan(disk["subject"]) : MergeConfidence(p.source, p.target) >= 95}
             o == [op |-> "autoIds", plan |-> plan]
             more == IF AutoMerge THEN <<o>> ELSE <<>>
  <1>1. /\ saving = <<>> /\ todo[t] # <<>> /\ Next1(t).op = "auto" /\ serial' = serial
        /\ Section(t, <<>>, more)
    BY DEF AutoPlan, Doing
  <1> HIDE DEF plan
  <1>2. Free(o)
    BY DEF Free, Calm, Apt, Carriers, Plain, TransactionOps
  <1> HIDE DEF o
  <1>3. FreeRow(more)
    BY <1>2, FreeOne, FreeNothing
  <1> HIDE DEF more
  <1> QED
    BY <1>1, <1>3, QuietShape DEF PlainOps

LEMMA AutoIdsShape ==
  ASSUME MemoryInv, NEW t \in Thread, AutoIds(t)
  PROVE  Shape(t)
  <1> DEFINE id(n) == disk["subject"][Final(Holding(disk["subject"], LAMBDA s : s.name = n))].id
             more == AutoPairs({[source |-> id(p.source), target |-> id(p.target)] : p \in Next1(t).plan})
  <1>1. /\ saving = <<>> /\ todo[t] # <<>> /\ Next1(t).op = "autoIds" /\ serial' = serial
        /\ Section(t, <<>>, more)
    BY DEF AutoIds, Doing
  <1>2. FreeRow(more)
    BY AutoPairsFree
  <1> HIDE DEF more
  <1> QED
    BY <1>1, <1>2, QuietShape DEF PlainOps

LEMMA AutoPairShape ==
  ASSUME MemoryInv, NEW t \in Thread, AutoPair(t)
  PROVE  Shape(t)
  <1>1. PICK p \in Next1(t).pairs :
          Section(t, <<>>, (IF ResolveMerge(p.source, disk["subject"]) # p.source THEN <<>>
                            ELSE <<[op |-> "approve", source |-> p.source, target |-> p.target,
                                    execute |-> AutoExecute]>>)
                           \o AutoPairs(Next1(t).pairs \ {p}))
    BY DEF AutoPair
  <1> DEFINE merged == ResolveMerge(p.source, disk["subject"]) # p.source
             o == [op |-> "approve", source |-> p.source, target |-> p.target, execute |-> AutoExecute]
             first == IF merged THEN <<>> ELSE <<o>>
             more == first \o AutoPairs(Next1(t).pairs \ {p})
  <1>2. /\ saving = <<>> /\ todo[t] # <<>> /\ Next1(t).op = "autoPair" /\ serial' = serial
        /\ Section(t, <<>>, more)
    BY <1>1 DEF AutoPair, Doing
  <1> HIDE DEF merged
  <1>3. Free(o)
    BY DEF Free, Calm, Apt, Carriers, Plain, TransactionOps
  <1> HIDE DEF o
  <1>4. FreeRow(first)
    BY <1>3, FreeOne, FreeNothing
  <1> HIDE DEF first
  <1>5. FreeRow(more)
    BY <1>4, AutoPairsFree, FreeConcat
  <1> HIDE DEF more
  <1> QED
    BY <1>2, <1>5, QuietShape DEF PlainOps

-----------------------------------------------------------------------------
\* The calls.

LEMMA ExtractionFree ==
  ASSUME NEW a \in Analysis
  PROVE  FreeRow(Extraction(a))
  <1> DEFINE saved == Those(a.actions, LAMBDA x : DecisionConfidence(x) >= 5)
             at == {i \in DOMAIN a.actions : DecisionConfidence(a.actions[i]) >= 5}
             r1 == IF a.summary THEN <<[op |-> "summary"]>> ELSE <<>>
             r2 == [i \in DOMAIN a.questions |-> QuestionOp(a.questions[i])]
             r3 == <<[op |-> "completed", texts |-> a.completed]>>
             r4 == [i \in DOMAIN saved |-> DecisionOp(saved[i])]
             r5 == <<[op |-> "transition", to |-> Transition(a.signals)]>>
             r6 == [i \in DOMAIN a.facts |-> FactOp(a.facts[i])]
  <1>1. Extraction(a) = r1 \o r2 \o r3 \o r4 \o r5 \o r6
    BY DEF Extraction
  <1>2. IsSeq(a.questions) /\ IsSeq(a.actions) /\ IsSeq(a.facts)
    <2>1. a.questions \in Seq(Text)
      BY DEF Analysis
    <2>2. a.actions \in Seq([text : Text, keyword : BOOLEAN, owner : Owner, due : BOOLEAN])
      BY DEF Analysis
    <2>3. a.facts \in Seq([name : Nat, type : STRING, value : SUBSET STRING])
      BY DEF Analysis
    <2>4. IsSeq(a.questions)
      BY <2>1, SomeSeq
    <2>5. IsSeq(a.actions)
      BY <2>2, SomeSeq
    <2>6. IsSeq(a.facts)
      BY <2>3, SomeSeq
    <2> QED
      BY <2>4, <2>5, <2>6
  <1>3. /\ Len(a.questions) \in Nat /\ DOMAIN a.questions = 1..Len(a.questions)
        /\ Len(a.facts) \in Nat /\ DOMAIN a.facts = 1..Len(a.facts)
        /\ Cardinality(at) \in Nat /\ DOMAIN saved = 1..Cardinality(at)
    <2>1. Cardinality(at) \in Nat
      BY <1>2, PlacesCounted
    <2>2. DOMAIN saved = 1..Cardinality(at)
      BY DEF Those, Holding
    <2> QED
      BY <1>2, <2>1, <2>2, SeqFacts
  <1> HIDE DEF at, saved
  <1>4. FreeRow(r1) /\ FreeRow(r3) /\ FreeRow(r5)
    <2>1. Free([op |-> "summary"])
      BY DEF Free, Calm, Apt, Carriers, Plain, TransactionOps
    <2>2. Free([op |-> "completed", texts |-> a.completed])
      BY DEF Free, Calm, Apt, Carriers, Plain, TransactionOps
    <2>3. Free([op |-> "transition", to |-> Transition(a.signals)])
      BY DEF Free, Calm, Apt, Carriers, Plain, TransactionOps
    <2> QED
      BY <2>1, <2>2, <2>3, FreeOne, FreeNothing
  <1>5. FreeRow(r2)
    <2>1. r2 = [i \in 1..Len(a.questions) |-> r2[i]]
      BY <1>3
    <2>2. \A x : Free(QuestionOp(x))
      BY DEF QuestionOp, Free, Calm, Apt, Carriers, Plain, TransactionOps
    <2>3. \A i \in 1..Len(a.questions) : Free(r2[i])
      BY <1>3, <2>2
    <2> HIDE DEF r2
    <2> QED
      BY <1>3, <2>1, <2>3, FreeList
  <1>6. FreeRow(r4)
    <2>1. r4 = [i \in 1..Cardinality(at) |-> r4[i]]
      BY <1>3
    <2>2. \A x : Free(DecisionOp(x))
      <3> TAKE x
      <3> DEFINE then == [op |-> "owner", text |-> x.text, subject |-> 0, owner |-> x.owner, ownerId |-> 0,
                          confidence |-> DecisionConfidence(x)]
      <3>1. Plain(then) /\ Apt(then) /\ then.op \in {"question", "owner", "fact"}
        BY DEF Plain, Apt, TransactionOps
      <3> HIDE DEF then
      <3>2. Free(ForSubject(SubjectIn[x.text], then))
        BY <3>1, FreeForSubject
      <3> QED
        BY <3>2 DEF DecisionOp, then
    <2>3. \A i \in 1..Cardinality(at) : Free(r4[i])
      BY <1>3, <2>2
    <2> HIDE DEF r4
    <2> QED
      BY <1>3, <2>1, <2>3, FreeList
  <1>7. FreeRow(r6)
    <2>1. r6 = [i \in 1..Len(a.facts) |-> r6[i]]
      BY <1>3
    <2>2. \A f : Free(FactOp(f))
      <3> TAKE f
      <3> DEFINE then == [op |-> "fact", subject |-> 0, type |-> f.type, value |-> f.value]
      <3>1. Plain(then) /\ Apt(then) /\ then.op \in {"question", "owner", "fact"}
        BY DEF Plain, Apt, TransactionOps
      <3> HIDE DEF then
      <3>2. Free(ForSubject(f.name, then))
        BY <3>1, FreeForSubject
      <3> QED
        BY <3>2 DEF FactOp, then
    <2>3. \A i \in 1..Len(a.facts) : Free(r6[i])
      BY <1>3, <2>2
    <2> HIDE DEF r6
    <2> QED
      BY <1>3, <2>1, <2>3, FreeList
  <1> HIDE DEF r1, r2, r3, r4, r5, r6
  <1>8. FreeRow(r1 \o r2)
    BY <1>4, <1>5, FreeConcat
  <1>9. FreeRow(r1 \o r2 \o r3)
    BY <1>4, <1>8, FreeConcat
  <1>10. FreeRow(r1 \o r2 \o r3 \o r4)
    BY <1>6, <1>9, FreeConcat
  <1>11. FreeRow(r1 \o r2 \o r3 \o r4 \o r5)
    BY <1>4, <1>10, FreeConcat
  <1>12. FreeRow(r1 \o r2 \o r3 \o r4 \o r5 \o r6)
    BY <1>7, <1>11, FreeConcat
  <1> QED
    BY <1>1, <1>12

LEMMA Called ==
  ASSUME MemoryInv, NEW t \in Thread, Call(t), NEW s, FreeRow(s), todo' = [todo EXCEPT ![t] = s]
  PROVE  MemoryInv'
  <1>1. ExecutionInv'
    BY CallStep DEF MemoryInv
  <1>2. ListsInv'
    BY DEF Call, MemoryInv, ListsInv, ListWrites
  <1>3. /\ todo[t] = <<>> /\ todo[Main] = <<>>
        /\ disk' = disk /\ saving' = saving /\ serial' = serial /\ torn' = torn
    BY DEF Call
  <1>4. TornFiles' = TornFiles /\ Questions' = Questions
    BY <1>3 DEF TornFiles, Questions
  <1>5. FilesInv'
    BY <1>3, <1>4 DEF MemoryInv, SaidInv, FilesInv
  <1>6. TodoOK /\ t \in Actor /\ t # Main
    BY MemoryAssumption DEF MemoryInv, ExecutionInv, ExecutionType, Actor
  <1>7. todo'[t] = s /\ \A u \in Actor \ {t} : todo'[u] = todo[u]
    BY <1>6 DEF TodoOK
  <1>8. CarriedInv'
    <2> SUFFICES ASSUME NEW u \in Thread
                 PROVE  RefersAll(todo'[u], After(saving, disk, "owner"), After(saving, disk, "fact"), TornFiles)
      BY <1>3, <1>4 DEF CarriedInv
    <2>1. CASE u = t
      BY <1>7, <2>1, FreeRefers
    <2>2. CASE u # t
      BY <1>7, <2>2 DEF MemoryInv, SaidInv, CarriedInv, Actor
    <2> QED
      BY <2>1, <2>2
  <1>9. StartInv'
    <2>1. todo'[Main] = <<>>
      BY <1>3, <1>6, <1>7 DEF Actor
    <2> QED
      BY <1>3, <2>1 DEF MemoryInv, SaidInv, StartInv
  <1>10. \A n : Creating(n)' = Creating(n)
    <2>1. s # <<>> => Head(s).op # "create"
      BY SeqFacts DEF FreeRow, Free, Calm
    <2> SUFFICES ASSUME NEW n, NEW u \in Thread
                 PROVE  (todo'[u] # <<>> /\ Head(todo'[u]).op = "create" /\ Head(todo'[u]).name = n)
                          <=> (todo[u] # <<>> /\ Head(todo[u]).op = "create" /\ Head(todo[u]).name = n)
      BY DEF Creating
    <2>2. CASE u = t
      BY <1>3, <1>7, <2>1, <2>2
    <2>3. CASE u # t
      BY <1>7, <2>3 DEF Actor
    <2> QED
      BY <2>2, <2>3
  <1>11. SubjectsInv'
    <2>1. After(saving', disk', "subject") = After(saving, disk, "subject")
      BY <1>3
    <2> DEFINE r == After(saving, disk, "subject")
    <2>2. Room(r)
      BY DEF MemoryInv, SaidInv, SubjectsInv
    <2> HIDE DEF r
    <2>3. ASSUME NEW n
          PROVE  Cardinality(NewOnes(r, n)) + Cardinality(Creating(n)') <= Cardinality(Thread)
      <3>1. Creating(n)' = Creating(n)
        BY <1>10
      <3> QED
        BY <2>2, <3>1 DEF Room
    <2>4. ASSUME NEW n, NEW i \in DOMAIN r, r[i].name = n, r[i].id <= FirstId
          PROVE  NewOnes(r, n) = {} /\ Creating(n)' = {}
      <3>1. Creating(n)' = Creating(n)
        BY <1>10
      <3> QED
        BY <2>2, <2>4, <3>1 DEF Room
    <2>5. Room(After(saving, disk, "subject"))'
      BY <2>1, <2>3, <2>4 DEF Room, r
    <2> QED
      BY <2>5 DEF SubjectsInv
  <1> QED
    BY <1>1, <1>2, <1>5, <1>8, <1>9, <1>11 DEF MemoryInv, SaidInv

-----------------------------------------------------------------------------
\* All the steps.

\* An acquisition that writes the approvals, or nothing.
LEMMA ApprovalSaid ==
  ASSUME MemoryInv, NEW t \in Thread, saving = <<>>, todo[t] # <<>>, Next1(t).op # "create",
         serial' \in {serial, serial + 1},
         NEW v, NEW w, w \in {<<>>, <<Write("approval", v)>>},
         NEW more, IsSeq(more), \A i \in DOMAIN more : more[i].op \notin Carriers \cup {"create"},
         Section(t, w, more)
  PROVE  ListsInv' /\ SaidInv' /\ disk' = disk
  <1> DEFINE u == <<Write("approval", v)>>
  <1>1. IsSeq(u) /\ DOMAIN u = {1} /\ u[1] = Write("approval", v)
    BY OneIsSeq
  <1>2. ListWrites(u, serial')
    BY OneWrite
  <1>3. w \in {<<>>, u}
    OBVIOUS
  <1> HIDE DEF u
  <1>4. u[1].file = "approval" /\ "approval" \notin Referred
    BY <1>1 DEF Write, Referred
  <1>5. Fits(u, disk, serial', TornFiles) /\ WholeWrites(u)
    BY <1>1, <1>4 DEF Fits, FitsFile, Referred, WholeWrites
  <1>6. After(u, disk, "subject") = disk["subject"]
    BY <1>4 DEF After
  <1>7. SameNames(disk["subject"], disk["subject"])
    BY NothingChanges DEF SameNames
  <1>8. /\ IsSeq(w) /\ ListWrites(w, serial') /\ Fits(w, disk, serial', TornFiles) /\ WholeWrites(w)
        /\ SameNames(disk["subject"], After(w, disk, "subject"))
    BY <1>1, <1>2, <1>3, <1>5, <1>6, <1>7, SteadyNothing, EmptyIsSeq DEF Steady
  <1>9. RefersAll(more, After(w, disk, "owner"), After(w, disk, "fact"), TornFiles)
    BY DEF RefersAll, Refers, Carriers
  <1>10. t \in Actor
    BY AtWork
  <1>11. FilesInv' /\ CarriedInv'
    BY <1>8, <1>9, <1>10, SectionSaid
  <1>12. StartInv'
    BY <1>8, StartedStays
  <1>13. \A i \in DOMAIN more : more[i].op # "create"
    OBVIOUS
  <1>14. SubjectsInv'
    BY <1>8, <1>10, <1>13, SteadyRoom
  <1>15. serial' \in Nat /\ serial' >= serial
    BY DEF MemoryInv, ListsInv
  <1>16. ListsInv'
    BY <1>8, <1>15, ListsKept DEF MemoryInv
  <1>17. disk' = disk
    BY DEF Section
  <1> QED
    BY <1>11, <1>12, <1>14, <1>16, <1>17 DEF SaidInv

LEMMA ApprovalStep ==
  ASSUME MemoryInv, NEW t \in Operator, CreateApproval(t) \/ ExecuteApproval(t) \/ SettleApproval(t)
  PROVE  MemoryInv' /\ disk' = disk
  <1>1. t \in Thread
    BY SubjectMergeAssumption
  <1>2. ExecutionInv'
    BY <1>1, CreateStep, ExecuteStep, SettleStep DEF MemoryInv
  <1>3. ASSUME NEW o, o.op \notin Carriers \cup {"create"}
        PROVE  IsSeq(<<o>>) /\ \A i \in DOMAIN <<o>> : <<o>>[i].op \notin Carriers \cup {"create"}
    <2> DEFINE s == <<o>>
    <2>1. IsSeq(s) /\ DOMAIN s = {1} /\ s[1] = o
      BY OneIsSeq
    <2> HIDE DEF s
    <2>2. IsSeq(s) /\ \A i \in DOMAIN s : s[i].op \notin Carriers \cup {"create"}
      BY <1>3, <2>1
    <2> QED
      BY <2>2 DEF s
  <1>4. IsSeq(<<>>) /\ DOMAIN <<>> = {}
    BY EmptyIsSeq
  <1>5. CASE CreateApproval(t)
    <2> DEFINE o == Next1(t)
               same == Holding(disk["approval"], LAMBDA a : a.source = o.source /\ a.target = o.target
                                                              /\ a.status = "PENDING")
               id == IF same # {} THEN disk["approval"][First(same)].id ELSE NewId
               record == [id |-> NewId, source |-> o.source, target |-> o.target, status |-> "PENDING"]
               v == Append(disk["approval"], record)
               w == IF same # {} THEN <<>> ELSE <<Write("approval", v)>>
               next == [op |-> "execute", id |-> id]
               more == IF o.execute THEN <<next>> ELSE <<>>
    <2>1. /\ saving = <<>> /\ todo[t] # <<>> /\ o.op = "approve" /\ Section(t, w, more)
          /\ serial' \in {serial, serial + 1}
      BY <1>5 DEF CreateApproval, Doing, NewId
    <2>2. next.op \notin Carriers \cup {"create"}
      BY DEF Carriers
    <2> HIDE DEF same, v, next
    <2>3. w \in {<<>>, <<Write("approval", v)>>}
      OBVIOUS
    <2>4. IsSeq(more) /\ \A i \in DOMAIN more : more[i].op \notin Carriers \cup {"create"}
      BY <1>3, <1>4, <2>2
    <2> HIDE DEF w, more
    <2>5. o.op # "create"
      BY <2>1
    <2> QED
      BY <1>1, <1>2, <2>1, <2>3, <2>4, <2>5, ApprovalSaid DEF MemoryInv
  <1>6. CASE ExecuteApproval(t)
    <2> DEFINE at == Holding(disk["approval"], LAMBDA a : a.id = Next1(t).id /\ a.status = "PENDING")
               a == disk["approval"][First(at)]
               v == Approved(a.id, "RUNNING")
               w == IF at = {} THEN <<>> ELSE <<Write("approval", v)>>
               next == Transaction(a.source, a.target, a.id)
               more == IF at = {} THEN <<>> ELSE <<next>>
    <2>1. /\ saving = <<>> /\ todo[t] # <<>> /\ Next1(t).op = "execute" /\ Section(t, w, more)
          /\ serial' \in {serial, serial + 1}
      BY <1>6 DEF ExecuteApproval, Doing
    <2>2. next.op \notin Carriers \cup {"create"}
      BY DEF Carriers, Transaction
    <2> HIDE DEF at, v, next
    <2>3. w \in {<<>>, <<Write("approval", v)>>}
      OBVIOUS
    <2>4. IsSeq(more) /\ \A i \in DOMAIN more : more[i].op \notin Carriers \cup {"create"}
      BY <1>3, <1>4, <2>2
    <2> HIDE DEF w, more
    <2>5. Next1(t).op # "create"
      BY <2>1
    <2> QED
      BY <1>1, <1>2, <2>1, <2>3, <2>4, <2>5, ApprovalSaid DEF MemoryInv
  <1>7. CASE SettleApproval(t)
    <2> DEFINE v == Approved(Next1(t).approval, IF Next1(t).ok THEN "APPROVED" ELSE "FAILED")
    <2>1. /\ saving = <<>> /\ todo[t] # <<>> /\ Next1(t).op = "settle"
          /\ Section(t, <<Write("approval", v)>>, <<>>) /\ serial' \in {serial, serial + 1}
      BY <1>7 DEF SettleApproval, Doing
    <2> HIDE DEF v
    <2>2. Next1(t).op # "create"
      BY <2>1
    <2> QED
      BY <1>1, <1>2, <1>4, <2>1, <2>2, ApprovalSaid DEF MemoryInv
  <1> QED
    BY <1>5, <1>6, <1>7

-----------------------------------------------------------------------------
\* memory_init().

\* The registry once the k-th decision is seen, from what it was before.
Seen(k, r) ==
  IF k = 0 THEN disk["owner"] ELSE IF Unowned(Decisions[k]) THEN WithOwner(Decisions[k].owner, r) ELSE r
Registry(f, n) == f = [k \in 0..n |-> Seen(k, f[k - 1])]

LEMMA RegistryThere == \A n \in Nat : \E f : Registry(f, n)
  <1> DEFINE bad == {n \in Nat : ~\E f : Registry(f, n)}
  <1>1. ASSUME bad # {} PROVE FALSE
    <2>1. PICK n \in bad : \A m \in bad : n <= m
      BY <1>1, LeastNumber
    <2>2. n \in Nat /\ ~\E f : Registry(f, n)
      BY <2>1
    <2>3. CASE n = 0
      <3> DEFINE f == [k \in 0..0 |-> disk["owner"]]
      <3>1. \A k \in 0..0 : \A r : Seen(k, r) = disk["owner"]
        BY DEF Seen
      <3>2. f = [k \in 0..0 |-> Seen(k, f[k - 1])]
        BY <3>1
      <3> HIDE DEF f
      <3>3. Registry(f, n)
        BY <2>3, <3>2 DEF Registry
      <3> QED
        BY <2>2, <3>3
    <2>4. CASE n # 0
      <3>1. n - 1 \in Nat /\ n - 1 \notin bad
        BY <2>1, <2>2, <2>4
      <3>2. PICK f : Registry(f, n - 1)
        BY <3>1
      <3> DEFINE g == [k \in 0..n |-> IF k = n THEN Seen(n, f[n - 1]) ELSE f[k]]
      <3>3. \A k \in 0..(n - 1) : f[k] = Seen(k, f[k - 1])
        BY <3>2 DEF Registry
      <3>4. \A k \in 0..n : g[k] = IF k = n THEN Seen(n, f[n - 1]) ELSE f[k]
        OBVIOUS
      <3>5. \A r, s : Seen(0, r) = Seen(0, s)
        BY DEF Seen
      <3>6. DOMAIN g = 0..n /\ g = [k \in 0..n |-> g[k]]
        OBVIOUS
      <3> HIDE DEF g
      <3>7. ASSUME NEW k \in 0..n
            PROVE  g[k] = Seen(k, g[k - 1])
        <4>1. CASE k = 0
          <5>1. k # n /\ k \in 0..(n - 1)
            BY <2>2, <2>4, <4>1
          <5>2. g[k] = Seen(k, f[k - 1])
            BY <3>3, <3>4, <5>1
          <5> QED
            BY <3>5, <4>1, <5>2
        <4>2. CASE k # 0
          <5>1. k - 1 \in 0..n /\ k - 1 # n
            BY <2>2, <4>2
          <5>2. g[k - 1] = f[k - 1]
            BY <3>4, <5>1
          <5>3. CASE k = n
            BY <3>4, <5>2, <5>3
          <5>4. CASE k # n
            <6>1. k \in 0..(n - 1)
              BY <2>2, <5>4
            <6>2. g[k] = f[k]
              BY <3>4, <5>4
            <6> QED
              BY <3>3, <5>2, <6>1, <6>2
          <5> QED
            BY <5>3, <5>4
        <4> QED
          BY <4>1, <4>2
      <3>8. Registry(g, n)
        BY <3>6, <3>7 DEF Registry
      <3> QED
        BY <2>2, <3>8
    <2> QED
      BY <2>3, <2>4
  <1> QED
    BY <1>1

LEMMA RegisteredIs ==
  ASSUME NEW n \in Nat
  PROVE  \E f : Registry(f, n) /\ Registered(n) = f[n]
  <1> DEFINE reg == CHOOSE f : f = [k \in 0..n |->
                      IF k = 0 THEN disk["owner"]
                      ELSE IF Unowned(Decisions[k]) THEN WithOwner(Decisions[k].owner, f[k - 1]) ELSE f[k - 1]]
  <1>1. Registered(n) = reg[n]
    BY Zenon DEF Registered
  <1>2. reg = CHOOSE f : Registry(f, n)
    BY Zenon DEF Registry, Seen
  <1> HIDE DEF reg
  <1>3. Registry(reg, n)
    BY <1>2, RegistryThere, Zenon
  <1> QED
    BY <1>1, <1>3

LEMMA ExtendsOn ==
  \A q, r, s : Extends(q, r) /\ Extends(r, s) => Extends(q, s)
  BY DEF Extends

LEMMA OwnerStays ==
  ASSUME NEW p, NEW r, IsSeq(r), NEW s, Extends(r, s), OwnerId(p, r) # 0
  PROVE  OwnerId(p, s) # 0
  <1>1. OwnerId(p, r) \in DOMAIN s /\ s[OwnerId(p, r)] = p.base
    BY OwnerFound DEF Extends
  <1> QED
    BY <1>1, OwnerFound DEF Extends

\* Who owns a decision is in the registry once the decision is seen.
LEMMA AllRegistered ==
  ASSUME NEW n \in Nat, IsSeq(disk["owner"])
  PROVE  /\ Extends(disk["owner"], Registered(n))
         /\ \A j \in 1..n : Unowned(Decisions[j]) => OwnerId(Decisions[j].owner, Registered(n)) # 0
  <1>1. PICK f : Registry(f, n) /\ Registered(n) = f[n]
    BY RegisteredIs
  <1>2. \A k \in 0..n : f[k] = Seen(k, f[k - 1])
    BY <1>1 DEF Registry
  <1> DEFINE right(k) == /\ Extends(disk["owner"], f[k])
                         /\ \A j \in 1..k : Unowned(Decisions[j]) => OwnerId(Decisions[j].owner, f[k]) # 0
             bad == {k \in 0..n : ~right(k)}
  <1>3. ASSUME bad # {} PROVE FALSE
    <2>1. bad \subseteq Nat
      OBVIOUS
    <2>2. PICK k \in bad : \A m \in bad : k <= m
      BY <1>3, <2>1, LeastNumber
    <2>3. k \in 0..n /\ ~right(k)
      BY <2>2
    <2>4. CASE k = 0
      <3>1. f[k] = disk["owner"]
        BY <1>2, <2>3, <2>4 DEF Seen
      <3>2. 1..k = {}
        BY <2>4
      <3>3. Extends(disk["owner"], f[k])
        BY <3>1, NothingChanges
      <3> QED
        BY <2>3, <3>2, <3>3
    <2>5. CASE k # 0
      <3>1. k - 1 \in 0..n /\ k - 1 \notin bad
        BY <2>2, <2>3, <2>5
      <3>2. right(k - 1)
        BY <3>1
      <3>3. IsSeq(f[k - 1])
        BY <3>2 DEF Extends
      <3>4. f[k] = IF Unowned(Decisions[k]) THEN WithOwner(Decisions[k].owner, f[k - 1]) ELSE f[k - 1]
        BY <1>2, <2>3, <2>5 DEF Seen
      <3>5. /\ Extends(f[k - 1], f[k])
            /\ Unowned(Decisions[k]) => OwnerId(Decisions[k].owner, f[k]) # 0
        BY <3>3, <3>4, OwnerAdded, NothingChanges
      <3>6. Extends(disk["owner"], f[k])
        BY <3>2, <3>5, ExtendsOn
      <3>7. ASSUME NEW j \in 1..k, Unowned(Decisions[j])
            PROVE  OwnerId(Decisions[j].owner, f[k]) # 0
        <4>1. CASE j = k
          BY <3>5, <3>7, <4>1
        <4>2. CASE j # k
          <5>1. j \in 1..(k - 1)
            BY <2>3, <4>2
          <5>2. OwnerId(Decisions[j].owner, f[k - 1]) # 0
            BY <3>2, <3>7, <5>1
          <5> QED
            BY <3>3, <3>5, <5>2, OwnerStays
        <4> QED
          BY <4>1, <4>2
      <3> QED
        BY <2>3, <3>6, <3>7
    <2> QED
      BY <2>4, <2>5
  <1>4. right(n)
    BY <1>3
  <1> QED
    BY <1>1, <1>4

\* memory_init: what it makes of the decisions, and of the registry.
LEMMA OwnedAre ==
  ASSUME MemoryInv
  PROVE  LET r == Registered(Len(Decisions))
         IN /\ Extends(disk["owner"], r)
            /\ DecisionList(OwnedDecisions, serial) /\ Keeps(disk["decision"], OwnedDecisions)
            /\ WholeAll(OwnedDecisions)
            /\ "owner" \notin TornFiles => NamedAll(OwnedDecisions, r)
  <1> DEFINE s == disk["decision"]
             r == Registered(Len(Decisions))
             v == OwnedDecisions
             owned(d) == [d EXCEPT !.ownerId = OwnerId(d.owner, r)]
  <1>1. ListsInv /\ serial \in Nat /\ FilesInv /\ IsSeq(disk["owner"])
    BY DEF MemoryInv, ListsInv, SaidInv, FilesInv
  <1>2. /\ IsSeq(Decisions) /\ DOMAIN Decisions = DOMAIN s
        /\ \A i \in DOMAIN s :
             /\ DecisionRow(Decisions[i], serial) /\ Decisions[i].status = s[i].status
             /\ Decisions[i].owner = s[i].owner /\ Decisions[i].ownerId = s[i].ownerId
    BY <1>1, DecisionsAre
  <1>3. Len(Decisions) \in Nat /\ DOMAIN s = 1..Len(Decisions)
    BY <1>2, SeqFacts
  <1>4. /\ Extends(disk["owner"], r) /\ IsSeq(r)
        /\ \A i \in DOMAIN s : Unowned(Decisions[i]) => OwnerId(Decisions[i].owner, r) # 0
    BY <1>1, <1>3, AllRegistered DEF Extends
  <1>5. /\ v = [i \in DOMAIN s |-> v[i]]
        /\ \A i \in DOMAIN s : v[i] = IF Unowned(Decisions[i]) THEN owned(Decisions[i]) ELSE Decisions[i]
    BY <1>2 DEF OwnedDecisions, Where
  <1> HIDE DEF v, r
  <1>6. ASSUME NEW i \in DOMAIN s
        PROVE  /\ DecisionFields \subseteq DOMAIN v[i] /\ v[i].id = Decisions[i].id
               /\ v[i].status = s[i].status /\ v[i].owner = s[i].owner
               /\ v[i].ownerId = IF Unowned(Decisions[i]) THEN OwnerId(Decisions[i].owner, r) ELSE s[i].ownerId
    <2>1. DecisionFields \subseteq DOMAIN Decisions[i]
      BY <1>2 DEF DecisionRow
    <2>2. "ownerId" \in DOMAIN Decisions[i]
      BY <2>1 DEF DecisionFields
    <2>3. CASE Unowned(Decisions[i])
      <3>1. v[i] = owned(Decisions[i])
        BY <1>5, <2>3
      <3>2. /\ DOMAIN v[i] = DOMAIN Decisions[i] /\ v[i].id = Decisions[i].id
            /\ v[i].status = Decisions[i].status /\ v[i].owner = Decisions[i].owner
            /\ v[i].ownerId = OwnerId(Decisions[i].owner, r)
        BY <2>1, <3>1 DEF DecisionFields
      <3> QED
        BY <1>2, <2>1, <2>3, <3>2
    <2>4. CASE ~Unowned(Decisions[i])
      BY <1>2, <1>5, <2>1, <2>4
    <2> QED
      BY <2>3, <2>4
  <1>7. DecisionList(v, serial) /\ Keeps(s, v)
    <2>1. serial <= serial /\ v = [i \in DOMAIN s |-> v[i]]
      BY <1>1, <1>5
    <2>2. \A i \in DOMAIN s : /\ DecisionFields \subseteq DOMAIN v[i] /\ v[i].id = Decisions[i].id
                              /\ s[i].status = "DONE" => v[i].status = "DONE"
      BY <1>6
    <2> QED
      BY <1>1, <2>1, <2>2, SameDecisions
  <1>8. DOMAIN v = DOMAIN s
    BY <1>5
  <1>9. ASSUME NEW i \in DOMAIN s, v[i].owner.base # 0 PROVE v[i].ownerId # 0
    <2>1. CASE Unowned(Decisions[i])
      BY <1>4, <1>6, <2>1
    <2>2. CASE ~Unowned(Decisions[i])
      <3>1. Decisions[i].owner # Nobody
        BY <1>2, <1>6, <1>9, NobodyHas
      <3> QED
        BY <1>2, <1>6, <2>2, <3>1 DEF Unowned
    <2> QED
      BY <2>1, <2>2
  <1>10. ASSUME "owner" \notin TornFiles, NEW i \in DOMAIN s PROVE NamesOwner(v[i], r)
    <2>1. CASE Unowned(Decisions[i])
      <3>1. /\ OwnerId(Decisions[i].owner, r) \in DOMAIN r
            /\ r[OwnerId(Decisions[i].owner, r)] = Decisions[i].owner.base
        BY <1>4, <2>1, OwnerFound
      <3> QED
        BY <1>2, <1>6, <2>1, <3>1 DEF NamesOwner
    <2>2. CASE ~Unowned(Decisions[i])
      <3>1. NamesOwner(s[i], disk["owner"])
        BY <1>1, <1>10 DEF FilesInv, NamedAll
      <3>2. NamesOwner(s[i], r)
        BY <1>4, <3>1, NamesGrow
      <3> QED
        BY <1>6, <2>2, <3>2 DEF NamesOwner
    <2> QED
      BY <2>1, <2>2
  <1>11. WholeAll(v) /\ ("owner" \notin TornFiles => NamedAll(v, r))
    BY <1>8, <1>9, <1>10 DEF WholeAll, NamedAll
  <1> QED
    BY <1>4, <1>7, <1>11 DEF v, r

LEMMA MigrateShape ==
  ASSUME MemoryInv, OwnerMigrateDecisions(Main)
  PROVE  Shape(Main)
  <1> DEFINE r == Registered(Len(Decisions))
             v == OwnedDecisions
             a == Write("owner", r)
             b == Write("decision", v)
             u == <<a, b>>
             none == Holding(Decisions, Unowned) = {}
             w == IF none THEN <<>> ELSE u
  <1>1. /\ saving = <<>> /\ todo[Main] # <<>> /\ Next1(Main).op = "init" /\ serial' = serial
        /\ Section(Main, w, <<>>) /\ Main \in Actor
    BY DEF OwnerMigrateDecisions, Doing, Actor
  <1>2. /\ Extends(disk["owner"], r) /\ DecisionList(v, serial) /\ Keeps(disk["decision"], v)
        /\ WholeAll(v) /\ ("owner" \notin TornFiles => NamedAll(v, r))
    BY OwnedAre
  <1>3. none => WholeAll(disk["decision"])
    <2> SUFFICES ASSUME none, NEW i \in DOMAIN disk["decision"], disk["decision"][i].owner.base # 0
                 PROVE  disk["decision"][i].ownerId # 0
      BY DEF WholeAll
    <2>1. /\ i \in DOMAIN Decisions /\ Decisions[i].owner = disk["decision"][i].owner
          /\ Decisions[i].ownerId = disk["decision"][i].ownerId
      BY DecisionsAre DEF MemoryInv
    <2>2. ~Unowned(Decisions[i])
      BY <2>1 DEF Holding
    <2>3. Decisions[i].owner # Nobody
      BY <2>1, NobodyHas
    <2> QED
      BY <2>1, <2>2, <2>3 DEF Unowned
  <1> HIDE DEF r, v, none
  <1>4. NoApproval(u) /\ ListWrites(u, serial')
    BY <1>1, <1>2, TwoWrites
  <1>5. /\ IsSeq(u) /\ DOMAIN u = {1, 2} /\ u[1] = a /\ u[2] = b /\ u # <<>>
    BY TwoIsSeq
  <1>6. a.file = "owner" /\ a.value = r /\ b.file = "decision" /\ b.value = v
    BY DEF Write
  <1> HIDE DEF a, b, u
  <1>7. After(u, disk, "owner") = r /\ After(u, disk, "subject") = disk["subject"]
    BY <1>5, <1>6 DEF After
  <1>8. Fits(u, disk, serial', TornFiles)
    <2>1. FitsFile(u[1].file, u[1].value, u, disk, serial', TornFiles)
      BY <1>2, <1>5, <1>6 DEF FitsFile
    <2>2. FitsFile(u[2].file, u[2].value, u, disk, serial', TornFiles) /\ u[2].file \notin Referred
      BY <1>2, <1>5, <1>6, <1>7 DEF FitsFile, Referred
    <2> QED
      BY <1>5, <2>1, <2>2 DEF Fits
  <1>9. /\ NoApproval(w) /\ ListWrites(w, serial') /\ Fits(w, disk, serial', TornFiles)
        /\ After(w, disk, "subject") = disk["subject"]
    BY <1>4, <1>7, <1>8, SteadyNothing, NotWritten DEF Steady
  <1>10. SameNames(disk["subject"], After(w, disk, "subject"))
    BY <1>9, NothingChanges DEF SameNames
  <1>11. SubjectsInv'
    <2>1. IsSeq(<<>>) /\ \A i \in DOMAIN <<>> : <<>>[i].op # "create"
      BY EmptyIsSeq
    <2> HIDE DEF w
    <2> QED
      BY <1>1, <1>10, <2>1, SteadyRoom
  <1>12. StartInv'
    <2>1. todo'[Main] = <<>>
      <3>1. todo[Main] = <<[op |-> "init"]>>
        BY <1>1 DEF MemoryInv, SaidInv, StartInv
      <3>2. todo'[Main] = <<>> \o Tail(todo[Main])
        BY <1>1, OthersStay
      <3> QED
        BY <3>1, <3>2
    <2>2. saving' = w /\ disk' = disk
      BY <1>1 DEF Section
    <2>3. CASE none
      BY <1>3, <2>1, <2>2, <2>3, EmptyIsSeq DEF StartInv
    <2>4. CASE ~none
      BY <1>2, <1>5, <1>6, <2>1, <2>2, <2>4 DEF StartInv
    <2> QED
      BY <2>3, <2>4
  <1>13. /\ RefersAll(<<>>, After(w, disk, "owner"), After(w, disk, "fact"), TornFiles)
         /\ Row(<<>>) /\ \A id : ~Executes(<<>>, id)
    BY FreeNothing, FreeIsRow, FreeRefers
  <1>14. "init" \notin TransactionOps
    BY DEF TransactionOps
  <1> HIDE DEF w
  <1> QED
    BY <1>1, <1>9, <1>11, <1>12, <1>13, <1>14 DEF Shape

Kept == Keeps(disk["decision"], disk'["decision"])

LEMMA SameFiles == MemoryInv /\ disk' = disk => Kept
  BY DEF MemoryInv, ListsInv, DecisionList, Kept, Keeps

LEMMA SavedStep ==
  ASSUME MemoryInv, Save
  PROVE  MemoryInv' /\ Kept
  <1>1. /\ saving # <<>> /\ saving' = Tail(saving) /\ serial' = serial
        /\ disk' = [disk EXCEPT ![Head(saving).file] = Head(saving).value]
    BY DEF Save
  <1>2. /\ DOMAIN disk = Files /\ DecisionList(disk["decision"], serial) /\ IsSeq(disk["question"])
        /\ ListWrites(saving, serial) /\ serial \in Nat
    BY DEF MemoryInv, ListsInv
  <1>3. /\ IsSeq(saving) /\ Len(saving) \in Nat /\ DOMAIN saving = 1..Len(saving)
        /\ 1 \in DOMAIN saving /\ Head(saving) = saving[1]
    BY <1>1, <1>2, SeqFacts DEF ListWrites
  <1>4. /\ IsSeq(saving')
        /\ \A i \in DOMAIN saving' : i \in Nat \ {0} /\ i + 1 \in DOMAIN saving /\ saving'[i] = saving[i + 1]
    BY <1>1, <1>3, TailIsSeq, SeqFacts
  <1>5. /\ DOMAIN disk' = Files
        /\ disk'["decision"] = IF saving[1].file = "decision" THEN saving[1].value ELSE disk["decision"]
        /\ disk'["question"] = IF saving[1].file = "question" THEN saving[1].value ELSE disk["question"]
    BY <1>1, <1>2, <1>3 DEF Files
  <1>6. DecisionList(disk'["decision"], serial') /\ IsSeq(disk'["question"])
    BY <1>1, <1>2, <1>3, <1>5 DEF ListWrites
  <1>7. Kept
    <2>1. CASE saving[1].file = "decision"
      BY <1>2, <1>3, <1>5, <2>1 DEF ListWrites, Kept
    <2>2. CASE saving[1].file # "decision"
      BY <1>2, <1>5, <2>2 DEF DecisionList, Kept, Keeps
    <2> QED
      BY <2>1, <2>2
  <1>8. ListWrites(saving, serial)'
    <2>1. ASSUME NEW i \in DOMAIN saving'
          PROVE  /\ saving'[i].file = "question" => IsSeq(saving'[i].value)
                 /\ saving'[i].file = "decision" =>
                      /\ DecisionList(saving'[i].value, serial')
                      /\ Keeps(disk'["decision"], saving'[i].value)
      <3>1. i + 1 \in DOMAIN saving /\ saving'[i] = saving[i + 1] /\ i + 1 # 1
        BY <1>4
      <3>2. saving'[i].file = "decision" => disk'["decision"] = disk["decision"]
        BY <1>2, <1>3, <1>5, <3>1 DEF ListWrites
      <3> QED
        BY <1>1, <1>2, <3>1, <3>2 DEF ListWrites
    <2>2. \A i, j \in DOMAIN saving' : saving'[i].file = "decision" /\ saving'[j].file = "decision" => i = j
      BY <1>2, <1>4 DEF ListWrites
    <2> QED
      BY <1>4, <2>1, <2>2 DEF ListWrites
  <1>9. ListsInv'
    BY <1>1, <1>2, <1>5, <1>6, <1>8 DEF ListsInv
  <1> QED
    BY <1>7, <1>9, SaveStep, SaveSaid DEF MemoryInv

LEMMA KilledStep ==
  ASSUME MemoryInv, Kill
  PROVE  MemoryInv' /\ Kept
  <1>1. PICK file \in {"none"} \cup (IF saving = <<>> THEN {} ELSE {Head(saving).file}) :
          disk' = [disk EXCEPT ![IF file = "none" THEN "summary" ELSE file] =
                     IF file = "none" THEN @ ELSE <<>>]
    BY DEF Kill
  <1>2. saving' = <<>> /\ serial' = serial
    BY DEF Kill
  <1>3. DOMAIN disk = Files /\ DecisionList(disk["decision"], serial) /\ IsSeq(disk["question"]) /\ serial \in Nat
    BY DEF MemoryInv, ListsInv
  <1>4. /\ DOMAIN disk' = Files
        /\ disk'["decision"] \in {disk["decision"], <<>>} /\ disk'["question"] \in {disk["question"], <<>>}
    BY <1>1, <1>3 DEF Files
  <1>5. DecisionList(<<>>, serial) /\ \A s : Keeps(s, <<>>)
    BY EmptyIsSeq DEF DecisionList, Keeps
  <1>6. DecisionList(disk'["decision"], serial') /\ IsSeq(disk'["question"])
    BY <1>2, <1>3, <1>4, <1>5, EmptyIsSeq
  <1>7. ListWrites(saving, serial)'
    BY <1>2, EmptyIsSeq DEF ListWrites
  <1>8. ListsInv'
    BY <1>2, <1>3, <1>4, <1>6, <1>7 DEF ListsInv
  <1>9. Kept
    BY <1>3, <1>4, <1>5 DEF DecisionList, Kept, Keeps
  <1> QED
    BY <1>8, <1>9, KillStep, KillSaid DEF MemoryInv

LEMMA MemoryStep ==
  ASSUME MemoryInv, Next
  PROVE  MemoryInv' /\ Kept
  <1>1. Main \in Actor /\ (\A t \in Thread : t \in Actor) /\ (\A t \in Operator : t \in Thread)
    BY SubjectMergeAssumption DEF Actor
  <1>2. ASSUME NEW t \in Actor, Shape(t) PROVE MemoryInv' /\ Kept
    <2>1. disk' = disk
      BY <1>2 DEF Shape, Section
    <2> QED
      BY <1>2, <2>1, ShapeStep, SameFiles
  <1>3. ASSUME NEW t \in Thread, NEW s, FreeRow(s), Call(t), todo' = [todo EXCEPT ![t] = s]
        PROVE  MemoryInv' /\ Kept
    <2>1. disk' = disk
      BY <1>3 DEF Call
    <2> QED
      BY <1>3, <2>1, Called, SameFiles
  <1>4. CASE Save
    BY <1>4, SavedStep
  <1>5. CASE Kill
    BY <1>5, KilledStep
  <1>6. CASE OwnerMigrateDecisions(Main)
    BY <1>1, <1>2, <1>6, MigrateShape
  <1>7. ASSUME NEW t \in Thread, ExtractAndSave(t) PROVE MemoryInv' /\ Kept
    <2>1. PICK a \in Analyses : todo' = [todo EXCEPT ![t] = Extraction(a)]
      BY <1>7 DEF ExtractAndSave
    <2>2. FreeRow(Extraction(a)) /\ Call(t)
      BY <1>7, ExtractionFree, MemoryAssumption DEF ExtractAndSave
    <2> QED
      BY <1>3, <2>1, <2>2
  <1>8. ASSUME NEW t \in Thread, ExtractionStep(t) PROVE MemoryInv' /\ Kept
    <2>1. t \in Actor
      BY <1>1
    <2>2. Shape(t)
      BY <1>8, SummaryShape, FindShape, CreateSubjectShape, SimilarShape, AddQuestionShape,
         AssignClusterShape, DetectShape, UpdateShape, OwnerShape, AddDecisionShape, ApplyShape,
         AddFactShape, LinkDecisionsShape, MarkDoneShape, LinkQuestionsShape, MarkQuestionShape
      DEF ExtractionStep
    <2> QED
      BY <1>2, <2>1, <2>2
  <1>9. ASSUME NEW t \in Operator, RequestMerge(t) \/ AutoMergeCall(t) \/ AnswerCall(t)
        PROVE  MemoryInv' /\ Kept
    <2>1. CASE RequestMerge(t)
      <3>1. PICK s, u \in Ids("subject") :
              todo' = [todo EXCEPT ![t] = <<[op |-> "approve", source |-> s, target |-> u, execute |-> TRUE]>>]
        BY <2>1 DEF RequestMerge
      <3>2. Free([op |-> "approve", source |-> s, target |-> u, execute |-> TRUE])
        BY DEF Free, Calm, Apt, Carriers, Plain, TransactionOps
      <3> QED
        BY <1>1, <1>3, <2>1, <3>1, <3>2, FreeOne DEF RequestMerge
    <2>2. CASE AutoMergeCall(t)
      <3>1. Free([op |-> "auto"])
        BY DEF Free, Calm, Apt, Carriers, Plain, TransactionOps
      <3> QED
        BY <1>1, <1>3, <2>2, <3>1, FreeOne DEF AutoMergeCall
    <2>3. CASE AnswerCall(t)
      <3>1. PICK q \in Ids("question"), d \in Ids("decision") \cup {0} :
              todo' = [todo EXCEPT ![t] = <<[op |-> "answeredBy", id |-> q, decision |-> d,
                                             source |-> IF d = 0 THEN "answer" ELSE "decision"]>>]
        BY <2>3 DEF AnswerCall
      <3> DEFINE source == IF d = 0 THEN "answer" ELSE "decision"
                 o == [op |-> "answeredBy", id |-> q, decision |-> d, source |-> source]
      <3>2. source # "fact"
        OBVIOUS
      <3> HIDE DEF source
      <3>3. Free(o)
        BY <3>2 DEF Free, Calm, Apt, Carriers, Plain, TransactionOps
      <3>4. FreeRow(<<o>>)
        <4> HIDE DEF o
        <4> QED
          BY <3>3, FreeOne
      <3> QED
        BY <1>1, <1>3, <2>3, <3>1, <3>4 DEF AnswerCall, source
    <2> QED
      BY <1>9, <2>1, <2>2, <2>3
  <1>10. ASSUME NEW t \in Operator, MarkQuestionBy(t) \/ MergeStep(t) PROVE MemoryInv' /\ Kept
    <2>1. CASE CreateApproval(t) \/ ExecuteApproval(t) \/ SettleApproval(t)
      BY <2>1, ApprovalStep, SameFiles
    <2>2. CASE ~(CreateApproval(t) \/ ExecuteApproval(t) \/ SettleApproval(t))
      <3>1. t \in Thread /\ t \in Actor
        BY <1>1
      <3>2. Shape(t)
        BY <1>10, <2>2, <3>1, MarkQuestionByShape, NamesShape, MoveFactsShape, MoveQuestionsShape,
           MoveDecisionsShape, RegistryShape, ValidateShape, HistoryShape, AutoPlanShape, AutoIdsShape,
           AutoPairShape
        DEF MergeStep
      <3> QED
        BY <1>2, <3>1, <3>2
    <2> QED
      BY <2>1, <2>2
  <1> QED
    BY <1>4, <1>5, <1>6, <1>7, <1>8, <1>9, <1>10 DEF Next

-----------------------------------------------------------------------------
\* What the files hold at first.

LEMMA SeqHolds == \A S : \A s \in Seq(S) : IsSeq(s) /\ \A i \in DOMAIN s : s[i] \in S
  <1>1. ASSUME NEW S, NEW s, s \in Seq(S)
        PROVE  IsSeq(s) /\ \A i \in DOMAIN s : s[i] \in S
    <2>1. IsSeq(s)
      BY <1>1, SomeSeq
    <2>2. DOMAIN s = 1..Len(s) /\ \A i \in 1..Len(s) : s[i] \in S
      BY <1>1, LenProperties
    <2> QED
      BY <2>1, <2>2
  <1> QED
    BY <1>1

\* Loading gives a question of an earlier version what it lacks.
LEMMA LoadIsLoaded ==
  ASSUME NEW q, QuestionFields \subseteq DOMAIN q, q.id \in Nat, q.text \in Nat \ {0}, q.cluster \in Nat,
         q.status \in QuestionStatus \cup {"absent"}
  PROVE  LoadedQuestion(Load(q)) /\ Load(q).cluster = q.cluster /\ (q.id # 0 => Load(q).id = q.id)
  <1> DEFINE a == WithId(q)
             b == WithStatus(a)
             c == WithLink(b)
  <1>1. /\ QuestionFields \subseteq DOMAIN a /\ a.id # 0 /\ a.status = q.status /\ a.cluster = q.cluster
        /\ q.id # 0 => a.id = q.id
    <2>1. LegacyId(q.text) # 0
      BY DEF LegacyId
    <2>2. CASE q.id = 0
      <3>1. a = [q EXCEPT !.id = LegacyId(q.text)]
        BY <2>2 DEF WithId
      <3> HIDE DEF a
      <3> QED
        BY <2>1, <2>2, <3>1 DEF QuestionFields
    <2>3. CASE q.id # 0
      BY <2>3 DEF WithId
    <2> QED
      BY <2>2, <2>3
  <1> HIDE DEF a
  <1>2. /\ QuestionFields \subseteq DOMAIN b /\ b.id = a.id /\ b.cluster = a.cluster
        /\ b.status \in QuestionStatus
    <2>1. CASE a.status = "absent"
      <3> DEFINE source == ResolutionOf(a)
                 status == IF source = "none" THEN "OPEN" ELSE "ANSWERED"
      <3>1. b = [a EXCEPT !.source = source, !.status = status]
        BY <2>1 DEF WithStatus
      <3>2. status \in QuestionStatus
        BY DEF QuestionStatus
      <3> HIDE DEF source, status, b
      <3> QED
        BY <1>1, <3>1, <3>2 DEF QuestionFields
    <2>2. CASE a.status # "absent"
      BY <1>1, <2>2 DEF WithStatus
    <2> QED
      BY <2>1, <2>2
  <1> HIDE DEF b
  <1>3. /\ QuestionFields \subseteq DOMAIN c /\ c.id = b.id /\ c.cluster = b.cluster
        /\ c.status = b.status /\ c.link.type # "absent"
    <2>1. AnswerLink(b).type # "absent"
      BY DEF AnswerLink, Link, NoLink
    <2>2. CASE b.link.type = "absent"
      <3> DEFINE k == AnswerLink(b)
      <3>1. c = [b EXCEPT !.link = k]
        BY <2>2 DEF WithLink
      <3> HIDE DEF k, c
      <3>2. /\ DOMAIN c = DOMAIN b /\ c.id = b.id /\ c.cluster = b.cluster /\ c.status = b.status
            /\ c.link = k
        BY <1>2, <3>1 DEF QuestionFields
      <3> QED
        BY <1>2, <2>1, <3>2 DEF k
    <2>3. CASE b.link.type # "absent"
      BY <1>2, <2>3 DEF WithLink
    <2> QED
      BY <2>2, <2>3
  <1>4. Load(q) = c
    BY DEF Load, a, b
  <1> HIDE DEF c
  <1> QED
    BY <1>1, <1>2, <1>3, <1>4 DEF LoadedQuestion

LEMMA DecisionsAtFirst ==
  ASSUME Init
  PROVE  /\ DecisionList(disk["decision"], serial) /\ IsSeq(disk["owner"])
         /\ NamedAll(disk["decision"], disk["owner"])
  <1> DEFINE s == disk["decision"]
             Record == [id : 0..FirstId, text : Nat \ {0}, subject : Nat, owner : Owner, ownerId : Nat,
                        status : DecisionStatus, fact : Nat, confidence : Nat]
  <1>1. /\ s \in Seq(Record) /\ disk["owner"] \in Seq(Nat)
        /\ \A i, j \in DOMAIN s : WithId(s[i]).id = WithId(s[j]).id => i = j
        /\ \A i \in DOMAIN s : NamesOwner(s[i], disk["owner"])
    <2>1. StoredDecisions(disk["decision"], disk["owner"])
      BY MemoryAssumption DEF Init
    <2> QED
      BY <2>1 DEF StoredDecisions
  <1>2. IsSeq(s) /\ \A i \in DOMAIN s : s[i] \in Record
    <2>1. s \in Seq(Record)
      BY <1>1
    <2> HIDE DEF s, Record
    <2> QED
      BY <2>1, SeqHolds
  <1>3. IsSeq(disk["owner"])
    <2>1. disk["owner"] \in Seq(Nat)
      BY <1>1
    <2> QED
      BY <2>1, SeqHolds
  <1>4. \A i \in DOMAIN s : /\ DecisionFields \subseteq DOMAIN s[i]
                            /\ s[i].id \in 0..FirstId /\ s[i].text \in Nat \ {0}
    BY <1>2 DEF DecisionFields
  <1>5. serial = 100
    BY DEF Init, FirstId
  <1> HIDE DEF s, Record
  <1>6. ASSUME NEW i \in DOMAIN s PROVE DecisionRow(s[i], serial)
    <2>1. s[i].id \in 0..100 /\ s[i].text \in Nat \ {0} /\ DecisionFields \subseteq DOMAIN s[i]
      BY <1>4 DEF FirstId
    <2>2. s[i].id \in Int /\ s[i].id <= serial
      BY <1>5, <2>1
    <2> QED
      BY <2>1, <2>2 DEF DecisionRow
  <1>7. \A i \in DOMAIN s : WithId(s[i]).id = LoadedId(s[i])
    BY <1>5, <1>6, LoadedRow
  <1>8. DecisionList(s, serial)
    BY <1>1, <1>2, <1>6, <1>7 DEF DecisionList
  <1> QED
    BY <1>1, <1>3, <1>8 DEF NamedAll, s

LEMMA QuestionsAtFirst ==
  ASSUME Init
  PROVE  /\ IsSeq(disk["question"]) /\ FactList(disk["fact"]) /\ ClusterList(disk["cluster"], serial)
         /\ QuestionList(Questions, disk["fact"], disk["cluster"], TornFiles)
         /\ \A i \in DOMAIN disk["question"] : SamePlace(disk["question"][i], Questions[i])
  <1> DEFINE s == disk["question"]
             facts == disk["fact"]
             clusters == disk["cluster"]
             Question == [id : 0..FirstId, text : Nat \ {0}, subject : Nat, answer : BOOLEAN,
                          status : QuestionStatus \cup {"absent"},
                          source : {"none", "fact", "decision", "answer"},
                          fact : Nat, decision : Nat, cluster : Nat, types : SUBSET STRING,
                          link : [type : {"absent", "none", "fact", "decision", "direct"}, id : Nat]]
             Fact == [id : 1..FirstId, subject : Nat, type : STRING, value : SUBSET STRING]
             Cluster == [id : 1..FirstId, norm : Seq(STRING), key : STRING, members : SUBSET Int]
  <1>1. /\ s \in Seq(Question) /\ facts \in Seq(Fact) /\ clusters \in Seq(Cluster)
        /\ Len(clusters) <= MaxClusters
        /\ \A i, j \in DOMAIN clusters : i < j => clusters[i].id < clusters[j].id
        /\ \A i \in DOMAIN s : /\ LinkAgrees(QuestionsLoaded(s)[i]) /\ FactThere(QuestionsLoaded(s)[i], facts)
                               /\ InCluster(s[i], clusters) /\ (s[i].id = 0 => s[i].cluster = 0)
    <2>1. StoredQuestions(s, facts, clusters, disk["approval"])
      BY MemoryAssumption DEF Init
    <2>2. \A q : FactBeside(q, facts, disk["approval"]) => FactThere(q, facts)
      BY Zenon DEF FactBeside, FactThere
    <2> QED
      BY <2>1, <2>2, Zenon DEF StoredQuestions
  <1>2. /\ IsSeq(s) /\ \A i \in DOMAIN s : s[i] \in Question
        /\ IsSeq(facts) /\ \A i \in DOMAIN facts : facts[i] \in Fact
        /\ IsSeq(clusters) /\ \A i \in DOMAIN clusters : clusters[i] \in Cluster
    <2>1. s \in Seq(Question) /\ facts \in Seq(Fact) /\ clusters \in Seq(Cluster)
      BY <1>1
    <2> HIDE DEF s, facts, clusters, Question, Fact, Cluster
    <2>2. IsSeq(s) /\ \A i \in DOMAIN s : s[i] \in Question
      BY <2>1, SeqHolds
    <2>3. IsSeq(facts) /\ \A i \in DOMAIN facts : facts[i] \in Fact
      BY <2>1, SeqHolds
    <2>4. IsSeq(clusters) /\ \A i \in DOMAIN clusters : clusters[i] \in Cluster
      BY <2>1, SeqHolds
    <2> QED
      BY <2>2, <2>3, <2>4
  <1>3. \A i \in DOMAIN s : /\ QuestionFields \subseteq DOMAIN s[i]
                            /\ s[i].id \in Nat /\ s[i].text \in Nat \ {0} /\ s[i].cluster \in Nat
                            /\ s[i].status \in QuestionStatus \cup {"absent"}
    <2> SUFFICES ASSUME NEW q \in Question
                 PROVE  /\ QuestionFields \subseteq DOMAIN q
                        /\ q.id \in Nat /\ q.text \in Nat \ {0} /\ q.cluster \in Nat
                        /\ q.status \in QuestionStatus \cup {"absent"}
      BY <1>2
    <2>1. q.id \in 0..100
      BY DEF FirstId
    <2>2. QuestionFields \subseteq DOMAIN q
      BY DEF QuestionFields
    <2>3. q.text \in Nat \ {0} /\ q.cluster \in Nat /\ q.status \in QuestionStatus \cup {"absent"}
      OBVIOUS
    <2> QED
      BY <2>1, <2>2, <2>3
  <1>4. \A i \in DOMAIN facts : "id" \in DOMAIN facts[i]
    BY <1>2
  <1>5. \A i \in DOMAIN clusters : {"id", "members"} \subseteq DOMAIN clusters[i] /\ clusters[i].id \in 1..FirstId
    BY <1>2
  <1>6. serial = 100 /\ FirstId = 100
    BY DEF Init, FirstId
  <1> HIDE DEF s, facts, clusters, Question, Fact, Cluster
  <1>7. FactList(facts) /\ ClusterList(clusters, serial)
    <2>1. \A i \in DOMAIN clusters : clusters[i].id \in Nat /\ clusters[i].id <= serial
      BY <1>5, <1>6
    <2> QED
      BY <1>1, <1>2, <1>4, <1>5, <2>1 DEF FactList, ClusterList
  <1>8. Questions = QuestionsLoaded(s) /\ DOMAIN Questions = DOMAIN s
        /\ \A i \in DOMAIN s : Questions[i] = Load(s[i])
    BY DEF Questions, QuestionsLoaded, Load, s
  <1>9. IsSeq(Questions)
    <2>1. Len(s) \in Nat /\ DOMAIN s = 1..Len(s)
      BY <1>2, SeqFacts
    <2>2. Questions = [i \in 1..Len(s) |-> Questions[i]]
      BY <1>8, <2>1 DEF Questions, QuestionsLoaded
    <2> QED
      BY <2>1, <2>2, ListIsSeq
  <1>10. ASSUME NEW i \in DOMAIN s
         PROVE  /\ LoadedQuestion(Questions[i]) /\ Known(Questions[i], facts, clusters, TornFiles)
                /\ SamePlace(s[i], Questions[i])
    <2>1. /\ LoadedQuestion(Load(s[i])) /\ Load(s[i]).cluster = s[i].cluster
          /\ s[i].id # 0 => Load(s[i]).id = s[i].id
      BY <1>3, LoadIsLoaded
    <2>2. SamePlace(s[i], Questions[i])
      BY <1>1, <1>8, <2>1 DEF SamePlace
    <2>3. InCluster(Questions[i], clusters)
      BY <1>1, <2>2 DEF InCluster, SamePlace
    <2> QED
      BY <1>1, <1>8, <2>1, <2>2, <2>3 DEF Known
  <1> QED
    BY <1>2, <1>7, <1>8, <1>9, <1>10 DEF QuestionList, s, facts, clusters

LEMMA MemoryInit == Init => MemoryInv
  <1> SUFFICES ASSUME Init PROVE MemoryInv
    OBVIOUS
  <1>1. /\ disk \in Stored /\ saving = <<>> /\ serial = FirstId /\ FirstId \in Nat
        /\ todo = [t \in Thread \cup {Main} |-> IF t = Main THEN <<[op |-> "init"]>> ELSE <<>>]
    BY DEF Init, FirstId
  <1>2. DOMAIN disk = Files /\ StoredSubjects(disk["subject"])
    BY <1>1, MemoryAssumption
  <1>3. ListsInv
    BY <1>1, <1>2, DecisionsAtFirst, QuestionsAtFirst, NoWrites DEF ListsInv
  <1>4. /\ IsSeq(disk["subject"])
        /\ \A i \in DOMAIN disk["subject"] : /\ {"id", "name"} \subseteq DOMAIN disk["subject"][i]
                                             /\ disk["subject"][i].id \in 1..100
    <2> DEFINE Record == [id : 1..FirstId, name : Nat, merged : Nat]
    <2>1. disk["subject"] \in Seq(Record)
      BY <1>2 DEF StoredSubjects
    <2> HIDE DEF Record
    <2>2. IsSeq(disk["subject"]) /\ \A i \in DOMAIN disk["subject"] : disk["subject"][i] \in Record
      BY <2>1, SeqHolds
    <2> QED
      BY <2>2 DEF Record, FirstId
  <1>5. SubjectList(disk["subject"], serial)
    <2>1. serial = 100
      BY <1>1 DEF FirstId
    <2>2. \A n \in 1..100 : n \in Nat \ {0} /\ n <= serial
      BY <2>1
    <2> QED
      BY <1>4, <2>2 DEF SubjectList
  <1>6. Fits(saving, disk, serial, TornFiles)
    BY <1>1, EmptyIsSeq DEF Fits
  <1>7. FilesInv
    BY <1>1, <1>5, <1>6, DecisionsAtFirst, QuestionsAtFirst DEF FilesInv
  <1>8. Main \notin Thread /\ todo[Main] = <<[op |-> "init"]>> /\ \A t \in Thread : todo[t] = <<>>
    BY <1>1, MemoryAssumption
  <1>9. CarriedInv
    BY <1>8, EmptyIsSeq DEF CarriedInv, RefersAll
  <1>10. StartInv
    BY <1>1, <1>8, OneIsSeq DEF StartInv
  <1>11. SubjectsInv
    <2>1. After(saving, disk, "subject") = disk["subject"]
      BY <1>1, NotWritten
    <2>2. \A n : NewOnes(disk["subject"], n) = {}
      BY <1>4 DEF NewOnes, FirstId
    <2>3. \A n : Creating(n) = {}
      BY <1>8 DEF Creating
    <2>4. Cardinality({}) = 0 /\ Cardinality(Thread) \in Nat
      BY FS_EmptySet, FS_CardinalityType, MemoryAssumption
    <2> QED
      BY <2>1, <2>2, <2>3, <2>4 DEF SubjectsInv, Room
  <1> QED
    BY <1>3, <1>7, <1>9, <1>10, <1>11, ExecutionInit DEF MemoryInv, SaidInv

LEMMA MemoryNext == MemoryInv /\ [Next]_vars => MemoryInv' /\ Kept
  <1> SUFFICES ASSUME MemoryInv, [Next]_vars PROVE MemoryInv' /\ Kept
    OBVIOUS
  <1>1. CASE Next
    BY <1>1, MemoryStep
  <1>2. CASE UNCHANGED vars
    <2>1. disk' = disk /\ saving' = saving /\ todo' = todo /\ serial' = serial /\ torn' = torn
      BY <1>2 DEF vars
    <2>2. ExecutionInv' /\ ListsInv'
      BY <2>1 DEF MemoryInv, ExecutionInv, ExecutionType, TodoOK, OneEach, Attended, Approvals, ListsInv,
        ListWrites
    <2>3. Questions' = Questions /\ TornFiles' = TornFiles /\ (\A n : Creating(n)' = Creating(n))
      BY <2>1 DEF Questions, TornFiles, Creating
    <2>4. FilesInv' /\ CarriedInv' /\ StartInv'
      BY <2>1, <2>3 DEF MemoryInv, SaidInv, FilesInv, CarriedInv, StartInv
    <2>5. SubjectsInv'
      BY <2>1 DEF MemoryInv, SaidInv, SubjectsInv, Room, Creating
    <2> QED
      BY <2>1, <2>2, <2>4, <2>5, SameFiles DEF MemoryInv, SaidInv
  <1> QED
    BY <1>1, <1>2

LEMMA MemoryInvariant == Spec => []MemoryInv
  BY MemoryInit, MemoryNext, PTL DEF Spec

\* One thread at a time executes an approval, whatever the keyboard and the worker ask for
\* at the same time, and a RUNNING one that no kill left behind has somebody executing it:
\* _merge_approval_execute takes it from PENDING under the lock, before the transaction.
THEOREM ApprovalsExecutedOnce == Spec => []ExecutedOnce
  <1>1. MemoryInv => ExecutedOnce
    <2> SUFFICES ASSUME MemoryInv, NEW i \in DOMAIN disk["approval"]
                 PROVE  LET by == {t \in Thread : Executing(t, disk["approval"][i].id)}
                        IN /\ Cardinality(by) <= 1
                           /\ disk["approval"][i].status = "RUNNING" /\ torn = <<>> /\ saving = <<>> => by # {}
      BY DEF ExecutedOnce
    <2> DEFINE id == disk["approval"][i].id
               by == {t \in Thread : Executing(t, id)}
    <2>1. \A t : Executing(t, id) <=> Executes(todo[t], id)
      BY DEF Executing, Executes
    <2>2. \A t, u \in by : t = u
      BY <2>1 DEF MemoryInv, ExecutionInv, OneEach, Actor
    <2>3. Cardinality(by) <= 1
      <3> HIDE DEF by
      <3>1. CASE by = {}
        BY <3>1, FS_EmptySet
      <3>2. CASE by # {}
        <4>1. PICK t : by = {t}
          BY <2>2, <3>2
        <4> QED
          BY <4>1, FS_Singleton
      <3> QED
        BY <3>1, <3>2
    <2>4. ASSUME disk["approval"][i].status = "RUNNING", torn = <<>>, saving = <<>>
          PROVE  by # {}
      <3>1. Approvals = disk["approval"]
        BY <2>4 DEF Approvals
      <3>2. PICK t \in Thread : Executes(todo[t], id)
        BY <2>4, <3>1 DEF MemoryInv, ExecutionInv, Attended
      <3> QED
        BY <2>1, <3>2
    <2> QED
      BY <2>3, <2>4
  <1> QED
    BY <1>1, MemoryInvariant, PTL

\* A decision that is DONE never has another status again, for as long as it is kept:
\* whichever row of acquisitions an extraction, a merge or memory_init() is in, what it
\* writes was made from the file as it is, and is written before anybody else reads it.
THEOREM DoneStaysDone == Spec => DoneIsFinal
  <1>1. MemoryInv /\ MemoryInv' /\ Kept =>
          \A i \in DOMAIN Decisions, j \in DOMAIN Decisions' :
            Decisions[i].status = "DONE" /\ Decisions[i].id = Decisions'[j].id
              => Decisions'[j].status = "DONE"
    <2> SUFFICES ASSUME MemoryInv, MemoryInv', Kept,
                        NEW i \in DOMAIN Decisions, NEW j \in DOMAIN Decisions',
                        Decisions[i].status = "DONE", Decisions[i].id = Decisions'[j].id
                 PROVE  Decisions'[j].status = "DONE"
      OBVIOUS
    <2>1. /\ DOMAIN Decisions = DOMAIN disk["decision"]
          /\ Decisions[i].id = LoadedId(disk["decision"][i])
          /\ Decisions[i].status = disk["decision"][i].status
      BY DecisionsAre DEF MemoryInv
    <2>2. /\ serial' \in Nat /\ DecisionList(disk'["decision"], serial')
          /\ j \in DOMAIN disk'["decision"] /\ Decisions'[j] = WithId(disk'["decision"][j])
      BY DEF MemoryInv, ListsInv, Decisions, DecisionsLoaded
    <2>3. /\ Decisions'[j].id = LoadedId(disk'["decision"][j])
          /\ Decisions'[j].status = disk'["decision"][j].status
      BY <2>2, LoadedRow DEF DecisionList
    <2> QED
      BY <2>1, <2>2, <2>3 DEF Kept, Keeps
  <1> QED
    BY <1>1, MemoryInvariant, MemoryNext, PTL DEF Spec, DoneIsFinal

\* The owner_id of a decision names its owner in the registry, and once memory_init() is
\* done every decision that has an owner has one, however extractions and merges interleave
\* and wherever a kill strikes but in the registry itself: the registry is only added to, and
\* is saved before the decision that refers to it.
THEOREM OwnersNamed == Spec => []OwnerNamed
  <1>1. MemoryInv => OwnerNamed
    <2> SUFFICES ASSUME MemoryInv, "owner" \notin TornFiles, NEW i \in DOMAIN disk["decision"]
                 PROVE  LET d == disk["decision"][i]
                        IN /\ NamesOwner(d, disk["owner"])
                           /\ todo[Main] = <<>> /\ saving = <<>> /\ d.owner.base # 0 => d.ownerId # 0
      BY DEF OwnerNamed
    <2>1. NamesOwner(disk["decision"][i], disk["owner"])
      BY DEF MemoryInv, SaidInv, FilesInv, NamedAll
    <2>2. todo[Main] = <<>> /\ saving = <<>> => WholeAll(disk["decision"])
      BY EmptyIsSeq DEF MemoryInv, SaidInv, StartInv
    <2> QED
      BY <2>1, <2>2 DEF WholeAll
  <1> QED
    BY <1>1, MemoryInvariant, PTL

\* What a question refers to in the other files is there: the fact that answered it, and the
\* cluster that holds it, or held it until it was evicted.  Facts are only added, a cluster
\* is saved before the question's place in it, and a thread that carries the id of a fact
\* from one acquisition to the next took it from a fact that was saved.
THEOREM LinksThere == Spec => []LinksHold
  <1>1. MemoryInv => LinksHold
    <2> SUFFICES ASSUME MemoryInv PROVE AnswerLinked /\ ClusterHolds
      BY DEF LinksHold
    <2>1. /\ QuestionList(Questions, disk["fact"], disk["cluster"], TornFiles)
          /\ \A i \in DOMAIN disk["question"] : SamePlace(disk["question"][i], Questions[i])
      BY DEF MemoryInv, SaidInv, FilesInv
    <2>2. DOMAIN Questions = DOMAIN disk["question"]
      BY QuestionsAre DEF MemoryInv
    <2>3. \A i \in DOMAIN Questions : Known(Questions[i], disk["fact"], disk["cluster"], TornFiles)
      BY <2>1 DEF QuestionList
    <2>4. AnswerLinked
      BY <2>3 DEF AnswerLinked, Known
    <2>5. ASSUME "cluster" \notin TornFiles, NEW i \in DOMAIN disk["question"]
          PROVE  InCluster(disk["question"][i], disk["cluster"])
      <3>1. InCluster(Questions[i], disk["cluster"]) /\ SamePlace(disk["question"][i], Questions[i])
        BY <2>1, <2>2, <2>3, <2>5 DEF Known
      <3> QED
        BY <3>1 DEF InCluster, SamePlace
    <2> QED
      BY <2>4, <2>5 DEF ClusterHolds
  <1> QED
    BY <1>1, MemoryInvariant, PTL

\* _subject_get_or_create looks for a subject in one acquisition and creates it in another:
\* threads that race make one subject each of a name at most, and none of a name that was
\* there.  A thread that is about to create one counts as if it had.
THEOREM OneSubjectEach == Spec => []SubjectsPerName
  <1>1. MemoryInv => SubjectsPerName
    <2> SUFFICES ASSUME MemoryInv, NEW i \in DOMAIN disk["subject"]
                 PROVE  LET new == {j \in DOMAIN disk["subject"] :
                                      /\ disk["subject"][j].name = disk["subject"][i].name
                                      /\ disk["subject"][j].id > FirstId}
                        IN /\ Cardinality(new) <= Cardinality(Thread)
                           /\ disk["subject"][i].id <= FirstId => new = {}
      BY DEF SubjectsPerName
    <2>1. /\ Cardinality(NewOnes(disk["subject"], disk["subject"][i].name)) <= Cardinality(Thread)
          /\ disk["subject"][i].id <= FirstId => NewOnes(disk["subject"], disk["subject"][i].name) = {}
      BY RoomOnDisk
    <2> QED
      BY <2>1 DEF NewOnes
  <1> QED
    BY <1>1, MemoryInvariant, PTL

-----------------------------------------------------------------------------
\* Chains of merges.

\* The last of some places in a list.
LEMMA FinalIs ==
  ASSUME NEW n \in Nat, NEW S, S \subseteq 1..n, S # {}
  PROVE  Final(S) \in S /\ \A j \in S : j <= Final(S)
  <1> DEFINE T == {n - i : i \in S}
  <1>1. T \subseteq Nat /\ T # {}
    <2>1. \A i \in S : n - i \in Nat
      OBVIOUS
    <2> QED
      BY <2>1
  <1>2. PICK m \in T : \A k \in T : m <= k
    BY <1>1, LeastNumber
  <1>3. PICK i \in S : m = n - i
    BY <1>2
  <1>4. \A j \in S : j <= i
    <2> SUFFICES ASSUME NEW j \in S PROVE j <= i
      OBVIOUS
    <2>1. m <= n - j
      BY <1>2
    <2> QED
      BY <1>3, <2>1
  <1>5. \E i_1 \in S : \A j \in S : i_1 >= j
    BY <1>4
  <1>6. Final(S) \in S /\ \A j \in S : Final(S) >= j
    BY <1>5, Zenon DEF Final
  <1> QED
    BY <1>6

LEMMA SubjectFound ==
  ASSUME NEW id, NEW s, IsSeq(s)
  PROVE  /\ SubjectById(id, s) # 0 => SubjectById(id, s) \in DOMAIN s /\ s[SubjectById(id, s)].id = id
         /\ \A i \in DOMAIN s : s[i].id = id => SubjectById(id, s) # 0
  <1> DEFINE at == {i \in DOMAIN s : s[i].id = id}
  <1>1. SubjectById(id, s) = IF at = {} THEN 0 ELSE Final(at)
    BY DEF SubjectById, Holding
  <1>2. Len(s) \in Nat /\ DOMAIN s = 1..Len(s)
    BY SeqFacts
  <1>3. at # {} => Final(at) \in at
    BY <1>2, FinalIs
  <1>4. 0 \notin DOMAIN s
    BY <1>2
  <1>5. \A i : i \in at <=> i \in DOMAIN s /\ s[i].id = id
    OBVIOUS
  <1> HIDE DEF at
  <1> QED
    BY <1>1, <1>3, <1>4, <1>5

\* One merge further.
Hop(x, subjects) == IF x = 0 THEN 0 ELSE MergedInto(x, subjects)
Chained(f, id, subjects, n) == f = [k \in 0..n |-> IF k = 0 THEN id ELSE Hop(f[k - 1], subjects)]

LEMMA ChainThere == \A id, subjects : \A n \in Nat : \E f : Chained(f, id, subjects, n)
  <1> TAKE id, subjects
  <1> DEFINE bad == {n \in Nat : ~\E f : Chained(f, id, subjects, n)}
  <1>1. ASSUME bad # {} PROVE FALSE
    <2>1. PICK n \in bad : \A m \in bad : n <= m
      BY <1>1, LeastNumber
    <2>2. n \in Nat /\ ~\E f : Chained(f, id, subjects, n)
      BY <2>1
    <2>3. CASE n = 0
      <3> DEFINE f == [k \in 0..0 |-> id]
      <3>1. f = [k \in 0..0 |-> IF k = 0 THEN id ELSE Hop(f[k - 1], subjects)]
        OBVIOUS
      <3> HIDE DEF f
      <3>2. Chained(f, id, subjects, n)
        BY <2>3, <3>1 DEF Chained
      <3> QED
        BY <2>2, <3>2
    <2>4. CASE n # 0
      <3>1. n - 1 \in Nat /\ n - 1 \notin bad
        BY <2>1, <2>2, <2>4
      <3>2. PICK f : Chained(f, id, subjects, n - 1)
        BY <3>1
      <3> DEFINE g == [k \in 0..n |-> IF k = n THEN Hop(f[n - 1], subjects) ELSE f[k]]
      <3>3. \A k \in 0..(n - 1) : f[k] = IF k = 0 THEN id ELSE Hop(f[k - 1], subjects)
        BY <3>2 DEF Chained
      <3>4. \A k \in 0..n : g[k] = IF k = n THEN Hop(f[n - 1], subjects) ELSE f[k]
        OBVIOUS
      <3>5. DOMAIN g = 0..n /\ g = [k \in 0..n |-> g[k]]
        OBVIOUS
      <3> HIDE DEF g
      <3>6. ASSUME NEW k \in 0..n
            PROVE  g[k] = IF k = 0 THEN id ELSE Hop(g[k - 1], subjects)
        <4>1. CASE k = 0
          <5>1. k # n /\ k \in 0..(n - 1)
            BY <2>2, <2>4, <4>1
          <5> QED
            BY <3>3, <3>4, <4>1, <5>1
        <4>2. CASE k # 0
          <5>1. k - 1 \in 0..n /\ k - 1 # n
            BY <2>2, <4>2
          <5>2. g[k - 1] = f[k - 1]
            BY <3>4, <5>1
          <5>3. CASE k = n
            BY <3>4, <4>2, <5>2, <5>3
          <5>4. CASE k # n
            <6>1. k \in 0..(n - 1)
              BY <2>2, <5>4
            <6>2. g[k] = f[k]
              BY <3>4, <5>4
            <6> QED
              BY <3>3, <4>2, <5>2, <6>1, <6>2
          <5> QED
            BY <5>3, <5>4
        <4> QED
          BY <4>1, <4>2
      <3>7. Chained(g, id, subjects, n)
        BY <3>5, <3>6 DEF Chained
      <3> QED
        BY <2>2, <3>7
    <2> QED
      BY <2>3, <2>4
  <1> QED
    BY <1>1

LEMMA ChainIs ==
  ASSUME NEW id, NEW subjects
  PROVE  /\ Chain(id, subjects)[0] = id
         /\ \A n \in 0..MaxHops : Chain(id, subjects)[n + 1] = Hop(Chain(id, subjects)[n], subjects)
  <1> DEFINE c == Chain(id, subjects)
             f == CHOOSE g : g = [n \in 0..(MaxHops + 1) |->
                      IF n = 0 THEN id ELSE IF g[n - 1] = 0 THEN 0 ELSE MergedInto(g[n - 1], subjects)]
  <1>1. c = f
    BY Zenon DEF Chain
  <1>2. f = CHOOSE g : Chained(g, id, subjects, MaxHops + 1)
    BY Zenon DEF Chained, Hop
  <1>3. MaxHops \in Nat /\ MaxHops + 1 \in Nat
    BY MemoryRecordsAssumption
  <1> HIDE DEF f
  <1>4. Chained(f, id, subjects, MaxHops + 1)
    BY <1>2, <1>3, ChainThere, Zenon
  <1> HIDE DEF c
  <1>5. \A k \in 0..(MaxHops + 1) : c[k] = IF k = 0 THEN id ELSE Hop(c[k - 1], subjects)
    BY <1>1, <1>4 DEF Chained
  <1>6. c[0] = id
    BY <1>3, <1>5
  <1>7. ASSUME NEW n \in 0..MaxHops PROVE c[n + 1] = Hop(c[n], subjects)
    <2>1. n + 1 \in 0..(MaxHops + 1) /\ n + 1 # 0 /\ (n + 1) - 1 = n
      BY <1>3
    <2> QED
      BY <1>5, <2>1
  <1> QED
    BY <1>6, <1>7 DEF c

\* The end of a chain is a subject that is merged into none, unless the chain has no end
\* within MaxHops subjects.
LEMMA EndOfChain ==
  ASSUME NEW id, NEW subjects, ResolveMerge(id, subjects) # 0
  PROVE  \/ MergedInto(ResolveMerge(id, subjects), subjects) = 0
         \/ ResolveMerge(id, subjects) = id /\ \A n \in 0..MaxHops : Chain(id, subjects)[n] # 0
  <1> DEFINE c == Chain(id, subjects)
             ends == {n \in 0..(MaxHops - 1) : c[n] # 0 /\ c[n + 1] = 0}
  <1>1. ResolveMerge(id, subjects) = IF ends = {} THEN id ELSE c[First(ends)]
    BY DEF ResolveMerge
  <1>2. MaxHops \in Nat \ {0}
    BY MemoryRecordsAssumption
  <1>3. c[0] = id /\ \A n \in 0..MaxHops : c[n + 1] = Hop(c[n], subjects)
    BY ChainIs
  <1> HIDE DEF c
  <1>4. CASE ends # {}
    <2>1. First(ends) \in ends
      BY <1>2, <1>4, FirstIs
    <2>2. c[First(ends)] # 0 /\ c[First(ends) + 1] = 0 /\ First(ends) \in 0..MaxHops
      BY <1>2, <2>1
    <2> QED
      BY <1>1, <1>3, <1>4, <2>2 DEF Hop
  <1>5. CASE ends = {}
    <2>2. ResolveMerge(id, subjects) = id /\ id # 0
      BY <1>1, <1>5
    <2> DEFINE gone == {n \in 0..MaxHops : c[n] = 0}
    <2>1. ASSUME gone # {} PROVE FALSE
      <3>5. gone \subseteq Nat
        BY <1>2
      <3>1. PICK n \in gone : \A m \in gone : n <= m
        BY <2>1, <3>5, LeastNumber
      <3>2. n # 0 /\ n \in 0..MaxHops /\ c[n] = 0
        BY <1>3, <2>2, <3>1
      <3>3. n - 1 \in 0..(MaxHops - 1) /\ n - 1 \notin gone /\ (n - 1) + 1 = n
        BY <1>2, <3>1, <3>2
      <3>4. n - 1 \in ends
        BY <1>2, <3>2, <3>3
      <3> QED
        BY <1>5, <3>4
    <2> QED
      BY <2>1, <2>2 DEF c
  <1> QED
    BY <1>4, <1>5

\* The validation sees every subject that is merged, and whose chain has no end.
LEMMA EndlessIsError ==
  ASSUME NEW subjects, IsSeq(subjects), NEW id, SubjectById(id, subjects) # 0,
         MergedInto(id, subjects) # 0, \A n \in 0..MaxHops : Chain(id, subjects)[n] # 0
  PROVE  MergeErrors(subjects) # {} \/ AtLimit(id, subjects)
  <1> DEFINE s == subjects[SubjectById(id, subjects)]
  <1>1. s \in ToSet(subjects) /\ s.id = id /\ s.merged # 0
    BY SubjectFound DEF ToSet, MergedInto
  <1>2. MaxHops \in 0..MaxHops
    BY MemoryRecordsAssumption
  <1>3. CASE Chain(id, subjects)[MaxHops + 1] = 0
    BY <1>2, <1>3 DEF AtLimit
  <1>4. CASE Chain(id, subjects)[MaxHops + 1] # 0
    <2> HIDE DEF s
    <2>1. MergeError(s, subjects) # "none"
      BY <1>1, <1>4 DEF MergeError
    <2>2. MergeErrors(subjects) = {x \in ToSet(subjects) : MergeError(x, subjects) # "none"}
      BY DEF MergeErrors
    <2> QED
      BY <1>1, <2>1, <2>2
  <1> QED
    BY <1>3, <1>4

-----------------------------------------------------------------------------
\* What the reports are about.

LEMMA ListFinite ==
  ASSUME NEW s, IsSeq(s)
  PROVE  IsFiniteSet(ToSet(s))
  <1>1. Len(s) \in Nat /\ s \in [1..Len(s) -> ToSet(s)] /\ ToSet(s) = {s[i] : i \in 1..Len(s)}
    <2>1. Len(s) \in Nat /\ DOMAIN s = 1..Len(s) /\ s \in Seq({s[i] : i \in DOMAIN s})
      BY SeqFacts DEF IsSeq
    <2> QED
      BY <2>1 DEF ToSet
  <1>2. s \in Surjection(1..Len(s), ToSet(s))
    BY <1>1 DEF Surjection
  <1>3. IsFiniteSet(1..Len(s))
    BY SeqFacts, FS_Interval
  <1> QED
    BY <1>2, <1>3, FS_Surjection, Zenon

LEMMA NoneCounted ==
  ASSUME NEW S, IsFiniteSet(S), NEW T, T \subseteq S
  PROVE  Cardinality(T) \in Nat /\ (Cardinality(T) = 0 <=> T = {})
  <1>1. IsFiniteSet(T)
    BY FS_Subset
  <1> QED
    BY <1>1, FS_CardinalityType, FS_EmptySet

\* The records of a bucket are loaded ones.
LEMMA BucketOfFiles ==
  ASSUME MemoryInv, NEW c \in Buckets(Loaded)
  PROVE  /\ c.questions \subseteq ToSet(Questions) /\ c.decisions \subseteq ToSet(Decisions)
         /\ IsFiniteSet(ToSet(Questions)) /\ IsFiniteSet(ToSet(Decisions))
         /\ \A q \in c.questions : LoadedQuestion(q)
  <1>1. PICK b \in SubjectIds(Loaded) : c = Bucket(b, Loaded)
    BY DEF Buckets
  <1>2. Loaded.question = Questions /\ Loaded.decision = Decisions
    BY DEF Loaded
  <1>3. c.questions \subseteq ToSet(Questions) /\ c.decisions \subseteq ToSet(Decisions)
    BY <1>1, <1>2 DEF Bucket
  <1>4. IsSeq(Questions) /\ IsSeq(Decisions) /\ \A i \in DOMAIN Questions : LoadedQuestion(Questions[i])
    BY DecisionsAre DEF MemoryInv, SaidInv, FilesInv, QuestionList
  <1>5. \A q \in ToSet(Questions) : LoadedQuestion(q)
    BY <1>4 DEF ToSet
  <1> QED
    BY <1>3, <1>4, <1>5, ListFinite

\* A question that is not resolved is reported as an open one.
LEMMA PendingReported ==
  ASSUME NEW c, \A q \in c.questions : LoadedQuestion(q)
  PROVE  Pending(c) \subseteq Entries(c, "OPEN")
  BY DEF Pending, Entries, EntryStatus, IsResolved, LoadedQuestion, QuestionStatus

LEMMA NothingOpen ==
  ASSUME MemoryInv, NEW c \in Buckets(Loaded)
  PROVE  LET x == AnswerContext(c)
         IN /\ x.openQuestions \in Nat /\ (x.openQuestions = 0 <=> Entries(c, "OPEN") = {})
            /\ x.openDecisions \in Nat /\ (x.openDecisions = 0 <=> Open(c) = {})
            /\ x.lifecycle = Lifecycle(c)
  <1>1. Entries(c, "OPEN") \subseteq ToSet(Questions) /\ Open(c) \subseteq ToSet(Decisions)
    BY BucketOfFiles DEF Entries, Open
  <1>2. /\ Cardinality(Entries(c, "OPEN")) \in Nat
        /\ Cardinality(Entries(c, "OPEN")) = 0 <=> Entries(c, "OPEN") = {}
    BY <1>1, NoneCounted, BucketOfFiles
  <1>3. Cardinality(Open(c)) \in Nat /\ (Cardinality(Open(c)) = 0 <=> Open(c) = {})
    BY <1>1, NoneCounted, BucketOfFiles
  <1> QED
    BY <1>2, <1>3 DEF AnswerContext

\* Whether a subject is only to be monitored.
Quiet(c) == Recommendation(AnswerContext(c)).type = "MONITOR"

LEMMA QuietMeans ==
  ASSUME MemoryInv, NEW c \in Buckets(Loaded)
  PROVE  Quiet(c) <=> Lifecycle(c) # "NEW" /\ Entries(c, "OPEN") = {} /\ Open(c) = {}
  <1> DEFINE x == AnswerContext(c)
  <1>1. /\ x.openQuestions \in Nat /\ (x.openQuestions = 0 <=> Entries(c, "OPEN") = {})
        /\ x.openDecisions \in Nat /\ (x.openDecisions = 0 <=> Open(c) = {})
        /\ x.lifecycle = Lifecycle(c)
    BY NothingOpen
  <1>2. Recommendation(x).type = RecommendationType(x)
    BY DEF Recommendation
  <1> HIDE DEF x
  <1>3. RecommendationType(x) = "MONITOR" <=> x.lifecycle # "NEW" /\ x.openQuestions = 0 /\ x.openDecisions = 0
    BY <1>1 DEF RecommendationType
  <1> QED
    BY <1>1, <1>2, <1>3 DEF Quiet, x

\* A subject that is only to be monitored is RESOLVED.
LEMMA QuietCompressed ==
  ASSUME MemoryInv, NEW c \in Buckets(Loaded), Quiet(c)
  PROVE  Compressible(c) /\ MissingInfo(c) = {}
  <1>1. Lifecycle(c) # "NEW" /\ Entries(c, "OPEN") = {} /\ Open(c) = {}
    BY QuietMeans
  <1>2. Pending(c) = {}
    BY <1>1, PendingReported, BucketOfFiles
  <1>3. SubjectStatus(c) = "RESOLVED"
    BY <1>1, <1>2 DEF SubjectStatus
  <1>4. Lifecycle(c) = "RESOLVED"
    BY <1>1, <1>3 DEF Lifecycle
  <1>5. MissingInfo(c) = {}
    BY <1>1 DEF MissingInfo
  <1> QED
    BY <1>3, <1>4, <1>5 DEF Compressible

\* The k-th of some places.
Nth(at, k) == CHOOSE i \in at : Cardinality({j \in at : j < i}) = k - 1

\* Of some places in a list, the number that come before one, which no other has.
Before(at, i) == {j \in at : j < i}
LEMMA PlacesDiffer ==
  ASSUME NEW s, IsSeq(s), NEW at, at \subseteq DOMAIN s
  PROVE  /\ IsFiniteSet(at) /\ Cardinality(at) \in Nat
         /\ \A i \in at : /\ Cardinality(Before(at, i)) \in Nat
                         /\ Cardinality(Before(at, i)) + 1 \in 1..Cardinality(at)
         /\ \A i, j \in at : Cardinality(Before(at, i)) = Cardinality(Before(at, j)) => i = j
  <1>1. at \subseteq Nat
    BY SeqFacts
  <1>2. IsFiniteSet(at)
    BY SeqFacts, FS_Interval, FS_Subset
  <1>3. Cardinality(at) \in Nat
    BY <1>2, FS_CardinalityType
  <1>4. \A x : /\ IsFiniteSet(Before(at, x)) /\ Cardinality(Before(at, x)) \in Nat
               /\ Cardinality(Before(at, x)) <= Cardinality(at)
               /\ Cardinality(Before(at, x)) = Cardinality(at) => Before(at, x) = at
    <2> TAKE x
    <2>1. Before(at, x) \in SUBSET at
      BY DEF Before
    <2> QED
      BY <1>2, <2>1, FS_Subset, FS_CardinalityType
  <1>5. ASSUME NEW i \in at PROVE Cardinality(Before(at, i)) + 1 \in 1..Cardinality(at)
    <2>1. Before(at, i) # at
      BY <1>1 DEF Before
    <2> QED
      BY <1>3, <1>4, <2>1
  <1>6. ASSUME NEW x \in at, NEW y \in at, x < y, Cardinality(Before(at, x)) = Cardinality(Before(at, y))
        PROVE  FALSE
    <2>1. Before(at, x) \in SUBSET Before(at, y) /\ x \in Before(at, y) /\ x \notin Before(at, x)
      BY <1>1, <1>6 DEF Before
    <2> QED
      BY <1>4, <1>6, <2>1, FS_Subset
  <1>7. \A x, y \in at : x = y \/ x < y \/ y < x
    BY <1>1
  <1> QED
    BY <1>2, <1>3, <1>4, <1>5, <1>6, <1>7

LEMMA NthIs ==
  ASSUME NEW s, IsSeq(s), NEW at, at \subseteq DOMAIN s, NEW i \in at
  PROVE  i = Nth(at, Cardinality(Before(at, i)) + 1)
  <1> DEFINE k == Cardinality(Before(at, i)) + 1
  <1>1. \A x \in at : Cardinality(Before(at, x)) = k - 1 <=> x = i
    <2>1. Cardinality(Before(at, i)) \in Nat
      BY PlacesDiffer
    <2>2. k - 1 = Cardinality(Before(at, i))
      BY <2>1
    <2> HIDE DEF k
    <2> QED
      BY <2>2, PlacesDiffer
  <1> HIDE DEF k
  <1>2. i = CHOOSE x \in at : Cardinality(Before(at, x)) = k - 1
    BY <1>1, Zenon
  <1> QED
    BY <1>2 DEF k, Nth, Before

\* Those that hold are found: the one at a place comes after those before it.
LEMMA ThoseFound ==
  ASSUME NEW s, IsSeq(s), NEW at, at \subseteq DOMAIN s, NEW i \in at
  PROVE  \E k \in 1..Cardinality(at) : i = Nth(at, k)
  BY PlacesDiffer, NthIs

LEMMA TwelveIsSeq ==
  \A a, b, c, d, e, f, g, h, i, j, k, l :
    LET s == <<a, b, c, d, e, f, g, h, i, j, k, l>> IN IsSeq(s) /\ 12 \in DOMAIN s /\ s[12] = l
  <1> TAKE a, b, c, d, e, f, g, h, i, j, k, l
  <1> DEFINE s == <<a, b, c, d, e, f, g, h, i, j, k, l>>
  <1>1. s \in Seq({a, b, c, d, e, f, g, h, i, j, k, l})
    OBVIOUS
  <1>2. IsSeq(s)
    BY <1>1, SomeSeq
  <1> QED
    BY <1>2

\* The reasoning section is there if there is anything to reason about.
LEMMA LastSection ==
  ASSUME NEW all, "A35" \notin ToSet(Sections(all))
  PROVE  Seeded(all) = {}
  <1> DEFINE at == {i \in DOMAIN Plugins : HasSection(Plugins[i], all)}
             on == Sections(all)
  <1>1. IsSeq(Plugins) /\ 12 \in DOMAIN Plugins /\ Plugins[12] = "A35"
    BY TwelveIsSeq, Zenon DEF Plugins
  <1>2. on = [k \in 1..Cardinality(at) |-> Plugins[Nth(at, k)]]
    BY DEF Sections, Those, Holding, Nth
  <1>3. HasSection("A35", all) <=> Seeded(all) # {}
    BY DEF HasSection
  <1>4. at \subseteq DOMAIN Plugins /\ (Seeded(all) # {} => 12 \in at)
    BY <1>1, <1>3
  <1> HIDE DEF at, on
  <1>5. ASSUME 12 \in at PROVE FALSE
    <2>1. PICK k \in 1..Cardinality(at) : 12 = Nth(at, k)
      BY <1>1, <1>4, <1>5, ThoseFound
    <2>2. k \in DOMAIN on /\ on[k] = Plugins[12]
      BY <1>2, <2>1
    <2> QED
      BY <1>1, <2>2 DEF ToSet, on
  <1> QED
    BY <1>4, <1>5

\* The seed of the reasoning is within its own reach.
LEMMA NothingToReason ==
  ASSUME NEW all, Seeded(all) = {}, NEW c \in all, c.id = DashboardList(all)[1].id
  PROVE  Entries(c, "OPEN") = {} /\ Open(c) = {}
  <1>1. Reasoning(c.id, all) = {}
    BY DEF Seeded
  <1>2. c.id \in Scope(c.id, all)
    BY DEF Scope
  <1>3. MissingInfo(c) = {} /\ FollowUp(c) = {}
    BY <1>1, <1>2 DEF Reasoning
  <1>4. Entries(c, "OPEN") = {}
    BY <1>3 DEF MissingInfo
  <1>5. {x \in c.decisions : x.status \notin DecisionTerminal} = {}
    BY <1>3 DEF FollowUp
  <1>6. Open(c) = {}
    BY <1>5 DEF Open, DecisionTerminal
  <1> QED
    BY <1>4, <1>6

\* The totals count every open question and decision there is.
LEMMA NothingInTotal ==
  ASSUME MemoryInv, NEW all, all \subseteq Buckets(Loaded),
         DashboardSummary(all).questions + DashboardSummary(all).decisions = 0, NEW c \in all
  PROVE  Entries(c, "OPEN") = {} /\ Open(c) = {}
  <1> DEFINE questions == UNION {Entries(x, "OPEN") : x \in all}
             decisions == UNION {Open(x) : x \in all}
  <1>1. \A x \in all : Entries(x, "OPEN") \subseteq ToSet(Questions) /\ Open(x) \subseteq ToSet(Decisions)
    BY BucketOfFiles DEF Entries, Open
  <1>2. questions \subseteq ToSet(Questions) /\ decisions \subseteq ToSet(Decisions)
    BY <1>1
  <1>3. Entries(c, "OPEN") \subseteq questions /\ Open(c) \subseteq decisions
    OBVIOUS
  <1>4. Cardinality(questions) + Cardinality(decisions) = 0
    BY DEF DashboardSummary
  <1>5. IsFiniteSet(ToSet(Questions)) /\ IsFiniteSet(ToSet(Decisions))
    BY BucketOfFiles
  <1> HIDE DEF questions, decisions
  <1>6. /\ Cardinality(questions) \in Nat /\ (Cardinality(questions) = 0 <=> questions = {})
        /\ Cardinality(decisions) \in Nat /\ (Cardinality(decisions) = 0 <=> decisions = {})
    BY <1>2, <1>5, NoneCounted
  <1> QED
    BY <1>3, <1>4, <1>6

\* The block of a merged subject is compressed, and its open decisions with it, only when
\* its chain has no end.
LEMMA HiddenReported ==
  ASSUME MemoryInv, NEW c \in Buckets(Loaded), Compressible(c), Open(c) # {}
  PROVE  MergeErrors(disk["subject"]) # {} \/ AtLimit(c.id, disk["subject"])
  <1> DEFINE s == disk["subject"]
             at == SubjectById(c.id, s)
  <1>1. PICK r \in Records(Loaded) : c = Bucket(BucketOf(r, Loaded), Loaded) /\ BucketOf(r, Loaded) # 0
    BY DEF Buckets, SubjectIds
  <1>2. Loaded.subject = s
    BY DEF Loaded
  <1>3. c.id = ResolveMerge(r.subject, s) /\ c.id # 0 /\ c.merged = (at # 0 /\ s[at].merged # 0)
    BY <1>1, <1>2 DEF Bucket, BucketOf
  <1>4. c.merged
    BY DEF Compressible, SubjectStatus
  <1>5. at # 0 /\ MergedInto(c.id, s) # 0
    BY <1>3, <1>4 DEF MergedInto
  <1>6. IsSeq(s)
    BY DEF MemoryInv, SaidInv, FilesInv, SubjectList
  <1>7. r.subject = c.id /\ \A n \in 0..MaxHops : Chain(c.id, s)[n] # 0
    BY <1>3, <1>5, EndOfChain
  <1> QED
    BY <1>5, <1>6, <1>7, EndlessIsError

LEMMA ReportedAre == \A asked : Reported(asked) \subseteq Buckets(Loaded)
  BY DEF Reported

\* No open decision or question is left out of all the reports: not hidden with the block of
\* a merged subject, not missed by the recommendation, the reasoning or the totals.
THEOREM NothingLeftUnseen == Spec => []NothingOverlooked
  <1>1. MemoryInv => NothingOverlooked
    <2> SUFFICES ASSUME MemoryInv PROVE NothingOverlooked
      OBVIOUS
    <2> DEFINE all == Reported(Idle)
    <2>1. all \subseteq Buckets(Loaded)
      BY ReportedAre
    <2>2. HiddenOnlyIfReported
      BY ReportedAre, HiddenReported DEF HiddenOnlyIfReported
    <2>3. \A c \in all : Quiet(c) => Compressible(c) /\ MissingInfo(c) = {}
      BY <2>1, QuietCompressed
    <2>4. "A35" \notin ToSet(Sections(all)) =>
            \A c \in {x \in all : x.id = DashboardList(all)[1].id} : Entries(c, "OPEN") = {} /\ Open(c) = {}
      <3> HIDE DEF all
      <3> QED
        BY LastSection, NothingToReason
    <2>5. DashboardSummary(all).questions + DashboardSummary(all).decisions = 0 =>
            \A c \in all : Quiet(c) \/ Lifecycle(c) = "NEW"
      <3> HIDE DEF all
      <3> QED
        BY <2>1, NothingInTotal, QuietMeans
    <2> QED
      BY <2>2, <2>3, <2>4, <2>5, Zenon DEF NothingOverlooked, Quiet
  <1> QED
    BY <1>1, MemoryInvariant, PTL

-----------------------------------------------------------------------------
\* Answers beside their questions.

\* Two subjects that the merges a were begun for have left together, said of every set; a
\* fact of this id beside the subject x; and what lists of facts and of approvals keep.
Parts(S, a) == \A i \in DOMAIN a : a[i].status # "PENDING" => (a[i].source \in S <=> a[i].target \in S)
Joined(x, y, a) == \A S : Parts(S, a) => (x \in S <=> y \in S)
MoreBegun(a, b) == \A S : Parts(S, b) => Parts(S, a)
FactIn(id, x, facts, a) == \E j \in DOMAIN facts : facts[j].id = id /\ Joined(x, facts[j].subject, a)
FactsFollow(r, s, a) == \A j \in DOMAIN r : FactIn(r[j].id, r[j].subject, s, a)

\* A list of questions whose answers are beside them; one with the ids of an earlier list,
\* each question where that list's was, and newer ones; and one in which nothing keeps the
\* fact f from answering the question of this id.
BesideAll(v, facts, a) == \A k \in DOMAIN v : v[k].source = "fact" => FactIn(v[k].fact, v[k].subject, facts, a)
QuestionIds(v, last) ==
  /\ \A i \in DOMAIN v : v[i].id \in Int /\ v[i].id <= last
  /\ \A i, j \in DOMAIN v : v[i].id = v[j].id => i = j
FollowsQuestions(r, v, a, last) ==
  \A k \in DOMAIN v :
    v[k].id > last \/ \E i \in DOMAIN r : r[i].id = v[k].id /\ Joined(v[k].subject, r[i].subject, a)
Marked(id, f, v, facts, a) == \A k \in DOMAIN v : v[k].id = id => FactIn(f, v[k].subject, facts, a)

\* What an acquisition carries from an earlier one: the question a fact is to answer, in the
\* questions v and in what the writes w make of them; that fact; and a merge.
Bears(o, v, w, facts, a, last) ==
  /\ o.op = "markAnswered" =>
       /\ o.id \in Int /\ o.id <= last
       /\ Marked(o.id, o.fact, v, facts, a)
       /\ \A i \in DOMAIN w : w[i].file = "question" => Marked(o.id, o.fact, w[i].value, facts, a)
  /\ o.op = "questionLinks" => FactIn(o.fact.id, o.fact.subject, facts, a)
  /\ o.op \in TransactionOps => {"source", "target"} \subseteq DOMAIN o /\ Joined(o.source, o.target, a)
BearsAll(s, v, w, facts, a, last) == \A i \in DOMAIN s : Bears(s[i], v, w, facts, a, last)
Bearing == {"markAnswered", "questionLinks"} \cup TransactionOps

FactRecords(s) == IsSeq(s) /\ \A j \in DOMAIN s : {"id", "subject"} \subseteq DOMAIN s[j]
ApprovalRecords(s) == IsSeq(s) /\ \A i \in DOMAIN s : {"id", "status", "source", "target"} \subseteq DOMAIN s[i]

\* What may be written beside these facts and approvals.
Mild(x, facts, a) ==
  /\ x.file = "question" => BesideAll(x.value, facts, a)
  /\ x.file = "fact" => FactRecords(x.value) /\ FactsFollow(facts, x.value, a)
  /\ x.file = "approval" => ApprovalRecords(x.value) /\ MoreBegun(a, x.value)

Intact == "fact" \notin TornFiles /\ "approval" \notin TornFiles
BesideFiles ==
  /\ FactRecords(disk["fact"]) /\ ApprovalRecords(disk["approval"])
  /\ BesideAll(Questions, disk["fact"], disk["approval"])
  /\ \A i \in DOMAIN saving : Mild(saving[i], disk["fact"], disk["approval"])
  /\ \A t \in Thread : BearsAll(todo[t], Questions, saving, After(saving, disk, "fact"),
                                After(saving, disk, "approval"), serial)
BesideInv ==
  /\ QuestionIds(Questions, serial)
  /\ \A i \in DOMAIN saving : saving[i].file = "question" => QuestionIds(saving[i].value, serial)
  /\ Intact => BesideFiles

LEMMA JoinedIs ==
  \A a : /\ \A x : Joined(x, x, a)
         /\ \A x, y : Joined(x, y, a) => Joined(y, x, a)
         /\ \A x, y, z : Joined(x, y, a) /\ Joined(y, z, a) => Joined(x, z, a)
  BY DEF Joined

LEMMA JoinedGrows == \A a, b, x, y : MoreBegun(a, b) /\ Joined(x, y, a) => Joined(x, y, b)
  BY DEF Joined, MoreBegun

LEMMA NothingFollows == \A s, a : FactsFollow(s, s, a) /\ MoreBegun(a, a)
  BY JoinedIs DEF FactsFollow, FactIn, MoreBegun

LEMMA FactFollows ==
  ASSUME NEW r, NEW s, NEW a, NEW b, FactsFollow(r, s, a), MoreBegun(a, b),
         NEW id, NEW x, NEW y, Joined(x, y, a), FactIn(id, y, r, a)
  PROVE  FactIn(id, x, s, b)
  <1>1. PICK j \in DOMAIN r : r[j].id = id /\ Joined(y, r[j].subject, a)
    BY DEF FactIn
  <1>2. PICK k \in DOMAIN s : s[k].id = id /\ Joined(r[j].subject, s[k].subject, a)
    BY <1>1 DEF FactsFollow, FactIn
  <1>3. Joined(x, s[k].subject, a)
    BY <1>1, <1>2, JoinedIs
  <1>4. Joined(x, s[k].subject, b)
    BY <1>3, JoinedGrows
  <1> QED
    BY <1>2, <1>4 DEF FactIn

LEMMA FollowedFacts ==
  ASSUME NEW r, NEW s, NEW a, NEW b, FactsFollow(r, s, a), MoreBegun(a, b)
  PROVE  /\ \A id, x : FactIn(id, x, r, a) => FactIn(id, x, s, b)
         /\ \A v : BesideAll(v, r, a) => BesideAll(v, s, b)
         /\ \A id, f, v : Marked(id, f, v, r, a) => Marked(id, f, v, s, b)
  <1>1. \A id, x : FactIn(id, x, r, a) => FactIn(id, x, s, b)
    BY FactFollows, JoinedIs
  <1> QED
    BY <1>1 DEF BesideAll, Marked

\* What a thread carries stays true of what the others write.
LEMMA BearsGrow ==
  ASSUME NEW r, NEW s, NEW a, NEW b, FactsFollow(r, s, a), MoreBegun(a, b),
         NEW last \in Nat, NEW next \in Nat, last <= next, NEW v, NEW w,
         \A i \in DOMAIN w : w[i].file = "question" => FollowsQuestions(v, w[i].value, a, last),
         NEW o, Bears(o, v, <<>>, r, a, last)
  PROVE  Bears(o, v, w, s, b, next)
  <1>1. ASSUME o.op = "markAnswered"
        PROVE  /\ o.id \in Int /\ o.id <= next
               /\ Marked(o.id, o.fact, v, s, b)
               /\ \A i \in DOMAIN w : w[i].file = "question" => Marked(o.id, o.fact, w[i].value, s, b)
    <2>1. o.id \in Int /\ o.id <= last /\ Marked(o.id, o.fact, v, r, a)
      BY <1>1 DEF Bears
    <2>2. ASSUME NEW i \in DOMAIN w, w[i].file = "question", NEW k \in DOMAIN w[i].value,
                 w[i].value[k].id = o.id
          PROVE  FactIn(o.fact, w[i].value[k].subject, s, b)
      <3>1. ~(w[i].value[k].id > last)
        BY <2>1, <2>2
      <3>2. PICK j \in DOMAIN v : v[j].id = o.id /\ Joined(w[i].value[k].subject, v[j].subject, a)
        BY <2>2, <3>1 DEF FollowsQuestions
      <3>3. FactIn(o.fact, v[j].subject, r, a)
        BY <2>1, <3>2 DEF Marked
      <3> QED
        BY <3>2, <3>3, FactFollows
    <2>3. o.id <= next
      BY <2>1
    <2>4. Marked(o.id, o.fact, v, s, b)
      BY <2>1, FollowedFacts
    <2> QED
      BY <2>1, <2>2, <2>3, <2>4 DEF Marked
  <1>2. o.op = "questionLinks" => FactIn(o.fact.id, o.fact.subject, s, b)
    BY FollowedFacts DEF Bears
  <1>3. o.op \in TransactionOps => {"source", "target"} \subseteq DOMAIN o /\ Joined(o.source, o.target, b)
    BY JoinedGrows DEF Bears
  <1> QED
    BY <1>1, <1>2, <1>3 DEF Bears

LEMMA BearsNothing == \A o, v, w, facts, a, last : o.op \notin Bearing => Bears(o, v, w, facts, a, last)
  BY DEF Bearing, Bears

\* What the files are once the first of the writes is done follows what they were.
LEMMA MildAfter ==
  ASSUME NEW w, IsSeq(w), NEW files,
         \A i \in DOMAIN w : Mild(w[i], files["fact"], files["approval"])
  PROVE  /\ FactsFollow(files["fact"], After(w, files, "fact"), files["approval"])
         /\ MoreBegun(files["approval"], After(w, files, "approval"))
  <1>1. CASE w = <<>>
    BY <1>1, NothingFollows DEF After
  <1>2. CASE w # <<>>
    <2>1. 1 \in DOMAIN w
      BY <1>2, SeqFacts
    <2>2. Mild(w[1], files["fact"], files["approval"])
      BY <2>1
    <2> QED
      BY <2>2, NothingFollows DEF After, Mild
  <1> QED
    BY <1>1, <1>2

\* An acquisition.
LEMMA BesideSection ==
  ASSUME MemoryInv, BesideInv, NEW t \in Actor, saving = <<>>, todo[t] # <<>>,
         NEW w, IsSeq(w), NEW more, IsSeq(more), Section(t, w, more), serial' \in {serial, serial + 1},
         \A i \in DOMAIN w : w[i].file = "question" => QuestionIds(w[i].value, serial'),
         Intact => /\ \A i \in DOMAIN w :
                        /\ Mild(w[i], disk["fact"], disk["approval"])
                        /\ w[i].file = "question" =>
                             FollowsQuestions(Questions, w[i].value, disk["approval"], serial)
                   /\ BearsAll(more, Questions, w, After(w, disk, "fact"), After(w, disk, "approval"), serial')
  PROVE  BesideInv'
  <1>1. disk' = disk /\ saving' = w /\ torn' = torn
    BY DEF Section
  <1>2. Questions' = Questions /\ (Intact' <=> Intact)
    BY <1>1 DEF Questions, Intact, TornFiles
  <1>3. serial \in Nat /\ serial' \in Nat /\ serial <= serial'
    BY DEF MemoryInv, ListsInv
  <1>4. QuestionIds(Questions', serial')
    BY <1>2, <1>3 DEF BesideInv, QuestionIds
  <1>5. \A i \in DOMAIN saving' : saving'[i].file = "question" => QuestionIds(saving'[i].value, serial')
    BY <1>1
  <1>6. ASSUME Intact PROVE BesideFiles'
    <2> DEFINE facts == After(w, disk, "fact")
               a == After(w, disk, "approval")
    <2>1. FactsFollow(disk["fact"], facts, disk["approval"]) /\ MoreBegun(disk["approval"], a)
      BY <1>6, MildAfter
    <2>2. /\ FactRecords(disk["fact"]) /\ ApprovalRecords(disk["approval"])
          /\ BesideAll(Questions, disk["fact"], disk["approval"])
      BY <1>6 DEF BesideInv, BesideFiles
    <2>3. \A u \in Thread : BearsAll(todo[u], Questions, <<>>, disk["fact"], disk["approval"], serial)
      BY <1>6, NotWritten DEF BesideInv, BesideFiles
    <2> HIDE DEF facts, a
    <2>4. \A u \in Thread : BearsAll(todo[u], Questions, w, facts, a, serial')
      BY <1>3, <1>6, <2>1, <2>3, BearsGrow DEF BearsAll
    <2>5. BearsAll(more, Questions, w, facts, a, serial')
      BY <1>6 DEF facts, a
    <2>6. /\ todo'[t] = more \o Tail(todo[t]) /\ CalmRow(Tail(todo[t]))
          /\ \A u \in Actor \ {t} : todo'[u] = todo[u]
      BY OthersStay
    <2>7. IsSeq(todo[t])
      BY DEF MemoryInv, ExecutionInv, ExecutionType, TodoOK, Row
    <2>8. ASSUME NEW u \in Thread PROVE BearsAll(todo'[u], Questions, w, facts, a, serial')
      <3>1. CASE u # t
        BY <2>4, <2>6, <3>1 DEF Actor
      <3>2. CASE u = t
        <4>1. /\ IsSeq(Tail(todo[t]))
              /\ \A i \in DOMAIN Tail(todo[t]) : i + 1 \in DOMAIN todo[t] /\ Tail(todo[t])[i] = todo[t][i + 1]
          BY <2>7, TailIsSeq
        <4>2. BearsAll(Tail(todo[t]), Questions, w, facts, a, serial')
          BY <2>4, <3>2, <4>1 DEF BearsAll
        <4>3. \A i \in DOMAIN (more \o Tail(todo[t])) :
                \/ i \in DOMAIN more /\ (more \o Tail(todo[t]))[i] = more[i]
                \/ /\ i > Len(more) /\ i - Len(more) \in DOMAIN Tail(todo[t])
                   /\ (more \o Tail(todo[t]))[i] = Tail(todo[t])[i - Len(more)]
          BY <4>1, ConcatIsSeq
        <4> QED
          BY <2>5, <2>6, <3>2, <4>2, <4>3 DEF BearsAll
      <3> QED
        BY <3>1, <3>2
    <2>9. \A i \in DOMAIN w : Mild(w[i], disk["fact"], disk["approval"])
      BY <1>6
    <2>10. After(saving', disk', "fact") = facts /\ After(saving', disk', "approval") = a
      BY <1>1 DEF facts, a
    <2> QED
      BY <1>1, <1>2, <2>2, <2>8, <2>9, <2>10 DEF BesideFiles
  <1> QED
    BY <1>2, <1>4, <1>5, <1>6 DEF BesideInv

\* One that hands nothing on and writes none of these files.
Hushed(w) == IsSeq(w) /\ \A i \in DOMAIN w : w[i].file \notin {"question", "fact", "approval"}
Bare(s) == IsSeq(s) /\ \A i \in DOMAIN s : s[i].op \notin Bearing

LEMMA HushedNothing == Hushed(<<>>) /\ Bare(<<>>)
  BY EmptyIsSeq DEF Hushed, Bare

LEMMA HushedWrite ==
  \A file, value : file \notin {"question", "fact", "approval"} => Hushed(<<Write(file, value)>>)
  <1> TAKE file, value
  <1> DEFINE x == Write(file, value)
  <1>1. IsSeq(<<x>>) /\ DOMAIN <<x>> = {1} /\ <<x>>[1] = x
    BY OneIsSeq
  <1>2. x.file = file
    BY DEF Write
  <1> HIDE DEF x
  <1>3. file \notin {"question", "fact", "approval"} => Hushed(<<x>>)
    BY <1>1, <1>2 DEF Hushed
  <1> QED
    BY <1>3 DEF x

LEMMA BareOne == \A o : o.op \notin Bearing => Bare(<<o>>)
  BY OneIsSeq DEF Bare

LEMMA FreeIsBare == \A s : FreeRow(s) => Bare(s)
  <1>1. \A o : Free(o) => o.op \notin Bearing
    BY DEF Free, Calm, Plain, Carriers, Bearing
  <1> QED
    BY <1>1 DEF FreeRow, Bare

LEMMA BareBears ==
  \A s : Bare(s) => \A v, w, facts, a, last : BearsAll(s, v, w, facts, a, last)
  BY BearsNothing DEF Bare, BearsAll

LEMMA BesideQuiet ==
  ASSUME MemoryInv, BesideInv, NEW t \in Actor, saving = <<>>, todo[t] # <<>>,
         NEW w, Hushed(w), NEW more, Bare(more), Section(t, w, more), serial' \in {serial, serial + 1}
  PROVE  BesideInv'
  <1>1. /\ \A i \in DOMAIN w : w[i].file = "question" => QuestionIds(w[i].value, serial')
        /\ \A i \in DOMAIN w :
             /\ Mild(w[i], disk["fact"], disk["approval"])
             /\ w[i].file = "question" =>
                  FollowsQuestions(Questions, w[i].value, disk["approval"], serial)
    BY DEF Hushed, Mild
  <1>2. BearsAll(more, Questions, w, After(w, disk, "fact"), After(w, disk, "approval"), serial')
    BY BareBears
  <1>3. IsSeq(w) /\ IsSeq(more)
    BY DEF Hushed, Bare
  <1> QED
    BY <1>1, <1>2, <1>3, BesideSection

\* A list of acquisitions that bear nothing.
LEMMA BareList ==
  ASSUME NEW n \in Nat, NEW s, s = [i \in 1..n |-> s[i]], \A i \in 1..n : s[i].op \notin Bearing
  PROVE  Bare(s)
  BY ListIsSeq DEF Bare

\* The acquisitions that bear nothing, by what they do.
LEMMA BareOps ==
  /\ {"create", "question", "owner", "fact", "cluster", "update", "decision", "markDone", "decisionLinks",
      "find", "execute", "autoIds", "autoPair", "approve", "auto", "answeredBy"} \cap Bearing = {}
  BY DEF Bearing, TransactionOps

LEMMA BareForSubject == \A name, then : then.op \notin Bearing => ForSubject(name, then).op \notin Bearing
  <1> TAKE name, then
  <1>1. [op |-> "find", name |-> name, then |-> then].op \notin Bearing
    BY BareOps
  <1> QED
    BY <1>1 DEF ForSubject

\* What a thread looks a subject up for goes on with the subject's id.
LEMMA WaitsBare ==
  \A o, id : Waits(o) => [o.then EXCEPT !.subject = id].op \notin Bearing
  <1> SUFFICES ASSUME NEW o, NEW id, Waits(o)
               PROVE  [o.then EXCEPT !.subject = id].op \notin Bearing
    OBVIOUS
  <1>1. "op" \in DOMAIN o.then /\ o.then.op \in {"question", "owner", "fact"}
    BY DEF Waits, Plain
  <1>2. [o.then EXCEPT !.subject = id].op = o.then.op
    BY <1>1
  <1> QED
    BY <1>1, <1>2, BareOps

LEMMA BesideSubjects ==
  ASSUME MemoryInv, BesideInv, NEW t \in Thread, FindSubject(t) \/ CreateSubject(t)
  PROVE  BesideInv'
  <1>1. t \in Actor
    BY DEF Actor
  <1>2. CASE FindSubject(t)
    <2> DEFINE o == Next1(t)
               id == SubjectFind(o.name, disk["subject"])
               found == [o.then EXCEPT !.subject = id]
               missed == [o EXCEPT !.op = "create"]
               more == IF id # 0 THEN <<found>> ELSE <<missed>>
    <2>1. /\ saving = <<>> /\ todo[t] # <<>> /\ o.op = "find" /\ serial' = serial
          /\ Section(t, <<>>, more)
      BY <1>2 DEF FindSubject, Doing
    <2>2. Calm(o)
      BY <2>1, HeadIsCalm, OutsideTransactions DEF PlainOps
    <2>3. found.op \notin Bearing
      BY <2>1, <2>2, WaitsBare DEF Calm
    <2>4. missed.op \notin Bearing
      <3>1. missed.op = "create"
        BY <2>2 DEF Calm, Plain
      <3> QED
        BY <3>1, BareOps
    <2> HIDE DEF found, missed, id
    <2>5. Bare(more)
      BY <2>3, <2>4, BareOne
    <2> HIDE DEF more
    <2> QED
      BY <1>1, <2>1, <2>5, HushedNothing, BesideQuiet
  <1>3. CASE CreateSubject(t)
    <2> DEFINE o == Next1(t)
               value == Append(disk["subject"], [id |-> NewId, name |-> o.name, merged |-> 0])
               found == [o.then EXCEPT !.subject = NewId]
    <2>1. /\ saving = <<>> /\ todo[t] # <<>> /\ o.op = "create" /\ serial' = serial + 1
          /\ Section(t, <<Write("subject", value)>>, <<found>>)
      BY <1>3 DEF CreateSubject, Doing, NewId
    <2>2. Creates(o)
      <3>1. "create" \notin TransactionOps
        BY DEF TransactionOps
      <3> QED
        BY <2>1, <3>1, HeadIsCalm
    <2>3. found.op \notin Bearing
      BY <2>2, WaitsBare DEF Creates
    <2> HIDE DEF found, value
    <2>4. Bare(<<found>>) /\ Hushed(<<Write("subject", value)>>)
      BY <2>3, BareOne, HushedWrite
    <2> QED
      BY <1>1, <2>1, <2>4, BesideQuiet
  <1> QED
    BY <1>2, <1>3

LEMMA BesideDecisions ==
  ASSUME MemoryInv, BesideInv, NEW t \in Thread,
         \/ AddSummary(t) \/ SimilarQuestion(t) \/ DetectCompleted(t) \/ UpdateDecisionStatus(t)
         \/ ForOwner(t) \/ AddDecision(t) \/ ApplyTransition(t) \/ LinkDecisions(t) \/ MarkDone(t)
  PROVE  BesideInv'
  <1>1. t \in Actor
    BY DEF Actor
  <1>2. \A v : Hushed(<<Write("decision", v)>>) /\ Hushed(<<Write("owner", v)>>)
               /\ Hushed(<<Write("summary", v)>>)
    BY HushedWrite
  <1>3. ASSUME NEW w, w = <<>> \/ Hushed(w), saving = <<>>, todo[t] # <<>>, Section(t, w, <<>>),
               serial' \in {serial, serial + 1}
        PROVE  BesideInv'
    BY <1>1, <1>3, HushedNothing, BesideQuiet
  <1>4. ASSUME NEW more, Bare(more), saving = <<>>, todo[t] # <<>>, Section(t, <<>>, more), serial' = serial
        PROVE  BesideInv'
    BY <1>1, <1>4, HushedNothing, BesideQuiet
  <1>5. CASE AddSummary(t)
    BY <1>2, <1>3, <1>5 DEF AddSummary, Doing
  <1>6. CASE SimilarQuestion(t)
    <2> DEFINE o == [op |-> "question", text |-> Next1(t).text, subject |-> 0]
               next == ForSubject(SubjectIn[Next1(t).text], o)
               more == IF SimilarExists(Next1(t).text, disk["question"]) THEN <<>> ELSE <<next>>
    <2>1. saving = <<>> /\ todo[t] # <<>> /\ Section(t, <<>>, more) /\ serial' = serial
      BY <1>6 DEF SimilarQuestion, Doing
    <2>2. o.op \notin Bearing
      BY BareOps
    <2> HIDE DEF o
    <2>3. next.op \notin Bearing
      BY <2>2, BareForSubject
    <2> HIDE DEF next
    <2>4. Bare(more)
      BY <2>3, BareOne, HushedNothing
    <2> QED
      BY <1>4, <2>1, <2>4
  <1>7. CASE DetectCompleted(t)
    <2> DEFINE at == {i \in DOMAIN disk["decision"] :
                        disk["decision"][i].status = "OPEN" /\ disk["decision"][i].text \in Next1(t).texts}
               open == Those(disk["decision"], LAMBDA d : d.status = "OPEN" /\ d.text \in Next1(t).texts)
               more == [i \in DOMAIN open |-> [op |-> "update", text |-> open[i].text]]
    <2>1. saving = <<>> /\ todo[t] # <<>> /\ Section(t, <<>>, more) /\ serial' = serial
      BY <1>7 DEF DetectCompleted, Doing
    <2>2. Cardinality(at) \in Nat
      BY DecisionsAre, PlacesCounted DEF MemoryInv
    <2>3. DOMAIN open = 1..Cardinality(at)
      BY DEF Those, Holding
    <2> HIDE DEF at, open
    <2>4. more = [i \in 1..Cardinality(at) |-> more[i]] /\ \A i \in 1..Cardinality(at) : more[i].op = "update"
      BY <2>3
    <2> HIDE DEF more
    <2>5. Bare(more)
      BY <2>2, <2>4, BareList, BareOps
    <2> QED
      BY <1>4, <2>1, <2>5
  <1>8. CASE UpdateDecisionStatus(t)
    BY <1>2, <1>3, <1>8 DEF UpdateDecisionStatus, Doing
  <1>9. CASE ForOwner(t)
    <2> DEFINE p == Next1(t).owner
               registry == WithOwner(p, disk["owner"])
               then == [Next1(t) EXCEPT !.op = "decision"]
               next == [then EXCEPT !.ownerId = OwnerId(p, registry)]
    <2>1. /\ saving = <<>> /\ todo[t] # <<>> /\ serial' = serial /\ Next1(t).op = "owner"
          /\ \/ Section(t, <<>>, <<then>>)
             \/ Section(t, <<Write("owner", registry)>>, <<next>>)
      BY <1>9 DEF ForOwner, Doing
    <2>2. "op" \in DOMAIN Next1(t)
      BY <2>1, HeadIsCalm, OutsideTransactions DEF PlainOps, Calm, Plain
    <2>3. then.op = "decision" /\ next.op = "decision"
      BY <2>2
    <2> HIDE DEF then, next, registry
    <2>4. Bare(<<then>>) /\ Bare(<<next>>)
      BY <2>3, BareOne, BareOps
    <2> QED
      BY <1>1, <1>2, <2>1, <2>4, HushedNothing, BesideQuiet
  <1>10. CASE AddDecision(t)
    BY <1>2, <1>3, <1>10 DEF AddDecision, Doing, NewId
  <1>11. CASE ApplyTransition(t)
    BY <1>2, <1>3, <1>11 DEF ApplyTransition, Doing
  <1>12. CASE LinkDecisions(t)
    <2> DEFINE f == Next1(t).fact
               at == {i \in DOMAIN Decisions : Decisions[i].subject = f.subject /\ Decisions[i].status = "OPEN"}
               open == Those(Decisions, LAMBDA d : d.subject = f.subject /\ d.status = "OPEN")
               more == [i \in DOMAIN open |-> [op |-> "markDone", id |-> open[i].id, fact |-> f.id]]
    <2>1. saving = <<>> /\ todo[t] # <<>> /\ Section(t, <<>>, more) /\ serial' = serial
      BY <1>12 DEF LinkDecisions, Doing
    <2>2. Cardinality(at) \in Nat
      BY DecisionsAre, PlacesCounted DEF MemoryInv
    <2>3. DOMAIN open = 1..Cardinality(at)
      BY DEF Those, Holding
    <2> HIDE DEF at, open
    <2>4. more = [i \in 1..Cardinality(at) |-> more[i]] /\ \A i \in 1..Cardinality(at) : more[i].op = "markDone"
      BY <2>3
    <2> HIDE DEF more
    <2>5. Bare(more)
      BY <2>2, <2>4, BareList, BareOps
    <2> QED
      BY <1>4, <2>1, <2>5
  <1>13. CASE MarkDone(t)
    BY <1>2, <1>3, <1>13 DEF MarkDone, Doing
  <1> QED
    BY <1>5, <1>6, <1>7, <1>8, <1>9, <1>10, <1>11, <1>12, <1>13

\* The acquisitions of a transaction that write neither the facts nor the questions.
LEMMA HeadOfMerge ==
  ASSUME MemoryInv, BesideInv, NEW t \in Thread, saving = <<>>, todo[t] # <<>>,
         Next1(t).op \in TransactionOps
  PROVE  /\ t \in Actor /\ "op" \in DOMAIN Next1(t)
         /\ Intact => /\ {"source", "target"} \subseteq DOMAIN Next1(t)
                      /\ Joined(Next1(t).source, Next1(t).target, disk["approval"])
  <1>1. t \in Actor /\ 1 \in DOMAIN todo[t] /\ Next1(t) = todo[t][1]
    BY AtWork
  <1>2. "op" \in DOMAIN Next1(t)
    BY HeadIsTransaction DEF InTransaction
  <1>3. ASSUME Intact
        PROVE  Bears(Next1(t), Questions, <<>>, disk["fact"], disk["approval"], serial)
    BY <1>1, <1>3, NotWritten DEF BesideInv, BesideFiles, BearsAll
  <1> QED
    BY <1>1, <1>2, <1>3 DEF Bears

LEMMA BesideMerge ==
  ASSUME MemoryInv, BesideInv, NEW t \in Thread, saving = <<>>, todo[t] # <<>>,
         Next1(t).op \in TransactionOps,
         NEW w, Hushed(w), NEW o, Section(t, w, <<o>>), serial' \in {serial, serial + 1},
         DOMAIN o = DOMAIN Next1(t), o.op \in TransactionOps,
         "source" \in DOMAIN Next1(t) => o.source = Next1(t).source,
         "target" \in DOMAIN Next1(t) => o.target = Next1(t).target
  PROVE  BesideInv'
  <1> DEFINE more == <<o>>
  <1>1. IsSeq(more) /\ DOMAIN more = {1} /\ more[1] = o
    BY OneIsSeq
  <1> HIDE DEF more
  <1>2. IsSeq(w) /\ \A i \in DOMAIN w : w[i].file \notin {"question", "fact", "approval"}
    BY DEF Hushed
  <1>3. After(w, disk, "approval") = disk["approval"]
    <2>1. w # <<>> => 1 \in DOMAIN w
      BY <1>2, SeqFacts
    <2> QED
      BY <1>2, <2>1 DEF After
  <1>4. ASSUME Intact
        PROVE  BearsAll(more, Questions, w, After(w, disk, "fact"), After(w, disk, "approval"), serial')
    <2>1. {"source", "target"} \subseteq DOMAIN o /\ Joined(o.source, o.target, disk["approval"])
      BY <1>4, HeadOfMerge
    <2>2. o.op \notin {"markAnswered", "questionLinks"}
      BY DEF TransactionOps
    <2> QED
      BY <1>1, <1>3, <2>1, <2>2 DEF BearsAll, Bears
  <1>5. Section(t, w, more) /\ t \in Actor
    BY HeadOfMerge DEF more
  <1> QED
    BY <1>1, <1>2, <1>4, <1>5, BesideSection DEF Mild

LEMMA BesideTransaction ==
  ASSUME MemoryInv, BesideInv, NEW t \in Thread,
         TransactionNames(t) \/ MoveDecisions(t) \/ MergeRegistry(t) \/ Validate(t) \/ AppendHistory(t)
  PROVE  BesideInv'
  <1> DEFINE tx == Next1(t)
  <1>1. {"names", "move fact", "move question", "move decision", "registry", "validate", "history", "settle"}
          \subseteq TransactionOps
    BY DEF TransactionOps
  <1>2. \A file, v : file \in {"decision", "subject", "history"} => Hushed(<<Write(file, v)>>)
    BY HushedWrite
  <1>3. CASE TransactionNames(t)
    <2> DEFINE names == <<NameOf(tx.source), NameOf(tx.target)>>
               o == [tx EXCEPT !.op = "move fact", !.names = names]
    <2>1. /\ saving = <<>> /\ todo[t] # <<>> /\ tx.op = "names" /\ serial' = serial
          /\ Section(t, <<>>, <<o>>)
      BY <1>3 DEF TransactionNames, Doing
    <2>2. "op" \in DOMAIN tx /\ tx.op \in TransactionOps
      BY <1>1, <2>1, HeadOfMerge
    <2> HIDE DEF tx, names
    <2>3. /\ DOMAIN o = DOMAIN tx /\ o.op = "move fact"
          /\ ("source" \in DOMAIN tx => o.source = tx.source) /\ ("target" \in DOMAIN tx => o.target = tx.target)
      BY <2>2
    <2> HIDE DEF o
    <2> QED
      BY <1>1, <2>1, <2>2, <2>3, HushedNothing, BesideMerge DEF tx
  <1>4. CASE MoveDecisions(t)
    <2> DEFINE o == [tx EXCEPT !.op = "registry"]
               v == Moved(t, Decisions)
    <2>1. /\ saving = <<>> /\ todo[t] # <<>> /\ tx.op = "move decision" /\ serial' = serial
          /\ \/ Section(t, <<>>, <<o>>) \/ Section(t, <<Write("decision", v)>>, <<o>>)
      BY <1>4 DEF MoveDecisions, MoveRecords, Doing, Moved
    <2>2. "op" \in DOMAIN tx /\ tx.op \in TransactionOps
      BY <1>1, <2>1, HeadOfMerge
    <2> HIDE DEF tx, v
    <2>3. /\ DOMAIN o = DOMAIN tx /\ o.op = "registry"
          /\ ("source" \in DOMAIN tx => o.source = tx.source) /\ ("target" \in DOMAIN tx => o.target = tx.target)
      BY <2>2
    <2> HIDE DEF o
    <2>4. Hushed(<<Write("decision", v)>>)
      BY <1>2
    <2>5. ASSUME NEW w, Hushed(w), Section(t, w, <<o>>) PROVE BesideInv'
      BY <1>1, <2>1, <2>2, <2>3, <2>5, BesideMerge DEF tx
    <2> QED
      BY <2>1, <2>4, <2>5, HushedNothing
  <1>5. CASE MergeRegistry(t)
    <2> DEFINE at == Holding(disk["subject"], LAMBDA s : s.id = tx.source)
               v == [disk["subject"] EXCEPT ![First(at)].merged = tx.target]
               ok == at # {}
               o == [tx EXCEPT !.op = "validate", !.ok = ok]
    <2>1. /\ saving = <<>> /\ todo[t] # <<>> /\ tx.op = "registry" /\ serial' = serial
          /\ \/ Section(t, <<>>, <<o>>) \/ Section(t, <<Write("subject", v)>>, <<o>>)
      BY <1>5 DEF MergeRegistry, Doing
    <2>2. "op" \in DOMAIN tx /\ tx.op \in TransactionOps
      BY <1>1, <2>1, HeadOfMerge
    <2> HIDE DEF tx, v, ok
    <2>3. /\ DOMAIN o = DOMAIN tx /\ o.op = "validate"
          /\ ("source" \in DOMAIN tx => o.source = tx.source) /\ ("target" \in DOMAIN tx => o.target = tx.target)
      BY <2>2
    <2> HIDE DEF o
    <2>4. Hushed(<<Write("subject", v)>>)
      BY <1>2
    <2>5. ASSUME NEW w, Hushed(w), Section(t, w, <<o>>) PROVE BesideInv'
      BY <1>1, <2>1, <2>2, <2>3, <2>5, BesideMerge DEF tx
    <2> QED
      BY <2>1, <2>4, <2>5, HushedNothing
  <1>6. CASE Validate(t)
    <2> DEFINE ok == tx.ok /\ MergeErrors(disk["subject"]) = {}
               op == IF ok THEN "history" ELSE "settle"
               o == [tx EXCEPT !.op = op, !.ok = ok]
    <2>1. /\ saving = <<>> /\ todo[t] # <<>> /\ tx.op = "validate" /\ serial' = serial
          /\ Section(t, <<>>, <<o>>)
      BY <1>6, Zenon DEF Validate, Doing
    <2>2. "op" \in DOMAIN tx /\ tx.op \in TransactionOps
      BY <1>1, <2>1, HeadOfMerge
    <2>3. op \in {"history", "settle"}
      OBVIOUS
    <2> HIDE DEF tx, ok, op
    <2>4. /\ DOMAIN o = DOMAIN tx /\ o.op = op
          /\ ("source" \in DOMAIN tx => o.source = tx.source) /\ ("target" \in DOMAIN tx => o.target = tx.target)
      BY <2>2
    <2> HIDE DEF o
    <2> QED
      BY <1>1, <2>1, <2>2, <2>3, <2>4, HushedNothing, BesideMerge DEF tx
  <1>7. CASE AppendHistory(t)
    <2> DEFINE record == [id |-> NewId, source |-> tx.source, target |-> tx.target,
                          recommendation |-> IF 0 \in {tx.names[1], tx.names[2]} THEN "IGNORE"
                                             ELSE MergeRecommendation(tx.names[1], tx.names[2])]
               v == Append(disk["history"], record)
               o == [tx EXCEPT !.op = "settle"]
    <2>1. /\ saving = <<>> /\ todo[t] # <<>> /\ tx.op = "history" /\ serial' = serial + 1
          /\ Section(t, <<Write("history", v)>>, <<o>>)
      BY <1>7 DEF AppendHistory, Doing, NewId
    <2>2. "op" \in DOMAIN tx /\ tx.op \in TransactionOps
      BY <1>1, <2>1, HeadOfMerge
    <2> HIDE DEF tx, v
    <2>3. /\ DOMAIN o = DOMAIN tx /\ o.op = "settle"
          /\ ("source" \in DOMAIN tx => o.source = tx.source) /\ ("target" \in DOMAIN tx => o.target = tx.target)
      BY <2>2
    <2> HIDE DEF o
    <2>4. Hushed(<<Write("history", v)>>)
      BY <1>2
    <2>5. ASSUME NEW w, Hushed(w), Section(t, w, <<o>>) PROVE BesideInv'
      BY <1>1, <2>1, <2>2, <2>3, <2>5, BesideMerge DEF tx
    <2> QED
      BY <2>1, <2>4, <2>5
  <1> QED
    BY <1>3, <1>4, <1>5, <1>6, <1>7

LEMMA BesideAutoMerge ==
  ASSUME MemoryInv, BesideInv, NEW t \in Thread, AutoPlan(t) \/ AutoIds(t) \/ AutoPair(t)
  PROVE  BesideInv'
  <1>1. t \in Actor
    BY DEF Actor
  <1>2. ASSUME NEW more, Bare(more), saving = <<>>, todo[t] # <<>>, Section(t, <<>>, more), serial' = serial
        PROVE  BesideInv'
    BY <1>1, <1>2, HushedNothing, BesideQuiet
  <1>3. CASE AutoPlan(t)
    <2> DEFINE plan == {p \in MergePlan(disk["subject"]) : MergeConfidence(p.source, p.target) >= 95}
               o == [op |-> "autoIds", plan |-> plan]
    <2>1. /\ saving = <<>> /\ todo[t] # <<>> /\ serial' = serial
          /\ Section(t, <<>>, IF AutoMerge THEN <<o>> ELSE <<>>)
      BY <1>3 DEF AutoPlan, Doing
    <2>2. o.op \notin Bearing
      BY BareOps
    <2> HIDE DEF o
    <2> QED
      BY <1>2, <2>1, <2>2, BareOne, HushedNothing
  <1>4. CASE AutoIds(t)
    BY <1>2, <1>4, AutoPairsFree, FreeIsBare DEF AutoIds, Doing
  <1>5. CASE AutoPair(t)
    <2> DEFINE o(p) == [op |-> "approve", source |-> p.source, target |-> p.target, execute |-> AutoExecute]
               first(p) == IF ResolveMerge(p.source, disk["subject"]) # p.source THEN <<>> ELSE <<o(p)>>
    <2>1. saving = <<>> /\ todo[t] # <<>> /\ serial' = serial
      BY <1>5 DEF AutoPair, Doing
    <2>2. PICK p \in Next1(t).pairs : Section(t, <<>>, first(p) \o AutoPairs(Next1(t).pairs \ {p}))
      BY <1>5 DEF AutoPair
    <2>3. FreeRow(first(p))
      <3>1. Free(o(p))
        BY DEF Free, Calm, Apt, Carriers, Plain, TransactionOps
      <3> HIDE DEF o
      <3> QED
        BY <3>1, FreeOne, FreeNothing
    <2> HIDE DEF first
    <2>4. Bare(first(p) \o AutoPairs(Next1(t).pairs \ {p}))
      BY <2>3, AutoPairsFree, FreeConcat, FreeIsBare
    <2> QED
      BY <1>2, <2>1, <2>2, <2>4
  <1> QED
    BY <1>3, <1>4, <1>5

\* The questions are written, beside a file that nothing here is about.
LEMMA BesideQuestions ==
  ASSUME MemoryInv, BesideInv, NEW t \in Actor, saving = <<>>, todo[t] # <<>>,
         NEW v, QuestionIds(v, serial'),
         Intact => /\ BesideAll(v, disk["fact"], disk["approval"])
                   /\ FollowsQuestions(Questions, v, disk["approval"], serial),
         NEW w, IsSeq(w),
         \A i \in DOMAIN w : /\ w[i].file \notin {"fact", "approval"}
                             /\ w[i].file = "question" => w[i].value = v,
         NEW o, NEW more, more \in {<<>>, <<o>>},
         o.op \notin Bearing \/ (o.op \in TransactionOps /\
           (Intact => {"source", "target"} \subseteq DOMAIN o /\ Joined(o.source, o.target, disk["approval"]))),
         Section(t, w, more), serial' \in {serial, serial + 1}
  PROVE  BesideInv'
  <1>1. \A i \in DOMAIN w : w[i].file = "question" => QuestionIds(w[i].value, serial')
    OBVIOUS
  <1>2. Intact => \A i \in DOMAIN w :
          /\ Mild(w[i], disk["fact"], disk["approval"])
          /\ w[i].file = "question" => FollowsQuestions(Questions, w[i].value, disk["approval"], serial)
    BY DEF Mild
  <1>3. After(w, disk, "approval") = disk["approval"]
    <2>1. w # <<>> => 1 \in DOMAIN w
      BY SeqFacts
    <2> QED
      BY <2>1 DEF After
  <1>4. ASSUME Intact
        PROVE  Bears(o, Questions, w, After(w, disk, "fact"), After(w, disk, "approval"), serial')
    <2>1. CASE o.op \notin Bearing
      BY <2>1, BearsNothing
    <2>2. CASE o.op \in TransactionOps
      <3>1. o.op \notin {"markAnswered", "questionLinks"}
        BY <2>2 DEF TransactionOps
      <3>2. {"source", "target"} \subseteq DOMAIN o /\ Joined(o.source, o.target, disk["approval"])
        BY <1>4, <2>2 DEF Bearing
      <3> QED
        BY <1>3, <3>1, <3>2 DEF Bears
    <2> QED
      BY <2>1, <2>2
  <1>5. IsSeq(more) /\ \A i \in DOMAIN more : more[i] = o
    <2>1. IsSeq(<<o>>) /\ DOMAIN <<o>> = {1} /\ <<o>>[1] = o
      BY OneIsSeq
    <2> QED
      BY <2>1, EmptyIsSeq
  <1> QED
    BY <1>1, <1>2, <1>4, <1>5, BesideSection DEF BearsAll

\* The same questions, with something changed in each.
LEMMA SameIds ==
  ASSUME MemoryInv, BesideInv, NEW v, DOMAIN v = DOMAIN Questions,
         \A i \in DOMAIN Questions : v[i].id = Questions[i].id
  PROVE  /\ QuestionIds(v, serial) /\ QuestionIds(v, serial + 1)
         /\ \A a : (\A i \in DOMAIN Questions : Joined(v[i].subject, Questions[i].subject, a))
                     => FollowsQuestions(Questions, v, a, serial)
  <1>1. QuestionIds(Questions, serial) /\ serial \in Nat
    BY DEF BesideInv, MemoryInv, ListsInv
  <1> QED
    BY <1>1 DEF QuestionIds, FollowsQuestions

LEMMA MarkedSame ==
  ASSUME NEW q, LoadedQuestion(q)
  PROVE  /\ \A f : LET m == MarkAnswered(q, f)
                   IN m.id = q.id /\ m.subject = q.subject /\ m.fact = f
         /\ \A source, d : source # "fact" =>
              LET m == MarkAnsweredBy(q, source, d)
              IN m.id = q.id /\ m.subject = q.subject /\ m.fact = q.fact /\ (m.source = "fact" => q.source = "fact")
  <1>1. QuestionFields \subseteq DOMAIN q
    BY DEF LoadedQuestion
  <1>2. ASSUME NEW f
        PROVE  LET m == MarkAnswered(q, f) IN m.id = q.id /\ m.subject = q.subject /\ m.fact = f
    BY <1>1 DEF MarkAnswered, QuestionFields
  <1>3. ASSUME NEW source, NEW d, source # "fact"
        PROVE  LET m == MarkAnsweredBy(q, source, d)
               IN m.id = q.id /\ m.subject = q.subject /\ m.fact = q.fact /\ (m.source = "fact" => q.source = "fact")
    BY <1>1, <1>3 DEF MarkAnsweredBy, QuestionFields
  <1> QED
    BY <1>2, <1>3

\* What is at the head of a row holds of the files.
LEMMA HeadBears ==
  ASSUME MemoryInv, BesideInv, NEW t \in Thread, saving = <<>>, todo[t] # <<>>, Intact
  PROVE  /\ Bears(Next1(t), Questions, <<>>, disk["fact"], disk["approval"], serial)
         /\ FactRecords(disk["fact"]) /\ ApprovalRecords(disk["approval"])
         /\ BesideAll(Questions, disk["fact"], disk["approval"])
  <1>1. 1 \in DOMAIN todo[t] /\ Next1(t) = todo[t][1]
    BY AtWork
  <1> QED
    BY <1>1, NotWritten DEF BesideInv, BesideFiles, BearsAll

LEMMA BesideMarkQuestion ==
  ASSUME MemoryInv, BesideInv, NEW t \in Thread, MarkQuestion(t)
  PROVE  BesideInv'
  <1> DEFINE o == Next1(t)
             hit(q) == q.id = o.id
             v == Where(Questions, hit, LAMBDA q : MarkAnswered(q, o.fact))
             w == IF Holding(Questions, hit) = {} THEN <<>> ELSE <<Write("question", v)>>
  <1>1. /\ saving = <<>> /\ todo[t] # <<>> /\ o.op = "markAnswered" /\ serial' = serial
        /\ Section(t, w, <<>>)
    BY DEF MarkQuestion, Doing
  <1>2. /\ DOMAIN v = DOMAIN Questions
        /\ \A i \in DOMAIN Questions :
             v[i] = IF Questions[i].id = o.id THEN MarkAnswered(Questions[i], o.fact) ELSE Questions[i]
    BY DEF Where
  <1>3. Intact => Marked(o.id, o.fact, Questions, disk["fact"], disk["approval"])
    BY <1>1, HeadBears DEF Bears
  <1>4. IsSeq(w) /\ \A i \in DOMAIN w : w[i].file = "question" /\ w[i].value = v
    <2> DEFINE u == <<Write("question", v)>>
    <2>1. IsSeq(u) /\ DOMAIN u = {1} /\ u[1] = Write("question", v)
      BY OneIsSeq
    <2>2. w \in {<<>>, u}
      OBVIOUS
    <2>3. Write("question", v).file = "question" /\ Write("question", v).value = v
      BY DEF Write
    <2> HIDE DEF w, u
    <2> QED
      BY <2>1, <2>2, <2>3, EmptyIsSeq
  <1> HIDE DEF o, v, w
  <1>5. \A i \in DOMAIN Questions :
          /\ v[i].id = Questions[i].id /\ v[i].subject = Questions[i].subject
          /\ v[i].fact = IF Questions[i].id = o.id THEN o.fact ELSE Questions[i].fact
          /\ Questions[i].id # o.id => v[i] = Questions[i]
    BY <1>2, QuestionsKnown, MarkedSame
  <1>6. ASSUME Intact
        PROVE  BesideAll(v, disk["fact"], disk["approval"])
    <2>1. BesideAll(Questions, disk["fact"], disk["approval"])
      BY <1>6 DEF BesideInv, BesideFiles
    <2> QED
      BY <1>2, <1>3, <1>5, <1>6, <2>1 DEF BesideAll, Marked
  <1>7. QuestionIds(v, serial') /\ FollowsQuestions(Questions, v, disk["approval"], serial)
    BY <1>1, <1>2, <1>5, SameIds, JoinedIs
  <1>8. t \in Actor /\ [op |-> "update"].op \notin Bearing
    BY BareOps DEF Actor
  <1> QED
    BY <1>1, <1>4, <1>6, <1>7, <1>8, BesideQuestions

LEMMA BesideMarkQuestionBy ==
  ASSUME MemoryInv, BesideInv, NEW t \in Thread, MarkQuestionBy(t)
  PROVE  BesideInv'
  <1> DEFINE o == Next1(t)
             hit(q) == q.id = o.id
             v == Where(Questions, hit, LAMBDA q : MarkAnsweredBy(q, o.source, o.decision))
             w == IF Holding(Questions, hit) = {} THEN <<>> ELSE <<Write("question", v)>>
  <1>1. /\ saving = <<>> /\ todo[t] # <<>> /\ o.op = "answeredBy" /\ serial' = serial
        /\ Section(t, w, <<>>)
    BY DEF MarkQuestionBy, Doing
  <1>2. /\ DOMAIN v = DOMAIN Questions
        /\ \A i \in DOMAIN Questions :
             v[i] \in {Questions[i], MarkAnsweredBy(Questions[i], o.source, o.decision)}
    BY DEF Where
  <1>3. o.source # "fact"
    <2>1. Calm(o)
      BY <1>1, HeadIsCalm, OutsideTransactions DEF PlainOps
    <2> QED
      BY <1>1, <2>1 DEF Calm, Apt
  <1>4. IsSeq(w) /\ \A i \in DOMAIN w : w[i].file = "question" /\ w[i].value = v
    <2> DEFINE u == <<Write("question", v)>>
    <2>1. IsSeq(u) /\ DOMAIN u = {1} /\ u[1] = Write("question", v)
      BY OneIsSeq
    <2>2. w \in {<<>>, u}
      OBVIOUS
    <2>3. Write("question", v).file = "question" /\ Write("question", v).value = v
      BY DEF Write
    <2> HIDE DEF w, u
    <2> QED
      BY <2>1, <2>2, <2>3, EmptyIsSeq
  <1> HIDE DEF o, v, w
  <1>5. \A i \in DOMAIN Questions :
          /\ v[i].id = Questions[i].id /\ v[i].subject = Questions[i].subject
          /\ v[i].fact = Questions[i].fact /\ (v[i].source = "fact" => Questions[i].source = "fact")
    BY <1>2, <1>3, QuestionsKnown, MarkedSame
  <1>6. Intact => BesideAll(v, disk["fact"], disk["approval"])
    BY <1>2, <1>5 DEF BesideInv, BesideFiles, BesideAll
  <1>7. QuestionIds(v, serial') /\ FollowsQuestions(Questions, v, disk["approval"], serial)
    BY <1>1, <1>2, <1>5, SameIds, JoinedIs
  <1>8. t \in Actor /\ [op |-> "update"].op \notin Bearing
    BY BareOps DEF Actor
  <1> QED
    BY <1>1, <1>4, <1>6, <1>7, <1>8, BesideQuestions

LEMMA BesideAddQuestion ==
  ASSUME MemoryInv, BesideInv, NEW t \in Thread, AddQuestion(t)
  PROVE  BesideInv'
  <1> DEFINE q == NewQuestion(NewId, Next1(t).text, Next1(t).subject, TRUE)
             u == Append(Questions, q)
             v == Capped(u, MaxQuestions)
             o == [op |-> "cluster", id |-> NewId, text |-> Next1(t).text]
             shift == IF Len(u) > MaxQuestions THEN Len(u) - MaxQuestions ELSE 0
  <1>1. /\ saving = <<>> /\ todo[t] # <<>> /\ serial' = serial + 1
        /\ Section(t, <<Write("question", v)>>, <<o>>)
    BY DEF AddQuestion, Doing, NewId
  <1>2. o.op \notin Bearing
    BY BareOps
  <1>3. q.id = serial + 1 /\ q.source = "answer"
    BY DEF NewQuestion, NewId
  <1> HIDE DEF q, o
  <1>4. IsSeq(Questions) /\ Len(Questions) \in Nat /\ DOMAIN Questions = 1..Len(Questions)
    BY QuestionsKnown, SeqFacts
  <1>5. /\ IsSeq(u) /\ Len(u) = Len(Questions) + 1
        /\ \A i \in DOMAIN u : \/ i \in DOMAIN Questions /\ u[i] = Questions[i]
                               \/ i = Len(Questions) + 1 /\ u[i] = q
    BY <1>4, AppendIsSeq
  <1> HIDE DEF u
  <1>6. /\ MaxQuestions \in Nat /\ IsSeq(v) /\ shift \in Int
        /\ \A i \in DOMAIN v : i \in Nat /\ i + shift \in DOMAIN u /\ v[i] = u[i + shift]
    <2>1. MaxQuestions \in Nat
      BY MemoryAssumption
    <2>2. IsSeq(v) /\ \A i \in DOMAIN v : i + shift \in DOMAIN u /\ v[i] = u[i + shift]
      BY <1>5, <2>1, CappedIsSeq
    <2>3. \A i \in DOMAIN v : i \in Nat
      BY <2>2, SeqFacts
    <2> QED
      BY <1>4, <1>5, <2>1, <2>2, <2>3
  <1> HIDE DEF v, shift
  <1>7. QuestionIds(Questions, serial) /\ serial \in Nat
    BY DEF BesideInv, MemoryInv, ListsInv
  <1>8. QuestionIds(v, serial')
    <2>1. \A i \in DOMAIN u : u[i].id \in Int /\ u[i].id <= serial + 1
      BY <1>3, <1>5, <1>7 DEF QuestionIds
    <2>2. \A i, j \in DOMAIN u : u[i].id = u[j].id => i = j
      BY <1>3, <1>4, <1>5, <1>7 DEF QuestionIds
    <2>3. ASSUME NEW i \in DOMAIN v, NEW j \in DOMAIN v, v[i].id = v[j].id PROVE i = j
      <3>1. i + shift = j + shift
        BY <1>6, <2>2, <2>3
      <3> QED
        BY <1>6, <3>1
    <2> QED
      BY <1>1, <1>6, <2>1, <2>3 DEF QuestionIds
  <1>9. Intact => BesideAll(v, disk["fact"], disk["approval"])
    BY <1>3, <1>5, <1>6 DEF BesideInv, BesideFiles, BesideAll
  <1>10. FollowsQuestions(Questions, v, disk["approval"], serial)
    <2>1. \A i \in DOMAIN u : u[i].id > serial \/ \E k \in DOMAIN Questions : u[i] = Questions[k]
      BY <1>3, <1>5, <1>7
    <2> QED
      BY <1>6, <2>1, JoinedIs DEF FollowsQuestions
  <1>11. t \in Actor
    BY DEF Actor
  <1> DEFINE w == <<Write("question", v)>>
  <1>12. IsSeq(w) /\ \A i \in DOMAIN w : w[i].file = "question" /\ w[i].value = v
    <2> DEFINE x == Write("question", v)
    <2>1. x.file = "question" /\ x.value = v
      BY DEF Write
    <2> HIDE DEF x
    <2>2. IsSeq(<<x>>) /\ \A i \in DOMAIN <<x>> : <<x>>[i].file = "question" /\ <<x>>[i].value = v
      BY <2>1, OneIsSeq
    <2> QED
      BY <2>2 DEF x
  <1> HIDE DEF w
  <1>13. Section(t, w, <<o>>)
    BY <1>1 DEF w
  <1> QED
    BY <1>1, <1>2, <1>8, <1>9, <1>10, <1>11, <1>12, <1>13, BesideQuestions

LEMMA BesideCluster ==
  ASSUME MemoryInv, BesideInv, NEW t \in Thread, AssignCluster(t)
  PROVE  BesideInv'
  <1> DEFINE o == Next1(t)
             clusters == ClusterAssigned(o.id, o.text, NewId, disk["cluster"], MaxClusters)
             at == First(Holding(clusters, LAMBDA c : o.id \in c.members))
             placed(q) == [q EXCEPT !.cluster = clusters[at].id]
             v == Where(Questions, LAMBDA q : q.id = o.id, placed)
             w == <<Write("cluster", clusters), Write("question", v)>>
  <1>1. /\ saving = <<>> /\ todo[t] # <<>> /\ serial' = serial + 1 /\ Section(t, w, <<>>)
    BY DEF AssignCluster, Doing, NewId, Clustered
  <1>2. /\ DOMAIN v = DOMAIN Questions
        /\ \A i \in DOMAIN Questions : v[i] \in {Questions[i], placed(Questions[i])}
    BY DEF Where
  <1>3. \A q : QuestionFields \subseteq DOMAIN q =>
          /\ placed(q).id = q.id /\ placed(q).subject = q.subject /\ placed(q).source = q.source
          /\ placed(q).fact = q.fact
    BY DEF QuestionFields
  <1>4. /\ IsSeq(w)
        /\ \A i \in DOMAIN w : /\ w[i].file \notin {"fact", "approval"}
                               /\ w[i].file = "question" => w[i].value = v
    <2> DEFINE x == Write("cluster", clusters)
               y == Write("question", v)
    <2>1. x.file = "cluster" /\ y.file = "question" /\ y.value = v
      BY DEF Write
    <2>2. w = <<x, y>>
      OBVIOUS
    <2> HIDE DEF x, y, w, v
    <2> QED
      BY <2>1, <2>2, TwoIsSeq
  <1> HIDE DEF o, clusters, at, placed, v, w
  <1>5. \A i \in DOMAIN Questions :
          /\ v[i].id = Questions[i].id /\ v[i].subject = Questions[i].subject
          /\ v[i].fact = Questions[i].fact /\ v[i].source = Questions[i].source
    BY <1>2, <1>3, QuestionsKnown DEF LoadedQuestion
  <1>6. Intact => BesideAll(v, disk["fact"], disk["approval"])
    BY <1>2, <1>5 DEF BesideInv, BesideFiles, BesideAll
  <1>7. QuestionIds(v, serial') /\ FollowsQuestions(Questions, v, disk["approval"], serial)
    BY <1>1, <1>2, <1>5, SameIds, JoinedIs
  <1>8. t \in Actor /\ [op |-> "update"].op \notin Bearing
    BY BareOps DEF Actor
  <1> QED
    BY <1>1, <1>4, <1>6, <1>7, <1>8, BesideQuestions

LEMMA BesideMoveQuestions ==
  ASSUME MemoryInv, BesideInv, NEW t \in Thread, MoveQuestions(t)
  PROVE  BesideInv'
  <1> DEFINE tx == Next1(t)
             mine(r) == r.subject = tx.source
             moved(q) == [q EXCEPT !.subject = tx.target]
             v == Where(Questions, mine, moved)
             w == IF Holding(Questions, mine) = {} THEN <<>> ELSE <<Write("question", v)>>
             o == [tx EXCEPT !.op = "move decision"]
  <1>1. /\ saving = <<>> /\ todo[t] # <<>> /\ tx.op = "move question" /\ serial' = serial
        /\ Section(t, w, <<o>>)
    BY DEF MoveQuestions, MoveRecords, Doing
  <1>2. /\ DOMAIN v = DOMAIN Questions
        /\ \A i \in DOMAIN Questions :
             v[i] = IF Questions[i].subject = tx.source THEN moved(Questions[i]) ELSE Questions[i]
    BY DEF Where
  <1>3. \A q : QuestionFields \subseteq DOMAIN q =>
          /\ moved(q).id = q.id /\ moved(q).subject = tx.target /\ moved(q).source = q.source
          /\ moved(q).fact = q.fact
    BY DEF QuestionFields
  <1>4. IsSeq(w) /\ \A i \in DOMAIN w : w[i].file = "question" /\ w[i].value = v
    <2> DEFINE u == <<Write("question", v)>>
    <2>1. IsSeq(u) /\ DOMAIN u = {1} /\ u[1] = Write("question", v)
      BY OneIsSeq
    <2>2. w \in {<<>>, u}
      OBVIOUS
    <2>3. Write("question", v).file = "question" /\ Write("question", v).value = v
      BY DEF Write
    <2> HIDE DEF w, u
    <2> QED
      BY <2>1, <2>2, <2>3, EmptyIsSeq
  <1>5. tx.op \in TransactionOps /\ "move decision" \in TransactionOps
    BY <1>1 DEF TransactionOps
  <1>6. /\ t \in Actor /\ "op" \in DOMAIN tx
        /\ Intact => {"source", "target"} \subseteq DOMAIN tx /\ Joined(tx.source, tx.target, disk["approval"])
    BY <1>1, <1>5, HeadOfMerge
  <1> HIDE DEF tx, moved, v, w
  <1>7. /\ o.op \in TransactionOps
        /\ Intact => {"source", "target"} \subseteq DOMAIN o /\ Joined(o.source, o.target, disk["approval"])
    BY <1>5, <1>6
  <1> HIDE DEF o
  <1>8. \A i \in DOMAIN Questions :
          /\ v[i].id = Questions[i].id /\ v[i].fact = Questions[i].fact /\ v[i].source = Questions[i].source
          /\ v[i].subject = IF Questions[i].subject = tx.source THEN tx.target ELSE Questions[i].subject
    BY <1>2, <1>3, QuestionsKnown DEF LoadedQuestion
  <1>9. ASSUME Intact
        PROVE  \A i \in DOMAIN Questions : Joined(v[i].subject, Questions[i].subject, disk["approval"])
    BY <1>6, <1>8, <1>9, JoinedIs
  <1>10. QuestionIds(v, serial') /\ (Intact => FollowsQuestions(Questions, v, disk["approval"], serial))
    BY <1>1, <1>2, <1>8, <1>9, SameIds
  <1>11. ASSUME Intact
         PROVE  BesideAll(v, disk["fact"], disk["approval"])
    <2> DEFINE facts == disk["fact"]
               a == disk["approval"]
    <2>1. BesideAll(Questions, facts, a) /\ FactsFollow(facts, facts, a) /\ MoreBegun(a, a)
      BY <1>11, NothingFollows DEF BesideInv, BesideFiles
    <2> SUFFICES ASSUME NEW k \in DOMAIN v, v[k].source = "fact" PROVE FactIn(v[k].fact, v[k].subject, facts, a)
      BY DEF BesideAll
    <2>2. FactIn(v[k].fact, Questions[k].subject, facts, a)
      BY <1>2, <1>8, <2>1 DEF BesideAll
    <2>3. Joined(v[k].subject, Questions[k].subject, a)
      BY <1>2, <1>9, <1>11
    <2> QED
      BY <2>1, <2>2, <2>3, FactFollows
  <1> QED
    BY <1>1, <1>4, <1>6, <1>7, <1>10, <1>11, BesideQuestions

\* Nothing but those that hold is found.
LEMMA ThoseThere ==
  ASSUME NEW s, IsSeq(s), NEW at, at \subseteq DOMAIN s, NEW k \in 1..Cardinality(at)
  PROVE  Nth(at, k) \in at
  <1> DEFINE n == Cardinality(at)
             place(i) == Cardinality(Before(at, i)) + 1
             g == [i \in at |-> place(i)]
             T == {g[i] : i \in at}
  <1>1. /\ IsFiniteSet(at) /\ n \in Nat
        /\ \A i \in at : place(i) \in 1..n
        /\ \A i, j \in at : place(i) = place(j) => i = j
    <2>1. /\ IsFiniteSet(at) /\ n \in Nat
          /\ \A i \in at : place(i) \in 1..n
          /\ \A i, j \in at : Cardinality(Before(at, i)) = Cardinality(Before(at, j)) => i = j
      BY PlacesDiffer
    <2>2. \A i \in at : Cardinality(Before(at, i)) \in Nat
      BY PlacesDiffer
    <2> QED
      BY <2>1, <2>2
  <1> HIDE DEF n, place
  <1>2. g \in Bijection(at, T)
    BY <1>1 DEF Bijection, Injection, Surjection, IsInjective
  <1>3. T \in SUBSET (1..n)
    BY <1>1
  <1>4. \A i \in at : g[i] = place(i)
    OBVIOUS
  <1> HIDE DEF g
  <1>5. Cardinality(T) = n
    BY <1>1, <1>2, FS_Bijection DEF n, ExistsBijection
  <1>6. T = 1..n
    <2>1. IsFiniteSet(1..n) /\ Cardinality(1..n) = n
      BY <1>1, FS_Interval
    <2> HIDE DEF T
    <2> QED
      BY <1>3, <1>5, <2>1, FS_Subset
  <1>7. PICK i \in at : k = place(i)
    BY <1>4, <1>6 DEF n
  <1> QED
    BY <1>7, NthIs DEF place

LEMMA BesideLinkQuestions ==
  ASSUME MemoryInv, BesideInv, NEW t \in Thread, LinkQuestions(t)
  PROVE  BesideInv'
  <1> DEFINE o == Next1(t)
             f == o.fact
             at == {i \in DOMAIN Questions : Questions[i].subject = f.subject /\ ~IsResolved(Questions[i])
                                               /\ FactTypeMatches(Questions[i], f.type)}
             open == Those(Questions, LAMBDA q : q.subject = f.subject /\ ~IsResolved(q)
                                                   /\ FactTypeMatches(q, f.type))
             mark(x) == [op |-> "markAnswered", id |-> x, fact |-> f.id]
             more == [i \in DOMAIN open |-> mark(open[i].id)]
  <1>1. /\ saving = <<>> /\ todo[t] # <<>> /\ o.op = "questionLinks" /\ serial' = serial
        /\ Section(t, <<>>, more)
    BY DEF LinkQuestions, Doing
  <1>2. IsSeq(Questions) /\ Cardinality(at) \in Nat
    BY QuestionsKnown, PlacesCounted DEF MemoryInv
  <1>3. DOMAIN open = 1..Cardinality(at) /\ \A k \in 1..Cardinality(at) : open[k] = Questions[Nth(at, k)]
    BY DEF Those, Holding, Nth
  <1>4. \A i \in at : i \in DOMAIN Questions /\ Questions[i].subject = f.subject
    OBVIOUS
  <1>5. at \subseteq DOMAIN Questions
    OBVIOUS
  <1>6. Intact => FactIn(f.id, f.subject, disk["fact"], disk["approval"])
    BY <1>1, HeadBears DEF Bears
  <1>7. t \in Actor /\ IsSeq(<<>>) /\ DOMAIN <<>> = {}
    BY EmptyIsSeq DEF Actor
  <1> HIDE DEF at, open, o
  <1>8. \A x : mark(x).op = "markAnswered" /\ mark(x).id = x /\ mark(x).fact = f.id
    OBVIOUS
  <1>9. /\ more = [k \in 1..Cardinality(at) |-> more[k]] /\ DOMAIN more = 1..Cardinality(at)
        /\ \A k \in 1..Cardinality(at) : more[k] = mark(Questions[Nth(at, k)].id)
    BY <1>3
  <1> HIDE DEF mark, more
  <1>10. IsSeq(more)
    BY <1>2, <1>9, ListIsSeq
  <1>11. QuestionIds(Questions, serial)
    BY DEF BesideInv
  <1>12. ASSUME Intact
         PROVE  BearsAll(more, Questions, <<>>, disk["fact"], disk["approval"], serial)
    <2> SUFFICES ASSUME NEW k \in 1..Cardinality(at)
                 PROVE  Bears(more[k], Questions, <<>>, disk["fact"], disk["approval"], serial)
      BY <1>9 DEF BearsAll
    <2>1. Nth(at, k) \in DOMAIN Questions /\ Questions[Nth(at, k)].subject = f.subject
      BY <1>2, <1>4, <1>5, ThoseThere
    <2>2. \A j \in DOMAIN Questions : Questions[j].id = Questions[Nth(at, k)].id => j = Nth(at, k)
      BY <1>11, <2>1 DEF QuestionIds
    <2>3. Marked(Questions[Nth(at, k)].id, f.id, Questions, disk["fact"], disk["approval"])
      BY <1>6, <1>12, <2>1, <2>2 DEF Marked
    <2>4. Questions[Nth(at, k)].id \in Int /\ Questions[Nth(at, k)].id <= serial
      BY <1>11, <2>1 DEF QuestionIds
    <2>5. "markAnswered" \notin TransactionOps
      BY DEF TransactionOps
    <2> QED
      BY <1>7, <1>8, <1>9, <2>3, <2>4, <2>5 DEF Bears
  <1>13. After(<<>>, disk, "fact") = disk["fact"] /\ After(<<>>, disk, "approval") = disk["approval"]
    BY NotWritten
  <1>14. IsSeq(<<>>) /\ \A i \in DOMAIN <<>> : FALSE
    BY <1>7
  <1> QED
    BY <1>1, <1>7, <1>10, <1>12, <1>13, <1>14, BesideSection

\* The facts or the approvals are written.
LEMMA BesideRecords ==
  ASSUME MemoryInv, BesideInv, NEW t \in Actor, saving = <<>>, todo[t] # <<>>,
         NEW file \in {"fact", "approval"}, NEW v, NEW w, w = <<>> \/ w = <<Write(file, v)>>,
         NEW more, IsSeq(more), Section(t, w, more), serial' \in {serial, serial + 1},
         Intact /\ w = <<>> => BearsAll(more, Questions, <<>>, disk["fact"], disk["approval"], serial'),
         Intact /\ w # <<>> =>
           /\ Mild(Write(file, v), disk["fact"], disk["approval"])
           /\ BearsAll(more, Questions, <<>>, IF file = "fact" THEN v ELSE disk["fact"],
                       IF file = "approval" THEN v ELSE disk["approval"], serial')
  PROVE  BesideInv'
  <1> DEFINE x == Write(file, v)
  <1>1. x.file = file /\ x.value = v
    BY DEF Write
  <1>2. IsSeq(<<x>>) /\ DOMAIN <<x>> = {1} /\ <<x>>[1] = x /\ <<x>> # <<>>
    BY OneIsSeq
  <1>3. w = <<>> \/ w = <<x>>
    OBVIOUS
  <1>4. Intact /\ w # <<>> => Mild(x, disk["fact"], disk["approval"])
    OBVIOUS
  <1> HIDE DEF x
  <1>5. IsSeq(w) /\ (w = <<>> => DOMAIN w = {})
        /\ (w # <<>> => DOMAIN w = {1} /\ w[1] = x)
    BY <1>2, <1>3, EmptyIsSeq
  <1>6. \A i \in DOMAIN w : w[i].file # "question"
    BY <1>1, <1>5
  <1>7. /\ After(w, disk, "fact") = IF w # <<>> /\ file = "fact" THEN v ELSE disk["fact"]
        /\ After(w, disk, "approval") = IF w # <<>> /\ file = "approval" THEN v ELSE disk["approval"]
    BY <1>1, <1>5 DEF After
  <1>8. Intact => BearsAll(more, Questions, <<>>, After(w, disk, "fact"), After(w, disk, "approval"), serial')
    BY <1>7
  <1>9. Intact => BearsAll(more, Questions, w, After(w, disk, "fact"), After(w, disk, "approval"), serial')
    BY <1>6, <1>8 DEF BearsAll, Bears
  <1>10. Intact => \A i \in DOMAIN w : Mild(w[i], disk["fact"], disk["approval"])
    BY <1>4, <1>5
  <1> QED
    BY <1>5, <1>6, <1>9, <1>10, BesideSection

\* A fact that is appended is beside the subject it has.
LEMMA FactAppended ==
  ASSUME NEW s, FactRecords(s), NEW f, {"id", "subject"} \subseteq DOMAIN f, NEW a
  PROVE  LET v == Append(s, f) IN FactRecords(v) /\ FactsFollow(s, v, a) /\ FactIn(f.id, f.subject, v, a)
  <1> DEFINE v == Append(s, f)
  <1>1. IsSeq(s)
    BY DEF FactRecords
  <1>2. /\ IsSeq(v) /\ Len(v) = Len(s) + 1
        /\ \A i \in DOMAIN v : \/ i \in DOMAIN s /\ v[i] = s[i]
                               \/ i = Len(s) + 1 /\ v[i] = f
    BY <1>1, AppendIsSeq
  <1>3. DOMAIN v = 1..(Len(s) + 1) /\ DOMAIN s = 1..Len(s) /\ Len(s) \in Nat
    BY <1>1, <1>2, SeqFacts
  <1> HIDE DEF v
  <1>4. FactRecords(v)
    BY <1>2 DEF FactRecords
  <1>5. \A i \in DOMAIN s : i \in DOMAIN v /\ v[i] = s[i]
    BY <1>2, <1>3
  <1>6. FactsFollow(s, v, a)
    BY <1>5, JoinedIs DEF FactsFollow, FactIn
  <1>7. Len(s) + 1 \in DOMAIN v /\ v[Len(s) + 1] = f
    BY <1>2, <1>3
  <1>8. FactIn(f.id, f.subject, v, a)
    BY <1>7, JoinedIs DEF FactIn
  <1> QED
    BY <1>4, <1>6, <1>8 DEF v

LEMMA BesideAddFact ==
  ASSUME MemoryInv, BesideInv, NEW t \in Thread, AddFact(t)
  PROVE  BesideInv'
  <1> DEFINE f == [id |-> NewId, subject |-> Next1(t).subject, type |-> Next1(t).type,
                   value |-> Next1(t).value]
             v == Append(disk["fact"], f)
             complete == Completes(Next1(t).type, Next1(t).value)
             toDecisions == [op |-> "decisionLinks", fact |-> f]
             toQuestions == [op |-> "questionLinks", fact |-> f]
             first == IF complete THEN <<toDecisions>> ELSE <<>>
             w == <<Write("fact", v)>>
             more == first \o <<toQuestions>>
  <1>1. /\ saving = <<>> /\ todo[t] # <<>> /\ serial' = serial + 1 /\ Section(t, w, more)
    BY DEF AddFact, Doing, NewId
  <1>2. {"id", "subject"} \subseteq DOMAIN f
    OBVIOUS
  <1> HIDE DEF f, complete
  <1>3. toDecisions.op \notin Bearing
    BY BareOps
  <1>4. toQuestions.op = "questionLinks" /\ toQuestions.fact = f
    OBVIOUS
  <1> HIDE DEF toDecisions, toQuestions
  <1>5. ASSUME Intact
        PROVE  /\ FactRecords(v) /\ FactsFollow(disk["fact"], v, disk["approval"])
               /\ FactIn(f.id, f.subject, v, disk["approval"])
    BY <1>1, <1>2, <1>5, HeadBears, FactAppended
  <1>6. Bare(first)
    BY <1>3, BareOne, HushedNothing
  <1> HIDE DEF first
  <1>7. /\ IsSeq(<<toQuestions>>) /\ DOMAIN <<toQuestions>> = {1} /\ <<toQuestions>>[1] = toQuestions
        /\ IsSeq(first)
    BY <1>6, OneIsSeq DEF Bare
  <1>8. /\ IsSeq(more)
        /\ \A i \in DOMAIN more : \/ i \in DOMAIN first /\ more[i] = first[i]
                                  \/ more[i] = toQuestions
    <2> DEFINE s == <<toQuestions>>
    <2>1. IsSeq(s) /\ DOMAIN s = {1} /\ s[1] = toQuestions
      BY <1>7
    <2> HIDE DEF s
    <2>2. /\ IsSeq(first \o s)
          /\ \A i \in DOMAIN (first \o s) : \/ i \in DOMAIN first /\ (first \o s)[i] = first[i]
                                            \/ i - Len(first) \in DOMAIN s
                                               /\ (first \o s)[i] = s[i - Len(first)]
      BY <1>7, <2>1, ConcatIsSeq
    <2>3. /\ IsSeq(first \o s)
          /\ \A i \in DOMAIN (first \o s) : \/ i \in DOMAIN first /\ (first \o s)[i] = first[i]
                                            \/ (first \o s)[i] = toQuestions
      BY <2>1, <2>2
    <2> QED
      BY <2>3 DEF s
  <1> HIDE DEF more, v
  <1>9. ASSUME Intact
        PROVE  BearsAll(more, Questions, <<>>, v, disk["approval"], serial')
    <2>1. Bears(toQuestions, Questions, <<>>, v, disk["approval"], serial')
      BY <1>4, <1>5, <1>9 DEF Bears, TransactionOps
    <2>2. BearsAll(first, Questions, <<>>, v, disk["approval"], serial')
      BY <1>6, BareBears
    <2> QED
      BY <1>8, <2>1, <2>2 DEF BearsAll
  <1>10. Intact => Mild(Write("fact", v), disk["fact"], disk["approval"])
    BY <1>5 DEF Mild, Write
  <1>11. t \in Actor
    BY DEF Actor
  <1> QED
    BY <1>1, <1>8, <1>9, <1>10, <1>11, OneIsSeq, BesideRecords

LEMMA BesideMoveFacts ==
  ASSUME MemoryInv, BesideInv, NEW t \in Thread, MoveFacts(t)
  PROVE  BesideInv'
  <1> DEFINE tx == Next1(t)
             facts == disk["fact"]
             mine(r) == r.subject = tx.source
             moved(r) == [r EXCEPT !.subject = tx.target]
             v == Where(facts, mine, moved)
             w == IF Holding(facts, mine) = {} THEN <<>> ELSE <<Write("fact", v)>>
             o == [tx EXCEPT !.op = "move question"]
  <1>1. /\ saving = <<>> /\ todo[t] # <<>> /\ tx.op = "move fact" /\ serial' = serial
        /\ Section(t, w, <<o>>)
    BY DEF MoveFacts, MoveRecords, Doing
  <1>2. v = [i \in DOMAIN facts |-> IF facts[i].subject = tx.source THEN moved(facts[i]) ELSE facts[i]]
    BY DEF Where
  <1>3. \A r : {"id", "subject"} \subseteq DOMAIN r =>
          /\ moved(r).id = r.id /\ moved(r).subject = tx.target
          /\ {"id", "subject"} \subseteq DOMAIN moved(r)
    OBVIOUS
  <1>4. w = <<>> \/ w = <<Write("fact", v)>>
    OBVIOUS
  <1>5. tx.op \in TransactionOps /\ "move question" \in TransactionOps
    BY <1>1 DEF TransactionOps
  <1>6. /\ t \in Actor /\ "op" \in DOMAIN tx
        /\ Intact => {"source", "target"} \subseteq DOMAIN tx /\ Joined(tx.source, tx.target, disk["approval"])
    BY <1>1, <1>5, HeadOfMerge
  <1>7. Intact => FactRecords(facts)
    BY <1>1, HeadBears
  <1> HIDE DEF tx, moved, v, w, facts
  <1>8. /\ o.op = "move question"
        /\ Intact => {"source", "target"} \subseteq DOMAIN o /\ Joined(o.source, o.target, disk["approval"])
    BY <1>6
  <1> HIDE DEF o
  <1>9. IsSeq(<<o>>) /\ DOMAIN <<o>> = {1} /\ <<o>>[1] = o
    BY OneIsSeq
  <1>10. ASSUME Intact
         PROVE  FactRecords(v) /\ FactsFollow(facts, v, disk["approval"])
    <2>1. IsSeq(facts) /\ Len(facts) \in Nat /\ DOMAIN facts = 1..Len(facts)
      BY <1>7, <1>10, SeqFacts DEF FactRecords
    <2>2. DOMAIN v = DOMAIN facts
          /\ \A i \in DOMAIN facts :
               /\ {"id", "subject"} \subseteq DOMAIN v[i] /\ v[i].id = facts[i].id
               /\ v[i].subject = IF facts[i].subject = tx.source THEN tx.target ELSE facts[i].subject
      BY <1>2, <1>3, <1>7, <1>10 DEF FactRecords
    <2>3. v = [i \in 1..Len(facts) |-> v[i]]
      BY <1>2, <2>1
    <2>4. IsSeq(v)
      BY <2>1, <2>3, ListIsSeq
    <2>5. \A i \in DOMAIN facts : Joined(facts[i].subject, v[i].subject, disk["approval"])
      BY <1>6, <1>10, <2>2, JoinedIs
    <2> QED
      BY <2>2, <2>4, <2>5 DEF FactRecords, FactsFollow, FactIn
  <1>11. Intact => Mild(Write("fact", v), facts, disk["approval"])
    BY <1>10 DEF Mild, Write
  <1>12. \A s : Intact => BearsAll(<<o>>, Questions, <<>>, s, disk["approval"], serial')
    <2> DEFINE r == <<o>>
    <2>1. DOMAIN r = {1} /\ r[1] = o
      BY <1>9
    <2> HIDE DEF r
    <2>2. \A s : Intact => Bears(o, Questions, <<>>, s, disk["approval"], serial')
      BY <1>8 DEF Bears
    <2>3. \A s : Intact => BearsAll(r, Questions, <<>>, s, disk["approval"], serial')
      BY <2>1, <2>2 DEF BearsAll
    <2> QED
      BY <2>3 DEF r
  <1>13. IsSeq(<<o>>)
    BY <1>9
  <1> DEFINE more == <<o>>
  <1>14. IsSeq(more) /\ Section(t, w, more) /\ \A s : Intact => BearsAll(more, Questions, <<>>, s, disk["approval"], serial')
    BY <1>1, <1>12, <1>13
  <1> HIDE DEF more
  <1>15. /\ Intact => /\ BearsAll(more, Questions, <<>>, disk["fact"], disk["approval"], serial')
                      /\ BearsAll(more, Questions, <<>>, v, disk["approval"], serial')
         /\ Intact => Mild(Write("fact", v), disk["fact"], disk["approval"])
         /\ serial' \in {serial, serial + 1} /\ saving = <<>> /\ todo[t] # <<>>
    BY <1>1, <1>11, <1>14 DEF facts
  <1> QED
    BY <1>4, <1>6, <1>14, <1>15, BesideRecords

LEMMA ApprovedKeeps ==
  ASSUME ApprovalRecords(disk["approval"]), NEW id, NEW status
  PROVE  LET v == Approved(id, status)  s == disk["approval"]
         IN /\ ApprovalRecords(v) /\ DOMAIN v = DOMAIN s
            /\ \A i \in DOMAIN s : /\ v[i].id = s[i].id /\ v[i].source = s[i].source
                                   /\ v[i].target = s[i].target
                                   /\ v[i].status = IF s[i].id = id THEN status ELSE s[i].status
            /\ status # "PENDING" => MoreBegun(s, v)
  <1> DEFINE s == disk["approval"]
             v == Approved(id, status)
  <1>1. IsSeq(s) /\ Len(s) \in Nat /\ DOMAIN s = 1..Len(s)
    BY SeqFacts DEF ApprovalRecords
  <1>2. v = [i \in 1..Len(s) |-> IF s[i].id = id THEN [s[i] EXCEPT !.status = status] ELSE s[i]]
    BY <1>1 DEF Approved, Where
  <1> HIDE DEF v
  <1>3. IsSeq(v) /\ DOMAIN v = DOMAIN s
    BY <1>1, <1>2, ListIsSeq
  <1>4. ASSUME NEW i \in DOMAIN s
        PROVE  /\ {"id", "status", "source", "target"} \subseteq DOMAIN v[i] /\ v[i].id = s[i].id
               /\ v[i].source = s[i].source /\ v[i].target = s[i].target
               /\ v[i].status = IF s[i].id = id THEN status ELSE s[i].status
    <2>1. v[i] = IF s[i].id = id THEN [s[i] EXCEPT !.status = status] ELSE s[i]
      BY <1>1, <1>2
    <2>2. {"id", "status", "source", "target"} \subseteq DOMAIN s[i]
      BY DEF ApprovalRecords
    <2> QED
      BY <2>1, <2>2
  <1>5. ApprovalRecords(v)
    BY <1>3, <1>4 DEF ApprovalRecords
  <1>6. status # "PENDING" => MoreBegun(s, v)
    BY <1>3, <1>4 DEF MoreBegun, Parts
  <1> QED
    BY <1>3, <1>4, <1>5, <1>6 DEF v

LEMMA BesideCreateApproval ==
  ASSUME MemoryInv, BesideInv, NEW t \in Thread, CreateApproval(t)
  PROVE  BesideInv'
  <1> DEFINE o == Next1(t)
             same == Holding(disk["approval"], LAMBDA a : a.source = o.source /\ a.target = o.target
                                                            /\ a.status = "PENDING")
             id == IF same # {} THEN disk["approval"][First(same)].id ELSE NewId
             record == [id |-> NewId, source |-> o.source, target |-> o.target, status |-> "PENDING"]
             s == disk["approval"]
             v == Append(s, record)
             w == IF same # {} THEN <<>> ELSE <<Write("approval", v)>>
             next == [op |-> "execute", id |-> id]
             more == IF o.execute THEN <<next>> ELSE <<>>
  <1>1. /\ saving = <<>> /\ todo[t] # <<>> /\ Section(t, w, more) /\ serial' \in {serial, serial + 1}
    BY DEF CreateApproval, Doing, NewId
  <1>2. Bare(more)
    <2>1. next.op \notin Bearing
      BY BareOps
    <2> HIDE DEF next
    <2> QED
      BY <2>1, BareOne, HushedNothing
  <1>3. record.status = "PENDING" /\ {"id", "status", "source", "target"} \subseteq DOMAIN record
    OBVIOUS
  <1>4. w = <<>> \/ w = <<Write("approval", v)>>
    OBVIOUS
  <1> HIDE DEF more, record, same, w
  <1>5. ASSUME Intact
        PROVE  ApprovalRecords(v) /\ MoreBegun(s, v)
    <2>1. ApprovalRecords(s) /\ IsSeq(s)
      BY <1>1, <1>5, HeadBears DEF ApprovalRecords
    <2>2. /\ IsSeq(v) /\ Len(v) = Len(s) + 1
          /\ \A i \in DOMAIN v : \/ i \in DOMAIN s /\ v[i] = s[i]
                                 \/ i = Len(s) + 1 /\ v[i] = record
      BY <2>1, AppendIsSeq
    <2>3. DOMAIN v = 1..(Len(s) + 1) /\ DOMAIN s = 1..Len(s) /\ Len(s) \in Nat
      BY <2>1, <2>2, SeqFacts
    <2> HIDE DEF v, s
    <2>4. ApprovalRecords(v)
      BY <1>3, <2>1, <2>2 DEF ApprovalRecords
    <2>5. \A i \in DOMAIN s : i \in DOMAIN v /\ v[i] = s[i]
      BY <2>2, <2>3
    <2>6. MoreBegun(s, v)
      BY <2>5 DEF MoreBegun, Parts
    <2> QED
      BY <2>4, <2>6
  <1> HIDE DEF v
  <1>6. Intact => Mild(Write("approval", v), disk["fact"], s)
    BY <1>5 DEF Mild, Write
  <1>7. \A facts, a : BearsAll(more, Questions, <<>>, facts, a, serial')
    BY <1>2, BareBears
  <1>8. t \in Actor /\ IsSeq(more)
    BY <1>2 DEF Actor, Bare
  <1> QED
    BY <1>1, <1>4, <1>6, <1>7, <1>8, BesideRecords

LEMMA BesideExecuteApproval ==
  ASSUME MemoryInv, BesideInv, NEW t \in Thread, ExecuteApproval(t)
  PROVE  BesideInv'
  <1> DEFINE s == disk["approval"]
             pending(r) == r.id = Next1(t).id /\ r.status = "PENDING"
             at == Holding(s, pending)
             a == s[First(at)]
             v == Approved(a.id, "RUNNING")
             o == Transaction(a.source, a.target, a.id)
  <1>1. /\ saving = <<>> /\ todo[t] # <<>> /\ serial' = serial
        /\ IF at = {} THEN Section(t, <<>>, <<>>) ELSE Section(t, <<Write("approval", v)>>, <<o>>)
    BY DEF ExecuteApproval, Doing
  <1>2. t \in Actor
    BY DEF Actor
  <1>3. CASE at = {}
    BY <1>1, <1>2, <1>3, HushedNothing, BesideQuiet
  <1>4. CASE at # {}
    <2>1. at \subseteq DOMAIN s
      BY DEF Holding
    <2>2. o.op = "names" /\ o.source = a.source /\ o.target = a.target /\ {"source", "target"} \subseteq DOMAIN o
      BY DEF Transaction
    <2>3. "names" \in TransactionOps
      BY DEF TransactionOps
    <2>4. ASSUME Intact
          PROVE  ApprovalRecords(v) /\ MoreBegun(s, v) /\ Joined(a.source, a.target, v)
      <3>1. ApprovalRecords(s)
        BY <1>1, <2>4, HeadBears
      <3>2. First(at) \in at
        <4>1. IsSeq(s)
          BY <3>1 DEF ApprovalRecords
        <4>2. at \subseteq Nat
          <5>1. DOMAIN s \subseteq Nat
            BY <4>1, SeqFacts
          <5> HIDE DEF at, s
          <5> QED
            BY <2>1, <5>1
        <4> HIDE DEF at
        <4> QED
          BY <1>4, <4>2, FirstIs
      <3>3. First(at) \in DOMAIN s
        BY <2>1, <3>2
      <3> HIDE DEF at, v, o
      <3>4. /\ ApprovalRecords(v) /\ DOMAIN v = DOMAIN s
            /\ \A i \in DOMAIN s : /\ v[i].id = s[i].id /\ v[i].source = s[i].source
                                   /\ v[i].target = s[i].target
                                   /\ v[i].status = IF s[i].id = a.id THEN "RUNNING" ELSE s[i].status
            /\ MoreBegun(s, v)
        BY <3>1, ApprovedKeeps DEF v
      <3>5. Joined(a.source, a.target, v)
        BY <3>3, <3>4 DEF Joined, Parts
      <3> QED
        BY <3>4, <3>5
    <2> HIDE DEF a, at, v, o
    <2>5. Section(t, <<Write("approval", v)>>, <<o>>)
      BY <1>1, <1>4
    <2> DEFINE more == <<o>>
               w == <<Write("approval", v)>>
    <2>6. IsSeq(more) /\ DOMAIN more = {1} /\ more[1] = o /\ w # <<>> /\ Section(t, w, more)
      BY <2>5, OneIsSeq
    <2> HIDE DEF more
    <2>7. Intact => BearsAll(more, Questions, <<>>, disk["fact"], v, serial')
      <3>1. Intact => Bears(o, Questions, <<>>, disk["fact"], v, serial')
        BY <2>2, <2>3, <2>4 DEF Bears
      <3> QED
        BY <2>6, <3>1 DEF BearsAll
    <2>8. Intact => Mild(Write("approval", v), disk["fact"], s)
      BY <2>4 DEF Mild, Write
    <2> QED
      BY <1>1, <1>2, <2>6, <2>7, <2>8, BesideRecords
  <1> QED
    BY <1>3, <1>4

LEMMA BesideSettleApproval ==
  ASSUME MemoryInv, BesideInv, NEW t \in Thread, SettleApproval(t)
  PROVE  BesideInv'
  <1> DEFINE status == IF Next1(t).ok THEN "APPROVED" ELSE "FAILED"
             v == Approved(Next1(t).approval, status)
             w == <<Write("approval", v)>>
  <1>1. /\ saving = <<>> /\ todo[t] # <<>> /\ serial' = serial /\ Section(t, w, <<>>)
    BY DEF SettleApproval, Doing
  <1>2. status # "PENDING"
    OBVIOUS
  <1> HIDE DEF status
  <1>3. Intact => ApprovalRecords(v) /\ MoreBegun(disk["approval"], v)
    BY <1>1, <1>2, HeadBears, ApprovedKeeps
  <1> HIDE DEF v
  <1>4. Intact => Mild(Write("approval", v), disk["fact"], disk["approval"])
    BY <1>3 DEF Mild, Write
  <1>5. \A facts, a : BearsAll(<<>>, Questions, <<>>, facts, a, serial')
    BY HushedNothing, BareBears
  <1>6. t \in Actor /\ IsSeq(<<>>)
    BY EmptyIsSeq DEF Actor
  <1> QED
    BY <1>1, <1>4, <1>5, <1>6, BesideRecords

LEMMA BesideSave ==
  ASSUME MemoryInv, BesideInv, Save
  PROVE  BesideInv'
  <1> DEFINE file == saving[1].file
             value == saving[1].value
  <1>1. torn' = torn /\ todo' = todo /\ serial' = serial /\ (Intact' <=> Intact)
    BY DEF Save, Intact, TornFiles
  <1>2. FilesInv /\ ListsInv /\ serial \in Nat
    BY DEF MemoryInv, SaidInv, ListsInv
  <1>3. /\ saving # <<>> /\ IsSeq(saving) /\ 1 \in DOMAIN saving /\ IsSeq(saving')
        /\ \A i \in DOMAIN saving' : /\ i + 1 \in DOMAIN saving /\ saving'[i] = saving[i + 1]
                                     /\ i + 1 # 1
        /\ DOMAIN disk' = Files
        /\ \A f \in Files : disk'[f] = IF file = f THEN value ELSE disk[f]
        /\ \A f \in Referred : After(saving', disk', f) = After(saving, disk, f)
                               /\ disk'[f] = After(saving, disk, f)
        /\ FitsFile(file, value, saving, disk, serial, TornFiles)
    BY SaveAfter
  <1>4. /\ disk'["fact"] = IF file = "fact" THEN value ELSE disk["fact"]
        /\ disk'["approval"] = IF file = "approval" THEN value ELSE disk["approval"]
        /\ disk'["question"] = IF file = "question" THEN value ELSE disk["question"]
    BY <1>3 DEF Files
  <1>5. Questions' = IF file = "question" THEN value ELSE Questions
    <2>1. CASE file = "question"
      <3>1. QuestionsLoaded(value) = value
        BY <1>3, <2>1, LoadedList DEF FitsFile, QuestionList
      <3> QED
        BY <1>4, <2>1, <3>1 DEF Questions
    <2>2. CASE file # "question"
      BY <1>4, <2>2 DEF Questions
    <2> QED
      BY <2>1, <2>2
  <1>6. /\ QuestionIds(Questions', serial')
        /\ \A i \in DOMAIN saving' : saving'[i].file = "question" => QuestionIds(saving'[i].value, serial')
    BY <1>1, <1>3, <1>5 DEF BesideInv
  <1>7. \A i \in DOMAIN saving' : saving'[i].file \notin {"fact", "approval"}
    <2> TAKE i \in DOMAIN saving'
    <2>1. i + 1 \in DOMAIN saving /\ saving'[i] = saving[i + 1] /\ i + 1 # 1
      BY <1>3
    <2>2. saving'[i].file \notin Referred
      BY <1>2, <2>1 DEF FilesInv, Fits
    <2>3. saving'[i].file = "approval" => Len(saving) = 1
      BY <2>1 DEF MemoryInv, ExecutionInv, ExecutionType
    <2>4. DOMAIN saving = 1..Len(saving)
      BY <1>3, SeqFacts
    <2> QED
      BY <2>1, <2>2, <2>3, <2>4 DEF Referred
  <1>8. /\ After(saving', disk', "fact") = After(saving, disk, "fact")
        /\ After(saving', disk', "approval") = After(saving, disk, "approval")
    <2>1. saving' # <<>> => 1 \in DOMAIN saving'
      BY <1>3, SeqFacts
    <2>2. After(saving', disk', "approval") = disk'["approval"]
      BY <1>7, <2>1 DEF After
    <2> QED
      BY <1>3, <1>4, <2>2 DEF Referred, After
  <1> HIDE DEF file, value
  <1>9. ASSUME Intact PROVE BesideFiles'
    <2> DEFINE F == disk["fact"]
               A == disk["approval"]
    <2>1. /\ FactRecords(F) /\ ApprovalRecords(A) /\ BesideAll(Questions, F, A)
          /\ \A i \in DOMAIN saving : Mild(saving[i], F, A)
          /\ \A t \in Thread : BearsAll(todo[t], Questions, saving, After(saving, disk, "fact"),
                                        After(saving, disk, "approval"), serial)
      BY <1>9 DEF BesideInv, BesideFiles
    <2>2. /\ file = "question" => BesideAll(value, F, A)
          /\ file = "fact" => FactRecords(value) /\ FactsFollow(F, value, A)
          /\ file = "approval" => ApprovalRecords(value) /\ MoreBegun(A, value)
      BY <1>3, <2>1 DEF Mild, file, value
    <2>3. /\ FactsFollow(F, disk'["fact"], A) /\ MoreBegun(A, disk'["approval"])
          /\ FactRecords(disk'["fact"]) /\ ApprovalRecords(disk'["approval"])
      BY <1>4, <2>1, <2>2, NothingFollows
    <2>4. \A v : BesideAll(v, F, A) => BesideAll(v, disk'["fact"], disk'["approval"])
      BY <2>3, FollowedFacts
    <2>5. BesideAll(Questions', disk'["fact"], disk'["approval"])
      BY <1>5, <2>1, <2>2, <2>4
    <2>6. \A i \in DOMAIN saving' : Mild(saving'[i], disk'["fact"], disk'["approval"])
      <3> TAKE i \in DOMAIN saving'
      <3>1. i + 1 \in DOMAIN saving /\ saving'[i] = saving[i + 1] /\ saving'[i].file \notin {"fact", "approval"}
        BY <1>3, <1>7
      <3> QED
        BY <2>1, <2>4, <3>1 DEF Mild
    <2>7. ASSUME NEW o, NEW facts, NEW a, Bears(o, Questions, saving, facts, a, serial)
          PROVE  Bears(o, Questions', saving', facts, a, serial)
      <3>1. ASSUME o.op = "markAnswered"
            PROVE  /\ Marked(o.id, o.fact, Questions', facts, a)
                   /\ \A i \in DOMAIN saving' : saving'[i].file = "question" =>
                        Marked(o.id, o.fact, saving'[i].value, facts, a)
        <4>1. /\ Marked(o.id, o.fact, Questions, facts, a)
              /\ \A i \in DOMAIN saving : saving[i].file = "question" =>
                   Marked(o.id, o.fact, saving[i].value, facts, a)
          BY <2>7, <3>1 DEF Bears
        <4> QED
          BY <1>3, <1>5, <4>1 DEF file, value
      <3> QED
        BY <2>7, <3>1 DEF Bears
    <2>8. \A t \in Thread : BearsAll(todo[t], Questions', saving', After(saving, disk, "fact"),
                                     After(saving, disk, "approval"), serial)
      BY <2>1, <2>7 DEF BearsAll
    <2> QED
      BY <1>1, <1>8, <2>3, <2>5, <2>6, <2>8 DEF BesideFiles
  <1> QED
    BY <1>1, <1>6, <1>9 DEF BesideInv

LEMMA BesideKill ==
  ASSUME MemoryInv, BesideInv, Kill
  PROVE  BesideInv'
  <1>1. PICK file \in {"none"} \cup (IF saving = <<>> THEN {} ELSE {Head(saving).file}) :
          /\ disk' = [disk EXCEPT ![IF file = "none" THEN "summary" ELSE file] =
                        IF file = "none" THEN @ ELSE <<>>]
          /\ torn' = Append(torn, file)
    BY DEF Kill
  <1>2. /\ saving' = <<>> /\ serial' = serial
        /\ todo' = [t \in DOMAIN todo |-> IF t = Main THEN <<[op |-> "init"]>> ELSE <<>>]
    BY DEF Kill
  <1>3. /\ DOMAIN disk = Files /\ IsSeq(torn) /\ DOMAIN todo = Actor
    BY DEF MemoryInv, ExecutionInv, ExecutionType, TodoOK
  <1>4. TornFiles \subseteq TornFiles' /\ file \in TornFiles'
    <2>1. IsSeq(torn') /\ Len(torn') = Len(torn) + 1 /\ Len(torn) \in Nat /\ DOMAIN torn = 1..Len(torn)
          /\ DOMAIN torn' = 1..(Len(torn) + 1)
      BY <1>1, <1>3, AppendIsSeq, SeqFacts
    <2>2. \A i \in DOMAIN torn' : \/ i \in DOMAIN torn /\ torn'[i] = torn[i]
                                  \/ i = Len(torn) + 1 /\ torn'[i] = file
      BY <1>1, <1>3, AppendIsSeq
    <2>3. \A i \in DOMAIN torn : i \in DOMAIN torn' /\ torn'[i] = torn[i]
      BY <2>1, <2>2
    <2>4. Len(torn) + 1 \in DOMAIN torn' /\ torn'[Len(torn) + 1] = file
      BY <2>1, <2>2
    <2> QED
      BY <2>3, <2>4 DEF TornFiles
  <1>5. \A f \in Files : disk'[f] = disk[f] \/ (f = file /\ disk'[f] = <<>>)
    BY <1>1, <1>3
  <1>6. /\ disk'["question"] \in {disk["question"], <<>>}
        /\ \A f \in {"fact", "approval"} : f \notin TornFiles' => disk'[f] = disk[f]
    BY <1>4, <1>5 DEF Files
  <1>7. Questions' \in {Questions, <<>>}
    <2>1. CASE disk'["question"] = disk["question"]
      BY <2>1 DEF Questions
    <2>2. CASE disk'["question"] = <<>>
      <3>1. QuestionsLoaded(<<>>) = <<>>
        BY EmptyIsSeq, LoadedList
      <3> QED
        BY <2>2, <3>1 DEF Questions
    <2> QED
      BY <1>6, <2>1, <2>2
  <1>8. DOMAIN <<>> = {}
    OBVIOUS
  <1>9. QuestionIds(Questions', serial')
    BY <1>2, <1>7, <1>8 DEF BesideInv, QuestionIds
  <1>10. ASSUME Intact' PROVE BesideFiles'
    <2>1. Intact /\ disk'["fact"] = disk["fact"] /\ disk'["approval"] = disk["approval"]
      BY <1>4, <1>6, <1>10 DEF Intact
    <2>2. /\ FactRecords(disk["fact"]) /\ ApprovalRecords(disk["approval"])
          /\ BesideAll(Questions, disk["fact"], disk["approval"])
      BY <2>1 DEF BesideInv, BesideFiles
    <2>3. BesideAll(Questions', disk["fact"], disk["approval"])
      BY <1>7, <1>8, <2>2 DEF BesideAll
    <2>4. \A t \in Thread : todo'[t] = <<>>
      BY <1>2, <1>3, MemoryAssumption DEF Actor
    <2> QED
      BY <1>2, <1>8, <2>1, <2>2, <2>3, <2>4 DEF BesideFiles, BearsAll
  <1> QED
    BY <1>2, <1>8, <1>9, <1>10 DEF BesideInv

LEMMA BesideMigrate ==
  ASSUME MemoryInv, BesideInv, OwnerMigrateDecisions(Main)
  PROVE  BesideInv'
  <1> DEFINE r == Registered(Len(Decisions))
             v == OwnedDecisions
             a == Write("owner", r)
             b == Write("decision", v)
             u == <<a, b>>
             none == Holding(Decisions, Unowned) = {}
             w == IF none THEN <<>> ELSE u
  <1>1. /\ saving = <<>> /\ todo[Main] # <<>> /\ serial' = serial
        /\ Section(Main, w, <<>>) /\ Main \in Actor
    BY DEF OwnerMigrateDecisions, Doing, Actor
  <1>2. a.file = "owner" /\ b.file = "decision"
    BY DEF Write
  <1> HIDE DEF r, v, none, a, b
  <1>3. Hushed(u)
    BY <1>2, TwoIsSeq DEF Hushed
  <1> HIDE DEF u
  <1>4. Hushed(w)
    BY <1>3, HushedNothing
  <1> HIDE DEF w
  <1> QED
    BY <1>1, <1>4, HushedNothing, BesideQuiet

LEMMA BesideCalled ==
  ASSUME MemoryInv, BesideInv, NEW t \in Thread, Call(t), NEW s, Bare(s), todo' = [todo EXCEPT ![t] = s]
  PROVE  BesideInv'
  <1>1. /\ disk' = disk /\ saving' = saving /\ serial' = serial /\ torn' = torn
    BY DEF Call
  <1>2. (Intact' <=> Intact) /\ Questions' = Questions
    BY <1>1 DEF Intact, TornFiles, Questions
  <1>3. t \in DOMAIN todo
    BY DEF MemoryInv, ExecutionInv, ExecutionType, TodoOK, Actor
  <1>4. todo'[t] = s /\ \A u \in Thread \ {t} : todo'[u] = todo[u]
    BY <1>3
  <1>5. \A v, w, facts, a, last : BearsAll(s, v, w, facts, a, last)
    BY BareBears
  <1>6. ASSUME Intact PROVE BesideFiles'
    <2>1. BesideFiles
      BY <1>6 DEF BesideInv
    <2>2. \A u \in Thread : BearsAll(todo'[u], Questions, saving, After(saving, disk, "fact"),
                                     After(saving, disk, "approval"), serial)
      BY <1>4, <1>5, <2>1 DEF BesideFiles
    <2> QED
      BY <1>1, <1>2, <2>1, <2>2 DEF BesideFiles
  <1> QED
    BY <1>1, <1>2, <1>6 DEF BesideInv

LEMMA BesideStep ==
  ASSUME MemoryInv, BesideInv, Next
  PROVE  BesideInv'
  <1>1. \A t \in Operator : t \in Thread
    BY SubjectMergeAssumption
  <1>2. CASE Save
    BY <1>2, BesideSave
  <1>3. CASE Kill
    BY <1>3, BesideKill
  <1>4. CASE OwnerMigrateDecisions(Main)
    BY <1>4, BesideMigrate
  <1>5. ASSUME NEW t \in Thread, ExtractAndSave(t) PROVE BesideInv'
    <2>1. PICK a \in Analyses : todo' = [todo EXCEPT ![t] = Extraction(a)]
      BY <1>5 DEF ExtractAndSave
    <2>2. Bare(Extraction(a)) /\ Call(t)
      BY <1>5, ExtractionFree, FreeIsBare, MemoryAssumption DEF ExtractAndSave
    <2> QED
      BY <2>1, <2>2, BesideCalled
  <1>6. ASSUME NEW t \in Thread, ExtractionStep(t) PROVE BesideInv'
    BY <1>6, BesideSubjects, BesideDecisions, BesideAddQuestion, BesideCluster, BesideAddFact,
       BesideLinkQuestions, BesideMarkQuestion
    DEF ExtractionStep
  <1>7. ASSUME NEW t \in Operator, RequestMerge(t) \/ AutoMergeCall(t) \/ AnswerCall(t)
        PROVE  BesideInv'
    <2>1. CASE RequestMerge(t)
      <3>1. PICK s, u \in Ids("subject") :
              todo' = [todo EXCEPT ![t] = <<[op |-> "approve", source |-> s, target |-> u, execute |-> TRUE]>>]
        BY <2>1 DEF RequestMerge
      <3> DEFINE o == [op |-> "approve", source |-> s, target |-> u, execute |-> TRUE]
      <3>2. o.op \notin Bearing
        BY BareOps
      <3> HIDE DEF o
      <3>3. Bare(<<o>>)
        BY <3>2, BareOne
      <3> QED
        BY <1>1, <2>1, <3>1, <3>3, BesideCalled DEF RequestMerge, o
    <2>2. CASE AutoMergeCall(t)
      <3>1. Bare(<<[op |-> "auto"]>>)
        BY BareOne, BareOps
      <3> QED
        BY <1>1, <2>2, <3>1, BesideCalled DEF AutoMergeCall
    <2>3. CASE AnswerCall(t)
      <3>1. PICK q \in Ids("question"), d \in Ids("decision") \cup {0} :
              todo' = [todo EXCEPT ![t] = <<[op |-> "answeredBy", id |-> q, decision |-> d,
                                             source |-> IF d = 0 THEN "answer" ELSE "decision"]>>]
        BY <2>3 DEF AnswerCall
      <3> DEFINE source == IF d = 0 THEN "answer" ELSE "decision"
                 o == [op |-> "answeredBy", id |-> q, decision |-> d, source |-> source]
      <3> HIDE DEF source
      <3>2. o.op \notin Bearing
        BY BareOps
      <3>3. Bare(<<o>>)
        <4> HIDE DEF o
        <4> QED
          BY <3>2, BareOne
      <3> QED
        BY <1>1, <2>3, <3>1, <3>3, BesideCalled DEF AnswerCall, source
    <2> QED
      BY <1>7, <2>1, <2>2, <2>3
  <1>8. ASSUME NEW t \in Operator, MarkQuestionBy(t) \/ MergeStep(t) PROVE BesideInv'
    BY <1>1, <1>8, BesideMarkQuestionBy, BesideCreateApproval, BesideExecuteApproval,
       BesideSettleApproval, BesideTransaction, BesideMoveFacts, BesideMoveQuestions, BesideAutoMerge
    DEF MergeStep
  <1> QED
    BY <1>2, <1>3, <1>4, <1>5, <1>6, <1>7, <1>8 DEF Next

LEMMA BesideStays ==
  ASSUME MemoryInv, BesideInv, [Next]_vars
  PROVE  BesideInv'
  <1>1. CASE UNCHANGED vars
    <2>1. /\ disk' = disk /\ saving' = saving /\ todo' = todo /\ serial' = serial /\ torn' = torn
      BY <1>1 DEF vars
    <2>2. (Intact' <=> Intact) /\ Questions' = Questions
      BY <2>1 DEF Intact, TornFiles, Questions
    <2> QED
      BY <2>1, <2>2 DEF BesideInv, BesideFiles
  <1> QED
    BY <1>1, BesideStep

\* Loading changes no id but one that a question lacks.
LEMMA LoadedQuestionId ==
  ASSUME NEW q, {"id", "source", "status", "link"} \subseteq DOMAIN q, q.id \in 0..100, q.text \in Nat \ {0}
  PROVE  Load(q).id = WithId(q).id /\ WithId(q).id \in Int /\ WithId(q).id <= 100
  <1> DEFINE a == WithId(q)
             b == WithStatus(a)
  <1>1. {"id", "source", "status", "link"} \subseteq DOMAIN a /\ a.id \in Int /\ a.id <= 100
    <2> DEFINE x == LegacyId(q.text)
    <2>1. x \in Int /\ x <= 100
      BY DEF LegacyId
    <2> HIDE DEF x
    <2>2. a = IF q.id = 0 THEN [q EXCEPT !.id = x] ELSE q
      BY DEF WithId, x
    <2> HIDE DEF a
    <2> QED
      BY <2>1, <2>2
  <1> HIDE DEF a
  <1>2. {"id", "link"} \subseteq DOMAIN b /\ b.id = a.id
    <2> DEFINE source == ResolutionOf(a)
               status == IF source = "none" THEN "OPEN" ELSE "ANSWERED"
    <2>1. b = IF a.status # "absent" THEN a ELSE [a EXCEPT !.source = source, !.status = status]
      BY DEF WithStatus
    <2> HIDE DEF source, status, b
    <2> QED
      BY <1>1, <2>1
  <1> HIDE DEF b
  <1>3. WithLink(b).id = b.id
    <2> DEFINE k == AnswerLink(b)
    <2>1. WithLink(b) = IF b.link.type = "absent" THEN [b EXCEPT !.link = k] ELSE b
      BY DEF WithLink
    <2> HIDE DEF k
    <2> QED
      BY <1>2, <2>1
  <1>4. Load(q) = WithLink(b)
    BY DEF Load, a, b
  <1> QED
    BY <1>1, <1>2, <1>3, <1>4 DEF a

LEMMA TogetherIsJoined ==
  ASSUME NEW a, NEW x, NEW y, Together(x, y, Executed(a))
  PROVE  Joined(x, y, a)
  <1> SUFFICES ASSUME NEW S, Parts(S, a) PROVE x \in S <=> y \in S
    BY DEF Joined
  <1> DEFINE pairs == Executed(a)
             D == {x, y} \cup UNION {{p[1], p[2]} : p \in pairs}
             T == S \cap D
  <1>1. ASSUME NEW p \in pairs PROVE p[1] \in T <=> p[2] \in T
    <2>1. PICK r \in {z \in ToSet(a) : z.status # "PENDING"} : p = <<r.source, r.target>>
      BY DEF Executed
    <2>2. PICK i \in DOMAIN a : r = a[i]
      BY <2>1 DEF ToSet
    <2>3. p[1] = a[i].source /\ p[2] = a[i].target /\ a[i].status # "PENDING"
      BY <2>1, <2>2
    <2>4. p[1] \in S <=> p[2] \in S
      BY <2>3 DEF Parts
    <2>5. {p[1], p[2]} \subseteq D
      OBVIOUS
    <2> QED
      BY <2>4, <2>5
  <1>2. T \in SUBSET D
    OBVIOUS
  <1>3. \A U \in SUBSET D : (\A p \in pairs : p[1] \in U <=> p[2] \in U) => (x \in U <=> y \in U)
    BY DEF Together
  <1>4. x \in T <=> y \in T
    <2> HIDE DEF T, D, pairs
    <2> QED
      BY <1>1, <1>2, <1>3
  <1> QED
    BY <1>4

LEMMA BesideInit == Init => BesideInv
  <1> SUFFICES ASSUME Init PROVE BesideInv
    OBVIOUS
  <1> DEFINE s == disk["question"]
             F == disk["fact"]
             A == disk["approval"]
             Question == [id : 0..FirstId, text : Nat \ {0}, subject : Nat, answer : BOOLEAN,
                          status : QuestionStatus \cup {"absent"},
                          source : {"none", "fact", "decision", "answer"},
                          fact : Nat, decision : Nat, cluster : Nat, types : SUBSET STRING,
                          link : [type : {"absent", "none", "fact", "decision", "direct"}, id : Nat]]
             Fact == [id : 1..FirstId, subject : Nat, type : STRING, value : SUBSET STRING]
             Approval == [id : 1..FirstId, source : Nat, target : Nat,
                          status : {"PENDING", "APPROVED", "FAILED"}]
  <1>1. /\ s \in Seq(Question) /\ F \in Seq(Fact)
        /\ \A i, j \in DOMAIN s : WithId(s[i]).id = WithId(s[j]).id => i = j
        /\ \A i \in DOMAIN s : FactBeside(QuestionsLoaded(s)[i], F, A)
    <2>1. StoredQuestions(s, F, disk["cluster"], A)
      BY MemoryAssumption DEF Init
    <2> QED
      BY <2>1, Zenon DEF StoredQuestions
  <1>2. A \in Seq(Approval)
    BY MemoryAssumption DEF Init, StoredApprovals
  <1>3. /\ \A i \in DOMAIN s : s[i] \in Question
        /\ IsSeq(F) /\ \A i \in DOMAIN F : F[i] \in Fact
        /\ IsSeq(A) /\ \A i \in DOMAIN A : A[i] \in Approval
    <2> HIDE DEF s, F, A, Question, Fact, Approval
    <2>1. \A i \in DOMAIN s : s[i] \in Question
      BY <1>1, SeqHolds
    <2>2. IsSeq(F) /\ \A i \in DOMAIN F : F[i] \in Fact
      BY <1>1, SeqHolds
    <2>3. IsSeq(A) /\ \A i \in DOMAIN A : A[i] \in Approval
      BY <1>2, SeqHolds
    <2> QED
      BY <2>1, <2>2, <2>3
  <1>4. \A q \in Question : /\ {"id", "source", "status", "link"} \subseteq DOMAIN q
                            /\ q.id \in 0..100 /\ q.text \in Nat \ {0}
    BY DEF FirstId
  <1>5. FactRecords(F) /\ ApprovalRecords(A)
    BY <1>3 DEF FactRecords, ApprovalRecords
  <1>6. \A i \in DOMAIN s : /\ {"id", "source", "status", "link"} \subseteq DOMAIN s[i]
                            /\ s[i].id \in 0..100 /\ s[i].text \in Nat \ {0}
    <2> HIDE DEF s, Question
    <2> QED
      BY <1>3, <1>4
  <1>7. /\ saving = <<>> /\ serial = 100 /\ DOMAIN <<>> = {}
        /\ todo = [t \in Thread \cup {Main} |-> IF t = Main THEN <<[op |-> "init"]>> ELSE <<>>]
    BY DEF Init, FirstId
  <1>8. /\ Questions = QuestionsLoaded(s) /\ DOMAIN Questions = DOMAIN s
        /\ \A i \in DOMAIN s : Questions[i] = Load(s[i])
    BY DEF Questions, QuestionsLoaded, Load
  <1> HIDE DEF s, F, A, Question, Fact, Approval
  <1>9. \A i \in DOMAIN s : /\ Questions[i].id = WithId(s[i]).id
                            /\ Questions[i].id \in Int /\ Questions[i].id <= 100
    BY <1>6, <1>8, LoadedQuestionId
  <1>10. QuestionIds(Questions, serial)
    BY <1>1, <1>7, <1>8, <1>9 DEF QuestionIds
  <1>11. BesideAll(Questions, F, A)
    <2> SUFFICES ASSUME NEW k \in DOMAIN Questions, Questions[k].source = "fact"
                 PROVE  FactIn(Questions[k].fact, Questions[k].subject, F, A)
      BY DEF BesideAll
    <2>1. FactBeside(Questions[k], F, A)
      BY <1>1, <1>8
    <2>2. PICK j \in DOMAIN F : F[j].id = Questions[k].fact
                                /\ Together(Questions[k].subject, F[j].subject, Executed(A))
      BY <2>1, Zenon DEF FactBeside
    <2> QED
      BY <2>2, TogetherIsJoined DEF FactIn
  <1>12. \A t \in Thread : todo[t] = <<>>
    BY <1>7, MemoryAssumption
  <1>13. BesideFiles
    BY <1>5, <1>7, <1>11, <1>12 DEF BesideFiles, BearsAll, F, A
  <1> QED
    BY <1>7, <1>10, <1>13 DEF BesideInv

\* A subject and the one it was merged into have the same end of their chains, unless the
\* validation finds an error or the chain is as long as it accepts.
LEMMA MergedResolve ==
  ASSUME NEW subjects, IsSeq(subjects), \A i \in DOMAIN subjects : subjects[i].id # 0,
         MergeErrors(subjects) = {}, NEW x, ~AtLimit(x, subjects),
         NEW t, t # 0, MergedInto(x, subjects) = t
  PROVE  ResolveMerge(x, subjects) = ResolveMerge(t, subjects)
  <1> DEFINE c == Chain(x, subjects)
             d == Chain(t, subjects)
             ends == {n \in 0..(MaxHops - 1) : c[n] # 0 /\ c[n + 1] = 0}
             ends2 == {n \in 0..(MaxHops - 1) : d[n] # 0 /\ d[n + 1] = 0}
  <1>1. MaxHops \in Nat \ {0}
    BY MemoryRecordsAssumption
  <1>2. SubjectById(x, subjects) # 0 /\ x # 0
    BY SubjectFound DEF MergedInto
  <1>3. \E n \in 0..MaxHops : c[n] = 0
    BY <1>2, EndlessIsError
  <1>4. c[0] = x /\ \A n \in 0..MaxHops : c[n + 1] = Hop(c[n], subjects)
    BY ChainIs
  <1>5. d[0] = t /\ \A n \in 0..MaxHops : d[n + 1] = Hop(d[n], subjects)
    BY ChainIs
  <1>6. /\ ResolveMerge(x, subjects) = IF ends = {} THEN x ELSE c[First(ends)]
        /\ ResolveMerge(t, subjects) = IF ends2 = {} THEN t ELSE d[First(ends2)]
    BY DEF ResolveMerge
  <1> HIDE DEF c, d
  <1>7. c[1] = t
    <2>1. 0 \in 0..MaxHops /\ 0 + 1 = 1
      BY <1>1
    <2>2. c[0 + 1] = Hop(c[0], subjects)
      BY <1>4, <2>1
    <2> QED
      BY <1>2, <1>4, <2>1, <2>2 DEF Hop
  <1>8. \A n \in 0..MaxHops : c[n + 1] = d[n]
    <2> DEFINE bad == {n \in 0..MaxHops : c[n + 1] # d[n]}
    <2> SUFFICES ASSUME bad # {} PROVE FALSE
      OBVIOUS
    <2>1. bad \subseteq Nat
      BY <1>1
    <2>2. PICK n \in bad : \A m \in bad : n <= m
      BY <2>1, LeastNumber
    <2>3. n \in 0..MaxHops /\ c[n + 1] # d[n] /\ n # 0
      BY <1>5, <1>7, <2>2
    <2>4. n - 1 \in 0..MaxHops /\ n - 1 \notin bad /\ (n - 1) + 1 = n
      BY <1>1, <2>2, <2>3
    <2>5. c[n] = d[n - 1]
      BY <2>4
    <2>6. c[n + 1] = Hop(c[n], subjects) /\ d[n] = Hop(d[n - 1], subjects)
      BY <1>4, <1>5, <2>3, <2>4
    <2> QED
      BY <2>3, <2>5, <2>6
  <1>9. ends # {}
    <2> DEFINE gone == {n \in 0..MaxHops : c[n] = 0}
    <2>1. gone \subseteq Nat /\ gone # {}
      BY <1>1, <1>3
    <2>2. PICK n \in gone : \A m \in gone : n <= m
      BY <2>1, LeastNumber
    <2>3. n \in 0..MaxHops /\ c[n] = 0 /\ n # 0
      BY <1>2, <1>4, <2>2
    <2>4. n - 1 \in 0..(MaxHops - 1) /\ n - 1 \notin gone /\ (n - 1) + 1 = n
      BY <1>1, <2>2, <2>3
    <2>5. n - 1 \in ends
      BY <1>1, <2>3, <2>4
    <2> QED
      BY <2>5
  <1> DEFINE e == First(ends)
             m == First(ends2)
  <1>10. e \in 0..(MaxHops - 1) /\ c[e] # 0 /\ c[e + 1] = 0 /\ \A n \in ends : e <= n
    <2>1. ends \subseteq Nat
      BY <1>1
    <2>2. First(ends) \in ends /\ \A n \in ends : First(ends) <= n
      BY <1>9, <2>1, FirstIs
    <2> QED
      BY <2>2
  <1> HIDE DEF e
  <1>11. e # 0
    BY <1>7, <1>10
  <1>12. e - 1 \in ends2
    <2>1. e - 1 \in 0..(MaxHops - 1) /\ e - 1 \in 0..MaxHops /\ (e - 1) + 1 = e /\ e \in 0..MaxHops
      BY <1>1, <1>10, <1>11
    <2>2. c[(e - 1) + 1] = d[e - 1] /\ c[e + 1] = d[e]
      BY <1>8, <2>1
    <2> QED
      BY <1>10, <2>1, <2>2
  <1>13. m \in 0..(MaxHops - 1) /\ d[m] # 0 /\ d[m + 1] = 0 /\ m <= e - 1
    <2>1. ends2 \subseteq Nat /\ ends2 # {}
      BY <1>1, <1>12
    <2>2. First(ends2) \in ends2 /\ \A n \in ends2 : First(ends2) <= n
      BY <2>1, FirstIs
    <2> QED
      BY <1>12, <2>2
  <1> HIDE DEF m
  <1>14. m + 1 \in ends
    <2>1. m + 1 \in 0..(MaxHops - 1) /\ m \in 0..MaxHops /\ m + 1 \in 0..MaxHops
      BY <1>1, <1>10, <1>13
    <2>2. c[m + 1] = d[m] /\ c[(m + 1) + 1] = d[m + 1]
      BY <1>8, <2>1
    <2> QED
      BY <1>13, <2>1, <2>2
  <1>15. e <= m + 1
    BY <1>10, <1>14
  <1>16. e = m + 1
    BY <1>10, <1>13, <1>15
  <1>17. c[e] = d[m]
    <2>1. m \in 0..MaxHops
      BY <1>1, <1>13
    <2> QED
      BY <1>8, <1>16, <2>1
  <1>18. ends2 # {}
    BY <1>12
  <1> QED
    BY <1>6, <1>9, <1>17, <1>18 DEF e, m

\* Where every merge that was begun stands, the subjects they joined have one bucket.
LEMMA JoinedResolve ==
  ASSUME NEW subjects, NEW a,
         \A i \in DOMAIN a : a[i].status # "PENDING" =>
           ResolveMerge(a[i].source, subjects) = ResolveMerge(a[i].target, subjects),
         NEW x, NEW y, Joined(x, y, a)
  PROVE  ResolveMerge(x, subjects) = ResolveMerge(y, subjects)
  <1> DEFINE D == {x, y} \cup {a[i].source : i \in DOMAIN a} \cup {a[i].target : i \in DOMAIN a}
             S == {z \in D : ResolveMerge(z, subjects) = ResolveMerge(x, subjects)}
  <1>1. \A i \in DOMAIN a : a[i].source \in D /\ a[i].target \in D
    OBVIOUS
  <1>2. x \in D /\ y \in D
    OBVIOUS
  <1> HIDE DEF D
  <1>3. Parts(S, a)
    BY <1>1 DEF Parts
  <1>4. x \in S <=> y \in S
    BY <1>3 DEF Joined
  <1> QED
    BY <1>2, <1>4

LEMMA SourceBeside ==
  ASSUME MemoryInv, BesideInv, Intact, MergeErrors(disk["subject"]) = {}, MergesStand,
         \A id \in Ids("subject") : ~AtLimit(id, disk["subject"]),
         NEW c \in Buckets(Loaded), NEW q \in c.questions, q.source = "fact"
  PROVE  SourceFound(q, c)
  <1> DEFINE subjects == disk["subject"]
             F == disk["fact"]
             A == disk["approval"]
  <1>1. /\ IsSeq(subjects) /\ \A i \in DOMAIN subjects : subjects[i].id # 0
    BY DEF MemoryInv, SaidInv, FilesInv, SubjectList
  <1>2. ASSUME NEW i \in DOMAIN A, A[i].status # "PENDING"
        PROVE  ResolveMerge(A[i].source, subjects) = ResolveMerge(A[i].target, subjects)
    <2> DEFINE x == A[i].source
               t == A[i].target
    <2>1. SubjectById(t, subjects) # 0 /\ MergedInto(x, subjects) = t
      BY <1>2 DEF MergesStand
    <2> HIDE DEF x, t
    <2>2. t # 0
      BY <1>1, <2>1, SubjectFound
    <2>3. SubjectById(x, subjects) \in DOMAIN subjects /\ subjects[SubjectById(x, subjects)].id = x
      BY <1>1, <2>1, <2>2, SubjectFound DEF MergedInto
    <2>4. x \in Ids("subject")
      BY <2>3 DEF Ids
    <2>5. ~AtLimit(x, subjects)
      BY <2>4
    <2> HIDE DEF subjects
    <2>6. ResolveMerge(x, subjects) = ResolveMerge(t, subjects)
      BY <1>1, <2>1, <2>2, <2>5, MergedResolve DEF subjects
    <2> QED
      BY <2>6 DEF x, t
  <1>3. PICK b \in SubjectIds(Loaded) : c = Bucket(b, Loaded)
    BY DEF Buckets
  <1>4. Loaded.question = Questions /\ Loaded.fact = F /\ Loaded.subject = subjects
    BY DEF Loaded
  <1>5. /\ c.questions = {r \in ToSet(Questions) : ResolveMerge(r.subject, subjects) = b}
        /\ c.facts = {r \in ToSet(F) : ResolveMerge(r.subject, subjects) = b}
    BY <1>3, <1>4 DEF Bucket, BucketOf
  <1>6. PICK k \in DOMAIN Questions : q = Questions[k]
    BY <1>5 DEF ToSet
  <1>7. q.link = Link("fact", q.fact)
    BY <1>6 DEF MemoryInv, SaidInv, FilesInv, QuestionList, Known, LinkAgrees
  <1>8. PICK j \in DOMAIN F : F[j].id = q.fact /\ Joined(q.subject, F[j].subject, A)
    BY <1>6 DEF BesideInv, BesideFiles, BesideAll, FactIn
  <1>9. ResolveMerge(q.subject, subjects) = ResolveMerge(F[j].subject, subjects)
    <2> HIDE DEF subjects, F, A
    <2> QED
      BY <1>2, <1>8, JoinedResolve
  <1>10. F[j] \in c.facts
    BY <1>5, <1>9 DEF ToSet
  <1>11. q.link.type = "fact" /\ q.link.id = q.fact
    BY <1>7 DEF Link
  <1> QED
    BY <1>8, <1>10, <1>11 DEF SourceFound

LEMMA BesideInvariant == Spec => []BesideInv
  <1>1. Init => BesideInv
    BY BesideInit
  <1>2. MemoryInv /\ BesideInv /\ [Next]_vars => BesideInv'
    BY BesideStays
  <1> QED
    BY <1>1, <1>2, MemoryInvariant, PTL DEF Spec

\* A fact and the questions it answered are found in one bucket, however many merges of
\* their subjects, and extractions between a merge's acquisitions, moved one before the
\* other, as long as every merge that was begun stands and neither file is torn.
THEOREM AnswersBesideQuestions == Spec => []AnswerBesideQuestion
  <1>1. MemoryInv /\ BesideInv => AnswerBesideQuestion
    <2> SUFFICES ASSUME MemoryInv, BesideInv,
                        TornFiles \cap {"fact", "approval"} = {},
                        MergeErrors(disk["subject"]) = {}, MergesStand,
                        \A id \in Ids("subject") : ~AtLimit(id, disk["subject"]),
                        NEW c \in Reported(Asked), NEW q \in Entries(c, "ANSWERED"), q.source = "fact"
                 PROVE  SourceFound(q, c)
      BY DEF AnswerBesideQuestion
    <2>1. Intact
      BY DEF Intact
    <2>2. c \in Buckets(Loaded) /\ q \in c.questions
      BY ReportedAre DEF Entries
    <2> QED
      BY <2>1, <2>2, SourceBeside
  <1> QED
    BY <1>1, MemoryInvariant, BesideInvariant, PTL
=============================================================================
