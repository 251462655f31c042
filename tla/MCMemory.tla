-------------------------------- MODULE MCMemory --------------------------------
(***************************************************************************)
(* The memory files, the extractions and the merges on a small instance,   *)
(* with the properties of the files and of the reports built from them.    *)
(***************************************************************************)
EXTENDS MemoryProperties, DueDates
LOCAL INSTANCE TLC

CONSTANTS main, worker, keyboard

MCThread == {worker, keyboard}
MCOperator == {worker, keyboard}
MCSymmetry == Permutations(MCThread)

\* Texts 1 to 4 and names 1 to 4; names 1 and 2 differ in their capitals.
MCSubjectIn == <<3, 1, 0, 1>>
MCLetters == <<<<"v">>, <<"v">>, <<"m", "v">>, <<"x">>>>
MCWords == <<<<"do", "you", "use", "2fa">>, <<"renew", "vpn">>, <<"is", "mfa", "enabled">>,
             <<"not", "renew", "vpn">> >>
MCScript == [x \in 1..4 |-> [cjk |-> 0, ascii |-> 9, total |-> 10]]

Question(id, x, subject) ==
  [id |-> id, text |-> x, subject |-> subject, answer |-> FALSE, status |-> "absent",
   source |-> "none", fact |-> 0, decision |-> 0, link |-> [type |-> "absent", id |-> 0],
   types |-> {}, cluster |-> 0]
Decision(id, x, subject, owner, status) ==
  [id |-> id, text |-> x, subject |-> subject, owner |-> owner, ownerId |-> 0, status |-> status,
   fact |-> 0, confidence |-> 8]
Fact(id, subject, type, value) == [id |-> id, subject |-> subject, type |-> type, value |-> value]

MCStored == {
  [subject |-> <<[id |-> 1, name |-> 1, merged |-> 0], [id |-> 2, name |-> 2, merged |-> 0],
               [id |-> 3, name |-> 4, merged |-> 0]>>,
   owner |-> <<>>,
   fact |-> <<Fact(11, 2, "result", {"vpn", "planned"}), Fact(12, 2, "result", {"vpn", "planned", "blocked"})>>,
   question |-> <<Question(0, 3, 1), [Question(14, 3, 2) EXCEPT !.answer = TRUE]>>,
   decision |-> <<Decision(13, 2, 1, Person(7, "san"), "OPEN")>>,
   cluster |-> <<>>, summary |-> <<>>, approval |-> <<>>, history |-> <<>>]}

Action(x, keyword, owner) == [text |-> x, keyword |-> keyword, owner |-> owner, due |-> FALSE]

MCAnalyses == {
  [summary |-> TRUE, questions |-> <<1>>, completed |-> {}, signals |-> {"BLOCKED"},
   actions |-> <<Action(4, TRUE, Person(7, "sama")), Action(3, FALSE, Nobody)>>, facts |-> <<>>],
  [summary |-> FALSE, questions |-> <<>>, completed |-> {2}, signals |-> {}, actions |-> <<>>,
   facts |-> <<[name |-> 1, type |-> "status", value |-> {"done"}],
               [name |-> 3, type |-> "result", value |-> {"vpn", "planned"}]>>]}

-----------------------------------------------------------------------------
\* Due dates, by a definition that searches where the code calculates.

Days == {[y |-> y, m |-> md[1], d |-> md[2]] : y \in {2024, 2027}, md \in {<<1, 31>>, <<12, 31>>, <<2, 28>>}}
          \cup {[y |-> 2026, m |-> 6, d |-> d] : d \in 14..21}
EarliestFrom(n, P(_)) == CHOOSE k \in n..(n + 400) : P(k) /\ \A j \in n..(k - 1) : ~P(j)
MondayOf(n) == n - Weekday(n)
Form(form, m, d, wd) == [form |-> form, y |-> 0, m |-> m, d |-> d, wd |-> wd]

\* A calculation without state is checked once, in the state the program starts in.
AtStart == todo[Main] # <<>> /\ torn = <<>>

\* A due date without a year or named by a weekday is the earliest day from today on that
\* fits; what falls in the next week lies in the seven days from next Monday; and the end
\* of a month is in the month it belongs to.
DueDatesRight ==
  \A today \in IF AtStart THEN Days ELSE {} :
    LET n == Ordinal(today)
    IN /\ \A m \in {1, 2, 6, 12}, d \in {1, 17, 28} :
            NormalizeDueDate(Form("month day", m, d, 7), today)
              = EarliestFrom(n, LAMBDA k : k \in {Date(today.y, m, d), Date(today.y + 1, m, d)})
       /\ \A wd \in 0..6 :
            /\ NormalizeDueDate(Form("by weekday", 0, 0, wd), today)
                 = EarliestFrom(n + 1, LAMBDA k : Weekday(k) = wd)
            /\ NormalizeDueDate(Form("next week", 0, 0, wd), today)
                 = EarliestFrom(MondayOf(n) + 7, LAMBDA k : Weekday(k) = wd)
       /\ NormalizeDueDate(Form("this week", 0, 0, 7), today) = EarliestFrom(n, LAMBDA k : Weekday(k) = 4)
       /\ \A d \in {0, 30, 31} :
            NormalizeDueDate(Form("next month", 0, d, 7), today) \in
              (LastDay(today.y, today.m) + 1)..(LastDay(today.y, today.m) + 31)
=============================================================================
