SPECIFICATION Spec
SYMMETRY MCSymmetry
CONSTANTS
  main = main
  worker = worker
  keyboard = keyboard
  Main = main
  Thread <- MCThread
  Operator <- MCOperator
  SubjectIn <- MCSubjectIn
  Letters <- MCLetters
  Words <- MCWords
  Script <- MCScript
  Analyses <- MCAnalyses
  Stored <- MCStored
  MaxHops = 2
  MaxSummaries = 1
  MaxQuestions = 3
  MaxDecisions = 2
  MaxClusters = 2
  MaxCalls = 1
  MaxKills = 1
  AutoMerge = TRUE
  AutoExecute = TRUE
  DerivedDepth = 1
  MaxDepth = 2
INVARIANTS
  SubjectsPerName
  OwnerNamed
  LinksHold
  ExecutedOnce
  AnswerBesideQuestion
  NothingOverlooked
  ReportsRight
  DueDatesRight
PROPERTY DoneIsFinal
\* Every record of the meetings is extracted and every approval settled.
CHECK_DEADLOCK FALSE
