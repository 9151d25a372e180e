CONSTANTS
  Reserved = 2
  Junk = 85
  Scripts <- MCScripts
  Generals <- MCGenerals
  Answers <- MCAnswers
  DataMax = 64
  ItemMax = 4
  RrMax = 4
  TesterPresentMax = 1
  TimeoutMax = 1

SPECIFICATION Spec

INVARIANTS TypeOK EcuReadsConfig KeyIsOfLastSeed AnswerReachesUser

\* A script ends.
CHECK_DEADLOCK FALSE
