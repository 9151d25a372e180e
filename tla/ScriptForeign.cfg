CONSTANTS
  Reserved = 2
  Junk = 85
  Scripts <- WriteScripts
  Generals <- MCGenerals
  Answers <- MCAnswers
  DataMax = 64
  ItemMax = 4
  RrMax = 2
  TesterPresentMax = 0
  TimeoutMax = 1

SPECIFICATION Spec

INVARIANTS ForeignIsIgnored

CHECK_DEADLOCK FALSE
