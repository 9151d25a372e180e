CONSTANTS
  Fds = {3, 4, 5}
  RxLen = 32
  TxLen = 20
  ReadLens = {8, 15, 17}
  Configs <- MCConfigs
  EntityAddr = 4096
  DiagRequests <- MCDiagRequests
  DiagResponses <- MCDiagResponses
  MaxConnects = 2
  MaxMessages = 2

SPECIFICATION Spec

INVARIANTS ActiveMeansActivated

CHECK_DEADLOCK FALSE
