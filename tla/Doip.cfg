CONSTANTS
  Fds = {3, 4, 5}
  RxLen = 32
  TxLen = 20
  ReadLens = {8, 15, 17}
  Configs <- MCConfigs
  EntityAddr = 4096
  DiagRequests <- MCDiagRequests
  DiagResponses <- MCDiagResponses
  MaxConnects = 2
  MaxMessages = 2

SPECIFICATION FairSpec

INVARIANTS TypeOK DescriptorsHeld WatchersHeld ActiveIsGranted RoutedOnly

PROPERTIES ConnectingEnds LostIsNoticed ImplementsLink

\* The system rests when nobody asks for a connection.
CHECK_DEADLOCK FALSE
