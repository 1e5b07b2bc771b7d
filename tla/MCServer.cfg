\* The life of the process: start, requests, panics, hung statements, shutdown.
SPECIFICATION FairSpec
CONSTANTS
  Clients = {c1, c2, c3}
  MaxConns = 2
  MaxCalls = 2
  Unset = Unset
  BlankText = BlankText
  NotANumber = NotANumber
  Word = 32
  Second = 4
  Requests <- MCRequests
  Environments <- MCEnvironments
INVARIANTS
  ServerInv
  NotCutShort
  CleanExit
  ConnectionsComeBack
  LogTellsAnswers
PROPERTIES
  RequestsEnd
  StopsWhenAsked
