SPECIFICATION Spec
CONSTANTS
  Master = master
  Workers = {1, 2}
  Clients = {1, 2}
  Null = Null
  NoFile = NoFile
  MaxKilled = 2
  AdminSignals = {"SIGCHLD"}
  MaxSent = 1
  Confs <- MCConfs
  LineMax = 20
  ItemNameSize = 5
  Alphabet <- MCAlphabet
  Settings <- MCSettings
  Spaces <- MCSpaces
  Ends <- MCEnds
  Noise <- MCNoise
  UIntRange = 32768
  UInt64Range = 16777216
  PointerLen = 6
  Endless = 10000
  NGX_INT64_LEN = 8
  Characters <- MCCharacters
  Prints <- MCPrints
  Strerror <- MCStrerror
  LogTexts <- MCLogTexts
  NGX_MAX_ERROR_STR = 50
  MasterTitleMax = 10
  Messages <- MCMessages
  Chars <- MCChars
  Arguments <- MCArguments
  Environments <- MCEnvironments
  Titles <- MCTitles
INVARIANTS NoZombieForgotten LockGivenBack AcceptedOnce
INVARIANTS ConfReadAtStart CrcAtStart PrintfExactAtStart LogLinesAtStart TitleKeepsEnvAtStart
PROPERTIES WorkerNeverMaster EveryDeathReaped TakenWhileServed
CHECK_DEADLOCK FALSE
