SPECIFICATION Spec
CONSTANTS
  Checkers = {c1, c2}
  RemainLogDays = 1
  DropDays = 2
  FirstDay = 2
  LastDay = 5
  FirstWait = 2
  Proxies = 2
  Keys = {k, l}
  NoKey = NoKey
  MaxClock = 20
  AesBlock = 4
  SizeWord = 64
  MaxStream = 24
  Tables <- MCTables
  Countries <- MCCountries
  Codes <- MCCodes
  Lower <- MCLower
  Addresses <- MCAddresses
  Names <- MCNames
  Index = "index.html"
  Paths <- MCPaths
  FileSystems <- MCFileSystems
  NoReply = NoReply
  Local = "local"
  Zones = {"local", "utc"}
  Days = {1, 2}
  NoDay = 0
  Seconds = {0, 1, 2}
  Nanos = {0, 1}
  Slices <- MCSlices
  Start = Start
  BlockSize = 2
  LenSize = 2
SYMMETRY Symmetry
INVARIANTS
  
  DialerAvailable
  StreamSizeAnnounced
  AddressFound
  RedirectsSettle
  RecordRoundTrips
  RequestDelivered
  AnswerReadable
  InheritanceResolves
  SignedVerifies
CHECK_DEADLOCK FALSE
