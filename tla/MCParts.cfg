SPECIFICATION PartsSpec
CHECK_DEADLOCK FALSE
CONSTANTS
  IntMax = 127
  Int32Max = 7
  MaxText = 4
  FieldTexts <- MCFieldTexts
  NoNumber = NoNumber
  MaxBytes = 5
  MaxChars = 5
  Inputs <- MCInputs
  OtherTexts <- MCOtherTexts
  BufWord = 65536
  MaxBuf = 64
  BufLens <- MCBufLens
  IdLens <- MCIdLens
  HashLen = 32
  AaguidLen = 16
  IdMax = 65535
  SizeWord = 131072
  Chunk = 2
  FileMax = 16
  MaxSize = 18
  MaxEnds = 2
  Length = {0, 22}
  MaxCreds = 5
  MaxUserId = 2
  CredLists <- MCCredLists
  UserIds <- MCUserIds
  TimeLen = 20
  Blk = {b1, b2, b3}
  MaxCleanups = 2
  NoData = NoData
  Unset = Unset
  Around <- Nested
  Location = {"l1", "l2"}
  Http = "http"
  File <- KeyFiles
  Content <- KeyContent
  Menu = {"slot", "origin", "redis", "alg", "rate", "password", "key"}
  MaxDirectives = 3
  Responses <- MCResponses
  Assertions <- MCAssertions
  Require = {"none", "packed"}
  Int32 = 1024
  Int64 = 4096
  Absent = Absent
  Faults = {"noconnect", "refused", "unsent", "lost", "killed"}
  Nil = Nil
  CredId = {k1, k2}
  User = {u1, u2}
  Admin = {a1}
  MaxCount = 0
  Viewer = {v1}
SYMMETRY AdminSymmetry
INVARIANTS
  AccExact
  AtoiIsExact
  FieldRoundTrip
  WithinBuffers
  DecodesTheBits
  RoundTrip
  InBounds
  FieldsTile
  
  ReplyFits
  SubjectRoundTrip
  PoolSound
  InnermostWins
  PairsTogether
  KeyIsLoaded
  RegisteredCanLogIn
  RegistrationJustified
  UsableIsListed
  ListComplete
  RowsWereUsable
