SPECIFICATION Spec
CHECK_DEADLOCK FALSE
SYMMETRY Sym
CONSTANTS
  p1 = p1
  p2 = p2
  p3 = p3
  Ptrs = {p1, p2, p3}
  NULL = NULL
  Sizes = {0, 1, 2}
  MaxTotal = 5
  Broken = {}
  low = low
  high = high
  Events = {low, high}
  Nothing = Nothing
  FirstCapacity = 1
  UINT32_MAX = 5
  MaxEvents = 8
  NumRanks = 4
  Colors = {0, 2, 5}
  Keys = {0, 1}
  Hosts = {1, 2}
  Numas = {0, 1}
  NumaNums = {1, 2}
  Char = {0, 1}
  Garbage = 7
  InitCapacity = 2
  StructSize = 3
  MaxLen = 5
  SelfAppend = FALSE
  Types = {"int", "ptr"}
  Values = {1, 2, 3}
  Word = 16
  MaxOpen = 3
  Equal = FALSE
  Block = 4
  LengthBytes = 2
  Bytes = {0, 177, 255}
  Dirt = {9}
  MaxMessage = 6
  MaxPiece = 5
  UINT_MAX = 4
  MaxWeight = 2
  Tolerances <- MCTolerances
  Tests = 3
  MaxElements = 4
  MaxParts = 3
  MaxSource = 5
  Alphabet = {"{", "}", ":", "a"}
  Names <- MCNames
  MaxText = 5
  BufferSize = 3
  Data <- MCData
  MaxData = 6
  m1 = m1
  m2 = m2
  Makers = {m1, m2}
  Paths <- MCPaths
  Denied <- MCDenied
  Strangers <- MCStrangers
INVARIANTS
  ArenaExact
  WritesInside
  NothingLeaks
  GroupsExact
  GuardExact
  DigestIsOfMessage
  FunctionsExact
  DirectoriesExact
PROPERTIES
  ImplementsEventLog
  ImplementsString
