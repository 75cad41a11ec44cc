SPECIFICATION PlaySpec
CONSTANTS
  mom = mom
  daughter = daughter
  zero = zero
  origin = origin
  None = None
  Missing = Missing
  Torn = Torn
  Address <- MCAddress
  NullAddress = zero
  Origin = origin
  Key = {k1}
  Word = {w0, w1}
  ZeroWord = w0
  Code = {empty, c1}
  EmptyCode = empty
  Entry = {e1}
  Nonce = {0}
  Loaded = {}
  Creators = {mom}
  AddressOf <- MCAddressOf
  MaxGas = 2
  MaxDepth = 1
  Path = {p1, p2}
  MaxCommands = 2
SYMMETRY Paths
INVARIANTS
  PlayTypeOK
  SavedAtRest
PROPERTIES
  NothingForgotten
  AbortedCommandLeavesFiles
  OnlyOutputIsWritten
