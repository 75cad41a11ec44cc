SPECIFICATION Spec
CONSTANTS
  mom = mom
  other = other
  daughter = daughter
  zero = zero
  origin = origin
  None = None
  Address <- MCAddress
  NullAddress = zero
  Origin = origin
  Key = {k1}
  Word = {w0, w1}
  ZeroWord = w0
  Code = {empty, c1}
  EmptyCode = empty
  Entry = {e1}
  Nonce = {0}
  Loaded <- MCLoaded
  Creators = {mom}
  AddressOf <- MCAddressOf
  MaxGas = 4
  MaxDepth = 2
PROPERTY CreateAddressOnlyForCreations
