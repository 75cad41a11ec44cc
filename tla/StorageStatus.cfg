SPECIFICATION Spec
CONSTANTS
  None = None
  Address = {a1}
  NullAddress = a1
  Key = {k1}
  Word = {w0, w1, w2}
  ZeroWord = w0
  Code = {empty}
  EmptyCode = empty
  Entry = {}
  Nonce = {0}
  MaxWrites = 5
INVARIANTS
  TypeOK
  StatusTellsChange
  Ladder
  TimeCountsChanges
