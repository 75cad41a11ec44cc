SPECIFICATION Spec
CONSTANTS
  Char = {"0", "a", "A", "x", "X", "z", " "}
  Blank = {" "}
  Digit = {"zero", "ten"}
  Lower <- MCLower
  Upper <- MCUpper
  Size = 2
  MaxText = 6
INVARIANTS
  TypeOK
  SavedLoads
  MeansWhatItSpells
PROPERTY
  ValueKept
