SPECIFICATION Spec
CONSTANTS
  Base = 4
  Places <- MCPlaces
  Lead = 4
  CrateToken = CrateToken
  MaxParams = 2
  MaxNumber = 17
  MaxValues = 2
  MaxLength = 2
INVARIANTS
  TypeOK
  EncodesItsValues
  OnlyMinusZeroPanics
  ParamsPrintsValues
  HarmlessValuesPrinted
