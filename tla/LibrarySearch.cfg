SPECIFICATION Spec
CONSTANTS
  Folder = {f1, f2, lib, local}
  Defaults <- MCDefaults
  MaxPath = 3
  None = None
  lib = lib
  local = local
INVARIANTS
  TypeOK
  FirstIsFound
  FailsAtFirst
