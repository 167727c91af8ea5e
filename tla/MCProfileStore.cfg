SPECIFICATION Spec
CONSTANTS
  Processes = {s1, s2}
  Names = {n1, n2}
  Addresses = {a1, a2}
  Accounts = {u1}
  Filters = {f1}
  None = none
  MaxCommands = 4
INVARIANTS TypeOK KeyFitsAddress
PROPERTIES BackupBeforeReplace BackupsAreKept ProfilesStayUsable OnlyCutLoginStrands
SYMMETRY Symmetry
CHECK_DEADLOCK FALSE
