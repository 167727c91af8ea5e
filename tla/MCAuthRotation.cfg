SPECIFICATION Spec
CONSTANTS
  Sessions = {s1, s2}
  Nobody = nobody
  MaxToken = 3
INVARIANTS OneCaller ExposedIsStored
PROPERTIES OnlyMisfortuneLoses LogoutEndsLogin StopsOnlyWhenOver KeepsCustody LockIsReleased
CHECK_DEADLOCK FALSE
