SPECIFICATION Spec
CONSTANTS
  Tags = {1, 2, 3}
  Packages = {"p", "q"}
  Versions = {1, 2}
  Creates <- MCCreates
  Tasks = {t1, t2}
  Uses <- MCUses
  Absent = Absent
  Torn = Torn
  None = None
INVARIANTS TypeOK JvmGetsItsJar InstalledRuns
PROPERTIES UninstalledStayAway ScanFindsInstalled
