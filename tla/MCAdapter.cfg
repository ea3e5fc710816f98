\* Five kinds of use, each from its own directories.
SPECIFICATION FairSpec
CONSTANTS
  Ids = {"a", "b"}
  Versions = {"v1", "v2", "v3", "v4"}
  Names = {"a", "b", "other"}
  NameOf <- MCNameOf
  Declares <- MCDeclares
  Unloadable = {"v3"}
  Settings <- MCSettings
  Values <- MCValues
  Objects = {o1, o2}
  Tasks = {t1, t2}
  Uses <- MCUses
  MaxCookies = 1
  Absent = Absent
  Empty = Empty
  Torn = Torn
  None = None
INVARIANTS TypeOK DamagedFilesAreBeingWritten ShownIsPersisted
PROPERTIES OnlyTheRightFilesGo SettingsSurvive CookiesCoalesce
