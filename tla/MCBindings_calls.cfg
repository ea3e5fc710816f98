\* All methods; and an application whose prompts call back.
SPECIFICATION FairSpec
CONSTANTS
  Callers = {c1, c2}
  Hosts <- MCHosts
  MaxScript = 1
  MaxVersion <- TwoSettings
  Script = Script
  None = None
INVARIANTS TypeOK SwitchedWhileIdle
PROPERTIES SavesAreCurrent CallsEnd
