\* A prompt is open when the application switches the extension off.
CHECK_DEADLOCK FALSE
SPECIFICATION FairSpec
CONSTANTS
  Callers = {c1, c2, c3}
  Hosts <- Switching
  MaxScript = 1
  MaxVersion <- Unchanged
  Script = Script
  None = None
PROPERTY CallsEnd
