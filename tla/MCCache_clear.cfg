\* The application clears all caches while a set of a script runs.
SPECIFICATION Spec
CONSTANTS
  t1 = t1
  t2 = t2
  k1 = k1
  k2 = k2
  k3 = k3
  json = json
  bytes = bytes
  Tasks = {t1, t2}
  Keys = {k1, k2, k3}
  Values = {json, bytes}
  BinaryValues = {bytes}
  SizeOf <- MCSizeOf
  Ttls = {Never}
  Policies <- MCPolicies
  Uses <- ClearUses
  IndexFile = IndexFile
  Never = Never
  NoLimit = NoLimit
  Absent = Absent
INVARIANT HandlesKeepWorking
