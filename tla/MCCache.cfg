\* A script that awaits its calls, with the process ending at any moment: evictions
\* among three keys, and all operations on two.
SPECIFICATION Spec
CONSTANTS
  t1 = t1
  t2 = t2
  k1 = k1
  k2 = k2
  k3 = k3
  json = json
  bytes = bytes
  Tasks = {t1}
  Keys = {k1, k2, k3}
  Values = {json, bytes}
  BinaryValues = {bytes}
  SizeOf <- MCSizeOf
  Ttls = {Never}
  Policies <- MCPolicies
  Uses <- AwaitedUses
  IndexFile = IndexFile
  Never = Never
  NoLimit = NoLimit
  Absent = Absent
SYMMETRY KeySymmetry
INVARIANTS IdleCacheIsSaved SavedEntriesHaveFiles
PROPERTY ImplementsDurableLru
