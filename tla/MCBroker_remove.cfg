\* remove_permission against its comment.
SPECIFICATION Spec
CONSTANTS
  f1 = f1
  f2 = f2
  h1 = h1
  Fetches = {}
  Requests = {r1}
  Accesses = {}
  Savers = {}
  Hosts = {h1, h2}
  Components <- MCComponents
  Paths <- MCPaths
  Uses <- RemoveUses
  NoProcess = NoProcess
  NoHost = NoHost
  NoPermission = NoPermission
PROPERTIES
  RemovesOnlyTheEqualOne
