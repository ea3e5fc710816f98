\* Three fetches to one host beside a script that asks for it; fewer beside file
\* operations, saves and grants; two to two hosts with withdrawals and failing loads.
SPECIFICATION FairSpec
CONSTANTS
  f1 = f1
  f2 = f2
  h1 = h1
  Fetches = {f1, f2, f3}
  Requests = {r1}
  Accesses = {a1}
  Savers = {s1}
  Hosts = {h1, h2}
  Components <- MCComponents
  Paths <- MCPaths
  Uses <- BrokerUses
  NoProcess = NoProcess
  NoHost = NoHost
  NoPermission = NoPermission
INVARIANTS
  TypeOK
  OnePromptPerHost
  WaitsForALivePrompt
  NoPromptOnceDenied
  GrantSeenByWaiters
  DiskWithinStore
PROPERTIES
  FetchAnswered
  ImplementsHostDecision
