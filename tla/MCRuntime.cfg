\* One extension is reloaded under calls and a request; two extensions come and go
\* under a request.
SPECIFICATION FairSpec
CONSTANTS
  e1 = e1
  e2 = e2
  c1 = c1
  c2 = c2
  r1 = r1
  Extensions = {e1, e2}
  Calls = {c1, c2}
  Requests = {r1}
  Vms = {x1, x2}
  Versions = {1, 2}
  IdOf <- MCIds
  Uses <- MCUses
  Broken = Broken
  None = None
INVARIANTS TypeOK RunsItsData RoutedToAMatch
PROPERTIES NoAnswerLost CallsAnswered OldThreadsEnd
