\* Two extensions, the id of one of which begins that of the other, come and go under
\* a request.
SPECIFICATION Spec
CONSTANTS
  e1 = e1
  e2 = e2
  c1 = c1
  c2 = c2
  r1 = r1
  Extensions = {e1, e2}
  Calls = {c1, c2}
  Requests = {r1}
  Vms = {x1, x2}
  Versions = {1, 2}
  IdOf <- MCIds
  Uses <- RoutingOnly
  Broken = Broken
  None = None
PROPERTY RoutedToItsTarget
