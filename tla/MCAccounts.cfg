\* Two validations of one domain or of two under merges and invalidations; one
\* validation and two editors of an account that is declared in other ways, across
\* restarts whose load may fail.
SPECIFICATION FairSpec
CONSTANTS
  d1 = d1
  d2 = d2
  v1 = v1
  v2 = v2
  e1 = e1
  e2 = e2
  good = good
  bad = bad
  me = me
  cookie = cookie
  key = key
  Domains = {d1, d2}
  Validations = {v1, v2}
  Editors = {e1, e2}
  Auths = {cookie, key}
  Creds = {good, bad}
  Profiles = {me}
  Uses <- MCUses
  MaxAccounts = 2
  None = None
INVARIANTS TypeOK OnlyValidatedCredsStay
PROPERTIES LoginsSurvive ValidationFinishes
