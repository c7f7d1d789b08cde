CONSTANTS
  Orgs = {o1, o2}
  Keys = {k1, k2}
  Tokens = {t1, t2}
  Workers = {w1, w2}
  Browsers = {b1}
  NoOrg = NoOrg
  NoKey = NoKey
  NoToken = NoToken
  NoWorker = NoWorker
  NoBrowser = NoBrowser
SPECIFICATION Spec
SYMMETRY Symmetry
INVARIANTS
  TypeOK
  OneOnboardingKey
  EventsOnlyFromActiveOrgs
  LinksAreSpent
  PortalKeysNeedAnIssuedKey
PROPERTIES
  DecisionIsFinal
  RevocationTakes
  ImplementsOrgAccess
CHECK_DEADLOCK FALSE
