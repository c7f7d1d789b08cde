CONSTANTS
  Workers = {w1, w2}
  Names = {admin, ann, bob}
  Admin = admin
  NoName = NoName
  Upgraded <- MCUpgraded
  PgAtFirst <- PgUpgraded
SPECIFICATION FairSpec
INVARIANTS
  TypeOK
  ServingMeansReady
  SetupIsForTheFirst
PROPERTIES
  AccountsSurvive
  EventuallyServing
