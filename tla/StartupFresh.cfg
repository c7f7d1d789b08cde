CONSTANTS
  Workers = {w1, w2}
  Names = {admin}
  Admin = admin
  NoName = NoName
  Upgraded <- MCUpgraded
  PgAtFirst <- PgFresh
SPECIFICATION Spec
PROPERTY InitPgInstallsSchema
