SPECIFICATION IdentitySpec
CONSTANTS
  SignIn = {f1}
  Issuer = {i1, i2}
  StateTTL = 1
  CodeTTL = 1
  AccessTTL = 2
  Grace = 3
  RequestLimit = 1
  MaxRevision = 4
  MaxLife = 2
  Admin = {a1, a2}
  Test = {x1}
  Credential = {c1, c2}
  NoCredential = NoCredential
  CredentialGrace = 1
  MaxProvider = 3
  MaxConnections = 2
CHECK_DEADLOCK FALSE
INVARIANTS IdentityTypeOK SecretsOutliveRequests DisconnectEndsSignIns ActiveWasTested
PROPERTIES UsableTokensPersist RetentionEnds CredentialsEnd
