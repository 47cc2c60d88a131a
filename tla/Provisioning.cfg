SPECIFICATION FairSpec
CONSTANTS
  Items = 3
  ErrorBound = 2
  LossBound = 2
INVARIANTS FccIsUp RunsProvisioned SecureIdentity
PROPERTIES CredentialsSurviveBoot ProvisioningCompletes
CHECK_DEADLOCK FALSE
