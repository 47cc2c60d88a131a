SPECIFICATION Spec
CONSTANTS
  N = 2
  Configurations <- MCConfigurations
  MaxVersion = 2
  MaxInterrupts = 2
INVARIANTS
  SuccessIsUpToDate
  OutputHasSources
PROPERTIES
  DeploySucceeds
