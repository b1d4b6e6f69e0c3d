SPECIFICATION SettingsSpec
CONSTANTS
  None = None
  Files <- MCFiles
  Environments <- MCEnvironments
  Variables <- MCVariables
  Words <- MCWords
  HostWords <- MCHostWords
  Capitals <- MCCapitals
INVARIANTS SettingsTypeOK ListensExactlyWhenSound
CHECK_DEADLOCK FALSE
