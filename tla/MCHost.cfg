SPECIFICATION HostSpec
CONSTANTS
  Folders = {"admin", "group"}
  Admin = "admin"
  Ids = {1, 2}
  Schedules = {"daily"}
  Configs <- DailyOrNot
  MaxClock = 1
  MaxDisturbed = 1
  SessionGroups = {"a"}
  CommitKinds <- GoodAndBad
  MaxCommits = 1
  MaxRequests = 1
  MaxDeployMishaps = 1
  Groups = {"a", "b"}
  PullRequests = {"b"}
  Changes = {1}
  External = {9}
  Worthy = {1}
  MaxMishaps = 1
  SettingsChoices <- GatewaySettings
  ModelKeys <- KeysOfModels
  MaxStarts = 2
  MaxFailures = 1
CHECK_DEADLOCK FALSE
INVARIANTS HostTypeOK  DeploySound  GatewaySound
PROPERTIES PauseHolds  
