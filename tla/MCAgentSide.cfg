SPECIFICATION SideSpec
CONSTANTS
  Requests = {1}
  Tools = {"web", "cal", "job", "off", "new"}
  Services <- ServiceTrust
  Scripts = {"job"}
  Bash = "Bash"
  AskUser = "ask_user"
  NoGate = NoGate
  MaxCrashes = 1
  MaxSpawns = 2
  MaxDecisions = 2
  Workspaces = {"a", "b"}
  MaxProcesses = 2
  MaxLaunches = 2
  MaxExits = 1
  BrowserCalls = {"x_post", "x_reply", "x_quote", "x_like", "x_retweet", "setup_x_session", "setup_slack_session", "setup_google", "refresh_slack_tokens"}
  MaxCalls = 3
  MaxBrowserMishaps = 2
  Cores = {"claude", "openai"}
  MaxMessages = 4
  MaxMishaps = 3
  MaxEvents = 4
  MaxOutputFailures = 1
  PageLimit = 1
  MaxPages = 2
  MaxPosts = 2
  MaxSlackMishaps = 1
  Cards = {"approval", "question", "stop"}
  MaxCardMishaps = 1
  MaxSends = 3
  MaxInbound = 2
  MaxFailures = 2
CHECK_DEADLOCK FALSE
INVARIANTS AgentTypeOK    BrowserSound LoopSound ChatTypeOK  NothingSkipped  WhatsAppSound
 
