SPECIFICATION Spec
CONSTANTS
  profileUrl = profileUrl
  keyUrl = keyUrl
  profilePath = profilePath
  inboxPath = inboxPath
  Urls <- MCUrls
  Paths <- MCPaths
  DocPath <- MCDocPath
  Sends <- Faulty
  NumResets = 1
  NumConns = 2
  Debugging = FALSE
  LateDelivery = FALSE
CHECK_DEADLOCK FALSE
INVARIANTS
  OwnAnswersOnly
  NeverEmptyAnswer
  HeardIsRecorded
PROPERTY
  ImplementsMailbox
