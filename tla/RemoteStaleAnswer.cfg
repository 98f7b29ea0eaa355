SPECIFICATION Spec
CONSTANTS
  profileUrl = profileUrl
  keyUrl = keyUrl
  profilePath = profilePath
  inboxPath = inboxPath
  Urls <- MCUrls
  Paths <- MCPaths
  DocPath <- MCDocPath
  Sends <- Plain
  NumResets = 1
  NumConns = 2
  Debugging = FALSE
  LateDelivery = TRUE
CHECK_DEADLOCK FALSE
INVARIANT
  OwnAnswersOnly
