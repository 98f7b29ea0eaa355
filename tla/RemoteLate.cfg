SPECIFICATION FairSpec
CONSTANTS
  profileUrl = profileUrl
  keyUrl = keyUrl
  profilePath = profilePath
  inboxPath = inboxPath
  Urls <- MCUrls
  Paths <- MCPaths
  DocPath <- MCDocPath
  Sends <- Plain
  NumResets = 1
  NumConns = 2
  Debugging = TRUE
  LateDelivery = TRUE
CHECK_DEADLOCK FALSE
INVARIANTS
  NoLostWakeup
  NoRequestLost
  NoLeakForward
  PublishedIsFound
PROPERTIES
  OwnPostWakes
  EveryConnectionFinished
