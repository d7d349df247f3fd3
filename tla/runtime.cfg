SPECIFICATION FairSpec
CONSTANTS
  Environments = {"simulation", "live"}
  InfoAnswers <- AllInfos
  StatusAnswers <- AllStatuses
  Attempts = 2
  MaxSize = 1
  MaxEvents = 2
INVARIANTS RecoveryIsComplete FreshConfirmation NothingLeftBehind
PROPERTIES DisconnectIsNoticed CallsEnd
CHECK_DEADLOCK FALSE
