SPECIFICATION Spec
CONSTANTS
  Subscribers = {s1, s2}
  Ids = {"BlockHeaders", "Transactions"}
  Capacity = 1
  MaxCommands = 2
  MaxMessages = 2
  MaxBreaks = 2
  MaxStatus = 1
INVARIANTS DiesKnown CommandsSurvive StatusFresh
PROPERTIES SubscribersUnblocked Reconnects
CHECK_DEADLOCK FALSE
