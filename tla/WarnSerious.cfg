SPECIFICATION FairSpec
CONSTANTS
  Views = {"doorwarn", "speedlimit", "pepsnotfindb"}
  NoView = "none"
  Doors = {"DRIVER_DOOR"}
  DoorViews <- XmlDoorViews
  Serious <- XmlSerious
  Repeat <- XmlRepeat
  Bound <- XmlBound
  Priority <- XmlPriority
  Power <- XmlPower
  Requests = {"VIEW_OFF", "get_curr_warn"}
  EdgeTriggered = TRUE
  Resent <- XmlResent
  Prompt = TRUE
  MaxMsgs = 5
  MaxBreaks = 0
  MaxPosts = 1
INVARIANTS RepeatKept
PROPERTIES SeriousShown
CHECK_DEADLOCK FALSE
