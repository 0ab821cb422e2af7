SPECIFICATION FairSpec
CONSTANTS
  Views = {"doorwarn", "speedlimit", "pepsnotfindb"}
  NoView = "none"
  Doors = {"DRIVER_DOOR"}
  DoorViews <- XmlDoorViews
  Serious <- XmlSerious
  Repeat <- XmlRepeat
  Bound <- XmlBound
  Priority <- XmlPriority
  Power <- XmlPower
  Requests = {"VIEW_OFF"}
  EdgeTriggered = TRUE
  Resent <- XmlResent
  Prompt = TRUE
  MaxMsgs = 5
  MaxBreaks = 0
  MaxPosts = 1
PROPERTIES FreshDrains
CHECK_DEADLOCK FALSE
