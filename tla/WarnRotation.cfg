SPECIFICATION FairSpec
CONSTANTS
  Views = {"pepsnotfindb", "pepsbatterylow", "parking"}
  NoView = "none"
  Doors = {"DRIVER_DOOR"}
  DoorViews <- XmlDoorViews
  Serious <- XmlSerious
  Repeat <- XmlRepeat
  Bound <- XmlBound
  Priority <- XmlPriority
  Power <- XmlPower
  Requests = {}
  EdgeTriggered = TRUE
  Resent <- XmlResent
  Prompt = TRUE
  MaxMsgs = 4
  MaxBreaks = 0
  MaxPosts = 1
PROPERTIES FreshDrains LoopRotates
CHECK_DEADLOCK FALSE
