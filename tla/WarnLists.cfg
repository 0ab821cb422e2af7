SPECIFICATION Spec
CONSTANTS
  Views = {"pepsnotfinda", "doorwarn", "doorinfo"}
  NoView = "none"
  Doors = {"DRIVER_DOOR", "HOOD"}
  DoorViews <- XmlDoorViews
  Serious <- XmlSerious
  Repeat <- XmlRepeat
  Bound <- XmlBound
  Priority <- XmlPriority
  Power <- XmlPower
  Requests = {"ACC", "warn_hiden", "get_curr_warn", "VIEW_OFF"}
  EdgeTriggered = FALSE
  Resent <- XmlResent
  Prompt = FALSE
  MaxMsgs = 3
  MaxBreaks = 1
  MaxPosts = 1
INVARIANTS TypeOK SeriousOrdered SoundAgrees LoopSound MinDisplay SeriousUntimed
CHECK_DEADLOCK FALSE
