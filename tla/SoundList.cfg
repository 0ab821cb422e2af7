SPECIFICATION FairSpec
CONSTANTS
  Sounds = {"dooropen", "overspeed", "turn_on", "turn_off"}
  NoSound = "none"
  Turn = {"turn_on", "turn_off"}
  Priority <- XmlPriority
  MaxMsgs = 5
  MaxEnding = 2
INVARIANTS TypeOK ListOrdered TurnExclusive OnePlays CurrentListed
PROPERTIES WaitEnds
CHECK_DEADLOCK FALSE
