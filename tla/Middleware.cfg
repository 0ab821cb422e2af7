SPECIFICATION FairSpec
CONSTANTS
  Doors = {"DRIVER_DOOR"}
  Speeds = {0, 12000000}
  DoorSpeed = 950000
  OverSpeed = 11950000
  MaxInputs = 3
PROPERTIES DoorShown EdgesKept
CHECK_DEADLOCK FALSE
