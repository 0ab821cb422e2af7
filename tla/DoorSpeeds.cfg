SPECIFICATION Spec
CONSTANTS
  Doors = {"DRIVER_DOOR", "HOOD"}
  Speeds = {0, 949994, 950000, 950004, 950006, 11950000, 11950004, 12000000}
  DoorSpeed = 950000
  OverSpeed = 11950000
  MaxDrops = 1
INVARIANTS TypeOK ViewKnowsDoors ViewKnowsLimit
