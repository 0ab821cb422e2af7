SPECIFICATION Spec
CONSTANTS
  Values <- MCValues
  NoReply = NoReply
  Signals = {"left", "right", "driverBeltLight", "oilFuelLowLight", "parking",
             "epbRedLight", "airBagFaultLight", "pepsnotfindb", "pepsbatterylow",
             "ldwLightRed", "ldwLightGreen", "tirePressureAbnormalLight", "WrongGear_P",
             "tiresystemfault", "tireSystemSpare", "rearLeftTire", "theme", "language",
             "audio_belong2dhu", "musicName", "gear"}
  Fuels = {24, 25}
  Coolants = {1209, 1210}
  Requests = {"WARNING_GET", "TURN_SIGNAL", "ODO_CLEAN", "MUSIC_TITLE"}
  MaxChanges = 2
  MaxAsked = 1
  MaxWire = 3
  MaxDrops = 1
INVARIANTS TypeOK WarningsKnown LampsKnown FaultsKnown
PROPERTIES OnlyChanges
CHECK_DEADLOCK FALSE
