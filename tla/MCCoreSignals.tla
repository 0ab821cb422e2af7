--------------------------- MODULE MCCoreSignals ---------------------------
(* Small instances of CoreSignals: a .cfg chooses the bits that change, the *)
(* percentages and the temperatures.                                       *)
EXTENDS CoreSignals

CONSTANTS Signals, Fuels, Coolants

MCValues == [k \in Kinds |->
  CASE k = "FUEL"          -> Fuels
    [] k = "COOLANT"       -> Coolants
    [] k = "MUSIC_CLOSE"   -> {{}}
    [] k = "LANE_DEPATURE" -> IF LaneLamps \subseteq Signals
                              THEN {{}, {"ldwLightRed"}, {"ldwLightGreen"}} ELSE {}
    [] OTHER -> IF Bits[k] \cap Signals = {} THEN {} ELSE SUBSET (Bits[k] \cap Signals)]
=============================================================================
