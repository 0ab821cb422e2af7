---------------------------- MODULE CoreSignals -----------------------------
(***************************************************************************)
(* The signals of the vehicle in CoreProcessor (CoreMsgHandler.cpp): what  *)
(* the MCU reports becomes telltales, gauges and faults for the HMI,       *)
(* warnings for ViewService and sounds for AudioService.                   *)
(*                                                                         *)
(* The MCU sends a message when a signal changes and when it is asked to;  *)
(* the line delivers in order.  The handlers run in the one callback       *)
(* thread of the MCU library; telltales and gauges are sent with every     *)
(* report, warnings, most sounds and faults only when they change.  The    *)
(* requests of the HMI are answered by another thread, which asks the MCU  *)
(* to report again or replies from the stored data itself.                 *)
(*                                                                         *)
(* A report is a set of bits (of a byte, or one bit for the data of a      *)
(* message that is only passed on), except for the fuel in percent and the *)
(* coolant in tenths of a degree.  A message to a receiver is a key and a  *)
(* set: the lamps that are lit, the warning itself or nothing.  The key,   *)
(* doors and speed have modules of their own: PowerEvent and DoorWarning.  *)
(***************************************************************************)
EXTENDS Integers, Sequences, FiniteSets

CONSTANTS
  Values,      \* the values the MCU reports in each of its messages
  Requests,    \* the requests the HMI makes
  NoReply,     \* no reply is being sent
  MaxChanges,  \* bound: changes of a signal
  MaxAsked,    \* bound: requests of the HMI
  MaxWire,     \* bound: messages on the line
  MaxDrops     \* bound: how often the connection goes down

\* The bits the handlers read, by message of the MCU.
Bits ==
  [CAR_LIGHT     |-> {"left", "right"},
   FAULT         |-> {"engineEmissionFailure", "svsLight", "chargeFaultLight",
                      "ebdFaultLight"},
   ALARM         |-> {"driverBeltLight", "passengerBeltLight", "oilPressureLow",
                      "oilFuelLowLight", "waterTempHigh", "absLight", "parking"},
   EPB           |-> {"epbRedLight", "epbGreenLight", "avhRedLight",
                      "avhGreenLight", "aebWorkLight", "aebFaultLight"},
   AIRBAG        |-> {"airBagFaultLight"},
   PEPS          |-> {"pepsnotfindb", "pepsbatterylow"},
   LANE_DEPATURE |-> {"ldwLightRed", "ldwLightGreen"},
   ALARM_TIRE    |-> {"tirePressureAbnormalLight"},
   DTC           |-> {"WrongGear_P"},
   OILLOW        |-> {"oilFuelLowLight"},
   TIRE_PRESSURE |-> {"tiresystemfault", "tireSystemSpare", "tirePressures"},
   TIRE_FAULT    |-> {"frontLeftTire", "frontRightTire", "rearLeftTire", "rearRightTire"},
   CFG_THEME     |-> {"theme"},
   CFG_LANG      |-> {"language"},
   AUDIO_REPORT  |-> {"audio_belong2dhu"},
   MUSIC_CLOSE   |-> {},
   MUSIC_PROCESS |-> {"musicProcess"},
   MUSIC_ALBUM   |-> {"albumName"},
   MUSIC_NAME    |-> {"musicName"},
   MUSIC_AUTHOR  |-> {"authorName"},
   GEAR_BOX      |-> {"gear"},
   TIRE_TEMPERATURE     |-> {"tireTemperatures"},
   TOTAL_MILEAGE        |-> {"totalMileage"},
   SUBTOTAL_MILEAGE     |-> {"mileageSubtotalA"},
   ENDURANCE_MILEAGE    |-> {"endurance"},
   AVERAGE_FUEL         |-> {"averageFuelConsumption"},
   INTANT_FUEL          |-> {"instantFuelConsumption"},
   EXTERNEL_TEMPERATURE |-> {"temperatureInside"},
   NAVIGATION           |-> {"navigation"},
   KEY                  |-> {"key"}]

BitKinds == DOMAIN Bits
Kinds    == BitKinds \cup {"FUEL", "COOLANT"}

\* The lane lamps are two values of one field (E02 SPI, 2.17).
ASSUME ValuesAssumption ==
  /\ \A k \in BitKinds : Values[k] \subseteq SUBSET Bits[k]
  /\ Values["LANE_DEPATURE"] \subseteq {{}, {"ldwLightRed"}, {"ldwLightGreen"}}
  /\ Values["FUEL"] \subseteq 0..255
  /\ Values["COOLANT"] \subseteq Int

ASSUME BoundAssumption == {MaxChanges, MaxAsked, MaxWire, MaxDrops} \subseteq Nat

LaneLamps == Bits["LANE_DEPATURE"]
LampKinds == {"FAULT", "ALARM", "EPB", "AIRBAG", "LANE_DEPATURE", "ALARM_TIRE", "OILLOW"}
Lamps     == (UNION {Bits[k] : k \in LampKinds}) \ {"parking"}
Listed    == {"pepsnotfindb", "pepsbatterylow", "WrongGear_P", "oillow", "tiresystemfault"}
Warns     == Listed \cup {"parking"}            \* the views and their only extra
Sounds    == {"drive_belt", "copilot_belt", "coolandtemperaturehigh", "audio_belong2dhu"}
Tires     == Bits["TIRE_FAULT"]
Settings  == {"theme", "language"}
Music     == {"musicProcess", "albumName", "musicName", "authorName"}
Gauges    == {"GEAR_BOX", "TIRE_TEMPERATURE", "TOTAL_MILEAGE", "SUBTOTAL_MILEAGE",
              "ENDURANCE_MILEAGE", "AVERAGE_FUEL", "INTANT_FUEL", "EXTERNEL_TEMPERATURE",
              "NAVIGATION", "KEY"}
Segments  == {"fuel", "coolant"}
ToHmi     == {"telltale", "turn", "fault", "musicStatus", "tirePressures"} \cup
             Tires \cup Settings \cup Music \cup Gauges \cup Segments
Dropped   == Warns \cup Sounds \cup {"turn sound"}  \* sent only while m_isConnected
Keys      == ToHmi \cup Dropped

VARIABLES
  mcu,       \* the signals as the MCU has them
  wire,      \* the messages on their way from the MCU
  changes, asked,  \* how often a signal changed and the HMI asked
  spare,     \* history: the report at work has other bits of the tire system set
  lamps,     \* telltaleData_t.warn_light_t
  turn,      \* telltaleData_t.turn_light_t
  isTurnLightStart,
  warns,     \* warnInfo_t: the flags of the warnings
  faults,    \* faultInfo_t
  segment,   \* uchOilVolumeValue, the segment of the fuel
  coolant,   \* gaugeData_t.coolantTemprature
  tires,     \* tire_info_t: the faults of the tires
  setup,     \* settingInfo_t
  music,     \* navigationInfo_t
  belongs,   \* m_audioCtrlAdscription: {} is the MCU
  out,       \* the messages the handler at work has still to send
  reply,     \* the message the thread of the HMI requests has still to send
  m_isConnected, subscribed, drops,
  told,      \* key -> the value last received
  lost       \* history: the keys whose last message was not received, and
             \* those that were never sent and may not be at rest

signals == <<lamps, turn, isTurnLightStart, warns, faults, segment, coolant,
             tires, setup, music, belongs>>
line == <<mcu, wire, changes, asked, spare>>
link == <<m_isConnected, subscribed, drops>>
view == <<told, lost>>
vars == <<line, signals, out, reply, link, view>>

-----------------------------------------------------------------------------
(* Values and messages *)

\* Mutant: a bit that is not the handler's is kept.
SetAllBits(old, bits, new) == (old \ bits) \cup new

SetBits(old, bits, new) == (old \ bits) \cup (new \cap bits)
Flag(k, on) == IF on THEN {k} ELSE {}
Msg(k, v)   == [key |-> k, val |-> v]

\* Mutant: the status before the change is sent.
EdgeOld(k, old, on) == IF old = on THEN <<>> ELSE <<Msg(k, Flag(k, old))>>

\* A message when the flag changes.
Edge(k, old, on) == IF old = on THEN <<>> ELSE <<Msg(k, Flag(k, on))>>

\* The segments of a gauge: how many of the marks are reached.
Reached(x, marks) == Cardinality({m \in marks : m <= x})

\* Of a percentage above 100 the code takes no notice.
FuelSegment(percent)  == Reached(percent, {1, 13, 25, 37, 49, 61, 73, 85})
IsPercent(x)          == x <= 100
OilLow(seg)           == seg <= 2
Degrees(tenths)       == IF tenths < 0 THEN -((-tenths) \div 10) ELSE tenths \div 10
CoolantSegment(tenths) == Reached(Degrees(tenths), {40, 45, 50, 55, 110, 115, 120, 130})
CoolantHigh(tenths)   == Degrees(tenths) >= 121  \* g_iFullCoolandTemp

\* A warning and, when it is one of the list, its fault: list is the list of
\* faults with the new bit.
SetFault(w, on, list) == IF (w \in warns) = on THEN list ELSE SetBits(list, {w}, Flag(w, on))

\* Both are sent; as a mutant of Warning, with every report.
SendWarning(w, on, list) == <<Msg(w, Flag(w, on)), Msg("fault", list)>>

Warning(w, on, list) == IF (w \in warns) = on THEN <<>> ELSE SendWarning(w, on, list)

-----------------------------------------------------------------------------
(* The MCU and the HMI *)

Report(k) == [kind |-> k, val |-> mcu[k]]

\* A signal of the vehicle changes (the music may be closed again).  What is
\* sent meanwhile makes no difference to the line: changes and requests are
\* taken between two handlers.
Change(k, v) ==
  /\ changes < MaxChanges /\ Len(wire) < MaxWire /\ out = <<>>
  /\ v # mcu[k] \/ k = "MUSIC_CLOSE"
  /\ mcu' = [mcu EXCEPT ![k] = v]
  /\ wire' = Append(wire, [kind |-> k, val |-> v])
  /\ changes' = changes + 1
  /\ UNCHANGED <<asked, spare, signals, out, reply, link, view>>

\* What the HMI's request makes CoreProcessor ask the MCU for.
Asked ==
  [WARNING_GET     |-> <<"FAULT", "ALARM", "PEPS">>,
   TIRE_PRESS      |-> <<"TIRE_PRESSURE">>,
   TIRE_PRESS_WARN |-> <<"ALARM_TIRE", "TIRE_FAULT">>,
   TIRE_TEMP       |-> <<"TIRE_TEMPERATURE">>,
   GEAR            |-> <<"GEAR_BOX">>,
   ODO             |-> <<"TOTAL_MILEAGE">>,
   TRIP_A          |-> <<"SUBTOTAL_MILEAGE">>,
   OUTSIDE_TEMPERATURE |-> <<"EXTERNEL_TEMPERATURE">>,
   COOLANT_TEMPERATURE |-> <<"COOLANT">>,
   FUEL            |-> <<"FUEL">>,
   TELLTALE        |-> <<"FAULT", "ALARM", "EPB", "PEPS", "AIRBAG",
                         "LANE_DEPATURE", "OILLOW">>,
   TURN_SIGNAL     |-> <<"CAR_LIGHT">>,
   INS_FUEL        |-> <<"INTANT_FUEL">>,
   AVE_FUEL        |-> <<"AVERAGE_FUEL">>,
   ENDURANCE       |-> <<"ENDURANCE_MILEAGE">>]
MusicOf ==
  [MUSIC_CLEAR    |-> "musicStatus",  MUSIC_POSITION |-> "musicProcess",
   MUSIC_ALBUM    |-> "albumName",    MUSIC_TITLE    |-> "musicName",
   MUSIC_ARTIST   |-> "authorName"]
Cleaned == [ODO_CLEAN |-> "SUBTOTAL_MILEAGE", ECU_CLEAN |-> "AVERAGE_FUEL"]

\* E02_Request with GET_PROPDATA: the MCU reports what it was asked for.
E02_AsynGet(kinds) ==
  /\ Len(wire) + Len(kinds) <= MaxWire
  /\ wire' = wire \o [i \in DOMAIN kinds |-> Report(kinds[i])]

\* The request reaches the thread of the requests when it is idle.
Request ==
  /\ reply = NoReply /\ subscribed
  /\ asked < MaxAsked
  /\ asked' = asked + 1
  /\ UNCHANGED spare

RequestReport(r) ==
  /\ Request /\ out = <<>>
  /\ E02_AsynGet(Asked[r])
  /\ UNCHANGED <<mcu, changes, signals, out, reply, link, view>>

\* E02_AsynSet: the MCU clears the value and reports it.
RequestClean(r) ==
  /\ Request /\ out = <<>> /\ Len(wire) < MaxWire
  /\ mcu' = [mcu EXCEPT ![Cleaned[r]] = {}]
  /\ wire' = Append(wire, [kind |-> Cleaned[r], val |-> {}])
  /\ UNCHANGED <<changes, signals, out, reply, link, view>>

\* The request reads what the callback thread writes, without a lock, ...
RequestMusic(r) ==
  /\ Request
  /\ reply' = Msg(MusicOf[r], music \cap {MusicOf[r]})
  /\ UNCHANGED <<mcu, wire, changes, signals, out, link, view>>

-----------------------------------------------------------------------------
(* The handlers *)

\* The callback thread takes the next message once the last one is handled.
Receive(k) ==
  /\ out = <<>> /\ wire # <<>>
  /\ Head(wire).kind = k
  /\ wire' = Tail(wire)
  /\ spare' = (k = "TIRE_PRESSURE" /\ "tireSystemSpare" \in Head(wire).val)
  /\ UNCHANGED <<mcu, changes, asked, reply, link, view>>
Received == Head(wire).val

\* The danger bit of the message is both turn lamps (E02 ICM SRD).
CarLight ==
  LET both == Received = {"left", "right"}
      byte == Received \cup Flag("danger", both)
      wasDanger == "danger" \in turn
      changed == Received # turn \ {"danger"}
      sound(s) == <<Msg("turn sound", {s})>>
      send(s) == out' = s \o <<Msg("turn", byte)>>
  IN
  /\ Receive("CAR_LIGHT")
  /\ turn' = byte
  /\ \/ /\ wasDanger # both
        /\ send(sound(IF both THEN "turn_on" ELSE "turn_off"))
        /\ UNCHANGED isTurnLightStart
     \/ /\ wasDanger = both /\ both
        /\ send(<<>>)
        /\ UNCHANGED isTurnLightStart
     \/ /\ wasDanger = both /\ ~both /\ changed /\ Received # {}
        /\ isTurnLightStart' = TRUE
        /\ send(sound("turn_on"))
     \/ /\ wasDanger = both /\ ~both /\ changed /\ Received = {}
        /\ send(IF isTurnLightStart THEN sound("turn_off") ELSE <<>>)
        /\ UNCHANGED isTurnLightStart
     \/ /\ wasDanger = both /\ ~both /\ ~changed
        /\ isTurnLightStart' = FALSE
        /\ send(<<>>)
  /\ UNCHANGED <<lamps, warns, faults, segment, coolant, tires, setup, music, belongs>>

\* A report of telltales only: the lamps are sent, changed or not.
LampMessage(k) ==
  /\ Receive(k)
  /\ lamps' = SetBits(lamps, Bits[k], Received)
  /\ out' = <<Msg("telltale", lamps')>>
  /\ UNCHANGED <<turn, isTurnLightStart, warns, faults, segment, coolant, tires,
                 setup, music, belongs>>

Fault     == LampMessage("FAULT")
Epb       == LampMessage("EPB")
Airbag    == LampMessage("AIRBAG")
AlarmTire == LampMessage("ALARM_TIRE")
OilLowLight == LampMessage("OILLOW")

\* Mutant: the lamps are sent before they are set.
AlarmStale ==
  LET on(l) == l \in Received IN
  /\ Receive("ALARM")
  /\ lamps' = SetBits(lamps, Bits["ALARM"] \ {"parking"}, Received)
  /\ warns' = SetBits(warns, {"parking"}, Received)
  /\ out' = Edge("drive_belt", "driverBeltLight" \in lamps, on("driverBeltLight")) \o
            Edge("copilot_belt", "passengerBeltLight" \in lamps, on("passengerBeltLight")) \o
            Edge("parking", "parking" \in warns, on("parking")) \o
            <<Msg("telltale", lamps)>>
  /\ UNCHANGED <<turn, isTurnLightStart, faults, segment, coolant, tires, setup,
                 music, belongs>>

Alarm ==
  LET on(l) == l \in Received IN
  /\ Receive("ALARM")
  /\ lamps' = SetBits(lamps, Bits["ALARM"] \ {"parking"}, Received)
  /\ warns' = SetBits(warns, {"parking"}, Received)
  /\ out' = Edge("drive_belt", "driverBeltLight" \in lamps, on("driverBeltLight")) \o
            Edge("copilot_belt", "passengerBeltLight" \in lamps, on("passengerBeltLight")) \o
            Edge("parking", "parking" \in warns, on("parking")) \o
            <<Msg("telltale", lamps')>>
  /\ UNCHANGED <<turn, isTurnLightStart, faults, segment, coolant, tires, setup,
                 music, belongs>>

\* Green does not put out red, nor red green: only another value does.
LaneDepature ==
  /\ Receive("LANE_DEPATURE")
  /\ lamps' = IF Received = {} THEN lamps \ LaneLamps ELSE lamps \cup Received
  /\ out' = <<Msg("telltale", lamps')>>
  /\ UNCHANGED <<turn, isTurnLightStart, warns, faults, segment, coolant, tires,
                 setup, music, belongs>>

\* Mutant: each of the two warnings is listed in the faults as they were.
PepsOneFault ==
  LET noKey == "pepsnotfindb" \in Received
      low   == "pepsbatterylow" \in Received
      first  == SetFault("pepsnotfindb", noKey, faults)
      second == SetFault("pepsbatterylow", low, faults)
  IN
  /\ Receive("PEPS")
  /\ warns' = SetBits(warns, Bits["PEPS"], Received)
  /\ faults' = second
  /\ out' = Warning("pepsnotfindb", noKey, first) \o Warning("pepsbatterylow", low, second)
  /\ UNCHANGED <<lamps, turn, isTurnLightStart, segment, coolant, tires, setup,
                 music, belongs>>

Peps ==
  LET noKey == "pepsnotfindb" \in Received
      low   == "pepsbatterylow" \in Received
      first  == SetFault("pepsnotfindb", noKey, faults)
      second == SetFault("pepsbatterylow", low, first)
  IN
  /\ Receive("PEPS")
  /\ warns' = SetBits(warns, Bits["PEPS"], Received)
  /\ faults' = second
  /\ out' = Warning("pepsnotfindb", noKey, first) \o Warning("pepsbatterylow", low, second)
  /\ UNCHANGED <<lamps, turn, isTurnLightStart, segment, coolant, tires, setup,
                 music, belongs>>

\* A warning with its fault, set by a report: also part of the next handlers.
SetWarning(w, on) ==
  /\ warns' = SetBits(warns, {w}, Flag(w, on))
  /\ faults' = SetFault(w, on, faults)

Dtc ==
  LET on == "WrongGear_P" \in Received IN
  /\ Receive("DTC")
  /\ SetWarning("WrongGear_P", on)
  /\ out' = Warning("WrongGear_P", on, faults')
  /\ UNCHANGED <<lamps, turn, isTurnLightStart, segment, coolant, tires, setup,
                 music, belongs>>

\* The pressures are passed on one by one, always.  The fault is stored as one
\* bit and compared as (stored # byte) & 1: a byte with another bit set differs
\* from it in every report.
TirePressure ==
  LET on == "tiresystemfault" \in Received IN
  /\ Receive("TIRE_PRESSURE")
  /\ warns' = SetBits(warns, {"tiresystemfault"}, Flag("tiresystemfault", on))
  /\ faults' = IF spare' THEN SetBits(faults, {"tiresystemfault"}, Flag("tiresystemfault", on))
               ELSE SetFault("tiresystemfault", on, faults)
  /\ out' = <<Msg("tirePressures", Received \cap {"tirePressures"})>> \o
            (IF spare' THEN SendWarning("tiresystemfault", on, faults')
             ELSE Warning("tiresystemfault", on, faults'))
  /\ UNCHANGED <<lamps, turn, isTurnLightStart, segment, coolant, tires, setup,
                 music, belongs>>

TireFault ==
  LET edge(t) == Edge(t, t \in tires, t \in Received) IN
  /\ Receive("TIRE_FAULT")
  /\ tires' = Received
  /\ out' = edge("frontLeftTire") \o edge("frontRightTire") \o
            edge("rearLeftTire") \o edge("rearRightTire")
  /\ UNCHANGED <<lamps, turn, isTurnLightStart, warns, faults, segment, coolant,
                 setup, music, belongs>>

Fuel ==
  /\ Receive("FUEL")
  /\ segment' = IF IsPercent(Received) THEN FuelSegment(Received) ELSE segment
  /\ SetWarning("oillow", OilLow(segment'))
  /\ out' = <<Msg("fuel", {segment'})>> \o Warning("oillow", OilLow(segment'), faults')
  /\ UNCHANGED <<lamps, turn, isTurnLightStart, coolant, tires, setup, music, belongs>>

\* The sound is sent with every change of the temperature.
Coolant ==
  /\ Receive("COOLANT")
  /\ coolant' = Received
  /\ out' = (IF Received = coolant THEN <<>>
             ELSE <<Msg("coolandtemperaturehigh",
                        Flag("coolandtemperaturehigh", CoolantHigh(Received)))>>) \o
            <<Msg("coolant", {CoolantSegment(Received)})>>
  /\ UNCHANGED <<lamps, turn, isTurnLightStart, warns, faults, segment, tires,
                 setup, music, belongs>>

Setup(k, s) ==
  /\ Receive(k)
  /\ setup' = SetBits(setup, {s}, Received)
  /\ out' = Edge(s, s \in setup, s \in Received)
  /\ UNCHANGED <<lamps, turn, isTurnLightStart, warns, faults, segment, coolant,
                 tires, music, belongs>>
SetupTheme    == Setup("CFG_THEME", "theme")
SetupLanguage == Setup("CFG_LANG", "language")

AudioReport ==
  /\ Receive("AUDIO_REPORT")
  /\ belongs' = Received
  /\ out' = Edge("audio_belong2dhu", belongs # {}, Received # {})
  /\ UNCHANGED <<lamps, turn, isTurnLightStart, warns, faults, segment, coolant,
                 tires, setup, music>>

MusicClose ==
  /\ Receive("MUSIC_CLOSE")
  /\ music' = music \ {"musicStatus"}
  /\ out' = <<Msg("musicStatus", {})>>
  /\ UNCHANGED <<lamps, turn, isTurnLightStart, warns, faults, segment, coolant,
                 tires, setup, belongs>>

MusicInfo(k) ==
  /\ Receive(k)
  /\ music' = SetBits(music, Bits[k], Received) \cup
              Flag("musicStatus", k = "MUSIC_PROCESS")
  /\ out' = <<Msg(CHOOSE s \in Bits[k] : TRUE, Received)>>
  /\ UNCHANGED <<lamps, turn, isTurnLightStart, warns, faults, segment, coolant,
                 tires, setup, belongs>>

\* Passed on; what is stored of them nobody reads.
Gauge(k) ==
  /\ Receive(k)
  /\ out' = <<Msg(k, Received)>>
  /\ UNCHANGED signals

-----------------------------------------------------------------------------
(* The messages to the receivers *)

Hears(m) == told' = [told EXCEPT ![m.key] = m.val] /\ lost' = lost \ {m.key}
Misses(m) == lost' = lost \cup {m.key} /\ UNCHANGED told

\* To ViewService and AudioService only while m_isConnected, which the
\* mosquitto thread writes; to the HMI always: without a connection the library
\* keeps the message for later or loses it.
Send(m) ==
  \/ m_isConnected /\ Hears(m)
  \/ ~m_isConnected /\ Misses(m)
  \/ ~m_isConnected /\ m.key \in ToHmi /\ Hears(m)

MsgSend ==
  /\ out # <<>>
  /\ Send(Head(out))
  /\ out' = Tail(out)
  /\ UNCHANGED <<line, signals, reply, link>>

\* ... and replies after the callback thread may have sent a later one.
SendReply ==
  /\ reply # NoReply
  /\ Send(reply)
  /\ reply' = NoReply
  /\ UNCHANGED <<line, signals, out, link>>

\* The session is clean: the broker forgets what CoreProcessor subscribed to,
\* and on_connect_callback does not subscribe again.
on_disconnect ==
  /\ m_isConnected /\ drops < MaxDrops
  /\ m_isConnected' = FALSE /\ subscribed' = FALSE
  /\ drops' = drops + 1
  /\ UNCHANGED <<line, signals, out, reply, view>>

on_connect ==
  /\ ~m_isConnected
  /\ m_isConnected' = TRUE
  /\ UNCHANGED <<line, signals, out, reply, subscribed, drops, view>>

-----------------------------------------------------------------------------
\* The fuel and the temperature are unknown until the first report.
NeverTold == {"fuel", "oillow", "coolant", "coolandtemperaturehigh"}

Init ==
  /\ \E fuel \in Values["FUEL"], temperature \in Values["COOLANT"] :
       mcu = [k \in Kinds |-> CASE k = "FUEL" -> fuel [] k = "COOLANT" -> temperature
                                [] OTHER -> {}]
  /\ wire = <<>> /\ changes = 0 /\ asked = 0 /\ spare = FALSE
  /\ lamps = {} /\ turn = {} /\ isTurnLightStart = FALSE
  /\ warns = {} /\ faults = {} /\ segment = 0 /\ coolant = 0
  /\ tires = {} /\ setup = {} /\ music = {} /\ belongs = {}
  /\ out = <<>> /\ reply = NoReply
  /\ m_isConnected = TRUE /\ subscribed = TRUE /\ drops = 0
  /\ told = [k \in Keys |-> {}] /\ lost = NeverTold

Next ==
  \/ \E k \in Kinds : \E v \in Values[k] : Change(k, v)
  \/ \E r \in Requests \cap DOMAIN Asked : RequestReport(r)
  \/ \E r \in Requests \cap DOMAIN Cleaned : RequestClean(r)
  \/ \E r \in Requests \cap DOMAIN MusicOf : RequestMusic(r)
  \/ CarLight \/ Fault \/ Alarm \/ Epb \/ Airbag \/ Peps \/ LaneDepature
  \/ AlarmTire \/ Dtc \/ OilLowLight
  \/ Fuel \/ Coolant \/ TirePressure \/ TireFault
  \/ SetupTheme \/ SetupLanguage \/ AudioReport
  \/ MusicClose
  \/ \E k \in {"MUSIC_PROCESS", "MUSIC_ALBUM", "MUSIC_NAME", "MUSIC_AUTHOR"} : MusicInfo(k)
  \/ \E k \in Gauges : Gauge(k)
  \/ MsgSend \/ SendReply \/ on_disconnect \/ on_connect

Spec == Init /\ [][Next]_vars

-----------------------------------------------------------------------------
(* Properties *)

\* The variables have their types: what is stored are the bits of the reports
\* and the segments of the gauges, and every message has a key.
TypeOK ==
  /\ \A k \in BitKinds : mcu[k] \subseteq Bits[k]
  /\ \A i \in DOMAIN wire : wire[i].kind \in Kinds
  /\ spare \in BOOLEAN
  /\ changes \in 0..MaxChanges /\ asked \in 0..MaxAsked /\ Len(wire) <= MaxWire
  /\ lamps \subseteq Lamps /\ turn \subseteq {"left", "right", "danger"}
  /\ isTurnLightStart \in BOOLEAN
  /\ warns \subseteq Warns /\ faults \subseteq Listed
  /\ segment \in 0..8 /\ coolant \in Values["COOLANT"] \cup {0}
  /\ tires \subseteq Tires /\ setup \subseteq Settings
  /\ music \subseteq Music \cup {"musicStatus"} /\ belongs \subseteq Sounds
  /\ \A i \in DOMAIN out : out[i].key \in Keys
  /\ reply # NoReply => reply.key \in ToHmi
  /\ m_isConnected \in BOOLEAN /\ subscribed \in BOOLEAN /\ drops \in 0..MaxDrops
  /\ DOMAIN told = Keys /\ lost \subseteq Keys

\* Nothing is on its way.
Quiet == wire = <<>> /\ out = <<>> /\ reply = NoReply

Known(k, v) == k \notin lost => told[k] = v

\* Whether the MCU's signals call for a warning.
Warned(w) ==
  IF w = "oillow" THEN mcu["FUEL"] < 25
  ELSE \E k \in BitKinds : w \in Bits[k] /\ w \in mcu[k]

\* At rest ViewService and AudioService know every warning and sound as the MCU
\* has its signals, but for messages that were dropped: no handler misses a
\* change, whatever was on when it came, and no percentage leaves a warning that
\* its segment does not call for.  (A percentage above 100 is no report.)
WarningsKnown ==
  Quiet =>
    /\ \A w \in Warns \ {"oillow"} : Known(w, Flag(w, Warned(w)))
    /\ mcu["FUEL"] <= 100 => Known("oillow", Flag("oillow", Warned("oillow")))
    /\ Known("drive_belt", Flag("drive_belt", "driverBeltLight" \in mcu["ALARM"]))
    /\ Known("copilot_belt", Flag("copilot_belt", "passengerBeltLight" \in mcu["ALARM"]))
    /\ Known("coolandtemperaturehigh",
             Flag("coolandtemperaturehigh", mcu["COOLANT"] >= 1210))
    /\ Known("audio_belong2dhu", mcu["AUDIO_REPORT"])

\* At rest the HMI shows each lamp as the MCU has it, unless the last telltale
\* message was lost: a handler sends all the lamps and spoils none of another
\* handler.  The fuel lamp has two writers: it is as one of them has it.  (The
\* lane lamps are excepted: see OneLaneLamp.)
LampsKnown ==
  Quiet =>
    /\ "telltale" \notin lost =>
         \A l \in Lamps \ LaneLamps :
           LET writers == {k \in LampKinds : l \in Bits[k]} IN
           /\ l \in told["telltale"] => \E k \in writers : l \in mcu[k]
           /\ (\A k \in writers : l \in mcu[k]) => l \in told["telltale"]
    /\ Known("turn", mcu["CAR_LIGHT"] \cup
                     Flag("danger", mcu["CAR_LIGHT"] = {"left", "right"}))
    /\ \A t \in Tires : Known(t, {t} \cap mcu["TIRE_FAULT"])

\* At rest the list of faults the HMI shows is that of the warnings the MCU's
\* signals call for, although it is sent bit by bit, unless the last list was
\* lost.
FaultsKnown ==
  Quiet /\ "fault" \notin lost /\ mcu["FUEL"] <= 100 /\ "fuel" \notin lost =>
    told["fault"] = {w \in Listed : Warned(w)}

\* A receiver that has missed no message about a warning never hears the same
\* status twice: the discipline MsgHandler's environment keeps (EdgeTriggered).
\* Only the fault of the tire system is sent again, and only by a report that has
\* another bit of its byte set.
Resends(w) == w = "tiresystemfault" /\ spare
HeardTwice(w) ==
  /\ w \notin lost /\ ~Resends(w)
  /\ out # <<>> /\ Head(out).key = w /\ out' = Tail(out)
  /\ Head(out).val = told[w]
OnlyChanges == [][\A w \in Warns : ~HeardTwice(w)]_vars

-----------------------------------------------------------------------------
(* Not among the runs: see the README *)

\* The turn lamps go out with a sound of their own ("tock"): at rest, and with no
\* message about the sound lost, no tick is the last sound of dark lamps.
TockWithDark ==
  Quiet /\ "turn sound" \notin lost /\ mcu["CAR_LIGHT"] = {} =>
    told["turn sound"] # {"turn_on"}

\* The two colours of the lane lamp are values of one field: one at a time.
OneLaneLamp == ~ LaneLamps \subseteq lamps

\* The HMI knows the title that is played.
TitleKnown == Quiet => Known("musicName", mcu["MUSIC_NAME"])

=============================================================================
