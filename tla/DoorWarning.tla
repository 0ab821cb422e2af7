---------------------------- MODULE DoorWarning -----------------------------
(***************************************************************************)
(* The door warnings and the overspeed warning of CoreProcessor            *)
(* (CoreMsgHandler.cpp: the door message of ActionMsgHandler and the speed *)
(* message of DataMsgHandler).                                             *)
(*                                                                         *)
(* An open door is a warning ("doorwarn") above a speed and a notice       *)
(* ("doorinfo") below it.  The door handler chooses between the two by the *)
(* speed as it was received, the speed handler by the speed as it was      *)
(* printed with "%.4f"; the latter moves every open door from one to the   *)
(* other with each speed.  Both run in the one callback thread of the MCU  *)
(* library and send to ViewService one message after the other, each of    *)
(* them lost when the MQTT connection is down.  The messages of a handler  *)
(* are about different doors or different views, so that their order makes *)
(* no difference: pending is a set.                                        *)
(***************************************************************************)
EXTENDS Integers

CONSTANTS
  Doors,      \* the doors of the message
  Speeds,     \* the speeds received, in 0.00001 km/h
  DoorSpeed,  \* g_fSppedDoorOpenWarn
  OverSpeed,  \* g_fSpeedOverLimitAlarm
  MaxDrops    \* bound: how often the connection goes down

ASSUME SpeedAssumption ==
  Speeds \subseteq Nat /\ DoorSpeed \in Nat /\ OverSpeed \in Nat

ASSUME DropAssumption == MaxDrops \in Nat

DoorViews == {"doorwarn", "doorinfo"}
Limit     == "speedlimit"  \* the view of the overspeed warning, and its only extra
Views     == DoorViews \cup {Limit}
Messages  == [view : DoorViews, extra : Doors, on : BOOLEAN] \cup
             [view : {Limit}, extra : {Limit}, on : BOOLEAN]

VARIABLES
  speed,       \* gaugeData_t.vehicleSpeed
  open,        \* warnInfo_t.door_info_t: the doors with their bit set
  light,       \* telltaleData_t...doorOpenLight
  over,        \* warnInfo_t.over_speed_t.overSpeed
  fault,       \* faultInfo_t: faultDoorOpenWarn, faultDoorOpenNotice, faultOverSpeed
  pending,     \* the messages the handler at work has still to send
  m_isConnected,
  askew,       \* history: the doors reported under a view the printed speed does
               \* not call for, and not moved by a speed since
  drops,       \* how often the connection went down
  told,        \* view -> the extras whose last message to ViewService was ON
  lost         \* history: the <<view, extra>> whose last message was not sent

core == <<speed, open, light, over, fault, askew>>
link == <<m_isConnected, drops>>
view == <<told, lost>>
vars == <<core, pending, link, view>>

\* "%.4f" and strtof
Printed(s) == ((s + 5) \div 10) * 10

DoorView(s) == IF s > DoorSpeed THEN "doorwarn" ELSE "doorinfo"
OtherView(s) == IF s > DoorSpeed THEN "doorinfo" ELSE "doorwarn"

\* Mutant: the two arguments of SendViewPageInfo are swapped.
MsgsSwapped(v, doors, on) == {[view |-> d, extra |-> v, on |-> on] : d \in doors}

Msgs(v, doors, on) == {[view |-> v, extra |-> d, on |-> on] : d \in doors}

-----------------------------------------------------------------------------
(* The handlers: pending = {} when the callback thread is idle *)

\* A speed just above the threshold is printed as the threshold.
Rounds(s) == DoorView(s) # DoorView(Printed(s))

Askewed(doors) ==
  IF Rounds(speed) THEN askew \cup (doors \ open) \cup (open \ doors) ELSE askew

\* Mutant: a door that stays open is announced, one that was closed is not.
DoorMessageOnOnly(doors) ==
  /\ pending = {}
  /\ open' = doors
  /\ light' = (doors # {})
  /\ pending' = Msgs(DoorView(speed), doors \ open, TRUE)
  /\ fault' = IF light # (doors # {})
              THEN [fault EXCEPT ![DoorView(speed)] = (doors # {})] ELSE fault
  /\ askew' = Askewed(doors)
  /\ UNCHANGED <<speed, over, link, view>>

DoorMessage(doors) ==
  /\ pending = {}
  /\ open' = doors
  /\ light' = (doors # {})
  /\ pending' = Msgs(DoorView(speed), doors \ open, TRUE) \cup
                Msgs(DoorView(speed), open \ doors, FALSE)
  /\ fault' = IF light # (doors # {})
              THEN [fault EXCEPT ![DoorView(speed)] = (doors # {})] ELSE fault
  /\ askew' = Askewed(doors)
  /\ UNCHANGED <<speed, over, link, view>>

\* The overspeed warning is sent on a change, the door warnings always.
LimitMsgs(isOver) ==
  IF over = isOver THEN {} ELSE Msgs(Limit, {Limit}, isOver)

\* Mutant: the doors are moved only by a speed above the threshold.
MovedUpOnly(s) ==
  IF light /\ s > DoorSpeed
  THEN Msgs(OtherView(s), open, FALSE) \cup Msgs(DoorView(s), open, TRUE) ELSE {}

Moved(s) ==
  IF light
  THEN Msgs(OtherView(s), open, FALSE) \cup Msgs(DoorView(s), open, TRUE) ELSE {}

\* Mutant: the warning is sent, the flag it is compared with is not set.
SpeedMessageFlagKept(s) ==
  /\ pending = {}
  /\ speed' = s
  /\ LET isOver == Printed(s) > OverSpeed IN
     /\ over' = (over /\ isOver)
     /\ fault' = IF over = isOver THEN fault ELSE [fault EXCEPT ![Limit] = isOver]
     /\ pending' = LimitMsgs(isOver) \cup Moved(Printed(s))
  /\ askew' = IF light THEN askew \ open ELSE askew
  /\ UNCHANGED <<open, light, link, view>>

SpeedMessage(s) ==
  /\ pending = {}
  /\ speed' = s
  /\ LET isOver == Printed(s) > OverSpeed IN
     /\ over' = isOver
     /\ fault' = IF over = isOver THEN fault ELSE [fault EXCEPT ![Limit] = isOver]
     /\ pending' = LimitMsgs(isOver) \cup Moved(Printed(s))
  /\ askew' = IF light THEN askew \ open ELSE askew
  /\ UNCHANGED <<open, light, link, view>>

\* m_isConnected is read for every message; the mosquitto thread writes it.
SendViewPageInfo(m) ==
  /\ m \in pending
  /\ pending' = pending \ {m}
  /\ \/ /\ m_isConnected
        /\ told' = [told EXCEPT ![m.view] =
                      IF m.on THEN @ \cup {m.extra} ELSE @ \ {m.extra}]
        /\ lost' = lost \ {<<m.view, m.extra>>}
     \/ /\ ~m_isConnected
        /\ lost' = lost \cup {<<m.view, m.extra>>}
        /\ UNCHANGED told
  /\ UNCHANGED <<core, link>>

on_disconnect ==
  /\ m_isConnected /\ drops < MaxDrops
  /\ m_isConnected' = FALSE
  /\ drops' = drops + 1
  /\ UNCHANGED <<core, pending, view>>

on_connect ==
  /\ ~m_isConnected
  /\ m_isConnected' = TRUE
  /\ UNCHANGED <<core, pending, drops, view>>

-----------------------------------------------------------------------------
Init ==
  /\ speed = 0 /\ open = {} /\ light = FALSE /\ over = FALSE
  /\ fault = [v \in Views |-> FALSE] /\ askew = {}
  /\ pending = {}
  /\ m_isConnected = TRUE /\ drops = 0
  /\ told = [v \in Views |-> {}] /\ lost = {}

Next ==
  \/ \E doors \in SUBSET Doors : DoorMessage(doors)
  \/ \E s \in Speeds : SpeedMessage(s)
  \/ \E m \in pending : SendViewPageInfo(m)
  \/ on_disconnect
  \/ on_connect

Spec == Init /\ [][Next]_vars

-----------------------------------------------------------------------------
(* Properties *)

\* The variables have their types: the messages name a view and one of its
\* extras.
TypeOK ==
  /\ speed \in Speeds \cup {0}
  /\ open \in SUBSET Doors /\ light \in BOOLEAN /\ over \in BOOLEAN
  /\ fault \in [Views -> BOOLEAN] /\ askew \in SUBSET Doors
  /\ pending \in SUBSET Messages
  /\ m_isConnected \in BOOLEAN /\ drops \in 0..MaxDrops
  /\ told \in [Views -> SUBSET (Doors \cup {Limit})]
  /\ lost \in SUBSET (Views \X (Doors \cup {Limit}))

\* When the handlers are idle ViewService knows the doors that are open, each
\* under the one view the last speed calls for, but for the messages that were
\* not sent and for the doors that were opened or closed at a speed that is
\* rounded across the threshold: the two handlers, which decide and move
\* separately, never leave another door under two views or under the wrong one,
\* and the next speed sets right those that are open.
ViewKnowsDoors ==
  pending = {} =>
    \A v \in DoorViews, d \in Doors \ askew :
      <<v, d>> \notin lost =>
        (d \in told[v] <=> d \in open /\ v = DoorView(Printed(speed)))

\* When the handlers are idle ViewService knows whether the speed, as it is
\* printed, is above the limit, unless the message of the last change was not sent.
ViewKnowsLimit ==
  pending = {} /\ <<Limit, Limit>> \notin lost =>
    (Limit \in told[Limit] <=> Printed(speed) > OverSpeed)

-----------------------------------------------------------------------------
(* What one may expect and the code does not keep.                           *)

\* With every door closed both door warnings are off.
AllClosed ==
  pending = {} /\ lost = {} /\ open = {} => \A v \in DoorViews : told[v] = {}

\* The list of faults sent to the HMI has a door fault only while a door is
\* open.  No run checks it: see the README.
FaultHasDoor == \A v \in DoorViews : fault[v] => open # {}

=============================================================================
