------------------------------- MODULE Pages --------------------------------
(***************************************************************************)
(* The message that shows a warning on the display, WarnPageControl.cpp,   *)
(* and the flags by which two door warnings are compared, MsgHandler.cpp.  *)
(***************************************************************************)
EXTENDS Codec

Doors == {"DRIVER_DOOR", "PASSENGER_DOOR", "REAR_RIGHT_DOOR", "REAR_LEFT_DOOR",
          "HOOD", "BACK_DOOR"}
DoorViews == {"doorinfo", "doorwarn"}

HMI_MSG_TYPE_WARNING == 4

HMI_MGS_WARNING_ID ==
  [speedlimit |-> 1, doorwarn |-> 2, tiresystemfault |-> 11, oillow |-> 19,
   pepsnotfindb |-> 29, pepsbatterylow |-> 33, pepsswitchtoPStart |-> 36,
   doorinfo |-> 38, parking |-> 80, WrongGear_P |-> 82]

\* Mutant: the rear doors share a byte.
DoorByteShared ==
  [DRIVER_DOOR |-> 1, PASSENGER_DOOR |-> 2, REAR_RIGHT_DOOR |-> 3,
   REAR_LEFT_DOOR |-> 3, HOOD |-> 5, BACK_DOOR |-> 6]

\* The byte of a door, and its flag.
DoorByte ==
  [DRIVER_DOOR |-> 1, PASSENGER_DOOR |-> 2, REAR_RIGHT_DOOR |-> 3,
   REAR_LEFT_DOOR |-> 4, HOOD |-> 5, BACK_DOOR |-> 6]

Flags(on) == [i \in 1..6 |-> IF \E d \in on : DoorByte[d] = i THEN 1 ELSE 0]

\* The place of a door in the flags, written down once more.
DoorPlace ==
  [DRIVER_DOOR |-> 0, PASSENGER_DOOR |-> 1, REAR_RIGHT_DOOR |-> 2,
   REAR_LEFT_DOOR |-> 3, HOOD |-> 4, BACK_DOOR |-> 5]

\* A node is the name of its view, its status and the doors that are ON; the
\* flags are the characters 0 and 1.
GetDoorInfoFlagStr(node) ==
  [i \in 1..6 |-> IF \E d \in node.doors : DoorPlace[d] + 1 = i THEN 49 ELSE 48]

\* A view that is not in the list has no page, and Notify sends nothing.
GetWarnPageDataToHMI(node) ==
  LET data == IF node.view \in DoorViews THEN Flags(node.doors)
              ELSE <<IF node.on THEN 1 ELSE 0>>
  IN  IF node.view \notin DOMAIN HMI_MGS_WARNING_ID THEN <<>>
      ELSE HexToStr(HMI_MSG_TYPE_WARNING) \o HexToStr(HMI_MGS_WARNING_ID[node.view])
           \o HexToStr(Len(data)) \o UCharArrToStr(data)

=============================================================================
