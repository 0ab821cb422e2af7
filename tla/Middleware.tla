---------------------------- MODULE Middleware -----------------------------
(***************************************************************************)
(* The way of a door from the vehicle bus to the screen: the handlers of   *)
(* CoreProcessor (DoorWarning), the topic to ViewService, and the threads  *)
(* of its scheduler (MsgHandler), composed.                                *)
(*                                                                         *)
(* Every step is one of a component, or one of each where a message is put *)
(* into or taken from the topic.  The topic is the FIFO of a receiver that *)
(* stays subscribed to a sender that stays connected (MqttLink has the     *)
(* broken connection of a topic, DoorWarning and MsgHandler what the two   *)
(* processes make of theirs).  The ignition key is turned on once, and the *)
(* message about it comes through the same topic.                          *)
(***************************************************************************)
EXTENDS Integers, Sequences

CONSTANTS
  Doors, Speeds, DoorSpeed, OverSpeed,  \* those of DoorWarning
  MaxInputs                             \* bound: messages of the MCU

ASSUME InputBound == MaxInputs \in Nat

ASSUME SpeedBound ==
  Speeds \subseteq Nat /\ DoorSpeed \in Nat /\ OverSpeed \in Nat

Key == "ACC"

VARIABLES
  speed, open, light, over, fault, askew, pending, core_connected, drops,  \* CoreProcessor
  core_told, lost,
  topic,   \* m_msgQueue of ViewService, with what is on its way to it
  inputs,  \* number of messages of the MCU
  serious, fresh, loop, cur, acc, hidden, done, atLeast, expired, showTimer,  \* ViewService
  posts, shown, races, pc, lagging, node, msg, m_isConnected, breaks, hmi, audio,
  missed, told, crossed, sent

Core == INSTANCE DoorWarning WITH
  told <- core_told, m_isConnected <- core_connected, MaxDrops <- 0

\* The attributes of view.xml, as in MCMsgHandler.
Serious  == {"doorwarn"}
Repeat   == {"doorwarn", "doorinfo"}
Bound    == {"doorwarn", "speedlimit"}
Priority == [doorwarn |-> 1, speedlimit |-> 2, doorinfo |-> 8]
Power    == [doorwarn |-> {"ON"}, speedlimit |-> {"ON"}, doorinfo |-> {"ON", "OFF"}]

\* No message is refused: each MCU message makes two for a door and one more.
\* Scheduler takes any message; Alone is the scheduler of MsgHandler's own
\* runs, which takes those of an environment that sends changes.
Scheduler == INSTANCE MsgHandler WITH
  Views <- Core!Views, NoView <- "none", DoorViews <- Core!DoorViews, Prompt <- TRUE,
  Requests <- {"ACC", "VIEW_OFF"}, Resent <- Core!DoorViews,
  MaxMsgs <- 1 + 13 * MaxInputs, MaxBreaks <- 0, MaxPosts <- 1,
  EdgeTriggered <- FALSE
Alone == INSTANCE MsgHandler WITH
  Views <- Core!Views, NoView <- "none", DoorViews <- Core!DoorViews, Prompt <- TRUE,
  Requests <- {"ACC", "VIEW_OFF"}, Resent <- Core!DoorViews,
  MaxMsgs <- 1 + 13 * MaxInputs, MaxBreaks <- 0, MaxPosts <- 1,
  EdgeTriggered <- TRUE

coreVars == <<speed, open, light, over, fault, askew, pending, core_connected, drops,
              core_told, lost>>
viewVars == <<serious, fresh, loop, cur, acc, hidden, done, atLeast, expired, showTimer,
              posts, shown, races, pc, lagging, node, msg, m_isConnected, breaks, hmi,
              audio, missed, told, crossed, sent>>
vars     == <<coreVars, topic, inputs, viewVars>>

-----------------------------------------------------------------------------
Sent(m) == [view |-> m.view, extra |-> m.extra, status |-> IF m.on THEN "ON" ELSE "OFF"]

KeyTurned == acc = "ON" \/ Key \in {topic[i].view : i \in DOMAIN topic}

TurnKey ==
  /\ ~KeyTurned
  /\ topic' = Append(topic, [view |-> Key, extra |-> Key, status |-> "ON"])
  /\ UNCHANGED <<coreVars, inputs, viewVars>>

\* The car does not move before the key is turned.
Input ==
  /\ inputs < MaxInputs
  /\ inputs' = inputs + 1
  /\ \/ \E doors \in SUBSET Doors : Core!DoorMessage(doors)
     \/ \E s \in Speeds : (s = 0 \/ KeyTurned) /\ Core!SpeedMessage(s)
  /\ UNCHANGED <<topic, viewVars>>

\* The overspeed warning is sent before the doors, and of each door the old
\* view before the new one.
SendViewPageInfo ==
  /\ \E m \in pending :
       /\ \A n \in pending : /\ n.view = Core!Limit => n = m
                             /\ n.extra = m.extra /\ m.on => n.on
       /\ Core!SendViewPageInfo(m)
       /\ topic' = Append(topic, Sent(m))
  /\ UNCHANGED <<inputs, viewVars>>

MsgReciever ==
  /\ topic # <<>>
  /\ topic' = Tail(topic)
  /\ IF Head(topic).view = Key THEN Scheduler!ReceiveAcc(Head(topic).status)
     ELSE Scheduler!ReceiveWarn(Head(topic))
  /\ UNCHANGED <<coreVars, inputs>>

Schedule ==
  /\ Scheduler!Receiver \/ Scheduler!Handler \/ Scheduler!RemoveWarn \/ Scheduler!Timers
  /\ UNCHANGED <<coreVars, topic, inputs>>

Init == Core!Init /\ Scheduler!Init /\ topic = <<>> /\ inputs = 0

Next ==
  \/ TurnKey
  \/ Input
  \/ SendViewPageInfo
  \/ MsgReciever
  \/ Schedule

\* The callback thread sends what a handler has to send, the receiver polls its
\* queue, and the threads and timers of the scheduler run.
Fairness == WF_vars(SendViewPageInfo) /\ WF_vars(MsgReciever) /\ Scheduler!Fairness

Spec     == Init /\ [][Next]_vars
FairSpec == Spec /\ Fairness

-----------------------------------------------------------------------------
(* Properties *)

\* A door that is open is a warning or a notice, by the speed.
Due(v, d) == d \in open /\ v = Core!DoorView(Core!Printed(speed))

\* A door that is open at speed comes to the screen as a warning, or is closed
\* or the car slows down before: from the message of the MCU through the queue,
\* the lists and the timers it is neither lost nor kept behind other warnings.
DoorShown ==
  \A d \in Doors :
    Due("doorwarn", d) ~>
      (d \in hmi["doorwarn"] \/ ~Due("doorwarn", d))

\* The scheduler runs as it does alone, and CoreProcessor is the environment
\* MsgHandler assumes: every warning but those of the doors is sent on a change
\* only.
EdgesKept == Alone!Spec

=============================================================================
