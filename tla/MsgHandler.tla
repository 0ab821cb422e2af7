----------------------------- MODULE MsgHandler -----------------------------
(***************************************************************************)
(* The warning scheduler of ViewService (src/ViewService/Control/          *)
(* MsgHandler.cpp) with the two threads of Actuator.cpp that call into it. *)
(*                                                                         *)
(* Three threads run for ever and share three lists and the current        *)
(* warning.  Each list has a mutex of its own, and so has the current      *)
(* warning; no operation holds two list mutexes at once, so every locked   *)
(* block, and every unlocked read, is a step of its own here:              *)
(*   receiver  Actuator::MsgReciever    -> SetWarnView                     *)
(*   handler   MsgHandler::Run          -> HandleWarnViews                 *)
(*   actuator  Actuator::Run (sem_wait) -> RemoveCurrentWarn               *)
(* Two one-shot POSIX timers run beside them: the minimum display time     *)
(* (AtLeast) and the display time of the current warning (WarnShow).       *)
(*                                                                         *)
(* A node is [view, on]: the name of the warning and the set of its        *)
(* strExtraInfo values that are ON.  The view status is VIEW_ON exactly    *)
(* when that set is not empty (ViewNode::UpdateViewStatus); a warning      *)
(* other than the two door warnings has one strExtraInfo, its own name.    *)
(***************************************************************************)
EXTENDS Naturals, Sequences, SequencesExt

CONSTANTS
  Views,      \* the names configured in view.xml
  NoView,     \* the empty strViewName
  DoorViews,  \* "doorwarn" and "doorinfo", the warnings with one extra per door
  Doors,      \* DRIVER_DOOR, PASSENGER_DOOR, ...
  Serious,    \* the views with loop = 0, shown until they are turned off
  Repeat,     \* the views with repeat = "ON", shown again and again
  Bound,      \* the views with an audiobind attribute
  Priority,   \* view -> prority attribute, the lower the more urgent
  Power,      \* view -> the ACC states its power attribute admits
  EdgeTriggered, \* whether a warning is only sent when its state changes
  Resent,     \* the views sent again without a change even then
  Prompt,     \* whether a pass of a thread is shorter than any timer
  Requests,   \* the messages the environment sends besides a warning's VIEW_ON
  MaxMsgs,    \* bound: number of MQTT messages received
  MaxBreaks,  \* bound: number of times the MQTT connection is lost
  MaxPosts    \* bound: value of the semaphore g_warnShowSem

AccStates == {"DEFAULT", "ON", "OFF"}
Controls  == {"ACC", "warn_hiden", "get_curr_warn", "VIEW_OFF"}

ASSUME ViewAssumption ==
  /\ NoView \notin Views
  /\ DoorViews \subseteq Views
  /\ Serious \subseteq Views
  /\ Repeat \subseteq Views
  /\ Bound \subseteq Views
  /\ Requests \subseteq Controls
  /\ Resent \subseteq Views
  /\ EdgeTriggered \in BOOLEAN /\ Prompt \in BOOLEAN

ASSUME PriorityAssumption == Priority \in [Views -> Nat]

\* wm1 admits ON, wm2 admits OFF, wm12 both; no value admits DEFAULT.
ASSUME PowerAssumption == Power \in [Views -> SUBSET {"ON", "OFF"}]

ASSUME BoundAssumption == MaxMsgs \in Nat /\ MaxPosts \in Nat /\ MaxBreaks \in Nat

Extras(v) == IF v \in DoorViews THEN Doors ELSE {v}
AllExtras == UNION {Extras(v) : v \in Views}

Node     == [view : Views \cup {NoView}, on : SUBSET AllExtras]
NoNode   == [view |-> NoView, on |-> {}]
Messages == {m \in [view : Views, extra : AllExtras, status : {"ON", "OFF"}] :
               m.extra \in Extras(m.view)}
NoMsg    == [view |-> NoView, extra |-> NoView, status |-> "OFF"]

Threads == {"receiver", "handler", "actuator"}

\* The steps of Notify, of the receiver or the handler.
Notifying == {"notify", "sound", "page"}

\* The steps of a pass, those of the receiver, the handler and the actuator.
Places ==
  {"idle"} \cup Notifying \cup
  {"serious", "inLoop", "getLoop", "fromLoop", "inFresh", "setFresh", "append",
   "appendDoor", "sort"} \cup
  {"getSerious", "pick", "getFresh", "eraseSerious", "eraseFresh", "eraseLoop",
   "stop", "clear", "show", "set"} \cup
  {"push"}

VARIABLES
  serious,    \* m_seriousViewList
  fresh,      \* m_freshViewList
  loop,       \* m_loopViewList
  cur,        \* m_currViewNode
  acc,        \* m_vehicleStatus
  hidden,     \* m_isAllWarnHidden
  done,       \* g_isAtLeastTimeDone
  atLeast,    \* the AtLeast timer is armed
  expired,    \* it has expired, its notification thread has not run yet
  showTimer,  \* the WarnShow timer is armed
  posts,      \* the value of g_warnShowSem
  shown,      \* history: microseconds that have surely passed since the handler
              \* started the timers for the warning it showed last
  races,      \* history: what raced the timers when it did so
  pc,         \* where each thread is
  lagging,    \* the threads that finish a pass before the next expiry, if Prompt
  node,       \* the ViewNode each thread works on (a local of its function)
  msg,        \* the warning message the receiver works on
  m_isConnected, \* of ViewService's MQTT connection
  breaks,     \* number of times it was lost so far
  hmi,        \* view -> the extras that are ON in the last page the HMI got
  audio,      \* view -> the status AudioService got last
  missed,     \* history: <<view, "sound" or "page">> whose last message was dropped
  told,       \* history: view -> the extras ON by the messages received
  crossed,    \* history: the views turned on while a node was left from their OFF
  sent        \* number of messages received so far

lists  == <<serious, fresh, loop>>
timers == <<done, atLeast, expired, showTimer, posts, shown, races>>
output == <<m_isConnected, breaks, hmi, audio, missed>>
status == <<acc, hidden>>
input  == <<msg, told, crossed, sent>>
steps  == <<pc, lagging>>
vars   == <<lists, cur, status, timers, steps, node, input, output>>

-----------------------------------------------------------------------------
(* The lists *)

IsOn(n) == n.on # {}

Has(s, v)   == \E i \in DOMAIN s : s[i].view = v
FirstAt(s, v) == SelectInSeq(s, LAMBDA n : n.view = v)

\* operator== compares strViewName and strExtraInfo: the nodes of a list
\* carry the view's own name in both, so that the name decides.
Erase(s, v) == IF Has(s, v) THEN RemoveAt(s, FirstAt(s, v)) ELSE s

HeadOf(s) == IF s = <<>> THEN NoNode ELSE s[1]

\* Mutant: the sort forgotten.
Unsorted(s) == {s}

\* std::sort by priority is not stable: any ordered permutation.
SortedByPriority(s) ==
  {t \in {[i \in DOMAIN s |-> s[p[i]]] : p \in Bijection(DOMAIN s, DOMAIN s)} :
     \A i, j \in DOMAIN s : i < j => Priority[t[i].view] <= Priority[t[j].view]}

\* Set the message's extra in a node; a plain view's extra is its status.
Updated(n, m) ==
  [n EXCEPT !.on = IF m.status = "ON" THEN @ \cup {m.extra} ELSE @ \ {m.extra}]

\* Mutant: the two names swapped in the constructor.
SwappedNode(m) == Updated([view |-> m.extra, on |-> {}], m)

NewNode(m) == Updated([view |-> m.view, on |-> {}], m)

UpdateFirst(s, m) ==
  IF Has(s, m.view) THEN [s EXCEPT ![FirstAt(s, m.view)] = Updated(@, m)] ELSE s

-----------------------------------------------------------------------------
(* Threads and timers *)

At(t, place) == pc[t] = place
Go(t, place) ==
  /\ pc' = [pc EXCEPT ![t] = place]
  /\ lagging' = IF place = "idle" THEN lagging \ {t} ELSE lagging

\* A pass takes microseconds and a poll 10 ms, a timer a second or more: with
\* Prompt, every thread at work when a timer is started finishes its pass
\* before that timer expires.
Working == {t \in Threads : pc[t] # "idle"} \cup
           (IF posts > 0 THEN {"actuator"} ELSE {})
InTime  == Prompt => lagging = {}

\* The 1 s and 500000 ns of AtLeastTimerStart, in microseconds.
AtLeastTime == 1000500

\* Mutant: ResetAtLeastFlag forgotten.
RestartTimersFlagKept(t, v) ==
  /\ atLeast' = TRUE
  /\ showTimer' = (v \notin Serious)
  /\ lagging' = Working \cup {t}
  /\ UNCHANGED <<done, expired, posts>>

\* Mutant: WarnShowTimerStop forgotten, and nothing started for a loop of 0.
RestartTimersNoStop(t, v) ==
  /\ done' = FALSE
  /\ atLeast' = TRUE
  /\ showTimer' = (showTimer \/ v \notin Serious)
  /\ lagging' = Working \cup {t}
  /\ UNCHANGED <<expired, posts>>

\* AtLeastTimerStart after ResetAtLeastFlag, WarnShowTimerStop and
\* WarnShowTimerStart(loop) of view v, by thread t: a loop of 0 leaves the timer
\* disarmed.
RestartTimers(t, v) ==
  /\ done' = FALSE
  /\ atLeast' = TRUE
  /\ showTimer' = (v \notin Serious)
  /\ lagging' = Working \cup {t}
  /\ UNCHANGED <<expired, posts>>

AtLeastExpire ==
  /\ atLeast /\ ~expired /\ InTime
  /\ atLeast' = FALSE
  /\ expired' = TRUE
  /\ shown' = AtLeastTime
  /\ UNCHANGED <<done, showTimer, posts, races, lists, cur, status, steps, node, input, output>>

AtLeastTimerThreadFun ==
  /\ expired
  /\ expired' = FALSE
  /\ done' = TRUE
  /\ lagging' = Working \cup (IF hidden THEN {} ELSE {"handler"})
  /\ UNCHANGED <<atLeast, showTimer, posts, shown, races, lists, cur, status, pc, node, input, output>>

\* The two timers are always started together, and every configured loop time
\* is seconds longer than the minimum display time, whose notification thread
\* has run by then.
WarnShowTimerThreadFun ==
  /\ showTimer /\ ~atLeast /\ ~expired /\ posts < MaxPosts /\ InTime
  /\ showTimer' = FALSE
  /\ posts' = posts + 1
  /\ UNCHANGED <<done, atLeast, expired, shown, races, lists, cur, status, steps, node, input, output>>

-----------------------------------------------------------------------------
(* Notify, run by the handler and by the receiver: the ACC status and the    *)
(* hiding are tested first, then the sound and the page are sent, each of    *)
(* them dropped unless MQTT is connected at that moment.                     *)

Conforms(v) == acc \in Power[v]

\* The thread is done with its node.
Leaves(t) ==
  /\ Go(t, "idle")
  /\ node' = [node EXCEPT ![t] = NoNode]

Notify(t) ==
  /\ At(t, "notify")
  /\ LET v == node[t].view IN
     IF v \in Views /\ Conforms(v) /\ ~hidden
     THEN Go(t, IF v \in Bound THEN "sound" ELSE "page") /\ UNCHANGED node
     ELSE Leaves(t)
  /\ UNCHANGED <<lists, cur, status, timers, input, output>>

\* The status is that of the current warning, the page is that of the node.
SendAudioWarnInfo(t) ==
  /\ At(t, "sound")
  /\ LET v == node[t].view IN
     IF m_isConnected
     THEN /\ audio' = [audio EXCEPT ![v] = IF IsOn(cur) THEN "ON" ELSE "OFF"]
          /\ missed' = missed \ {<<v, "sound">>}
     ELSE missed' = missed \cup {<<v, "sound">>} /\ UNCHANGED audio
  /\ Go(t, "page")
  /\ UNCHANGED <<lists, cur, status, timers, node, input, m_isConnected, breaks, hmi>>

MsgSend(t) ==
  /\ At(t, "page")
  /\ LET v == node[t].view IN
     IF m_isConnected
     THEN hmi' = [hmi EXCEPT ![v] = node[t].on] /\ missed' = missed \ {<<v, "page">>}
     ELSE missed' = missed \cup {<<v, "page">>} /\ UNCHANGED hmi
  /\ Leaves(t)
  /\ UNCHANGED <<lists, cur, status, timers, input, m_isConnected, breaks, audio>>

Notifies(t) == Notify(t) \/ SendAudioWarnInfo(t) \/ MsgSend(t)

\* The MQTT thread: after a break ViewService gets no messages but those that
\* are in its queue, and sends again when it is connected again.
on_disconnect_callback ==
  /\ m_isConnected /\ breaks < MaxBreaks
  /\ m_isConnected' = FALSE
  /\ breaks' = breaks + 1
  /\ UNCHANGED <<hmi, audio, missed, lists, cur, status, timers, steps, node, input>>

on_connect_callback ==
  /\ ~m_isConnected
  /\ m_isConnected' = TRUE
  /\ UNCHANGED <<breaks, hmi, audio, missed, lists, cur, status, timers, steps, node, input>>

-----------------------------------------------------------------------------
(* EraseWarnViewNode, run by the handler and by the actuator: the serious,  *)
(* the fresh and the loop list in turn, each under its own mutex, until one *)
(* held the node.  after is where the thread goes on.                       *)

After(t) == IF t = "handler" THEN "stop" ELSE "push"

EraseSeriousWarnListNode(t) ==
  /\ At(t, "eraseSerious")
  /\ serious' = Erase(serious, node[t].view)
  /\ Go(t, IF Has(serious, node[t].view) THEN After(t) ELSE "eraseFresh")
  /\ UNCHANGED <<fresh, loop, cur, status, timers, node, input, output>>

\* Mutant: the node is found in the fresh list and left there.
FreshNodeKept(t) ==
  /\ At(t, "eraseFresh")
  /\ Go(t, IF Has(fresh, node[t].view) THEN After(t) ELSE "eraseLoop")
  /\ UNCHANGED <<lists, cur, status, timers, node, input, output>>

EraseFreshWarnListNode(t) ==
  /\ At(t, "eraseFresh")
  /\ fresh' = Erase(fresh, node[t].view)
  /\ Go(t, IF Has(fresh, node[t].view) THEN After(t) ELSE "eraseLoop")
  /\ UNCHANGED <<serious, loop, cur, status, timers, node, input, output>>

EraseLoopWarnListNode(t) ==
  /\ At(t, "eraseLoop")
  /\ loop' = Erase(loop, node[t].view)
  /\ Go(t, After(t))
  /\ UNCHANGED <<serious, fresh, cur, status, timers, node, input, output>>

-----------------------------------------------------------------------------
(* The receiver: SetWarnView *)

Receives(control) ==
  /\ At("receiver", "idle") /\ sent < MaxMsgs
  /\ control \in Requests
  /\ sent' = sent + 1
  /\ UNCHANGED <<lists, cur, msg, told, crossed, output>>

ReceiveAcc(s) ==
  /\ Receives("ACC")
  /\ acc' = s
  /\ UNCHANGED <<hidden, timers, steps, node>>

ReceiveWarnHiden ==
  /\ Receives("warn_hiden")
  /\ hidden' = TRUE
  /\ lagging' = IF At("handler", "idle") THEN lagging \ {"handler"} ELSE lagging
  /\ UNCHANGED <<acc, timers, pc, node>>

\* The receiver takes m_mtxCurrWarn, which it holds until Notify is over.
ReceiveGetCurrWarn ==
  /\ Receives("get_curr_warn")
  /\ ~hidden /\ cur.view \in Views
  /\ RestartTimers("receiver", cur.view)
  /\ races' = races \cup (IF At("handler", "set") THEN {"asked"} ELSE {})
  /\ pc' = [pc EXCEPT !["receiver"] = "notify"]
  /\ node' = [node EXCEPT !["receiver"] = cur]
  /\ UNCHANGED <<status, shown>>

CurrWarnLocked == pc["receiver"] \in Notifying

\* A node with no extra ON is left of a warning that was turned off.
OffLeft(v) ==
  \E n \in {fresh[i] : i \in DOMAIN fresh} \cup {node[t] : t \in Threads} :
    n.view = v /\ ~IsOn(n)

\* A warning: UpdateWarnViewNode up to the choice of the list.  CoreProcessor
\* compares an input with the last one and sends on a change, so that the
\* messages alternate as long as none is lost and no process restarts; only
\* those of Resent are sent again: of the doors with every speed, and that of
\* the tire system with every status byte that has a second bit set.
ReceiveWarn(m) ==
  /\ At("receiver", "idle") /\ sent < MaxMsgs
  /\ m.status = "OFF" => "VIEW_OFF" \in Requests
  /\ EdgeTriggered /\ m.view \notin Resent =>
       (m.status = "ON" <=> m.extra \notin told[m.view])
  /\ sent' = sent + 1
  /\ msg' = m
  /\ told' = [told EXCEPT ![m.view] =
                IF m.status = "ON" THEN @ \cup {m.extra} ELSE @ \ {m.extra}]
  /\ crossed' = IF told[m.view] # {} THEN crossed
                ELSE IF OffLeft(m.view) THEN crossed \cup {m.view}
                ELSE crossed \ {m.view}
  /\ hidden' = (hidden /\ m.status # "ON")
  /\ Go("receiver", IF m.view \in Serious THEN "serious" ELSE "inLoop")
  /\ UNCHANGED <<acc, lists, cur, timers, node, output>>

\* SetWarnView returns.
Received ==
  /\ Leaves("receiver")
  /\ msg' = NoMsg
  /\ UNCHANGED <<told, crossed, sent>>

UpdateSeriousWarnList ==
  /\ At("receiver", "serious")
  /\ serious' \in SortedByPriority(
       IF msg.status = "ON" /\ ~Has(serious, msg.view)
       THEN Append(serious, NewNode(msg))
       ELSE UpdateFirst(serious, msg))
  /\ Go("receiver", "sort")
  /\ UNCHANGED <<fresh, loop, cur, status, timers, node, input, output>>

IsNodeExistInLoopList ==
  /\ At("receiver", "inLoop")
  /\ Go("receiver", IF ~Has(loop, msg.view) THEN "inFresh"
                    ELSE IF msg.view \in DoorViews THEN "getLoop" ELSE "fromLoop")
  /\ node' = [node EXCEPT !["receiver"] = NewNode(msg)]
  /\ UNCHANGED <<lists, cur, status, timers, input, output>>

\* GetLoopDoorInfoNode leaves its result empty when the node is gone by now.
GetLoopDoorInfoNode ==
  /\ At("receiver", "getLoop")
  /\ node' = [node EXCEPT !["receiver"] =
                Updated(IF Has(loop, msg.view) THEN loop[FirstAt(loop, msg.view)]
                        ELSE NoNode, msg)]
  /\ Go("receiver", "fromLoop")
  /\ UNCHANGED <<lists, cur, status, timers, input, output>>

TakeFromLoop ==
  /\ At("receiver", "fromLoop")
  /\ loop' = Erase(loop, msg.view)
  /\ Go("receiver", IF msg.view \in DoorViews THEN "appendDoor" ELSE "append")
  /\ UNCHANGED <<serious, fresh, cur, status, timers, node, input, output>>

IsNodeExistInFreshList ==
  /\ At("receiver", "inFresh")
  /\ Go("receiver", IF Has(fresh, msg.view) THEN "setFresh"
                    ELSE IF msg.view \in DoorViews /\ msg.status = "OFF" THEN "sort"
                    ELSE "append")
  /\ UNCHANGED <<lists, cur, status, timers, node, input, output>>

SetFreshNode ==
  /\ At("receiver", "setFresh")
  /\ fresh' = UpdateFirst(fresh, msg)
  /\ Go("receiver", "sort")
  /\ UNCHANGED <<serious, loop, cur, status, timers, node, input, output>>

AppendFresh ==
  /\ At("receiver", "append")
  /\ fresh' = Append(fresh, node["receiver"])
  /\ Go("receiver", "sort")
  /\ UNCHANGED <<serious, loop, cur, status, timers, node, input, output>>

\* A door warning taken from the loop list returns without the sort.
AppendDoorInfo ==
  /\ At("receiver", "appendDoor")
  /\ fresh' = Append(fresh, node["receiver"])
  /\ Received
  /\ UNCHANGED <<serious, loop, cur, status, timers, output>>

SortLoop ==
  /\ At("receiver", "sort")
  /\ loop' \in SortedByPriority(loop)
  /\ Received
  /\ UNCHANGED <<serious, fresh, cur, status, timers, output>>

Receive ==
  \/ \E s \in {"ON", "OFF"} : ReceiveAcc(s)
  \/ ReceiveWarnHiden
  \/ ReceiveGetCurrWarn
  \/ \E m \in Messages : ReceiveWarn(m)

Receiver ==
  \/ UpdateSeriousWarnList
  \/ IsNodeExistInLoopList
  \/ GetLoopDoorInfoNode
  \/ TakeFromLoop
  \/ IsNodeExistInFreshList
  \/ SetFreshNode
  \/ AppendFresh
  \/ AppendDoorInfo
  \/ SortLoop
  \/ Notifies("receiver")

-----------------------------------------------------------------------------
(* The handler: HandleWarnViews *)

\* Polled every 10 ms; the pass ends here when nothing is to be done.
HandleWarnViews ==
  /\ At("handler", "idle")
  /\ done /\ ~hidden
  /\ Go("handler", "getSerious")
  /\ UNCHANGED <<lists, cur, status, timers, node, input, output>>

\* The pass ends on an empty node and on one that is shown already.
Choose(n) ==
  /\ Go("handler", IF n.view = NoView \/ n = cur THEN "idle"
                   ELSE IF IsOn(n) THEN "show" ELSE "eraseSerious")
  /\ node' = [node EXCEPT !["handler"] =
                IF n.view = NoView \/ n = cur THEN NoNode ELSE n]

\* Mutant: the fresh list comes before the serious one.
FreshBeforeSerious ==
  /\ At("handler", "getSerious")
  /\ IF serious = <<>> \/ fresh # <<>>
     THEN Go("handler", "pick") /\ UNCHANGED node
     ELSE Choose(HeadOf(serious))
  /\ UNCHANGED <<lists, cur, status, timers, input, output>>

GetSeriousWarnListNode ==
  /\ At("handler", "getSerious")
  /\ IF serious = <<>>
     THEN Go("handler", "pick") /\ UNCHANGED node
     ELSE Choose(HeadOf(serious))
  /\ UNCHANGED <<lists, cur, status, timers, input, output>>

\* GetNextWarnViewNode reads the emptiness of the fresh list unlocked.
PickList ==
  /\ At("handler", "pick")
  /\ Go("handler", IF fresh # <<>> THEN "getFresh" ELSE "getLoop")
  /\ UNCHANGED <<lists, cur, status, timers, node, input, output>>

GetFrashWarnListNode ==
  /\ At("handler", "getFresh")
  /\ Choose(HeadOf(fresh))
  /\ UNCHANGED <<lists, cur, status, timers, input, output>>

GetLoopWarnListNode ==
  /\ At("handler", "getLoop")
  /\ Choose(HeadOf(loop))
  /\ UNCHANGED <<lists, cur, status, timers, input, output>>

\* VIEW_OFF: after EraseWarnViewNode.
StopShowTimer ==
  /\ At("handler", "stop")
  /\ showTimer' = FALSE
  /\ Go("handler", "clear")
  /\ UNCHANGED <<done, atLeast, expired, posts, shown, races, lists, cur, status, node, input,
                 output>>

\* Mutant: m_currViewNode.SetEmpty forgotten.
CurrentKept ==
  /\ At("handler", "clear") /\ ~CurrWarnLocked
  /\ Go("handler", "notify")
  /\ UNCHANGED <<lists, cur, status, timers, node, input, output>>

ClearCurrent ==
  /\ At("handler", "clear") /\ ~CurrWarnLocked
  /\ cur' = NoNode
  /\ Go("handler", "notify")
  /\ UNCHANGED <<lists, status, timers, node, input, output>>

\* VIEW_ON
StartTimers ==
  /\ At("handler", "show")
  /\ RestartTimers("handler", node["handler"].view)
  /\ shown' = 0
  /\ races' = (IF expired THEN {"expiry"} ELSE {}) \cup (IF posts > 0 THEN {"post"} ELSE {})
  /\ pc' = [pc EXCEPT !["handler"] = "set"]
  /\ UNCHANGED <<lists, cur, status, node, input, output>>

SetCurrent ==
  /\ At("handler", "set") /\ ~CurrWarnLocked
  /\ cur' = node["handler"]
  /\ Go("handler", "notify")
  /\ UNCHANGED <<lists, status, timers, node, input, output>>

Handler ==
  \/ HandleWarnViews
  \/ GetSeriousWarnListNode
  \/ PickList
  \/ GetFrashWarnListNode
  \/ GetLoopWarnListNode
  \/ EraseSeriousWarnListNode("handler")
  \/ EraseFreshWarnListNode("handler")
  \/ EraseLoopWarnListNode("handler")
  \/ StopShowTimer
  \/ ClearCurrent
  \/ StartTimers
  \/ SetCurrent
  \/ Notifies("handler")

-----------------------------------------------------------------------------
(* The actuator: RemoveCurrentWarn, woken by the WarnShow timer *)

RemoveCurrentWarn ==
  /\ At("actuator", "idle") /\ posts > 0 /\ ~CurrWarnLocked
  /\ posts' = posts - 1
  /\ node' = [node EXCEPT !["actuator"] = cur]
  /\ Go("actuator", "eraseSerious")
  /\ UNCHANGED <<done, atLeast, expired, showTimer, shown, races, lists, cur, status, input,
                 output>>

\* Mutant: compare("ON") taken for equality when it is 0 for equality.
CheckCompareInverted(n) ==
  n.view \in Views \ (Repeat \cup Serious) /\ IsOn(n)

CheckNeedPushLoopAgain(n) ==
  n.view \in Repeat \ Serious /\ IsOn(n)

\* Mutant: pushed without looking for it in the list.
PushLoopUnchecked ==
  /\ At("actuator", "push")
  /\ LET n == node["actuator"] IN
     loop' = IF CheckNeedPushLoopAgain(n) THEN Append(loop, n) ELSE loop
  /\ Leaves("actuator")
  /\ UNCHANGED <<serious, fresh, cur, status, timers, input, output>>

\* Mutant: pushed at the front, to be shown next.
PushLoopFirst ==
  /\ At("actuator", "push")
  /\ LET n == node["actuator"] IN
     loop' = IF CheckNeedPushLoopAgain(n) /\ ~Has(loop, n.view)
             THEN <<n>> \o loop ELSE loop
  /\ Leaves("actuator")
  /\ UNCHANGED <<serious, fresh, cur, status, timers, input, output>>

PushLoopAgain ==
  /\ At("actuator", "push")
  /\ LET n == node["actuator"] IN
     loop' = IF CheckNeedPushLoopAgain(n) /\ ~Has(loop, n.view)
             THEN Append(loop, n) ELSE loop
  /\ Leaves("actuator")
  /\ UNCHANGED <<serious, fresh, cur, status, timers, input, output>>

RemoveWarn ==
  \/ RemoveCurrentWarn
  \/ EraseSeriousWarnListNode("actuator")
  \/ EraseFreshWarnListNode("actuator")
  \/ EraseLoopWarnListNode("actuator")
  \/ PushLoopAgain

-----------------------------------------------------------------------------
Init ==
  /\ serious = <<>> /\ fresh = <<>> /\ loop = <<>>
  /\ cur = NoNode
  /\ acc = "DEFAULT" /\ hidden = FALSE
  /\ done = TRUE /\ atLeast = FALSE /\ expired = FALSE
  /\ showTimer = FALSE /\ posts = 0
  /\ shown = AtLeastTime /\ races = {}
  /\ pc = [t \in Threads |-> "idle"] /\ lagging = {}
  /\ node = [t \in Threads |-> NoNode]
  /\ msg = NoMsg
  /\ m_isConnected = TRUE /\ breaks = 0
  /\ hmi = [v \in Views |-> {}]
  /\ audio = [v \in Views |-> "OFF"]
  /\ missed = {}
  /\ told = [v \in Views |-> {}]
  /\ crossed = {}
  /\ sent = 0

Timers ==
  \/ AtLeastExpire
  \/ AtLeastTimerThreadFun
  \/ WarnShowTimerThreadFun

Link == on_disconnect_callback \/ on_connect_callback

Next == Receive \/ Receiver \/ Handler \/ RemoveWarn \/ Timers \/ Link

\* Each thread loops for ever and an armed timer expires; nothing makes the
\* other processes send a message.
Fairness ==
  /\ WF_vars(Receiver)
  /\ WF_vars(Handler)
  /\ WF_vars(RemoveWarn)
  /\ WF_vars(AtLeastExpire)
  /\ WF_vars(AtLeastTimerThreadFun)
  /\ WF_vars(WarnShowTimerThreadFun)

Spec     == Init /\ [][Next]_vars
FairSpec == Spec /\ Fairness

-----------------------------------------------------------------------------
(* Properties *)

\* Every list, node and output ranges over configured warnings and their own
\* extras; the program counters over the steps of their thread.
TypeOK ==
  /\ serious \in Seq(Node) /\ fresh \in Seq(Node) /\ loop \in Seq(Node)
  /\ cur \in Node
  /\ acc \in AccStates /\ hidden \in BOOLEAN
  /\ done \in BOOLEAN /\ atLeast \in BOOLEAN /\ expired \in BOOLEAN
  /\ showTimer \in BOOLEAN /\ posts \in 0..MaxPosts
  /\ shown \in {0, AtLeastTime} /\ races \subseteq {"expiry", "post", "asked"}
  /\ pc \in [Threads -> Places]
  /\ lagging \in SUBSET Threads
  /\ node \in [Threads -> Node]
  /\ msg \in Messages \cup {NoMsg}
  /\ m_isConnected \in BOOLEAN /\ breaks \in 0..MaxBreaks
  /\ hmi \in [Views -> SUBSET AllExtras]
  /\ audio \in [Views -> {"ON", "OFF"}]
  /\ missed \subseteq Views \X {"sound", "page"}
  /\ told \in [Views -> SUBSET AllExtras]
  /\ crossed \subseteq Views
  /\ sent \in 0..MaxMsgs

\* The serious list holds serious warnings only, each at most once, the most
\* urgent first, whatever the handler and the actuator erase from it.
SeriousOrdered ==
  /\ \A i \in DOMAIN serious : serious[i].view \in Serious
  /\ \A i, j \in DOMAIN serious :
       i < j => /\ serious[i].view # serious[j].view
                /\ Priority[serious[i].view] <= Priority[serious[j].view]

\* The loop list holds repeating warnings that are ON, each at most once: the
\* actuator's test and insertion, the receiver's removal and its sort, and the
\* handler's removal never leave a duplicate or an OFF node to rotate.
LoopSound ==
  /\ \A i \in DOMAIN loop : loop[i].view \in Repeat \ Serious /\ IsOn(loop[i])
  /\ \A i, j \in DOMAIN loop : loop[i].view = loop[j].view => i = j

\* The last sound sent about a warning has the status of the last page sent
\* about it, unless one of the two was dropped: Notify takes the one from the
\* current warning and the other from its node, and both the handler and a
\* get_curr_warn may be in it.  A warning that another one replaces on the
\* screen is told off to neither.
SoundAgrees ==
  \A v \in Bound :
    /\ {<<v, "sound">>, <<v, "page">>} \cap missed = {}
    /\ \A t \in Threads : At(t, "page") => node[t].view # v
    => (audio[v] = "ON" <=> hmi[v] # {})

\* A warning that came to the screen stays there for the time of AtLeastTimerStart
\* at least, also when a get_curr_warn restarts the timer: the handler begins to
\* replace or to clear it only after that, unless the notification of an earlier
\* expiry was still under way when the warning was shown.
MinDisplay ==
  (At("handler", "show") \/ At("handler", "stop") \/ At("handler", "clear")) /\ cur # NoNode =>
    shown >= AtLeastTime \/ "expiry" \in races

\* The display time of a serious warning never runs out: while it is on the
\* screen, neither the WarnShow timer is armed nor a post of it waits for the
\* actuator, unless the timer of the warning it preempted had posted already, or
\* a get_curr_warn for that warning came between the timers and the preemption.
SeriousUntimed ==
  cur.view \in Serious /\ ~At("handler", "set") /\ races \cap {"post", "asked"} = {} =>
    ~showTimer /\ posts = 0

\* As long as a serious warning is pending, the most urgent one comes to be
\* the current warning: neither the single warnings being shown, nor the
\* rotation, nor a pending expiry keeps it from the screen.
SeriousShown ==
  serious # <<>> ~> (serious = <<>> \/ cur = HeadOf(serious) \/ hidden)

\* The fresh list drains: each of its warnings is shown for its time and then
\* removed or moved to the rotation, unless a serious warning preempts it.
FreshDrains ==
  fresh # <<>> ~> (fresh = <<>> \/ serious # <<>> \/ hidden)

\* A warning of the rotation is shown in its turn.
LoopRotates ==
  \A v \in Repeat : Has(loop, v) ~>
    (~Has(loop, v) \/ cur.view = v \/ fresh # <<>> \/ serious # <<>> \/ hidden)

\* Nobody is at work.
Quiet == /\ \A t \in Threads : At(t, "idle")
         /\ posts = 0

Kept(v) == told[v] # {} => Has(fresh, v) \/ Has(loop, v)

\* A repeating warning that is ON is in one of the lists, to be shown: the way
\* from the fresh list to the screen and to the rotation loses none, also when
\* it is turned off and on again, unless a node of its OFF was still in the fresh
\* list or in the hands of a thread then.  Of the doors' notice this does not
\* hold, see FreshNamed.
RepeatKept ==
  Quiet => \A v \in Repeat \ (Serious \cup DoorViews \cup crossed) : Kept(v)

-----------------------------------------------------------------------------
(* What one may expect and the code does not keep.                           *)

\* A warning stays for the minimum display time, which three comments of the
\* code give as 1.5 s.
MinDisplayFull ==
  (At("handler", "show") \/ At("handler", "stop") \/ At("handler", "clear")) /\ cur # NoNode =>
    shown >= 1500000

\* Whatever comes at whatever moment, the flag that the minimum display time is
\* over is not set before the warning on the screen had it.
MinDisplayAlways ==
  (At("handler", "show") \/ At("handler", "stop") \/ At("handler", "clear")) /\ cur # NoNode =>
    shown >= AtLeastTime

\* A serious warning that is ON is not removed by the timer of another one.
SeriousStays ==
  At("actuator", "eraseSerious") /\ node["actuator"].view \in Serious =>
    ~IsOn(node["actuator"])

\* A serious warning is in the serious list for as long as it is ON.
SeriousKept == Quiet => \A v \in Serious : told[v] # {} => Has(serious, v)

\* A warning that was turned off does not stay in the rotation.
NoGhost == Quiet /\ fresh = <<>> => \A i \in DOMAIN loop : told[loop[i].view] # {}

\* The nodes of the fresh list are warnings.
FreshNamed == \A i \in DOMAIN fresh : fresh[i].view # NoView

\* The current warning is the one on the HMI.
CurrentShown == Quiet /\ cur.view # NoView => hmi[cur.view] = cur.on

=============================================================================
