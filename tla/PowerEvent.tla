----------------------------- MODULE PowerEvent -----------------------------
(***************************************************************************)
(* The power events of CoreProcessor (CoreMsgHandler.cpp, ExecPowerEvent   *)
(* and PowerOffTimerThread).                                               *)
(*                                                                         *)
(* The MCU reports the ignition key.  The handler takes the wake lock and  *)
(* sets the normal power mode when it leaves OFF; when it goes to OFF, a   *)
(* detached thread counts 100 ms ticks and then sets the power off and     *)
(* releases the lock, unless the key came back in the meantime.  All those *)
(* threads count in one static variable that no mutex guards.              *)
(*                                                                         *)
(* The status is then told to ViewService and to AudioService, each message *)
(* dropped unless MQTT is connected at that moment.                        *)
(***************************************************************************)
EXTENDS Naturals

CONSTANTS
  Threads,  \* bound: the PowerOffTimerThreads that may live at once
  Limit,    \* the ticks before the power is set off (150 in the code)
  MaxKeys,  \* bound: number of changes of the ignition key
  MaxBreaks \* bound: number of times the MQTT connection is lost

ASSUME PowerAssumption ==
  Limit \in Nat \ {0} /\ MaxKeys \in Nat /\ MaxBreaks \in Nat

Keys == {"OFF", "ACC", "ON", "START"}
Receivers == {"view", "audio"}

VARIABLES
  vehicle,   \* m_vehicleStatus
  needExec,  \* m_isPowerOffNeedExec
  iTimers,   \* the static counter, Limit + 1 standing for every value above
  pc,        \* where the handler is
  thread,    \* where each power-off thread is
  seen,      \* the value of iTimers each thread has read
  held,      \* the wake lock is taken: acquire_event, release_event
  mode,      \* the power mode last set
  m_isConnected, \* of CoreProcessor's MQTT connection
  breaks,    \* number of times it was lost so far
  told,      \* the ACC status each receiver was sent last
  missed,    \* history: the receivers whose last message was dropped
  raced,     \* history: the key left OFF when a thread had made up its mind
  crowded,   \* history: the key went to OFF while a thread was alive
  ticks,     \* history: the ticks of each thread since the key went to OFF
  keys       \* number of key changes so far

power   == <<held, mode>>
link    == <<m_isConnected, breaks>>
output  == <<told, missed>>
handler == <<vehicle, needExec, pc, raced, crowded, keys>>
counter == <<iTimers, thread, seen, ticks>>
vars    == <<handler, counter, power, link, output>>

\* Between the test of m_isPowerOffNeedExec and the release of the lock.
Decided(t) == thread[t] \in {"read", "count", "poweroff", "release"}

-----------------------------------------------------------------------------
(* The handler: ActionMsgHandler on a key message, ExecPowerEvent *)

\* A thread spawned earlier may still be asleep or at work.
ReceiveKey(k) ==
  /\ pc = "idle" /\ keys < MaxKeys
  /\ k # vehicle
  /\ k = "OFF" => \E t \in Threads : thread[t] = "none"
  /\ keys' = keys + 1
  /\ vehicle' = k
  /\ needExec' = (k = "OFF")
  /\ raced' = IF k = "OFF" THEN raced ELSE \E t \in Threads : Decided(t)
  /\ crowded' = IF k = "OFF" THEN \E t \in Threads : thread[t] # "none" ELSE crowded
  /\ ticks' = IF k = "OFF" THEN [t \in Threads |-> 0] ELSE ticks
  /\ pc' = IF k = "OFF" THEN "spawn" ELSE "acquire"
  /\ UNCHANGED <<iTimers, thread, seen, power, link, output>>

SpawnPowerOff ==
  /\ pc = "spawn"
  /\ \E t \in Threads : /\ thread[t] = "none"
                        /\ thread' = [thread EXCEPT ![t] = "check"]
  /\ pc' = "broadcast"
  /\ UNCHANGED <<vehicle, needExec, raced, crowded, keys, iTimers, seen, ticks, power, link,
                 output>>

AcquireEvent ==
  /\ pc = "acquire"
  /\ held' = TRUE
  /\ pc' = "normal"
  /\ UNCHANGED <<vehicle, needExec, raced, crowded, keys, counter, mode, link, output>>

SetPowerNormal ==
  /\ pc = "normal"
  /\ mode' = "normal"
  /\ pc' = "broadcast"
  /\ UNCHANGED <<vehicle, needExec, raced, crowded, keys, counter, held, link, output>>

\* MWBroadcastAccStatus, to ViewService and then to AudioService: only OFF is
\* told as OFF.
Status == IF vehicle = "OFF" THEN "OFF" ELSE "ON"

Tells(r, status) ==
  /\ IF m_isConnected
     THEN told' = [told EXCEPT ![r] = status] /\ missed' = missed \ {r}
     ELSE missed' = missed \cup {r} /\ UNCHANGED told
  /\ UNCHANGED <<vehicle, needExec, raced, crowded, keys, counter, power, link>>

\* Mutant: the name of the key position sent as it is.
SendKeyName ==
  /\ pc = "broadcast"
  /\ pc' = "audio"
  /\ Tells("view", vehicle)

SendViewPageInfo ==
  /\ pc = "broadcast"
  /\ pc' = "audio"
  /\ Tells("view", Status)

SendAudioWarnInfo ==
  /\ pc = "audio"
  /\ pc' = "idle"
  /\ Tells("audio", Status)

Handler ==
  \/ SpawnPowerOff
  \/ AcquireEvent
  \/ SetPowerNormal
  \/ SendViewPageInfo
  \/ SendAudioWarnInfo

\* The MQTT thread.
on_disconnect_callback ==
  /\ m_isConnected /\ breaks < MaxBreaks
  /\ m_isConnected' = FALSE
  /\ breaks' = breaks + 1
  /\ UNCHANGED <<handler, counter, power, output>>

on_connect_callback ==
  /\ ~m_isConnected
  /\ m_isConnected' = TRUE
  /\ UNCHANGED <<breaks, handler, counter, power, output>>

Link == on_disconnect_callback \/ on_connect_callback

-----------------------------------------------------------------------------
(* PowerOffTimerThread *)

Step(t, place) == thread' = [thread EXCEPT ![t] = place]

\* Mutant: the counter runs on without the flag.
CheckNothing(t) ==
  /\ thread[t] = "check"
  /\ Step(t, "read")
  /\ UNCHANGED <<iTimers, seen, ticks, handler, power, link, output>>

CheckNeedExec(t) ==
  /\ thread[t] = "check"
  /\ Step(t, IF needExec THEN "read" ELSE "reset")
  /\ UNCHANGED <<iTimers, seen, ticks, handler, power, link, output>>

\* iTimers++ == 150 is a read, a comparison and a write, without a lock.
ReadTimers(t) ==
  /\ thread[t] = "read"
  /\ seen' = [seen EXCEPT ![t] = iTimers]
  /\ Step(t, "count")
  /\ UNCHANGED <<iTimers, ticks, handler, power, link, output>>

\* Mutant: compared before the first tick.
CountFromOne(t) ==
  /\ thread[t] = "count"
  /\ iTimers' = IF seen[t] > Limit THEN seen[t] ELSE seen[t] + 1
  /\ ticks' = [ticks EXCEPT ![t] = IF @ > Limit THEN @ ELSE @ + 1]
  /\ Step(t, IF seen[t] + 1 = Limit THEN "poweroff" ELSE "check")
  /\ UNCHANGED <<seen, handler, power, link, output>>

Count(t) ==
  /\ thread[t] = "count"
  /\ iTimers' = IF seen[t] > Limit THEN seen[t] ELSE seen[t] + 1
  /\ ticks' = [ticks EXCEPT ![t] = IF @ > Limit THEN @ ELSE @ + 1]
  /\ Step(t, IF seen[t] = Limit THEN "poweroff" ELSE "check")
  /\ UNCHANGED <<seen, handler, power, link, output>>

SetPowerOff(t) ==
  /\ thread[t] = "poweroff"
  /\ mode' = "off"
  /\ Step(t, "release")
  /\ UNCHANGED <<iTimers, seen, ticks, held, handler, link, output>>

ReleaseEvent(t) ==
  /\ thread[t] = "release"
  /\ held' = FALSE
  /\ Step(t, "reset")
  /\ UNCHANGED <<iTimers, seen, ticks, mode, handler, link, output>>

\* Mutant: the static counter keeps its value for the next thread.
ResetNothing(t) ==
  /\ thread[t] = "reset"
  /\ Step(t, "none")
  /\ UNCHANGED <<iTimers, seen, ticks, handler, power, link, output>>

ResetTimers(t) ==
  /\ thread[t] = "reset"
  /\ iTimers' = 0
  /\ Step(t, "none")
  /\ UNCHANGED <<seen, ticks, handler, power, link, output>>

PowerOffTimerThread(t) ==
  \/ CheckNeedExec(t)
  \/ ReadTimers(t)
  \/ Count(t)
  \/ SetPowerOff(t)
  \/ ReleaseEvent(t)
  \/ ResetTimers(t)

-----------------------------------------------------------------------------
Init ==
  /\ vehicle = "DEFAULT" /\ needExec = FALSE
  /\ iTimers = 0
  /\ pc = "idle"
  /\ thread = [t \in Threads |-> "none"]
  /\ seen = [t \in Threads |-> 0]
  /\ held = FALSE /\ mode = "unset"
  /\ m_isConnected = TRUE /\ breaks = 0
  /\ told = [r \in Receivers |-> "none"] /\ missed = {}
  /\ raced = FALSE /\ crowded = FALSE
  /\ ticks = [t \in Threads |-> 0] /\ keys = 0

Next ==
  \/ \E k \in Keys : ReceiveKey(k)
  \/ Handler
  \/ Link
  \/ \E t \in Threads : PowerOffTimerThread(t)

\* The handler and every spawned thread go on; nobody has to turn the key.
Fairness ==
  /\ WF_vars(Handler)
  /\ \A t \in Threads : WF_vars(PowerOffTimerThread(t))

Spec     == Init /\ [][Next]_vars
FairSpec == Spec /\ Fairness

-----------------------------------------------------------------------------
(* Properties *)

TypeOK ==
  /\ vehicle \in Keys \cup {"DEFAULT"}
  /\ needExec \in BOOLEAN
  /\ iTimers \in 0..Limit + 1
  /\ pc \in {"idle", "spawn", "acquire", "normal", "broadcast", "audio"}
  /\ thread \in [Threads -> {"none", "check", "read", "count", "poweroff",
                             "release", "reset"}]
  /\ seen \in [Threads -> 0..Limit + 1]
  /\ held \in BOOLEAN /\ mode \in {"unset", "normal", "off"}
  /\ m_isConnected \in BOOLEAN /\ breaks \in 0..MaxBreaks
  /\ told \in [Receivers -> {"none", "ON", "OFF"}] /\ missed \subseteq Receivers
  /\ raced \in BOOLEAN /\ crowded \in BOOLEAN
  /\ ticks \in [Threads -> 0..Limit + 1] /\ keys \in 0..MaxKeys

\* While ViewService or AudioService has been told that the ignition is on, and
\* missed no message since, the system is powered and holds the lock, provided no
\* power-off thread was past its test when the key left OFF: there is no other
\* way to lose the power.
PowerFollowsAcc ==
  pc = "idle" /\ ~raced =>
    \A r \in Receivers \ missed : told[r] = "ON" => held /\ mode = "normal"

\* A thread sets the power off only after its own ticks, since the key went to
\* OFF, made up the whole delay, unless the key went to OFF while an earlier thread
\* was alive: then two of them count in the static variable, or it starts above 0.
FullDelay ==
  ~crowded => \A t \in Threads : thread[t] = "poweroff" => ticks[t] > Limit

\* With the key left at OFF the system goes to sleep, unless the threads of two
\* OFFs run the counter past the value they wait for.
SleepsAfterOff ==
  vehicle = "OFF" /\ ~crowded ~> (mode = "off" /\ ~held) \/ vehicle # "OFF"

\* The normal mode is set under the lock, the off mode before its release.
NormalIsHeld == mode = "normal" => held

=============================================================================
