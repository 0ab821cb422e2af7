-------------------------- MODULE PowerEventProofs --------------------------
(***************************************************************************)
(* Proofs about PowerEvent: type correctness, and that the power follows   *)
(* the ignition as long as no power-off thread had passed its test, for    *)
(* any number of threads, any delay and any number of key changes.         *)
(***************************************************************************)
EXTENDS PowerEvent, TLAPS

LEMMA InitTypes == Init => TypeOK
<1> SUFFICES ASSUME Init PROVE TypeOK
  OBVIOUS
<1>1. /\ needExec \in BOOLEAN /\ held \in BOOLEAN /\ raced \in BOOLEAN
      /\ crowded \in BOOLEAN /\ m_isConnected \in BOOLEAN
  BY DEF Init
<1>2. /\ iTimers \in 0..Limit + 1 /\ ticks \in [Threads -> 0..Limit + 1]
      /\ keys \in 0..MaxKeys /\ breaks \in 0..MaxBreaks
  BY PowerAssumption DEF Init
<1>3. seen \in [Threads -> 0..Limit + 1]
  BY PowerAssumption DEF Init
<1>. QED
  BY <1>1, <1>2, <1>3 DEF Init, TypeOK

LEMMA LinkTypes == TypeOK /\ Link => TypeOK'
<1> SUFFICES ASSUME TypeOK, Link PROVE TypeOK'
  OBVIOUS
<1>1. breaks \in 0..MaxBreaks /\ MaxBreaks \in Nat
  BY PowerAssumption DEF TypeOK
<1>2. breaks' \in 0..MaxBreaks /\ m_isConnected' \in BOOLEAN
  <2>1. CASE on_disconnect_callback
    <3>1. breaks < MaxBreaks /\ breaks' = breaks + 1 /\ m_isConnected' = FALSE
      BY <2>1 DEF on_disconnect_callback
    <3>2. breaks' \in 0..MaxBreaks
      BY <1>1, <3>1
    <3>. QED
      BY <3>1, <3>2
  <2>2. CASE on_connect_callback
    BY <1>1, <2>2 DEF on_connect_callback
  <2>. QED
    BY <2>1, <2>2 DEF Link
<1>3. UNCHANGED <<handler, counter, power, output>>
  BY DEF Link, on_disconnect_callback, on_connect_callback
<1>. QED
  BY <1>2, <1>3 DEF TypeOK, handler, counter, power, output

LEMMA HandlerTypes ==
  TypeOK /\ (Handler \/ \E k \in Keys : ReceiveKey(k)) => TypeOK'
<1> SUFFICES ASSUME TypeOK, Handler \/ \E k \in Keys : ReceiveKey(k)
             PROVE  TypeOK'
  OBVIOUS
<1>. USE PowerAssumption DEF TypeOK, handler, counter, power, link, output
<1>1. CASE \E k \in Keys : ReceiveKey(k)
  <2>1. PICK k \in Keys : ReceiveKey(k)
    BY <1>1
  <2>2. needExec' \in BOOLEAN
    BY <2>1 DEF ReceiveKey
  <2>3. raced' \in BOOLEAN
    <3>1. CASE k = "OFF"
      BY <2>1, <3>1 DEF ReceiveKey
    <3>2. CASE k # "OFF"
      BY <2>1, <3>2, Zenon DEF ReceiveKey
    <3>. QED
      BY <3>1, <3>2
  <2>4. /\ vehicle' \in Keys \cup {"DEFAULT"} /\ keys' \in 0..MaxKeys
        /\ ticks' \in [Threads -> 0..Limit + 1]
        /\ pc' \in {"idle", "spawn", "acquire", "normal", "broadcast", "audio"}
    BY <2>1 DEF ReceiveKey
  <2>5. crowded' \in BOOLEAN
    <3>1. CASE k = "OFF"
      BY <2>1, <3>1, Zenon DEF ReceiveKey
    <3>2. CASE k # "OFF"
      BY <2>1, <3>2 DEF ReceiveKey
    <3>. QED
      BY <3>1, <3>2
  <2>6. UNCHANGED <<iTimers, thread, seen, held, mode, link, output>>
    BY <2>1 DEF ReceiveKey
  <2>. QED
    BY <2>2, <2>3, <2>4, <2>5, <2>6
<1>2. CASE SpawnPowerOff
  BY <1>2 DEF SpawnPowerOff
<1>3. CASE AcquireEvent
  BY <1>3 DEF AcquireEvent
<1>4. CASE SetPowerNormal
  BY <1>4 DEF SetPowerNormal
<1>5. CASE SendViewPageInfo
  <2>1. /\ told' \in [Receivers -> {"none", "ON", "OFF"}] /\ missed' \subseteq Receivers
        /\ pc' = "audio"
        /\ UNCHANGED <<vehicle, needExec, raced, crowded, keys, counter, power, link>>
    BY <1>5 DEF SendViewPageInfo, Tells, Status, Receivers
  <2>. QED
    BY <2>1
<1>6. CASE SendAudioWarnInfo
  <2>1. /\ told' \in [Receivers -> {"none", "ON", "OFF"}] /\ missed' \subseteq Receivers
        /\ pc' = "idle"
        /\ UNCHANGED <<vehicle, needExec, raced, crowded, keys, counter, power, link>>
    BY <1>6 DEF SendAudioWarnInfo, Tells, Status, Receivers
  <2>. QED
    BY <2>1
<1>. QED
  BY <1>1, <1>2, <1>3, <1>4, <1>5, <1>6 DEF Handler

LEMMA ThreadTypes ==
  TypeOK /\ (\E t \in Threads : PowerOffTimerThread(t)) => TypeOK'
<1> SUFFICES ASSUME TypeOK, NEW t \in Threads, PowerOffTimerThread(t)
             PROVE  TypeOK'
  OBVIOUS
<1>. USE PowerAssumption DEF TypeOK, Step, handler, power, link, output
<1>1. CASE CheckNeedExec(t)
  BY <1>1 DEF CheckNeedExec
<1>2. CASE ReadTimers(t)
  BY <1>2 DEF ReadTimers
<1>3. CASE Count(t)
  BY <1>3 DEF Count
<1>4. CASE SetPowerOff(t)
  BY <1>4 DEF SetPowerOff
<1>5. CASE ReleaseEvent(t)
  BY <1>5 DEF ReleaseEvent
<1>6. CASE ResetTimers(t)
  BY <1>6 DEF ResetTimers
<1>. QED
  BY <1>1, <1>2, <1>3, <1>4, <1>5, <1>6 DEF PowerOffTimerThread

LEMMA StepTypes == TypeOK /\ [Next]_vars => TypeOK'
<1>1. CASE UNCHANGED vars
  BY <1>1 DEF TypeOK, vars, handler, counter, power, link, output
<1>. QED
  BY <1>1, HandlerTypes, ThreadTypes, LinkTypes DEF Next

\* The variables keep their types, the counter included: it saturates above
\* the delay.
THEOREM PowerTypeCorrect == Spec => []TypeOK
  BY InitTypes, StepTypes, PTL DEF Spec

-----------------------------------------------------------------------------
(* The strengthening of PowerFollowsAcc.  The flag is up exactly while the   *)
(* key is at OFF, so that, once it is down, only a thread that had read it   *)
(* before can still take the power away; the handler restores the lock and   *)
(* then the mode before it tells the other processes.                        *)

FlagFollowsKey ==
  /\ needExec <=> vehicle = "OFF"
  /\ pc = "spawn" => vehicle = "OFF"
  /\ pc \in {"acquire", "normal"} => vehicle # "OFF"

\* Nobody can take the power away.
Safe == vehicle # "OFF" /\ ~raced

NobodyDecided == Safe => \A t \in Threads : ~Decided(t)

PowerRestored ==
  /\ Safe /\ pc = "normal" => held
  /\ Safe /\ pc \in {"broadcast", "audio"} => held /\ mode = "normal"
  /\ Safe /\ pc = "idle" /\ (\E r \in Receivers \ missed : told[r] = "ON") =>
       held /\ mode = "normal"

\* What the others were told is what the key said, unless they missed it.
ToldTheKey ==
  /\ pc \in {"idle", "audio"} /\ "view" \notin missed /\ told["view"] = "ON" =>
       vehicle # "OFF"
  /\ pc = "idle" /\ "audio" \notin missed /\ told["audio"] = "ON" => vehicle # "OFF"

PowerInv == FlagFollowsKey /\ NobodyDecided /\ PowerRestored /\ ToldTheKey

LEMMA InitPower == Init => PowerInv
  BY DEF Init, PowerInv, FlagFollowsKey, NobodyDecided, PowerRestored,
         ToldTheKey, Safe, Decided, Receivers

LEMMA PowerInvSuffices == PowerInv => PowerFollowsAcc
  BY DEF PowerInv, PowerRestored, ToldTheKey, Safe, PowerFollowsAcc, Receivers

LEMMA HandlerPower ==
  TypeOK /\ PowerInv /\ (Handler \/ \E k \in Keys : ReceiveKey(k)) => PowerInv'
<1> SUFFICES ASSUME TypeOK, PowerInv, Handler \/ \E k \in Keys : ReceiveKey(k)
             PROVE  PowerInv'
  OBVIOUS
<1>. USE DEF PowerInv, FlagFollowsKey, NobodyDecided, PowerRestored,
             ToldTheKey, Safe, Decided, handler, counter, power, link, output
<1>1. CASE \E k \in Keys : ReceiveKey(k)
  <2>1. PICK k \in Keys : ReceiveKey(k)
    BY <1>1
  <2>. QED
    BY <2>1 DEF ReceiveKey
<1>2. CASE SpawnPowerOff
  BY <1>2 DEF SpawnPowerOff
<1>3. CASE AcquireEvent
  BY <1>3 DEF AcquireEvent
<1>4. CASE SetPowerNormal
  BY <1>4 DEF SetPowerNormal
<1>5. CASE SendViewPageInfo
  <2>1. /\ pc = "broadcast" /\ pc' = "audio"
        /\ UNCHANGED <<vehicle, needExec, raced, crowded, keys, counter, power, link>>
    BY <1>5 DEF SendViewPageInfo, Tells
  <2>2. "view" \notin missed' /\ told'["view"] = "ON" => vehicle # "OFF"
    BY <1>5 DEF SendViewPageInfo, Tells, Status, TypeOK, Receivers
  <2>. QED
    BY <2>1, <2>2
<1>6. CASE SendAudioWarnInfo
  <2>1. /\ pc = "audio" /\ pc' = "idle"
        /\ UNCHANGED <<vehicle, needExec, raced, crowded, keys, counter, power, link>>
    BY <1>6 DEF SendAudioWarnInfo, Tells
  <2>2. /\ "audio" \notin missed' /\ told'["audio"] = "ON" => vehicle # "OFF"
        /\ "view" \notin missed' => "view" \notin missed /\ told'["view"] = told["view"]
    BY <1>6 DEF SendAudioWarnInfo, Tells, Status, TypeOK, Receivers
  <2>. QED
    BY <2>1, <2>2
<1>. QED
  BY <1>1, <1>2, <1>3, <1>4, <1>5, <1>6 DEF Handler

\* A thread at work while it is safe has not decided: it goes to its reset.
LEMMA ThreadPower ==
  TypeOK /\ PowerInv /\ (\E t \in Threads : PowerOffTimerThread(t)) => PowerInv'
<1> SUFFICES ASSUME TypeOK, PowerInv, NEW t \in Threads, PowerOffTimerThread(t)
             PROVE  PowerInv'
  OBVIOUS
<1>1. UNCHANGED <<handler, output>>
  BY DEF PowerOffTimerThread, CheckNeedExec, ReadTimers, Count, SetPowerOff,
         ReleaseEvent, ResetTimers
<1>2. NobodyDecided' /\ (Safe => UNCHANGED power)
  <2>1. CASE Safe
    <3>1. ~Decided(t) /\ ~needExec
      BY <2>1 DEF PowerInv, NobodyDecided, FlagFollowsKey, Safe
    <3>2. CheckNeedExec(t) \/ ResetTimers(t)
      BY <3>1 DEF PowerOffTimerThread, ReadTimers, Count, SetPowerOff,
                  ReleaseEvent, Decided
    <3>3. UNCHANGED power
      BY <3>2 DEF CheckNeedExec, ResetTimers
    <3>4. thread' = [thread EXCEPT ![t] = "reset"]
             \/ thread' = [thread EXCEPT ![t] = "none"]
      BY <3>1, <3>2 DEF CheckNeedExec, ResetTimers, Step
    <3>5. \A s \in Threads : ~Decided(s)'
      BY <2>1, <3>4 DEF PowerInv, NobodyDecided, Decided, TypeOK
    <3>. QED
      BY <3>3, <3>5 DEF NobodyDecided
  <2>2. CASE ~Safe
    BY <1>1, <2>2 DEF NobodyDecided, Safe, handler
  <2>. QED
    BY <2>1, <2>2
<1>. QED
  BY <1>1, <1>2 DEF PowerInv, FlagFollowsKey, PowerRestored, ToldTheKey, Safe,
                    handler, power, output

LEMMA StepPower == TypeOK /\ PowerInv /\ [Next]_vars => PowerInv'
<1>1. CASE UNCHANGED vars
  BY <1>1 DEF PowerInv, FlagFollowsKey, NobodyDecided, PowerRestored, ToldTheKey,
              Safe, Decided, vars, handler, counter, power, output
<1>2. CASE Link
  BY <1>2 DEF PowerInv, FlagFollowsKey, NobodyDecided, PowerRestored, ToldTheKey,
              Safe, Decided, Link, on_disconnect_callback, on_connect_callback,
              handler, counter, power, output
<1>. QED
  BY <1>1, <1>2, HandlerPower, ThreadPower DEF Next

\* While a receiver that missed no message believes the ignition on, the system
\* is powered and holds the lock, unless a power-off thread was past its test
\* when the key left OFF.
THEOREM PowerCorrect == Spec => []PowerFollowsAcc
<1>1. Init => TypeOK /\ PowerInv
  BY InitTypes, InitPower
<1>2. (TypeOK /\ PowerInv) /\ [Next]_vars => (TypeOK /\ PowerInv)'
  BY StepTypes, StepPower
<1>3. TypeOK /\ PowerInv => PowerFollowsAcc
  BY PowerInvSuffices
<1>. QED
  BY <1>1, <1>2, <1>3, PTL DEF Spec

-----------------------------------------------------------------------------
(* The delay: a power-off thread that starts when no other is alive *)

Asleep == \A t \in Threads : thread[t] = "none"

OneThread ==
  \A t, u \in Threads : thread[t] # "none" /\ thread[u] # "none" => t = u

\* The last thread leaves the static counter at 0, and with one thread since the
\* key went to OFF the counter does not run ahead of its ticks.
CounterFollows ==
  /\ Asleep => iTimers = 0
  /\ ~crowded =>
       /\ OneThread
       /\ pc = "spawn" => Asleep /\ \A t \in Threads : ticks[t] = 0
       /\ \A t \in Threads :
            /\ thread[t] \in {"check", "read"} => iTimers <= ticks[t]
            /\ thread[t] = "count" => seen[t] <= ticks[t]

DelayInv == CounterFollows /\ FullDelay

LEMMA InitDelay == Init => DelayInv
  BY PowerAssumption DEF Init, DelayInv, OneThread, CounterFollows, FullDelay, Asleep

LEMMA HandlerDelay ==
  ASSUME TypeOK, DelayInv, Handler \/ \E k \in Keys : ReceiveKey(k)
  PROVE  DelayInv'
<1>1. CASE \E k \in Keys : ReceiveKey(k)
  <2>1. PICK k \in Keys : ReceiveKey(k)
    BY <1>1
  <2>2. UNCHANGED <<iTimers, thread, seen>>
    BY <2>1 DEF ReceiveKey
  <2>3. CASE k = "OFF"
    <3>1. /\ crowded' = ~Asleep /\ ticks' = [t \in Threads |-> 0]
      BY <2>1, <2>3 DEF ReceiveKey, Asleep
    <3>2. CASE Asleep
      BY <2>2, <3>1, <3>2 DEF DelayInv, OneThread, CounterFollows, FullDelay, Asleep
    <3>3. CASE ~Asleep
      BY <2>2, <3>1, <3>3 DEF DelayInv, CounterFollows, FullDelay, Asleep
    <3>. QED
      BY <3>2, <3>3
  <2>4. CASE k # "OFF"
    <3>1. UNCHANGED <<crowded, ticks>> /\ pc' = "acquire"
      BY <2>1, <2>4 DEF ReceiveKey
    <3>. QED
      BY <2>2, <3>1 DEF DelayInv, OneThread, CounterFollows, FullDelay, Asleep
  <2>. QED
    BY <2>3, <2>4
<1>2. CASE SpawnPowerOff
  <2>1. PICK t \in Threads : thread' = [thread EXCEPT ![t] = "check"]
    BY <1>2 DEF SpawnPowerOff
  <2>2. pc = "spawn" /\ pc' = "broadcast" /\ UNCHANGED <<iTimers, seen, ticks, crowded>>
    BY <1>2 DEF SpawnPowerOff
  <2>3. thread'[t] = "check" /\ ~Asleep'
    BY <2>1 DEF TypeOK, Asleep
  <2>4. CASE crowded
    BY <2>2, <2>3, <2>4 DEF DelayInv, CounterFollows, FullDelay
  <2>5. CASE ~crowded
    <3>1. Asleep /\ iTimers = 0 /\ ticks[t] = 0
      BY <2>2, <2>5 DEF DelayInv, CounterFollows
    <3>2. \A u \in Threads : thread'[u] = IF u = t THEN "check" ELSE "none"
      BY <2>1, <3>1 DEF TypeOK, Asleep
    <3>. QED
      BY <2>2, <2>3, <3>1, <3>2 DEF DelayInv, OneThread, CounterFollows, FullDelay
  <2>. QED
    BY <2>4, <2>5
<1>3. CASE AcquireEvent \/ SetPowerNormal \/ SendViewPageInfo \/ SendAudioWarnInfo
  <2>1. UNCHANGED <<counter, crowded>> /\ pc' # "spawn"
    BY <1>3 DEF AcquireEvent, SetPowerNormal, SendViewPageInfo, SendAudioWarnInfo, Tells
  <2>. QED
    BY <2>1 DEF DelayInv, OneThread, CounterFollows, FullDelay, Asleep, counter
<1>4. QED
  BY <1>1, <1>2, <1>3 DEF Handler

LEMMA ThreadDelay ==
  ASSUME TypeOK, DelayInv, NEW t \in Threads, PowerOffTimerThread(t)
  PROVE  DelayInv'
<1>1. UNCHANGED <<pc, crowded>>
  BY DEF PowerOffTimerThread, CheckNeedExec, ReadTimers, Count, SetPowerOff,
         ReleaseEvent, ResetTimers, handler
<1>2. thread[t] # "none"
  BY DEF PowerOffTimerThread, CheckNeedExec, ReadTimers, Count, SetPowerOff,
         ReleaseEvent, ResetTimers
<1>3. PICK place : thread' = [thread EXCEPT ![t] = place]
  BY DEF PowerOffTimerThread, CheckNeedExec, ReadTimers, Count, SetPowerOff,
         ReleaseEvent, ResetTimers, Step
<1>4. thread'[t] = place /\ \A u \in Threads : u # t => thread'[u] = thread[u]
  BY <1>3 DEF TypeOK
<1>5. Asleep' => iTimers' = 0
  <2>1. CASE ResetTimers(t)
    BY <2>1 DEF ResetTimers
  <2>2. CASE ~ResetTimers(t)
    <3>1. place # "none"
      BY <1>4, <2>2 DEF PowerOffTimerThread, CheckNeedExec, ReadTimers, Count,
                        SetPowerOff, ReleaseEvent, Step, TypeOK
    <3>. QED
      BY <1>4, <3>1 DEF Asleep
  <2>. QED
    BY <2>1, <2>2
<1>6. CASE crowded
  BY <1>1, <1>5, <1>6 DEF DelayInv, CounterFollows, FullDelay
<1>7. CASE ~crowded
  <2>1. ~Asleep /\ pc # "spawn" /\ \A u \in Threads : u # t => thread[u] = "none"
    BY <1>2, <1>7 DEF DelayInv, OneThread, CounterFollows, Asleep
  <2>2. \A u \in Threads : u # t => thread'[u] = "none"
    BY <1>4, <2>1
  <2>3. OneThread'
    BY <2>2 DEF OneThread
  <2>4. /\ iTimers \in 0..Limit + 1 /\ ticks[t] \in 0..Limit + 1 /\ seen[t] \in 0..Limit + 1
        /\ Limit \in Nat
    BY PowerAssumption DEF TypeOK
  <2>5. /\ thread[t] \in {"check", "read"} => iTimers <= ticks[t]
        /\ thread[t] = "count" => seen[t] <= ticks[t]
        /\ thread[t] = "poweroff" => ticks[t] > Limit
    BY <1>7 DEF DelayInv, CounterFollows, FullDelay
  <2>6. /\ place \in {"check", "read"} => iTimers' <= ticks'[t]
        /\ place = "count" => seen'[t] <= ticks'[t]
        /\ place = "poweroff" => ticks'[t] > Limit
    <3>1. CASE CheckNeedExec(t)
      BY <1>3, <1>4, <2>5, <3>1 DEF CheckNeedExec, Step, TypeOK
    <3>2. CASE ReadTimers(t)
      BY <1>4, <2>5, <3>2 DEF ReadTimers, Step, TypeOK
    <3>3. CASE Count(t)
      <4>1. place = IF seen[t] = Limit THEN "poweroff" ELSE "check"
        BY <1>4, <3>3 DEF Count, Step, TypeOK
      <4>2. /\ ticks'[t] = IF ticks[t] > Limit THEN ticks[t] ELSE ticks[t] + 1
            /\ iTimers' = IF seen[t] > Limit THEN seen[t] ELSE seen[t] + 1
            /\ thread[t] = "count"
        BY <3>3 DEF Count, TypeOK
      <4>3. QED
        BY <2>4, <2>5, <4>1, <4>2
    <3>4. CASE SetPowerOff(t)
      BY <1>4, <3>4 DEF SetPowerOff, Step, TypeOK
    <3>5. CASE ReleaseEvent(t)
      BY <1>4, <3>5 DEF ReleaseEvent, Step, TypeOK
    <3>6. CASE ResetTimers(t)
      BY <1>4, <3>6 DEF ResetTimers, Step, TypeOK
    <3>7. QED
      BY <3>1, <3>2, <3>3, <3>4, <3>5, <3>6 DEF PowerOffTimerThread
  <2>7. QED
    BY <1>1, <1>4, <1>5, <1>7, <2>1, <2>2, <2>3, <2>6 DEF DelayInv, CounterFollows, FullDelay
<1>8. QED
  BY <1>6, <1>7

\* The power is set off only after the whole delay, whatever the key does, unless
\* it went to OFF while an earlier thread was alive.
THEOREM DelayCorrect == Spec => []FullDelay
<1>1. Init => TypeOK /\ DelayInv
  BY InitTypes, InitDelay
<1>2. (TypeOK /\ DelayInv) /\ [Next]_vars => (TypeOK /\ DelayInv)'
  <2> SUFFICES ASSUME TypeOK, DelayInv, [Next]_vars PROVE (TypeOK /\ DelayInv)'
    OBVIOUS
  <2>1. CASE Handler \/ \E k \in Keys : ReceiveKey(k)
    BY <2>1, HandlerDelay, StepTypes
  <2>2. CASE \E t \in Threads : PowerOffTimerThread(t)
    BY <2>2, ThreadDelay, StepTypes
  <2>3. CASE UNCHANGED vars \/ Link
    BY <2>3, StepTypes DEF DelayInv, OneThread, CounterFollows, FullDelay, Asleep,
                           vars, handler, counter, Link, on_disconnect_callback,
                           on_connect_callback
  <2>4. QED
    BY <2>1, <2>2, <2>3 DEF Next
<1>3. DelayInv => FullDelay
  BY DEF DelayInv
<1>4. QED
  BY <1>1, <1>2, <1>3, PTL DEF Spec

=============================================================================
