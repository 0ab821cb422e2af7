# SOC-Middleware in TLA+

The middleware of an instrument cluster: three processes on one Linux SoC that turn what the
microcontroller (MCU) reports about the vehicle into warnings on the display and sounds.  This
directory holds TLA+ models of the parts where threads, timers and lost messages make the code
hard to test, TLC configurations for small instances, and proofs for TLAPS.

`MsgHandler.cpp` below means `src/ViewService/Control/MsgHandler.cpp`, and so on; `CP` is
`src/CoreProcessor/CoreMsgHandler/CoreMsgHandler.cpp`.

## 1. The system

```
 MCU <--ECP--> CoreProcessor --(warnings)----> ViewService --(pages)--> HMI
                 |    ^   |                         |
              HMI requests +--(sounds, ACC)--> AudioService <--(sound of a warning)--+
                 |              all arrows but ECP: MQTT topics of a local broker
```

Each process has a mosquitto thread that puts every message into a FIFO (`Forwarder`), a receiver
thread that polls the FIFO every 10 ms, and worker threads of its own.  A message between the
processes is a JSON object of three strings, keyname1, keyname2 and onoff.

| Component | State | Operations | Hard behaviour | What makes it correct |
|---|---|---|---|---|
| ViewService, warning scheduler (`MsgHandler.cpp`, `Actuator.cpp`) | three lists of warnings (serious, fresh, rotation), the current warning, ACC status, a hidden flag, two timers, a semaphore | a warning turned ON or OFF, ACC, hide, "get current"; the handler's pass; the removal of the warning whose time ran out | three threads share three lists under separate mutexes; decisions on copies; timers racing the handler | serious first and in order; nothing lost or shown twice; minimum display time; sound agrees with the page; rotation goes on |
| ViewService, pages (`WarnPageControl.cpp`) | none | build the page of a warning | the order of the door bytes is written down three times | a page tells its warning and its extras, and two pages are compared by what they show |
| Configuration of both services (`ViewInfo.cpp`, `XmlManager.cpp`, `readXmlFile.cpp`) | map of views, map of sounds | read view.xml, audio.xml | elements and attributes that repeat or are missing; a file that is read in part | each view and sound is read from one element alone; an error stops ViewService |
| CoreProcessor, power (`CP` 527-571, 2059-2114) | ignition key, flag, a static counter, wake lock, power mode | key message, detached power-off thread per OFF | test under a mutex, action after it; the counter shared without a lock | awake while the ignition is on, asleep after the delay |
| CoreProcessor, doors and speed (`CP` 646-783, 1056-1183) | speed, door bits, telltale, overspeed flag, faults | door message, speed message | two handlers decide under which of two warnings a door is; messages dropped while disconnected | ViewService knows each open door under exactly the right warning |
| CoreProcessor, other signals (`CP` 573-644, 784-1050, 1186-1770) | last value of every signal, faults | one handler per message of the MCU | edge-triggered; values cut into segments | every receiver knows the present state, but for dropped messages |
| CoreProcessor, requests of the HMI (`CP` 155-516, 1773-1956) | none of its own | translate a request | runs in another thread than the MCU callbacks, on shared data | every request is answered |
| AudioService (`playControl.cpp`, `soundplay.cpp`, `handle.cpp`) | list of sounds, current sound, ACC status, owner of the audio, status and exit flag of the play thread | sound ON or OFF, ACC, owner; the control's pass; a play thread per sound | handle, control and play threads; fields written under no lock | most urgent sound first, one player at a time, tick and tock of the turn signal exclusive |
| MQTT link (`MqttConnection.cpp`, `Forwarder.cpp`) | connected flag, subscriptions, FIFO | connect, subscribe, disconnect, reconnect, publish, message | the flag is behind the connection; a clean session that is not subscribed again; messages sent twice | messages arrive in order, with gaps only where a connection or a process was lost; the newest is the last |
| Messages between the processes (`JsonHandler.cpp`, the part of `cJSON.cpp` it uses) | none | print and parse an object of three strings | escapes, surrogate pairs, buffers counted in one place and written in another | what one process writes the other reads; no buffer is passed |
| Conversions (`Util.h`) | none | hexadecimal texts, length fields, the float put together by hand | rounding, zero and the largest exponent without a case of their own, decimal and hexadecimal digits mixed | monotonic and one unit close for normal numbers; a length field tells the length |
| TinyXML | none | read the elements and attributes of a file | it stops at a repeated attribute, and only one of the two services looks whether it did | modelled as far as that, in `Config` |
| `PriorityQueue.hpp`, the rest of cJSON | | | third-party or unused | not modelled |

The hazards we found in this code, each with its line and the properties that watch it, are in
`PROJECT.json`.

## 2. Modules

| Module | Models | Proofs |
|---|---|---|
| `MsgHandler` (`MCMsgHandler`: values of view.xml) | the warning scheduler | `MsgHandlerProofs` |
| `PowerEvent` | the power events | `PowerEventProofs` |
| `DoorWarning` | door and overspeed warnings, the dropped messages | `DoorWarningProofs` |
| `CoreSignals` (`MCCoreSignals`: which signals change) | the other signals and the requests of the HMI | `CoreSignalsProofs` |
| `PlayControl` (`MCPlayControl`: values of audio.xml) | sounds and play threads | `PlayControlProofs` |
| `Channel` | what a topic promises: an ordered channel that loses and repeats stretches | |
| `MqttLink` | one topic: two processes, their connections, the broker, the FIFO; implements `Channel` | `MqttLinkProofs` |
| `Middleware` | `DoorWarning`, the topic and `MsgHandler` composed | `MiddlewareProofs` |
| `Json`, `Codec`, `Pages`, `Config` (`MCCodec`, `MCConversions`: inputs that grow) | the pure functions | `ConversionProofs`, on the terms of `ConversionTerms` |

`MsgHandler`, `PowerEvent`, `DoorWarning`, `CoreSignals` and `PlayControl` share no variables: the
processes they model meet only in MQTT messages.  An environment of each module sends what the
other process may send, and `Middleware` joins two of them.  `MsgHandler`'s `EdgeTriggered` is the
discipline of CoreProcessor: a message per change, except for the views of `Resent`.  These are the
doors, whose messages the speed handler sends again, and tiresystemfault, which `CP` 1591 sends again
with every status byte that has another bit set (see CoreSignals).  `OnlyChanges` of `CoreSignals` and
`EdgesKept` of `Middleware` say that CoreProcessor keeps it; both are checked and proved.  The FIFO of
`Middleware` is what `MqttLink` leaves of a topic whose receiver stays subscribed.

### MsgHandler

Variables carry the members of the class (`serious` is `m_seriousViewList`, `cur` is
`m_currViewNode`, `done` is `g_isAtLeastTimeDone`, `posts` the value of the semaphore).  A node is
the name of the view and the set of its extras that are ON; only doorwarn and doorinfo have more
than one.  A step is one block under a mutex, or one unlocked access, of one of the three threads
(`pc`), so all interleavings the mutexes admit are there:

* receiver - `ReceiveWarn`, then for a serious view `UpdateSeriousWarnList`, for another one
  `IsNodeExistInLoopList`, `GetLoopDoorInfoNode`, `TakeFromLoop`, `IsNodeExistInFreshList`,
  `SetFreshNode`, `AppendFresh` or `AppendDoorInfo`, and always `SortLoop`;
* handler - `HandleWarnViews` starts a pass, `GetSeriousWarnListNode`, `PickList`,
  `GetFrashWarnListNode` and `GetLoopWarnListNode` choose the next node, which is shown
  (`StartTimers`, `SetCurrent`) or, being OFF, erased from the lists and cleared, and told to the others;
* actuator - `RemoveCurrentWarn` when the semaphore is posted, the erasures, `PushLoopAgain`;
* to tell the others, the handler and a get_curr_warn of the receiver go through three steps:
  `Notify` tests the ACC status and the hiding, `SendAudioWarnInfo` sends the sound, with the status of
  the current warning, and `MsgSend` the page, with that of the node.  Each of the two tests
  `m_isConnected` for itself (Actuator.cpp:74, 82), which the MQTT thread changes at any moment, and
  drops its message without a word.  A get_curr_warn holds the mutex of the current warning from its
  first step to its last (`CurrWarnLocked`).

Histories, which no action reads but to write them: `missed` (the last sound or page of a view was
dropped), `told` (what the messages received say), `crossed` (a warning was turned on while a node of
its OFF was still in the fresh list or in the hands of a thread), `shown` (the time that has surely
passed since the handler started the timers for the warning on the screen), `races` (what raced those
timers: an expiry not yet notified, a post not yet taken, a get_curr_warn).

`std::sort` is not stable: `SortedByPriority` admits every ordered permutation.  The notification
thread of the minimum display timer is separate from its expiry.  The code never restarts the
timers' real time here: `WarnShowTimerThreadFun` waits for the minimum display time, as every loop
time of view.xml exceeds it by seconds.  With `Prompt`, a thread that is at work when a timer is
started finishes that pass (microseconds, or a 10 ms poll) before a timer of a second expires;
without it a thread may be arbitrarily slow.

### PowerEvent

`ReceiveKey` is the key message, the handler's steps (`SpawnPowerOff`, `AcquireEvent`, `SetPowerNormal`,
then `SendViewPageInfo` and `SendAudioWarnInfo`, the two messages of `MWBroadcastAccStatus`) follow one
another.  Each message is dropped if `m_isConnected` is false at that moment, so that one receiver may
hold an older status than the other (`told`, `missed`).  Each detached thread tests the flag, reads and
writes the static counter, and sets the power off, in separate steps.  150 ticks are `Limit`; the
counter stops at `Limit + 1`, which stands for every larger value, as only the comparison with `Limit`
and the reset look at it.  Any number of threads may live at once; the histories `raced` and `crowded`
say that the key left OFF when a thread was past its test, and that it went to OFF while an earlier
thread was alive.

### DoorWarning

`DoorMessage` and `SpeedMessage` are the two handlers, whole; they hand their messages to
`pending`, and `SendViewPageInfo` sends them one by one, dropping each when `m_isConnected` is
false at that moment.  Speeds are integers in 0.00001 km/h and `Printed` is the rounding of "%.4f"
that the speed handler applies before it compares, while the door handler compares the speed as it is:
`askew` has the doors that were opened or closed at a speed the rounding takes across the threshold, until
the next report of the speed moves those that are open.  `lost` remembers which message was the last
of its warning and was dropped.  The threshold of the code is 9.50 km/h where view.xml:4 and
DataToHMIDefine.h:541 speak of 10 km/h; the display rounds to whole numbers, and we take the code.

### CoreSignals

A report of the MCU is a set of bits, but for the fuel (percent) and the coolant (tenths of a degree).
`wire` is the line from the MCU, in order; each handler of `CP` is one action, which takes the head of
the line, updates the stored copies (`lamps` is `warn_light_t`, `warns` the flags of `warnInfo_t`,
`faults` the list of faults ...) and leaves in `out` the messages it publishes, in the order of the
code.  `MsgSend` publishes them one by one: those for ViewService and AudioService are dropped when
`m_isConnected` is false at that moment (HMI messages have no such test: the library keeps or loses
them).  `RequestReport` is a request that makes the MCU report again, `RequestClean` one that resets a
value of the MCU, `RequestMusic` with `SendReply` one answered from the stored data by the thread of the
requests, while the callback thread goes on.  After `on_disconnect` the session is clean and the topics
are not subscribed again, so that `subscribed` stays false and no request arrives.  Where only a
percentage, a temperature or the passing on of a value is at stake, the value is a member of a small
set; the gauges are one action, `Gauge`, as their handlers differ only in the field they format.
`TirePressure` compares as `CP` 1591 is parsed, `(stored != byte) & 1`, where the stored value is the
lowest bit: a byte with another bit set differs from it in every report, and the same status and list of
faults are sent again (`Resends`).

`told` is the last value each receiver has for a key, `lost` the keys whose last message was not
received, and at first those that were never sent.  Signals change and requests are taken between
two handlers, which is no restriction: what joins the line while a handler works is read by a later
one.  Assumptions about the MCU: it keeps its own state and reports each change; it reports a value
it was asked to reset (E02_AsynSet of the mileage and the consumption); its danger bit means both
turn lamps (the ICM SRD among the documents in src/); the lane lamps are two values of one field.  Reports
with a length other than the protocol's are left out, as are the door lamp and the door and speed
faults, which are `DoorWarning`'s.

### PlayControl

`PushSound` is `pushSound` up to the test of `m_pCurSound`, `ComparePriority` the second read of
it; between the two the control thread may write it.  A second read that finds NULL ends the
process (`crashed`).  `Look`, `RemoveOneSound`, `StopPlay` and `PlayWarning` are the steps of
`handleNode`; `AudioPlayThread` leaves its loop and `SetStop` is the last statement of that thread,
which may come after the next one was started.  All sounds of audio.xml are wm1 and replay, so
that mode continue and the other power modes are left out.  `Insert` is `push_back` with the stable
`list::sort`, said by where the sound comes to stand, and `ListRemove` is `list::remove`.

### MqttLink and Channel

Each process goes through `Connect` (in the constructor), `Subscribe`, `Run` (the mosquitto thread)
and `Start` (the thread that polls the FIFO).  `m_isConnected` follows the connection in two
callbacks, so that a process may publish into a connection that is gone.  `LinkLost` and `Crash`
happen at any moment; the session is clean and nobody subscribes again, so `EndSession` takes the
subscription of the receiver and what the broker has for it.  The library keeps a message of QoS 1
until it is acknowledged: `Reconnect` of the sender sets `accepted` back to `acked`.  Broker and
library are not in src/ and are modelled from how `MqttConnection.cpp` uses them; a message is its
number.

`Channel` has the number of messages sent, those still to be delivered, and the last one delivered.
The refinement mapping of `MqttLink` (`Abstract`) makes `todo` of the FIFO, then what the broker
has, then what it has not taken: a callback of the library, the broker's step and a loss that takes
nothing are stutters; `LinkLost` and `Crash` lose a stretch in the middle or all of it; `Reconnect`
rewinds.

### Middleware

Three parts of one state: `Core` (`DoorWarning`) and `Scheduler` (`MsgHandler`, taking any message that
arrives), both without a lost connection, and the topic.  `Alone` is a second instance of `MsgHandler`
on the same variables, that of its own runs, whose receiver takes only the messages of an environment
that sends changes (`EdgeTriggered`): `EdgesKept` is `Alone`'s specification, and says that the
composition never delivers any other.  `SendViewPageInfo` sends in the order of the code's statements,
which `DoorWarning` leaves open; `MsgReciever` hands the head of the FIFO to the receiver's actions.
The key is turned on once, and the car does not move before.

### Json, Codec, Pages, Config

Pure functions of sequences of bytes.  `Json` is `GetWarnSendData` and `WarnMsgParse` with the printer
and the parser of cJSON they use: `print_value` gives pieces with the room each asked for (`Ensured`)
and the bytes it writes, `Parse` the tree and the place it stopped at.  A byte 0 ends a text, as in the
code.  Numbers, which no message has, are left out.  `Codec` has the hexadecimal texts, the length
fields (that of the subtotal mileage is halved, `CP` 1389) and `IEE754_HexToFloat`, which takes the
sign, the exponent and the mantissa apart and multiplies them again.  A word is those three fields, of
`PowerBits` and `MantissaBits` bits (8 and 23 in the code), and a float a sign and a size in units of
the smallest denormal number, 2^(1-Bias-MantissaBits), infinity being the first size above all.  The
division by 0x7fffff is carried out with the rounding of a float; no exponent has a case of its own, so
that the words of zero and of the denormal numbers get a leading one, and those of exponent 255 are
multiplied until they are infinite.  Powers of two are a recursive function, and a number has at most
the ten digits of 32 bits.  `Pages` is the page of each warning; `DoorByte` is the order of the doors in
a page and `DoorPlace` that in the flags two door warnings are compared by, as the code writes them down
twice.  `Config` turns the elements and attributes of a file into views and sounds.  Of TinyXML it has
what becomes of a repeated attribute (tinyxmlparser.cpp:1157-1168): the reading stops there with an
error, the attributes and elements before it stay, of the two values of that name the second
(`ReadAttributes`, `ElementsRead`).  ViewService exits then (`XmlParse`), AudioService goes on with what
was read (`paraseFile`).  An attribute of the root, which both files have none of, would leave nothing
to be read if it were repeated. `MCConversions` is the machine that makes the inputs: it grows a
message, a JSON text or a file by one piece at a time, and `MCCodec`, which it extends, the word of a
float, the number of a gauge and a node; every property is an invariant about the input it has arrived
at.  The recursions of the code (the parser in the depth, the length of a list, the powers of two, the
loops over attributes and elements) are recursive functions, never operators, so that they can be proved
about.  A property binds a text and what is made of it with `\A x \in {...}`, so that each is computed
once.

## 3. Runs

| Run | Checks | Instance | States |
|---|---|---|---|
| `WarnLists` | TypeOK, SeriousOrdered, SoundAgrees, LoopSound, MinDisplay, SeriousUntimed | two serious views and doorinfo with two doors, every request, three messages that may repeat, one lost connection, slow threads | 3,970,010 |
| `WarnSerious` | RepeatKept, SeriousShown (liveness) | a serious, a single and a repeating warning turned on and off, get_curr_warn, five messages | 1,007,060 |
| `WarnRotation` | FreshDrains, LoopRotates (liveness) | three repeating warnings that stay on, four messages | 7,945 |
| `PowerKeys` | TypeOK, FullDelay, PowerFollowsAcc, SleepsAfterOff (liveness) | two power-off threads, delay 2, four key changes and one lost connection at any moment | 2,112,055 |
| `DoorSpeeds` | TypeOK, ViewKnowsDoors, ViewKnowsLimit | two doors, eight speeds around both thresholds, two of which are rounded to a threshold, one lost connection | 1,376,983 |
| `SignalsKnown` | TypeOK, WarningsKnown, LampsKnown, FaultsKnown, OnlyChanges | a bit or two of every handler, percentages and temperatures at the thresholds, two changes, one request, one lost connection | 2,277,236 |
| `SoundList` | TypeOK, ListOrdered, TurnExclusive, OnePlays, CurrentListed, WaitEnds (liveness) | two warnings and the turn signals, five messages | 65,241 |
| `TopicLink` | TypeOK, ChannelSpec (refinement), NewestKept, Delivered (liveness) | three messages, two lost connections or processes at any moment | 132,986 |
| `Middleware` | DoorShown (liveness), EdgesKept (refinement) | one door, a speed on each side of the thresholds, three messages of the MCU | 471,796 |
| `Conversions` | TextsKept, BuffersKept, FloatClose, LengthTold, PageTells, FilesRead | texts of four bytes out of eight, JSON of five tokens out of eighteen, all words of floats with 4 bits of exponent and 8 of mantissa, gauges up to 9999.9999, every page, files of six parts | 452,770 |
| `FreshStuck` | FreshDrains is violated | as WarnSerious, without get_curr_warn | |
| `PowerLockLost` | NormalIsHeld is violated | the key turned at any moment | |

Bounds.  `MaxMsgs` bounds the messages of a behaviour, after which the system runs on without input.
Three messages with arbitrary threads put a warning in each of the lists while the handler and the
actuator are in the middle of a pass, or make a get_curr_warn race a second warning; five turn a warning
off and on while another is shown.  `MaxPosts` = 1: the timer that posts the semaphore is started again
only by a pass of the handler or a get_curr_warn.  `MaxBreaks` = 1 lets the connection break between the
sound and the page, or between the two messages of a broadcast, and come back between any two; without
it (0) nothing is dropped.  `MaxDrops` = 1 suffices to drop any subset of the messages of a handler, as
the connection may be down for any number of them and come back between two. `MaxKeys` = 4 lets the key
go to OFF twice with a thread of the first OFF alive, and leave it each time.  `MaxEnding` = 2 lets a
new play thread overtake two old ones.  In `SignalsKnown` each handler has a bit that changes (two where
it treats two of them together); `MaxChanges` = 2 lets a signal come and go, or two signals of different
handlers change, with `MaxAsked` = 1 request before, between or after; WARNING_GET puts three reports on
the line, hence `MaxWire` = 3.  In `TopicLink` three messages are the fewest of which a middle one can
be lost or come twice, and two breaks let the sender be reconnected while the receiver is lost, or one
of them twice.  In `Middleware` a door opens, the car passes both thresholds and the door closes or the
car slows down, in every order, while the threads and timers of ViewService run; the speed is above both
thresholds or zero, as `DoorSpeeds` has the speeds between.  In `Conversions` eight bits of mantissa
show every case of the rounding that 23 have, four of the exponent every case there is of it (zero, the
normal ones, the last one), five tokens an object with a member, a nested one or a pair of surrogates;
`CJSON_NESTING_LIMIT` is 3 instead of 1000, so that it is reached; six parts are two complete elements
of one name, or an element with two names.  Behaviours end at a bound, or with a crash of the process,
so the runs do not check for deadlock (except `DoorSpeeds`, whose inputs never end).

Fairness.  The receiver, the handler and the actuator loop for ever, and a timer that is armed
expires: weak fairness of each thread and timer.  The same holds for the control and play threads
of AudioService and for the power-off threads.  `MqttLink` has it for a process that was started (it
runs on to its polling thread), the callbacks of a lost connection, the library's reconnection, the
broker and the poll of the FIFO; `Middleware` for the sending of what a handler has to send, the
receiver and the scheduler.  No fairness for the messages of the MCU, the key, the loss of a
connection or of a process, or the restart of a process.

### What the violations show

* **FreshStuck** - a warning is turned off and on again while its display time runs out.  The
  actuator removes it, the receiver appends it anew, `m_currViewNode` still names it, and each pass
  of the handler ends at MsgHandler.cpp:191: no timer is armed, nothing of the fresh list or of the
  rotation is shown any more (a serious warning still is).
* **PowerLockLost** - a power-off thread past its test of the flag releases the wake lock that the
  handler has just acquired.

### Weaknesses seen in the models that no run is made of

The definitions of the models named here are the last section of their module, and TLC refutes each:
those of `MsgHandler`, but for the three at which another instance stands, as an INVARIANT in place of
the PROPERTIES of `FreshStuck.cfg`; those of `DoorWarning` in place of the INVARIANTS of
`DoorSpeeds.cfg`, with `MaxDrops = 0`; those of `MCCodec` in place of the INVARIANTS of
`Conversions.cfg`.

* `MinDisplayFull` - comments of MsgHandler.cpp (74, 220, 864) give the minimum display time as 1.5 s.
  Lines 876-877 arm one second and 500000 nanoseconds, 1.0005 s, and a warning is replaced after that.
  `MinDisplay`, `AtLeastTime` and their theorem are about the 1.0005 s of the code.
* `MinDisplayAlways` (in place of the INVARIANTS of `WarnLists.cfg`) - the timer of one warning expires,
  its notification is still under way, and the flag it sets counts for the warning that is on the screen
  by then.  A get_curr_warn makes room for that: it restarts the timers behind the handler's back.
  `MinDisplay` excuses exactly this race, by `races`.
* `SeriousStays` - the display timer of a warning has posted the semaphore when a serious one preempts
  it: the actuator takes the serious one, which is ON, off the screen and out of its list
  (Actuator.cpp:39), and nothing shows it again before it is reported again.  An alarm of view.xml is
  meant to last (view.xml:5).  `SeriousUntimed` excuses this race too, and another, of a get_curr_warn
  that starts the display timer of the warning that is being preempted.
* `SeriousKept` - the handler copies the head of the serious list while it is OFF and erases it by
  name; an ON that arrives in between is erased with it.  For doorwarn the next speed message
  repairs it, which is sent several times a second.
* `NoGhost` (MsgHandler.cpp:114) - the actuator tests a copy of the current warning and inserts it
  into the rotation after the warning was turned off: it rotates until it is reported again.
* `FreshNamed` (MsgHandler.cpp:466; in place of the INVARIANTS of `WarnLists.cfg`) - the door
  node is erased between the test and the copy, and a node without a name enters the fresh list,
  at whose head it blocks everything but serious warnings.
* `CurrentShown` (MsgHandler.cpp:271; in place of the INVARIANTS of `WarnLists.cfg`) - a warning that
  does not conform to the ACC status becomes current and is not sent, nor later when the status changes.
* `RepeatKept` is checked with warnings turned off and on again, and excuses those of `crossed`: a warning
  turned on while a node of its OFF is in the fresh list or in the hands of a thread.  The handler erases
  by name a node it copied while OFF, and the ON that arrived in between is erased with it.  The doors'
  notice is left out, which the steps of FreshNamed lose.
* `LoopRotates` fails with OFF messages as FreshDrains does: the sort of the receiver brings the
  expired current warning to the head of the rotation.  A repeated ON of a warning on the screen does
  the same, hence `WarnRotation` has no view that CoreProcessor sends again (tiresystemfault).
* `FullDelay` and `SleepsAfterOff` excuse by `crowded` a key that goes to OFF while an earlier power-off
  thread is alive, as happens in `PowerKeys`.  The two share the static counter: the power may go off
  before the whole delay, and the counter may pass the value compared with `==`, so that it never does.
* `AllClosed` - a door is closed at a speed that the rounding takes across the threshold (9.50004 km/h is
  above it as received and not as printed): it gets its OFF under the wrong warning, and the warning
  stays on with every door closed.  `ViewKnowsDoors` excuses the doors of `askew`.
* `FaultHasDoor` - the fault of a door is set and cleared under the warning of the speed at that moment
  (CP 768); a door opened at rest and closed above 9.5 km/h stays in the list of faults as a notice.
* `OwnerKnown` of `PlayControl`: playControl.cpp:48 hands the message about the owner of the audio,
  which CP 1987 sends, to the function of the ACC status.  The owner stays the MCU and the loop of
  `AudioPlayThread` is never entered.
* `TockWithDark` of `CoreSignals` (the turn lamps, three changes, one request, no lost connection): the
  HMI asks for the turn signals while one is on; the report repeats what is stored,
  `isTurnLightStart` becomes true only with a change and false with a repetition (CP 627), and when
  the lamp goes out no tock is sent: the last sound of the dark lamp is the tick.
* `OneLaneLamp` (CP 1019) and `TitleKnown` of `CoreSignals`, in place of the INVARIANTS of
  `SignalsKnown.cfg`: red and green are values of one field, but the handler that sets one lamp does
  not clear the other, and both are lit; a title requested by the HMI is read before and published
  after the new title of the callback thread, and the HMI shows the old one.
* A warning whose message was dropped is not repaired by the HMI's WARNING_GET: the MCU reports it
  again, but the handler sees no change.  After a reconnection the requests no longer arrive at all.
* A door closed while the connection is down keeps its warning: its OFF is in `lost` and never sent
  again (an open door's message is, with the next speed).
* In `PlayControl` the second read of `m_pCurSound` may find NULL (`crashed` is reachable); a sound
  turned on again between the test of its switch and its removal is dropped though ON; a sound that
  is interrupted is dropped although audio.xml:9 has a replay start again.
* A door that was closed may stay on the screen of `Middleware`, its sound ON, for ever: the post of the
  semaphore comes late, and the actuator erases the OFF node of doorwarn before the handler has taken
  it.  And its notice may stay in the rotation, when the receiver tests the rotation for the node before
  the actuator inserts it.  (The property that fails is `open = {} ~> (hmi["doorwarn"] = {} \/ open #
  {})`, in place of `DoorShown`.)
* `CoolantAsTold` and `SpeedAsTold`, what comments tell of conversions.  CP 1270 has 41 EF 00 00 as
  30.875, and IEE754_HexToFloat reads it, rightly, as 29.875.  The examples of CP 1080, 1094, 1193 and
  1280 (02 01 04 000006F1) have a length in bytes, of two characters each, where the code writes the
  number of characters; the subtotal (CP 1389) halves it, as the comments would have it.  `LengthTold`
  says what the code does of each, and calls neither right.
* The words of zero and of the denormal numbers are read as numbers between half the smallest normal one
  and that one, as nothing but the usual leading one is there for them, and those of exponent 255 (the
  not-a-numbers too) as infinity.  `FloatClose` says so; what is printed of zero is 0.0000 all the same.
* AudioService does not look whether audio.xml was read to its end (readXmlFile.cpp:101): after a
  repeated attribute it goes on without the rest of the element and of the file, where ViewService
  exits (XmlManager.cpp:29).
* Seen while writing the conversions: the length of the subtotal mileage is half of what the other
  gauges have (CP 1389); CP 1487 prints "%.1f" into four bytes, CP 183 copies a text of any length into
  eight, and Util.h:114 a text of eight digits into four bytes; `GetIntNum("-1")` is 1;
  `selfcheck` of a sound is compared with "delay" where audio.xml:10 speaks of true and false; four
  sounds that view.xml binds (parking, oillow, pepsnotfindb, pepsbatterylow) are not in audio.xml;
  the texts of handle.cpp:39 are outside the loop, so that a message that does not parse repeats
  the one before.

## 4. Proofs

All theorems hold for every value of the constants that satisfies the named assumptions.  Each
proof module proves `Init => Inv`, `Inv /\ [Next]_vars => Inv'` and `Inv => property`.

* `MsgHandlerProofs`
  * `TypeCorrect` - TypeOK with `MsgGiven`: the receiver at work has a message, a serious one in the
    serious branch.  Lemmas on the list operators (`EraseSkipsOne`, `SortRearranges`,
    `UpdateFirstKeepsNames`) state once what they preserve.
  * `LoopCorrect` (LoopSound) and `SeriousCorrect` (SeriousOrdered) are inductive together with the
    types: the actuator tests and appends under one mutex, and a sort keeps the set of the nodes.
  * `SoundCorrect` (SoundAgrees) from `SoundInv`: between choosing a node and `Notify`, the handler's node
    is OFF on the way to hide it and ON on the way to show it; of a thread between the sound and the
    page, the node has the status of the current warning, which gave the sound, unless that one was
    dropped.  A get_curr_warn is in `Notify` with the mutex of the current warning, so that the handler
    changes it neither before nor after the sound.
  * `MinDisplayCorrect`, `SeriousUntimedCorrect`, from `TimerInv`: the flag, and the handler that has seen
    it, come after an expiry, and an expiry after the minimum time, unless it raced the showing; while a
    serious warning is on the screen the display timer is idle and the semaphore 0, unless a post or
    a get_curr_warn raced it.  Any request may come at any moment, get_curr_warn among them.
  * `RepeatCorrect` (RepeatKept), from `KeptInv` of every repeating warning, with every request and any
    ONs and OFFs.  `NodesOn`: of a warning that is on and was not turned on across its OFF (`crossed`) no
    list and no thread holds an OFF node, so that neither the handler nor the actuator erases it to hide
    it.  `Waits`: such a warning is in a list or in the hands of a thread that is bound to put it into one
    (`Held`, `Carried`: the actuator between taking it off the screen and the rotation, the receiver
    between taking it from the rotation and the fresh list).  `TurnOnKept` establishes both when it is
    turned on, `StepKept` keeps them.
* `PowerEventProofs`
  * `PowerTypeCorrect`, for any number of threads;
  * `DelayCorrect` (FullDelay), for any number of threads and any turns of the key, from `CounterFollows`:
    the counter is 0 when no thread is alive, and unless the key went to OFF while one was (`crowded`),
    there is one thread, ahead of whose ticks since then the counter does not run;
  * `PowerCorrect` (PowerFollowsAcc), of each of the two receivers, from `PowerInv`: the flag follows the
    key, no thread has decided unless the history variable `raced` says so, the handler's steps restore
    lock and mode, and a receiver that missed no message has the status of the key.
* `DoorWarningProofs`
  * `DoorTypeCorrect`;
  * `DoorsCorrect` (ViewKnowsDoors) and `LimitCorrect` (ViewKnowsLimit), from `DoorInv`: a message on
    its way carries what is due, and what is neither on its way nor lost is known as due.  They hold of
    all speeds, also those that round across a threshold: `Due` goes by the speed as it is printed, and
    of a door in `askew`, opened or closed where the two handlers disagree, nothing is claimed until the
    next report of the speed (`Straight`).  Of the limit nothing need be excused.
* `PlayControlProofs`
  * `SoundTypeCorrect`; lemmas say element by element what an insertion and a removal leave
    (`InsertAtParts`, `RemoveAtParts`) and which sounds the list then has.
  * `OnePlaysCorrect` (OnePlays) is inductive with the types.
  * `CurrentCorrect` (CurrentListed), from `Held`: what control works on is in the list from the
    moment it is looked at to its removal, and what is dropped is the current sound or there is none.
  * `OrderedCorrect` (ListOrdered) and `TurnCorrect` (TurnExclusive), from `ListInv`, which adds that
    the sound handle is about to insert is not in the list and that a turn signal it is about to
    insert finds the other one off: handle holds the lock of the list, but not that of the switches.
* `CoreSignalsProofs`, for any values the MCU reports (`ValuesAssumption`: bits of the message, one
  lane lamp at a time) and any number of changes, requests and lost connections
  * `WarningsCorrect` (WarningsKnown) and `ChangesCorrect` (OnlyChanges), from `IInv`.  Of each warning
    or sound `Outstanding` says that at most one message waits, with the stored status; without one
    the receiver has that status, with one it has the other (a warning), unless its last message was
    missed.  `Settled` says that the stored status is what the MCU's signals call for, unless a
    report that decides about it is on the line, or nothing was ever sent of it.  `Current` says that
    the last report of each kind on the line is what the MCU has.  Without `Outstanding` an edge
    could be computed from a status the receiver does not have.  The message of the tire system may repeat
    what the receiver has, when the byte has another bit set; `ChangesCorrect` excuses that one alone.
  * One lemma per handler says that it sends one message for each status that changes and touches no
    warning of another message (`Handles`); `HandlerKeeps` does the rest once for all handlers.
    `FuelMarks` and `CoolantMark` show that the segment and the whole degrees, by which the code
    decides, give the thresholds 25 % and 121.0 degrees for every value.
  * `LampsCorrect` (LampsKnown) and `FaultsCorrect` (FaultsKnown), from `IInv` and `DInv`.  Of these keys
    several messages may wait, some sent with every report: `Shows` says that the last one carries the
    stored value, and that without one the HMI has it, unless its last message was missed.  `LampFit`,
    `TurnFit`, `TiresFit` and `ListFit` relate the stored values to the MCU's signals, but for reports
    on the line; `faults = warns \cap Listed` ties the list that is sent bit by bit to the warnings.  A
    lamp with two writers agrees with one of them (`Writers`).
  * `TypeCorrect` (TypeOK): a handler stores only bits of its own message, because what is on the line
    are reports the MCU may send (`Reports`); `SegmentRange` bounds the segments of the fuel.
* `MqttLinkProofs`
  * `LinkTypeCorrect`; `SessionCorrect` (SessionClean): the broker has a subscription, and messages
    for the receiver, only while the connection of the receiver exists that made it.
  * `LinkIsChannel` (ChannelSpec): every step of the link is a step of `Channel` or a stutter under the
    refinement mapping.  One lemma per action (`LoseInbox`, `ForgetAll`, `SendPuts`, `AcceptKeeps`,
    `AcceptLoses`, `MessageMoves`, `PopTakes`, `SenderCrashLoses`, `ReconnectRewinds`), on lemmas about
    prefixes, suffixes and cuts of sequences and about the messages between two numbers.
  * `NewestCorrect` (NewestKept), from the same lemmas: a reconnection of the sender rewinds, but what
    it sends again ends with the newest message.

* `MiddlewareProofs`, for any doors, speeds, thresholds and number of messages (`SpeedBound`)
  * `CoreRuns`: every step of the composition is a step of `DoorWarning` or leaves its variables alone, so
    that the theorems of `DoorWarningProofs` hold in it.
  * `EdgesCorrect` (EdgesKept): the composition implements `Alone!Spec`.  The invariant is `WayInv`.
    `Delivers`: of each door under each view, and of the limit, the newest message on its way says what
    CoreProcessor last sent, and with none on its way ViewService was told so.  `Alternates`: the
    messages about the limit on their way say the opposite of one another, the first the opposite of
    what ViewService was told.  `LimitNews`: the one still to be sent says the opposite of the last one
    sent.  `EdgesKept` alone is not inductive: whether the head of the FIFO is news depends on what is
    behind it only through `Alternates`, and that is kept by the sender only through `LimitNews`.
  * `DoorsArriveCorrect` and `LimitArrivesCorrect`: with nothing to send and the FIFO empty, ViewService
    knows each open door under the view of the speed and no other, and whether the speed is above the
    limit.  They combine `Delivers` with `DoorsCorrect` and `LimitCorrect`, and
    excuse the doors of `askew` as those do.
  * `ScreenCorrect`: as the composition implements `Alone!Spec`, the theorems of `MsgHandlerProofs` hold
    of the scheduler driven by CoreProcessor, with the races they name.
* `ConversionProofs`, about every input instead of those of the run
  * `FloatCorrect` (FloatClose), for any width of the fields from two bits, hence for the 8 and 23 of
    the code, and every word.  The scale exists because some power of two brings the quotient to `One`,
    and the smallest that does leaves it below twice `One` (`ScaleExists`).  The rounded quotient is at
    most that power, so the two roundings together are less than one and a half units away
    (`MantissaClose`).  `NormalSize` is a normal word, read as its number or the next one; `HalfRounded`
    and `ToFloatSize` are the words of exponent 0, where a product too small for a normal number is
    rounded again, and of the last exponent, where it is too large for any; `ToFloatOrder` keeps the
    order across all three.
  * `LengthCorrect` (LengthTold), for every gauge below 10000: its text has six to nine characters, and of
    one digit the decimal and the hexadecimal length are the same; the subtotal's is half of it, rounded
    down (`SubtotalLength`).
  * `BuffersCorrect` (BuffersKept), for any message and any text without numbers.  `Sum` counts what
    each byte adds, so that what print_string asks for is what `Escaped` writes; by induction over the
    depth no piece of a tree is longer than the room it asked for (`TreeInside`), whence no write passes
    the buffer `Ensured` makes (`WrittenInside`).  What parse_string allocates is the length of the
    string less one byte for each escape, and an escape writes at least one byte less than it reads
    (`StringFits`).  `ParsedTree`: what the parser makes of a text is a tree the printer takes.
  * `TextsCorrect` (TextsKept), for any message and any text without numbers that was parsed.
    `Occurs(t, at, s)` says that s stands in t at a place.  Where the text of a string stands,
    parse_string reads that string (`StringRead`, a byte after the other); if the texts of values are
    read back where they stand, so is the text of an array of them (`ArrayRead`) and of an object
    (`ObjectRead`), over the gaps the layout makes, hence of a node (`NodeRead`).  This gives the
    induction over the levels of nesting (`TreesRead`, `TreeRead`).  For a message `FieldFound` gives
    the three texts by their keys, which differ (`ThreeKeys`).
  * `FilesCorrect` (FilesRead), for any files, from any set of attributes whose loops have one of the
    two forms of view.xml and audio.xml.  ViewService's file is loaded exactly if no element repeats an
    attribute (`LoadsIf`); then after n attributes a view has the value of each name among them
    (`InfoRead`), and after n inner elements the names of the complete ones (`ViewRead`).  AudioService
    has the elements up to the first that repeats one (`ParsedParts`, `FileRead`), and of that element
    the attributes up to there, with the second value of the repeated one (`LastRead`); a sound has the
    last value of each name among those (`SoundRead`).  After n elements a map has for each name the
    first of them (`InsertsFirst`).
  * `PagesCorrect` (PageTells), for the nodes of every view: a text is read back as the bytes it spells
    (`SpelledRead`), which gives the parts of a page (`PageRead`); views have different numbers
    (`ViewNumber`).  Of two door nodes the bytes of the page (`FlagsTell`) and the flags they are
    compared by (`PlacesTell`), whose orders are two definitions, differ in the same cases.
  * `ConversionsCorrect`: the steps of the machine keep its input in the types these theorems take
    (`InputOK`), so that all six invariants of the run hold whatever MaxBytes, MaxTokens and MaxParts are.
  * The predicates of these proofs are in `ConversionTerms`, which has no theorem.
  * A recursive function has its equation only if the recursion has a solution: `Recursion` proves it
    for the functions of `Json` (`PrintersExist`, `EndsExist`, `ItemsExist`, `ParsersExist`),
    `LoopExists` for those of `Config`, `Pow2Defined` for the powers of two; two solutions are the same
    (`Same`).  The induction is `Induction`, which has a set in place of a predicate and comes from the
    well-foundedness of the natural numbers (`SmallestOf`): the library's theorems have an operator as
    their parameter.

Every invariant of every passing run is stated by a theorem.  Only model-checked: every liveness
property, as fairness and ENABLED are out of the prover's reach.

## 5. Not modelled

TinyXML, third-party code that turns a file into the elements and attributes `Config` starts from, but
for what it does with a repeated attribute; the numbers of cJSON, which no message has, and its
functions that nobody calls; `PriorityQueue.hpp`, `HideAllWarn`, `DisConnect`, `GetWarnJsonInfo` and the
play mode continue, which nothing uses; the request for the audio every 100 ms, which changes no state;
logging; how the numbers of the gauges are computed from the bytes of the MCU; EOL, watch dog and phone
messages, which are passed on or ignored; joining and interrupting threads, which no process does before
it ends.

## 6. What is left

1. An abstract scheduler (one set of pending warnings, one shown) that MsgHandler implements in the
   behaviours without OFF messages, and the exclusion of the weaknesses as its assumptions.
2. `Middleware` with `MqttLink` as its topic: a lost connection between CoreProcessor and ViewService.
