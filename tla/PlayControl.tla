---------------------------- MODULE PlayControl -----------------------------
(***************************************************************************)
(* AudioService: the list of sounds (src/AudioService/playControl/         *)
(* playControl.cpp) and the play thread it starts and stops (src/          *)
(* AudioService/sound/soundplay.cpp).                                      *)
(*                                                                         *)
(*   handle        handle::Run, one message after the other -> pushSound   *)
(*   control       PlayControl::Run, every 10 ms -> handleNode             *)
(*   AudioPlay     a detached thread per playWarning                       *)
(*                                                                         *)
(* m_listSoundLock guards the list, not m_pCurSound nor the switch of a    *)
(* sound: control reads the switch of the sound it works on without it,    *)
(* and handle reads m_pCurSound, which control writes.  A play thread      *)
(* tells that it left its loop (m_isAudioPlayThExit) before it sets the    *)
(* status to AUDIO_STOP, so that the next one may run by then.             *)
(*                                                                         *)
(* All sounds of audio.xml are "wm1" and "replay": only with ACC on is a   *)
(* sound chosen, and one that is interrupted is dropped.                   *)
(***************************************************************************)
EXTENDS Naturals, Sequences, SequencesExt

CONSTANTS
  Sounds,    \* the names of audio.xml
  NoSound,   \* NULL
  Turn,      \* "turn_on" and "turn_off"
  Priority,  \* sound -> priority attribute, the lower the more urgent
  MaxMsgs,   \* bound: the messages received
  MaxEnding  \* bound: the threads that left their loop and have not ended

ASSUME SoundAssumption ==
  NoSound \notin Sounds /\ Turn \subseteq Sounds /\ Priority \in [Sounds -> Nat]

ASSUME BoundAssumption == MaxMsgs \in Nat /\ MaxEnding \in Nat

VARIABLES
  list,       \* m_listSound
  switch,     \* m_soundSwitch of every sound: SOUND_ON or not
  cur,        \* m_pCurSound
  acc,        \* m_vehicleStatus
  owner,      \* m_audioCtrlAdscription
  report,     \* history: the last audio_belong2dhu message
  status,     \* m_audioPlayStatus
  exited,     \* m_isAudioPlayThExit
  looping,    \* the play threads in their loop
  ending,     \* the play threads that left it
  push,       \* handle: the sound it is about to insert
  tested,     \* handle: m_pCurSound as it was when compared with NULL
  crashed,    \* handle has followed a NULL m_pCurSound
  pc,         \* control: where it is in handleNode
  sound,      \* control: pSound
  sent        \* the messages received

list_  == <<list, switch>>
inputs == <<acc, report, sent>>
handle == <<push, tested, crashed>>
thread == <<exited, looping, ending>>
vars   == <<list, switch, cur, acc, owner, report, status, thread, handle, pc,
            sound, sent>>

Places == {"idle", "look", "drop", "dropped", "replace", "replaced", "wait"}

\* handle holds m_listSoundLock between the two reads of m_pCurSound.
Unlocked == push = NoSound /\ ~crashed

Urgent(a, b) == Priority[a] < Priority[b]

-----------------------------------------------------------------------------
(* handle: pushSound *)

\* Mutant: a turn signal leaves the other one on.
TurnedOffByOthers(s) == {t \in Turn \cap ToSet(list) : s \notin Turn /\ Urgent(s, t)}

\* The switches of the sounds in the list after a message about s.  A turn
\* signal turns the other one off, any other sound those less urgent than it.
TurnedOff(s) ==
  {t \in Turn \cap ToSet(list) : IF s \in Turn THEN t # s ELSE Urgent(s, t)}

\* Mutant: the sort forgotten.
InsertLast(s) == list' = Append(list, s)

\* push_back and list::sort, which is stable: s comes after its equals.
Insert(s) ==
  \E i \in 1..Len(list) + 1 :
    /\ \A j \in DOMAIN list : Urgent(s, list[j]) <=> i <= j
    /\ list' = InsertAt(list, i, s)

ReceiveAcc(on) ==
  /\ Unlocked /\ sent < MaxMsgs
  /\ acc' = IF on THEN "ON" ELSE "OFF"
  /\ sent' = sent + 1
  /\ UNCHANGED <<list_, cur, owner, report, status, thread, handle, pc, sound>>

\* Mutant: the owner is stored as the status of the vehicle.
OwnerAsStatus(on) ==
  /\ Unlocked /\ sent < MaxMsgs
  /\ acc' = IF on THEN "DHU" ELSE "MCU"
  /\ report' = acc'
  /\ sent' = sent + 1
  /\ UNCHANGED <<list_, cur, owner, status, thread, handle, pc, sound>>

\* The message of the audio owner ends in UpdataVehicalAccStatus as well.
ReceiveOwner(on) ==
  /\ Unlocked /\ sent < MaxMsgs
  /\ acc' = IF on THEN "ON" ELSE "OFF"
  /\ report' = IF on THEN "DHU" ELSE "MCU"
  /\ sent' = sent + 1
  /\ UNCHANGED <<list_, cur, owner, status, thread, handle, pc, sound>>

\* pushSound up to the first read of m_pCurSound.
PushSound(s, on) ==
  /\ Unlocked /\ sent < MaxMsgs
  /\ sent' = sent + 1
  /\ switch' = [t \in Sounds |->
                  IF t = s /\ (on \/ s \in ToSet(list)) THEN on
                  ELSE switch[t] /\ t \notin TurnedOff(s)]
  /\ IF on /\ s \notin ToSet(list) /\ cur # NoSound
     THEN push' = s /\ tested' = cur
     ELSE UNCHANGED <<push, tested>>
  /\ IF on /\ s \notin ToSet(list) /\ cur = NoSound THEN Insert(s) ELSE UNCHANGED list
  /\ UNCHANGED <<cur, acc, owner, report, status, thread, crashed, pc, sound>>

\* The second read of m_pCurSound may be one of the first or a new one.
ComparePriority ==
  /\ push # NoSound /\ ~crashed
  /\ \E c \in {tested, cur} :
       IF c = NoSound
       THEN crashed' = TRUE /\ UNCHANGED <<list, push, tested>>
       ELSE /\ IF push \in Turn /\ Urgent(c, push) THEN UNCHANGED list ELSE Insert(push)
            /\ push' = NoSound /\ tested' = NoSound
            /\ UNCHANGED crashed
  /\ UNCHANGED <<switch, cur, acc, owner, report, status, thread, pc, sound, sent>>

-----------------------------------------------------------------------------
(* control: handleNode *)

GetOneSound ==
  /\ pc = "idle" /\ Unlocked
  /\ list # <<>> /\ acc = "ON"
  /\ sound' = Head(list) /\ pc' = "look"
  /\ UNCHANGED <<list_, cur, acc, owner, report, status, thread, handle, sent>>

\* What handleNode makes of the sound and the current one, whose end shows in
\* the status; a sound that is to be played first has the last one stopped.
Look ==
  /\ pc = "look" /\ ~crashed
  /\ pc' = IF cur \notin {NoSound, sound} THEN "replace"
           ELSE IF ~switch[sound] THEN "drop"
           ELSE IF cur = NoSound THEN "wait"
           ELSE IF status = "STOP" THEN "drop" ELSE "idle"
  /\ status' = IF pc' = "wait" THEN "STOP" ELSE status
  /\ UNCHANGED <<list_, cur, inputs, owner, thread, handle, sound>>

\* list::remove, of a sound that is in the list once (ListOrdered) or not at all.
ListRemove(s) ==
  \/ s \notin ToSet(list) /\ UNCHANGED list
  \/ \E i \in DOMAIN list : list[i] = s /\ list' = RemoveAt(list, i)

\* removeOneSound: of the sound, or of the current one, a "replay", when the
\* sound is a more urgent one.
RemoveOneSound ==
  /\ pc \in {"drop", "replace"} /\ Unlocked
  /\ ListRemove(IF pc = "drop" THEN sound ELSE cur)
  /\ pc' = IF pc = "drop" THEN "dropped" ELSE "replaced"
  /\ UNCHANGED <<switch, cur, inputs, owner, status, thread, handle, sound>>

\* Mutant: m_pCurSound is reset by a replacement only.
StopPlayKept ==
  /\ pc \in {"dropped", "replaced"} /\ ~crashed
  /\ cur' = IF pc = "replaced" THEN NoSound ELSE cur
  /\ status' = "STOP"
  /\ pc' = IF pc = "dropped" THEN "idle" ELSE "wait"
  /\ UNCHANGED <<list_, inputs, owner, thread, handle, sound>>

\* m_pCurSound = NULL, and stopPlay (a sound that ended has stopped already).
StopPlay ==
  /\ pc \in {"dropped", "replaced"} /\ ~crashed
  /\ cur' = NoSound
  /\ status' = "STOP"
  /\ pc' = IF pc = "dropped" THEN "idle" ELSE "wait"
  /\ UNCHANGED <<list_, inputs, owner, thread, handle, sound>>

\* Mutant: the end of the last thread is not waited for.
PlayAtOnce ==
  /\ pc = "wait" /\ ~crashed
  /\ status' = "START" /\ exited' = FALSE
  /\ looping' = looping + 1
  /\ cur' = sound
  /\ pc' = "idle"
  /\ UNCHANGED <<list_, inputs, owner, ending, handle, sound>>

\* playWarning, once the last play thread has left its loop.
PlayWarning ==
  /\ pc = "wait" /\ exited /\ ~crashed
  /\ status' = "START" /\ exited' = FALSE
  /\ looping' = looping + 1
  /\ cur' = sound
  /\ pc' = "idle"
  /\ UNCHANGED <<list_, inputs, owner, ending, handle, sound>>

-----------------------------------------------------------------------------
(* The play threads *)

\* Mutant: the thread that left its loop does not tell.
LeaveUntold ==
  /\ looping > 0 /\ ending < MaxEnding /\ ~crashed
  /\ status = "STOP" \/ owner # "DHU"
  /\ looping' = looping - 1 /\ ending' = ending + 1
  /\ UNCHANGED <<list_, cur, inputs, owner, status, exited, handle, pc, sound>>

\* The loop, a turn of which changes none of these variables, is left when the
\* sound is stopped or the DHU does not own the audio.
AudioPlayThread ==
  /\ looping > 0 /\ ending < MaxEnding /\ ~crashed
  /\ status = "STOP" \/ owner # "DHU"
  /\ exited' = TRUE
  /\ looping' = looping - 1 /\ ending' = ending + 1
  /\ UNCHANGED <<list_, cur, inputs, owner, status, handle, pc, sound>>

\* Its last statement, perhaps after the next thread was started.
SetStop ==
  /\ ending > 0 /\ ~crashed
  /\ status' = "STOP"
  /\ ending' = ending - 1
  /\ UNCHANGED <<list_, cur, inputs, owner, exited, looping, handle, pc, sound>>

-----------------------------------------------------------------------------
Init ==
  /\ list = <<>> /\ switch = [s \in Sounds |-> FALSE] /\ cur = NoSound
  /\ acc = "DEFAULT" /\ owner = "MCU" /\ report = "MCU"
  /\ status = "STOP" /\ exited = TRUE
  /\ looping = 0 /\ ending = 0
  /\ push = NoSound /\ tested = NoSound /\ crashed = FALSE
  /\ pc = "idle" /\ sound = NoSound
  /\ sent = 0

Control == GetOneSound \/ Look \/ RemoveOneSound \/ StopPlay \/ PlayWarning
Handle ==
  \/ \E on \in BOOLEAN : ReceiveAcc(on) \/ ReceiveOwner(on)
  \/ \E s \in Sounds, on \in BOOLEAN : PushSound(s, on)
  \/ ComparePriority

Next == Handle \/ Control \/ AudioPlayThread \/ SetStop

Fairness ==
  /\ WF_vars(ComparePriority)
  /\ WF_vars(Control)
  /\ WF_vars(AudioPlayThread)
  /\ WF_vars(SetStop)

Spec     == Init /\ [][Next]_vars
FairSpec == Spec /\ Fairness

-----------------------------------------------------------------------------
(* Properties *)

\* The variables have their types; at most the bounded threads are ending.
TypeOK ==
  /\ list \in Seq(Sounds) /\ switch \in [Sounds -> BOOLEAN]
  /\ cur \in Sounds \cup {NoSound} /\ sound \in Sounds \cup {NoSound}
  /\ push \in Sounds \cup {NoSound} /\ tested \in Sounds \cup {NoSound}
  /\ acc \in {"DEFAULT", "ON", "OFF"}
  /\ owner \in {"MCU", "DHU"} /\ report \in {"MCU", "DHU"}
  /\ status \in {"START", "STOP"} /\ exited \in BOOLEAN /\ crashed \in BOOLEAN
  /\ looping \in Nat /\ ending \in 0..MaxEnding
  /\ pc \in Places /\ sent \in 0..MaxMsgs

\* A sound is in the list once, and the most urgent one comes first, whatever
\* is inserted while control removes another.
ListOrdered ==
  \A i, j \in DOMAIN list :
    i < j => list[i] # list[j] /\ ~Urgent(list[j], list[i])

\* The tick and the tock of the turn signal are never both to be played.
TurnExclusive ==
  \A s, t \in Turn \cap ToSet(list) : switch[s] /\ switch[t] => s = t

\* One play thread at a time plays: the flag that the next one waits for is
\* set only when none is in its loop, however late a thread ends.
OnePlays == looping <= 1 /\ (exited => looping = 0)

\* The current sound is in the list, unless control is just removing it: what
\* was removed does not come back as the sound being played.
CurrentListed ==
  cur # NoSound => cur \in ToSet(list) \/ pc \in {"dropped", "replaced"}

\* control does not wait for ever for the last play thread.
WaitEnds == pc = "wait" ~> (pc # "wait" \/ crashed)

-----------------------------------------------------------------------------
(* Not among the runs: see the README *)

\* AudioService knows the owner of the audio as it was reported.
OwnerKnown == report = owner

=============================================================================
