------------------------- MODULE PlayControlProofs --------------------------
(***************************************************************************)
(* Proofs about PlayControl, for any sounds, priorities and numbers of     *)
(* messages and of play threads: type correctness, one play thread at a    *)
(* time, the order of the list, the two turn signals and the current sound.*)
(***************************************************************************)
EXTENDS PlayControl, TLAPS, SequenceTheorems

-----------------------------------------------------------------------------
(* Sequences *)

LEMMA InsertAtParts ==
  ASSUME NEW S, NEW l \in Seq(S), NEW e \in S, NEW i \in 1..Len(l) + 1
  PROVE  /\ InsertAt(l, i, e) \in Seq(S)
         /\ Len(InsertAt(l, i, e)) = Len(l) + 1
         /\ \A k \in 1..Len(l) + 1 :
              InsertAt(l, i, e)[k] = IF k < i THEN l[k] ELSE IF k = i THEN e ELSE l[k - 1]
<1>1. PICK a, b, c : a = SubSeq(l, 1, i - 1) /\ b = <<e>> /\ c = SubSeq(l, i, Len(l))
  OBVIOUS
<1>2. /\ a \in Seq(S) /\ Len(a) = i - 1
      /\ \A k \in 1..i - 1 : a[k] = l[k]
  BY <1>1
<1>3. b \in Seq(S) /\ Len(b) = 1 /\ b[1] = e
  BY <1>1
<1>4. /\ c \in Seq(S) /\ Len(c) = Len(l) + 1 - i
      /\ \A k \in 1..Len(l) + 1 - i : c[k] = l[i + k - 1]
  BY <1>1
<1>5. /\ a \o b \in Seq(S) /\ Len(a \o b) = i
      /\ \A k \in 1..i : (a \o b)[k] = IF k <= i - 1 THEN a[k] ELSE b[k - (i - 1)]
  <2>1. /\ a \o b \in Seq(S) /\ Len(a \o b) = Len(a) + Len(b)
        /\ \A k \in 1..Len(a) + Len(b) :
             (a \o b)[k] = IF k <= Len(a) THEN a[k] ELSE b[k - Len(a)]
    BY <1>2, <1>3, ConcatProperties
  <2>2. Len(a) + Len(b) = i
    BY <1>2, <1>3
  <2>3. QED
    BY <1>2, <2>1, <2>2
<1>6. PICK d : d = a \o b
  OBVIOUS
<1>7. /\ d \in Seq(S) /\ Len(d) = i
      /\ \A k \in 1..i : d[k] = IF k < i THEN l[k] ELSE e
  BY <1>2, <1>3, <1>5, <1>6
<1>8. /\ d \o c \in Seq(S) /\ Len(d \o c) = Len(l) + 1
      /\ \A k \in 1..Len(l) + 1 : (d \o c)[k] = IF k <= i THEN d[k] ELSE c[k - i]
  <2>1. /\ d \o c \in Seq(S) /\ Len(d \o c) = Len(d) + Len(c)
        /\ \A k \in 1..Len(d) + Len(c) :
             (d \o c)[k] = IF k <= Len(d) THEN d[k] ELSE c[k - Len(d)]
    BY <1>4, <1>7, ConcatProperties
  <2>2. Len(d) + Len(c) = Len(l) + 1
    BY <1>4, <1>7
  <2>3. QED
    BY <1>7, <2>1, <2>2
<1>9. InsertAt(l, i, e) = d \o c
  BY <1>1, <1>6 DEF InsertAt
<1>10. ASSUME NEW k \in 1..Len(l) + 1
       PROVE  (d \o c)[k] = IF k < i THEN l[k] ELSE IF k = i THEN e ELSE l[k - 1]
  <2>1. CASE k <= i
    BY <1>7, <1>8, <2>1
  <2>2. CASE k > i
    <3>1. k - i \in 1..Len(l) + 1 - i /\ i + (k - i) - 1 = k - 1
      BY <2>2
    <3>2. QED
      BY <1>4, <1>8, <2>2, <3>1
  <2>3. k <= i \/ k > i
    OBVIOUS
  <2>4. QED
    BY <2>1, <2>2, <2>3
<1>11. QED
  BY <1>8, <1>9, <1>10

LEMMA RemoveAtParts ==
  ASSUME NEW S, NEW l \in Seq(S), NEW i \in 1..Len(l)
  PROVE  /\ RemoveAt(l, i) \in Seq(S)
         /\ Len(RemoveAt(l, i)) = Len(l) - 1
         /\ \A k \in 1..Len(l) - 1 : RemoveAt(l, i)[k] = IF k < i THEN l[k] ELSE l[k + 1]
<1>1. PICK a, c : a = SubSeq(l, 1, i - 1) /\ c = SubSeq(l, i + 1, Len(l))
  OBVIOUS
<1>2. /\ a \in Seq(S) /\ Len(a) = i - 1
      /\ \A k \in 1..i - 1 : a[k] = l[k]
  BY <1>1
<1>3. /\ c \in Seq(S) /\ Len(c) = Len(l) - i
      /\ \A k \in 1..Len(l) - i : c[k] = l[i + k]
  BY <1>1
<1>4. /\ a \o c \in Seq(S) /\ Len(a \o c) = Len(l) - 1
      /\ \A k \in 1..Len(l) - 1 : (a \o c)[k] = IF k <= i - 1 THEN a[k] ELSE c[k - (i - 1)]
  <2>1. /\ a \o c \in Seq(S) /\ Len(a \o c) = Len(a) + Len(c)
        /\ \A k \in 1..Len(a) + Len(c) :
             (a \o c)[k] = IF k <= Len(a) THEN a[k] ELSE c[k - Len(a)]
    BY <1>2, <1>3, ConcatProperties
  <2>2. Len(a) + Len(c) = Len(l) - 1
    BY <1>2, <1>3
  <2>3. QED
    BY <1>2, <2>1, <2>2
<1>5. RemoveAt(l, i) = a \o c
  BY <1>1 DEF RemoveAt
<1>6. ASSUME NEW k \in 1..Len(l) - 1
      PROVE  (a \o c)[k] = IF k < i THEN l[k] ELSE l[k + 1]
  <2>1. CASE k < i
    BY <1>2, <1>4, <2>1
  <2>2. CASE k >= i
    <3>1. k - (i - 1) \in 1..Len(l) - i /\ i + (k - (i - 1)) = k + 1
      BY <2>2
    <3>2. QED
      BY <1>3, <1>4, <2>2, <3>1
  <2>3. k < i \/ k >= i
    OBVIOUS
  <2>4. QED
    BY <2>1, <2>2, <2>3
<1>7. QED
  BY <1>4, <1>5, <1>6

LEMMA InsertSound ==
  ASSUME list \in Seq(Sounds), NEW s \in Sounds, NEW i \in 1..Len(list) + 1
  PROVE  /\ InsertAt(list, i, s) \in Seq(Sounds)
         /\ Len(InsertAt(list, i, s)) = Len(list) + 1
         /\ \A k \in 1..Len(list) + 1 :
              InsertAt(list, i, s)[k] =
                IF k < i THEN list[k] ELSE IF k = i THEN s ELSE list[k - 1]
BY InsertAtParts

\* What the list holds once s has come in or gone out.
LEMMA InsertParts ==
  ASSUME list \in Seq(Sounds), NEW s \in Sounds, Insert(s)
  PROVE  /\ list' \in Seq(Sounds)
         /\ ToSet(list') = ToSet(list) \cup {s}
<1>1. PICK i \in 1..Len(list) + 1 : list' = InsertAt(list, i, s)
  BY DEF Insert
<1>2. /\ list' \in Seq(Sounds) /\ Len(list') = Len(list) + 1
      /\ \A k \in 1..Len(list) + 1 :
           list'[k] = IF k < i THEN list[k] ELSE IF k = i THEN s ELSE list[k - 1]
  BY <1>1, InsertSound
<1>3. DOMAIN list = 1..Len(list) /\ DOMAIN list' = 1..Len(list) + 1 /\ Len(list) \in Nat
  BY <1>2
<1>4. ASSUME NEW x \in ToSet(list') PROVE x \in ToSet(list) \cup {s}
  <2>1. PICK k \in 1..Len(list) + 1 : x = list'[k]
    BY <1>3 DEF ToSet
  <2>2. \/ k \in 1..Len(list) /\ x = list[k]
        \/ x = s
        \/ k - 1 \in 1..Len(list) /\ x = list[k - 1]
    BY <1>2, <1>3, <2>1
  <2>3. QED
    BY <1>3, <2>2 DEF ToSet
<1>5. ASSUME NEW x \in ToSet(list) PROVE x \in ToSet(list')
  <2>1. PICK k \in 1..Len(list) : x = list[k]
    BY <1>3 DEF ToSet
  <2>2. CASE k < i
    <3>1. k \in 1..Len(list) + 1 /\ x = list'[k]
      BY <1>2, <1>3, <2>1, <2>2
    <3>2. QED
      BY <1>3, <3>1 DEF ToSet
  <2>3. CASE k >= i
    <3>1. k + 1 \in 1..Len(list) + 1 /\ x = list'[k + 1]
      BY <1>2, <1>3, <2>1, <2>3
    <3>2. QED
      BY <1>3, <3>1 DEF ToSet
  <2>4. QED
    BY <2>2, <2>3
<1>6. s \in ToSet(list')
  <2>1. s = list'[i]
    BY <1>2
  <2>2. QED
    BY <1>3, <2>1 DEF ToSet
<1>7. QED
  BY <1>2, <1>4, <1>5, <1>6

LEMMA RemoveParts ==
  ASSUME list \in Seq(Sounds), NEW s, ListRemove(s)
  PROVE  /\ list' \in Seq(Sounds)
         /\ ToSet(list') \subseteq ToSet(list)
         /\ ToSet(list) \subseteq ToSet(list') \cup {s}
<1>1. CASE s \notin ToSet(list) /\ UNCHANGED list
  BY <1>1
<1>2. CASE \E i \in DOMAIN list : list[i] = s /\ list' = RemoveAt(list, i)
  <2>1. PICK i \in 1..Len(list) : list[i] = s /\ list' = RemoveAt(list, i)
    BY <1>2
  <2>2. /\ list' \in Seq(Sounds) /\ Len(list') = Len(list) - 1
        /\ \A k \in 1..Len(list) - 1 : list'[k] = IF k < i THEN list[k] ELSE list[k + 1]
    BY <2>1, RemoveAtParts
  <2>3. DOMAIN list = 1..Len(list) /\ DOMAIN list' = 1..Len(list) - 1 /\ Len(list) \in Nat
    BY <2>2
  <2>4. ASSUME NEW x \in ToSet(list') PROVE x \in ToSet(list)
    <3>1. PICK k \in 1..Len(list) - 1 : x = list'[k]
      BY <2>3 DEF ToSet
    <3>2. \/ k \in 1..Len(list) /\ x = list[k]
          \/ k + 1 \in 1..Len(list) /\ x = list[k + 1]
      BY <2>2, <2>3, <3>1
    <3>3. QED
      BY <2>3, <3>2 DEF ToSet
  <2>5. ASSUME NEW x \in ToSet(list), x # s PROVE x \in ToSet(list')
    <3>1. PICK k \in 1..Len(list) : x = list[k]
      BY <2>3 DEF ToSet
    <3>2. k # i
      BY <2>1, <2>5, <3>1
    <3>3. CASE k < i
      <4>1. k \in 1..Len(list) - 1 /\ x = list'[k]
        BY <2>2, <2>3, <3>1, <3>3
      <4>2. QED
        BY <2>3, <4>1 DEF ToSet
    <3>4. CASE k > i
      <4>1. k - 1 \in 1..Len(list) - 1 /\ x = list'[k - 1]
        BY <2>2, <2>3, <3>1, <3>4
      <4>2. QED
        BY <2>3, <4>1 DEF ToSet
    <3>5. QED
      BY <3>2, <3>3, <3>4
  <2>6. QED
    BY <2>2, <2>4, <2>5
<1>3. QED
  BY <1>1, <1>2 DEF ListRemove

-----------------------------------------------------------------------------
(* Type correctness *)

LEMMA TypeInit == Init => TypeOK
<1> SUFFICES ASSUME Init PROVE TypeOK
  OBVIOUS
<1>1. list \in Seq(Sounds)
  BY EmptySeq DEF Init
<1>2. switch \in [Sounds -> BOOLEAN]
  BY DEF Init
<1>3. looping \in Nat /\ ending \in 0..MaxEnding /\ sent \in 0..MaxMsgs
  BY BoundAssumption DEF Init
<1>4. QED
  BY <1>1, <1>2, <1>3 DEF Init, TypeOK, Places

LEMMA TypeReceive ==
  ASSUME TypeOK, NEW on \in BOOLEAN, ReceiveAcc(on) \/ ReceiveOwner(on)
  PROVE  TypeOK'
<1>1. sent + 1 \in 0..MaxMsgs
  BY BoundAssumption DEF TypeOK, ReceiveAcc, ReceiveOwner
<1>2. CASE ReceiveAcc(on)
  BY <1>1, <1>2 DEF TypeOK, ReceiveAcc, list_, thread, handle
<1>3. CASE ReceiveOwner(on)
  BY <1>1, <1>3 DEF TypeOK, ReceiveOwner, list_, thread, handle
<1>4. QED
  BY <1>2, <1>3

\* The list after pushSound, if it puts the sound in.
LEMMA PushList ==
  ASSUME TypeOK, NEW s \in Sounds, NEW on \in BOOLEAN, PushSound(s, on)
  PROVE  \/ UNCHANGED list
         \/ Insert(s) /\ on /\ s \notin ToSet(list) /\ cur = NoSound /\ UNCHANGED push
BY DEF PushSound

LEMMA TypePush ==
  ASSUME TypeOK, NEW s \in Sounds, NEW on \in BOOLEAN, PushSound(s, on)
  PROVE  TypeOK'
<1>1. list' \in Seq(Sounds)
  BY PushList, InsertParts DEF TypeOK
<1>2. switch' \in [Sounds -> BOOLEAN]
  BY DEF PushSound, TypeOK
<1>3. sent' \in 0..MaxMsgs
  BY BoundAssumption DEF TypeOK, PushSound
<1>4. /\ push' \in Sounds \cup {NoSound} /\ tested' \in Sounds \cup {NoSound}
      /\ UNCHANGED <<cur, acc, owner, report, status, exited, looping, ending, crashed, pc, sound>>
  BY DEF TypeOK, PushSound, thread
<1>5. QED
  BY <1>1, <1>2, <1>3, <1>4 DEF TypeOK

LEMMA CompareList ==
  ASSUME TypeOK, ComparePriority
  PROVE  /\ push \in Sounds /\ ~crashed
         /\ \/ crashed' /\ UNCHANGED <<list, push>>
            \/ push' = NoSound /\ (UNCHANGED list \/ Insert(push))
         /\ crashed' \in BOOLEAN /\ tested' \in {tested, NoSound}
         /\ UNCHANGED <<switch, cur, acc, owner, report, status, exited, looping, ending,
                        pc, sound, sent>>
BY DEF TypeOK, ComparePriority, thread

LEMMA TypeCompare == ASSUME TypeOK, ComparePriority PROVE TypeOK'
<1>1. list' \in Seq(Sounds)
  BY CompareList, InsertParts DEF TypeOK
<1>2. QED
  BY <1>1, CompareList DEF TypeOK

LEMMA TypeGet == ASSUME TypeOK, GetOneSound PROVE TypeOK'
<1>1. Head(list) \in Sounds
  BY HeadTailProperties DEF TypeOK, GetOneSound
<1>2. QED
  BY <1>1 DEF TypeOK, GetOneSound, Places, list_, thread, handle

LEMMA TypeRemove == ASSUME TypeOK, RemoveOneSound PROVE TypeOK'
<1>1. list' \in Seq(Sounds)
  BY RemoveParts DEF TypeOK, RemoveOneSound
<1>2. QED
  BY <1>1 DEF TypeOK, RemoveOneSound, Places, inputs, thread, handle

LEMMA TypeStep == ASSUME TypeOK, [Next]_vars PROVE TypeOK'
<1>1. CASE \E on \in BOOLEAN : ReceiveAcc(on) \/ ReceiveOwner(on)
  BY <1>1, TypeReceive
<1>2. CASE \E s \in Sounds, on \in BOOLEAN : PushSound(s, on)
  BY <1>2, TypePush
<1>3. CASE ComparePriority
  BY <1>3, TypeCompare
<1>4. CASE GetOneSound
  BY <1>4, TypeGet
<1>5. CASE Look
  BY <1>5 DEF TypeOK, Look, Places, list_, inputs, thread, handle
<1>6. CASE RemoveOneSound
  BY <1>6, TypeRemove
<1>7. CASE StopPlay
  BY <1>7 DEF TypeOK, StopPlay, Places, list_, inputs, thread, handle
<1>8. CASE PlayWarning
  <2>1. looping' \in Nat /\ ending' \in 0..MaxEnding /\ sent' \in 0..MaxMsgs
    BY <1>8 DEF TypeOK, PlayWarning, inputs
  <2>2. QED
    BY <1>8, <2>1 DEF TypeOK, PlayWarning, Places, list_, inputs, handle
<1>9. CASE AudioPlayThread
  BY <1>9, BoundAssumption DEF TypeOK, AudioPlayThread, list_, inputs, handle
<1>10. CASE SetStop
  BY <1>10, BoundAssumption DEF TypeOK, SetStop, list_, inputs, handle
<1>11. CASE UNCHANGED vars
  BY <1>11 DEF TypeOK, vars, thread, handle
<1>12. QED
  BY <1>1, <1>2, <1>3, <1>4, <1>5, <1>6, <1>7, <1>8, <1>9, <1>10, <1>11
     DEF Next, Handle, Control

\* The variables keep their types for any sounds and any number of messages.
THEOREM SoundTypeCorrect == Spec => []TypeOK
<1>1. TypeOK /\ [Next]_vars => TypeOK'
  BY TypeStep
<1>2. QED
  BY <1>1, TypeInit, PTL DEF Spec

-----------------------------------------------------------------------------
(* One play thread at a time *)

LEMMA PlayStep == ASSUME TypeOK, OnePlays, [Next]_vars PROVE OnePlays'
<1>1. CASE Handle \/ GetOneSound \/ Look \/ RemoveOneSound \/ StopPlay \/ SetStop
            \/ UNCHANGED vars
  <2>1. UNCHANGED <<looping, exited>>
    BY <1>1 DEF Handle, ReceiveAcc, ReceiveOwner, PushSound, ComparePriority, GetOneSound,
                Look, RemoveOneSound, StopPlay, SetStop, vars, thread
  <2>2. QED
    BY <2>1 DEF OnePlays
<1>2. CASE PlayWarning
  BY <1>2 DEF PlayWarning, OnePlays, TypeOK
<1>3. CASE AudioPlayThread
  BY <1>3 DEF AudioPlayThread, OnePlays, TypeOK
<1>4. QED
  BY <1>1, <1>2, <1>3 DEF Next, Control

\* One play thread at a time plays, however late the others end: a thread in
\* its loop means that the flag is not set.
THEOREM OnePlaysCorrect == Spec => []OnePlays
<1>1. Init => OnePlays
  BY DEF Init, OnePlays
<1>2. TypeOK /\ OnePlays /\ [Next]_vars => OnePlays'
  BY PlayStep
<1>3. QED
  BY <1>1, <1>2, SoundTypeCorrect, PTL DEF Spec

-----------------------------------------------------------------------------
(* The sound control works on and the current one *)

\* What control works on is in the list until it removes it, and what it drops
\* is the current sound, if there is one.
Held ==
  /\ pc \in {"look", "drop", "replace", "replaced", "wait"} => sound \in ToSet(list)
  /\ pc = "drop" => cur \in {NoSound, sound}
  /\ pc = "replace" => cur # sound

ListedInv == Held /\ CurrentListed

LEMMA ListedStep == ASSUME TypeOK, ListedInv, [Next]_vars PROVE ListedInv'
<1>1. CASE Handle
  <2>1. UNCHANGED <<pc, sound, cur>> /\ ToSet(list) \subseteq ToSet(list')
    <3>1. CASE \E on \in BOOLEAN : ReceiveAcc(on) \/ ReceiveOwner(on)
      BY <3>1 DEF ReceiveAcc, ReceiveOwner, list_
    <3>2. CASE \E s \in Sounds, on \in BOOLEAN : PushSound(s, on)
      <4>1. PICK s \in Sounds, on \in BOOLEAN : PushSound(s, on)
        BY <3>2
      <4>2. UNCHANGED list \/ Insert(s)
        BY <4>1, PushList
      <4>3. ToSet(list) \subseteq ToSet(list')
        BY <4>2, InsertParts DEF TypeOK
      <4>4. QED
        BY <4>1, <4>3 DEF PushSound
    <3>3. CASE ComparePriority
      <4>1. push \in Sounds /\ (UNCHANGED list \/ Insert(push)) /\ UNCHANGED <<pc, sound, cur>>
        BY <3>3, CompareList
      <4>2. ToSet(list) \subseteq ToSet(list')
        BY <4>1, InsertParts DEF TypeOK
      <4>3. QED
        BY <4>1, <4>2
    <3>4. QED
      BY <1>1, <3>1, <3>2, <3>3 DEF Handle
  <2>2. QED
    BY <2>1 DEF ListedInv, Held, CurrentListed
<1>2. CASE GetOneSound
  <2>1. Head(list) \in ToSet(list)
    <3>1. list \in Seq(Sounds) /\ list # <<>>
      BY <1>2 DEF GetOneSound, TypeOK
    <3>2. Head(list) = list[1] /\ 1 \in DOMAIN list
      BY <3>1, EmptySeq
    <3>3. QED
      BY <3>2 DEF ToSet
  <2>2. QED
    BY <1>2, <2>1 DEF GetOneSound, list_, ListedInv, Held, CurrentListed
<1>3. CASE Look
  BY <1>3 DEF Look, list_, ListedInv, Held, CurrentListed
<1>4. CASE RemoveOneSound
  <2>1. CASE pc = "drop"
    BY <1>4, <2>1 DEF RemoveOneSound, ListedInv, Held, CurrentListed
  <2>2. CASE pc = "replace"
    <3>1. ListRemove(cur)
      BY <1>4, <2>2 DEF RemoveOneSound
    <3>2. ToSet(list) \subseteq ToSet(list') \cup {cur}
      BY <3>1, RemoveParts DEF TypeOK
    <3>3. QED
      BY <1>4, <2>2, <3>2 DEF RemoveOneSound, ListedInv, Held, CurrentListed
  <2>3. QED
    BY <1>4, <2>1, <2>2 DEF RemoveOneSound
<1>5. CASE StopPlay
  BY <1>5 DEF StopPlay, list_, ListedInv, Held, CurrentListed
<1>6. CASE PlayWarning
  BY <1>6 DEF PlayWarning, list_, ListedInv, Held, CurrentListed
<1>7. CASE AudioPlayThread \/ SetStop \/ UNCHANGED vars
  BY <1>7 DEF AudioPlayThread, SetStop, vars, list_, ListedInv, Held, CurrentListed
<1>8. QED
  BY <1>1, <1>2, <1>3, <1>4, <1>5, <1>6, <1>7 DEF Next, Control

\* The current sound is in the list, whatever handle inserts and switches while
\* control works on it.
THEOREM CurrentCorrect == Spec => []CurrentListed
<1>1. Init => ListedInv
  BY DEF Init, ListedInv, Held, CurrentListed
<1>2. TypeOK /\ ListedInv /\ [Next]_vars => ListedInv'
  BY ListedStep
<1>3. ListedInv => CurrentListed
  BY DEF ListedInv
<1>4. QED
  BY <1>1, <1>2, <1>3, SoundTypeCorrect, PTL DEF Spec

-----------------------------------------------------------------------------
(* The list and the turn signals *)

LEMMA InsertOrdered ==
  ASSUME TypeOK, ListOrdered, NEW s \in Sounds, s \notin ToSet(list), Insert(s)
  PROVE  ListOrdered'
<1>1. list \in Seq(Sounds)
  BY DEF TypeOK
<1>2. PICK i \in 1..Len(list) + 1 :
        /\ \A j \in DOMAIN list : Urgent(s, list[j]) <=> i <= j
        /\ list' = InsertAt(list, i, s)
  BY DEF Insert
<1>3. /\ InsertAt(list, i, s) \in Seq(Sounds)
      /\ Len(InsertAt(list, i, s)) = Len(list) + 1
      /\ \A k \in 1..Len(list) + 1 :
           InsertAt(list, i, s)[k] =
             IF k < i THEN list[k] ELSE IF k = i THEN s ELSE list[k - 1]
  <2>1. i \in 1..Len(list) + 1
    BY <1>2
  <2>2. QED
    BY <1>1, <2>1, InsertSound
<1>4. PICK n : n = Len(list)
  OBVIOUS
<1>5. /\ n \in Nat /\ i \in 1..n + 1
      /\ DOMAIN list = 1..n /\ DOMAIN list' = 1..n + 1
      /\ \A k \in 1..n + 1 :
           list'[k] = IF k < i THEN list[k] ELSE IF k = i THEN s ELSE list[k - 1]
  BY <1>1, <1>2, <1>3, <1>4
<1>6. \A k \in 1..n : list[k] \in Sounds /\ list[k] # s
  BY <1>1, <1>4, <1>5 DEF ToSet
<1>7. \A k \in 1..n : Priority[list[k]] \in Nat
  BY <1>6, SoundAssumption
<1>8. Priority[s] \in Nat
  BY SoundAssumption
<1>9. \A k \in 1..n : Priority[s] < Priority[list[k]] <=> i <= k
  BY <1>2, <1>5 DEF Urgent
<1>10. \A k, l \in 1..n : k < l => list[k] # list[l] /\ ~(Priority[list[l]] < Priority[list[k]])
  BY <1>5 DEF ListOrdered, Urgent
<1>11. ASSUME NEW a \in 1..n + 1, NEW b \in 1..n + 1, a < b
       PROVE  list'[a] # list'[b] /\ ~(Priority[list'[b]] < Priority[list'[a]])
  <2>1. a \in Nat /\ b \in Nat /\ i \in Nat
    BY <1>5
  <2>2. CASE b = i
    <3>1. a \in 1..n /\ ~(i <= a) /\ list'[a] = list[a] /\ list'[b] = s
      BY <1>5, <1>11, <2>1, <2>2
    <3>2. QED
      BY <1>6, <1>9, <3>1
  <2>3. CASE a = i
    <3>1. b - 1 \in 1..n /\ i <= b - 1 /\ list'[b] = list[b - 1] /\ list'[a] = s
      BY <1>5, <1>11, <2>1, <2>3
    <3>2. Priority[s] < Priority[list[b - 1]] /\ list[b - 1] # s
          /\ Priority[list[b - 1]] \in Nat
      BY <1>6, <1>7, <1>9, <3>1
    <3>3. QED
      BY <1>8, <3>1, <3>2
  <2>4. CASE a # i /\ b # i
    <3>1. PICK k, l : /\ k = (IF a < i THEN a ELSE a - 1)
                      /\ l = (IF b < i THEN b ELSE b - 1)
      OBVIOUS
    <3>2. k \in 1..n /\ l \in 1..n /\ k < l
      BY <1>5, <1>11, <2>1, <2>4, <3>1
    <3>3. list'[a] = list[k] /\ list'[b] = list[l]
      BY <1>5, <1>11, <2>1, <2>4, <3>1
    <3>4. QED
      BY <1>10, <3>2, <3>3
  <2>5. QED
    BY <2>2, <2>3, <2>4
<1>12. QED
  BY <1>5, <1>11 DEF ListOrdered, Urgent

LEMMA RemoveOrdered ==
  ASSUME TypeOK, ListOrdered, NEW s, ListRemove(s)
  PROVE  ListOrdered'
<1>1. CASE UNCHANGED list
  BY <1>1 DEF ListOrdered
<1>2. CASE \E i \in DOMAIN list : list[i] = s /\ list' = RemoveAt(list, i)
  <2>1. list \in Seq(Sounds)
    BY DEF TypeOK
  <2>2. PICK i \in 1..Len(list) : list' = RemoveAt(list, i)
    BY <1>2, <2>1
  <2>3. /\ RemoveAt(list, i) \in Seq(Sounds)
        /\ Len(RemoveAt(list, i)) = Len(list) - 1
        /\ \A k \in 1..Len(list) - 1 :
             RemoveAt(list, i)[k] = IF k < i THEN list[k] ELSE list[k + 1]
    <3>1. i \in 1..Len(list)
      BY <2>2
    <3>2. QED
      BY <2>1, <3>1, RemoveAtParts
  <2>4. PICK n : n = Len(list)
    OBVIOUS
  <2>5. /\ n \in Nat /\ i \in 1..n
        /\ DOMAIN list = 1..n /\ DOMAIN list' = 1..n - 1
        /\ \A k \in 1..n - 1 : list'[k] = IF k < i THEN list[k] ELSE list[k + 1]
    BY <2>1, <2>2, <2>3, <2>4
  <2>6. \A k, l \in 1..n : k < l => list[k] # list[l] /\ ~Urgent(list[l], list[k])
    BY <2>5 DEF ListOrdered
  <2>7. ASSUME NEW a \in 1..n - 1, NEW b \in 1..n - 1, a < b
        PROVE  list'[a] # list'[b] /\ ~Urgent(list'[b], list'[a])
    <3>1. PICK k, l : /\ k = (IF a < i THEN a ELSE a + 1)
                      /\ l = (IF b < i THEN b ELSE b + 1)
      OBVIOUS
    <3>2. k \in 1..n /\ l \in 1..n /\ k < l
      BY <2>5, <2>7, <3>1
    <3>3. list'[a] = list[k] /\ list'[b] = list[l]
      BY <2>5, <2>7, <3>1
    <3>4. QED
      BY <2>6, <3>2, <3>3
  <2>8. QED
    BY <2>5, <2>7 DEF ListOrdered
<1>3. QED
  BY <1>1, <1>2 DEF ListRemove

\* The sound that handle is about to insert is not in the list, and the turn
\* signals in it were turned off for a turn signal.
Pending ==
  push # NoSound /\ ~crashed =>
    /\ push \notin ToSet(list)
    /\ push \in Turn => \A t \in Turn \cap ToSet(list) : ~switch[t]

ListInv == ListOrdered /\ TurnExclusive /\ Pending

LEMMA PushSwitches ==
  ASSUME TypeOK, NEW s \in Sounds, NEW on \in BOOLEAN, PushSound(s, on),
         NEW t \in Turn \cap ToSet(list), t # s, switch'[t]
  PROVE  switch[t] /\ s \notin Turn
<1>1. t \in Sounds
  BY SoundAssumption
<1>2. switch'[t] = (switch[t] /\ t \notin TurnedOff(s))
  BY <1>1 DEF PushSound
<1>3. QED
  BY <1>2 DEF TurnedOff

LEMMA ListStep == ASSUME TypeOK, ListInv, [Next]_vars PROVE ListInv'
<1>1. CASE \E on \in BOOLEAN : ReceiveAcc(on) \/ ReceiveOwner(on)
  BY <1>1 DEF ReceiveAcc, ReceiveOwner, list_, handle, ListInv, ListOrdered, TurnExclusive, Pending
<1>2. ASSUME NEW s \in Sounds, NEW on \in BOOLEAN, PushSound(s, on)
      PROVE  ListInv'
  <2>1. \/ UNCHANGED list
        \/ Insert(s) /\ on /\ s \notin ToSet(list) /\ cur = NoSound /\ UNCHANGED push
    BY <1>2, PushList
  <2>2. ListOrdered'
    <3>1. CASE UNCHANGED list
      BY <3>1 DEF ListInv, ListOrdered
    <3>2. CASE Insert(s) /\ s \notin ToSet(list)
      BY <3>2, InsertOrdered DEF ListInv
    <3>3. QED
      BY <2>1, <3>1, <3>2
  <2>3. ToSet(list') \subseteq ToSet(list) \cup {s}
    BY <2>1, InsertParts DEF TypeOK
  <2>4. TurnExclusive'
    <3> SUFFICES ASSUME NEW t \in Turn \cap ToSet(list'), NEW u \in Turn \cap ToSet(list'),
                        switch'[t], switch'[u]
                 PROVE  t = u
      BY DEF TurnExclusive
    <3>1. CASE s \in Turn
      BY <1>2, <2>3, <3>1, PushSwitches
    <3>2. CASE s \notin Turn
      <4>1. /\ t \in ToSet(list) /\ t # s
            /\ u \in ToSet(list) /\ u # s
        BY <2>3, <3>2
      <4>2. switch[t] /\ switch[u]
        BY <1>2, <4>1, PushSwitches
      <4>3. QED
        BY <4>1, <4>2 DEF ListInv, TurnExclusive
    <3>3. QED
      BY <3>1, <3>2
  <2>5. Pending'
    <3>1. push = NoSound /\ ~crashed
      BY <1>2 DEF PushSound, Unlocked
    <3>2. CASE on /\ s \notin ToSet(list) /\ cur # NoSound
      <4>1. push' = s /\ UNCHANGED list
        BY <1>2, <3>2 DEF PushSound
      <4>2. s \in Turn => \A t \in Turn \cap ToSet(list) : ~switch'[t]
        BY <1>2, <3>2, PushSwitches
      <4>3. QED
        BY <3>2, <4>1, <4>2 DEF Pending
    <3>3. CASE ~(on /\ s \notin ToSet(list) /\ cur # NoSound)
      BY <1>2, <3>1, <3>3 DEF PushSound, Pending
    <3>4. QED
      BY <3>2, <3>3
  <2>6. QED
    BY <2>2, <2>4, <2>5 DEF ListInv
<1>3. CASE ComparePriority
  <2>1. /\ push \in Sounds /\ ~crashed /\ UNCHANGED switch
        /\ \/ crashed' /\ UNCHANGED <<list, push>>
           \/ push' = NoSound /\ (UNCHANGED list \/ Insert(push))
    BY <1>3, CompareList
  <2>2. push \notin ToSet(list) /\ (push \in Turn => \A t \in Turn \cap ToSet(list) : ~switch[t])
    BY <2>1, SoundAssumption DEF ListInv, Pending
  <2>3. Pending'
    BY <2>1 DEF Pending
  <2>4. CASE UNCHANGED list
    BY <2>1, <2>3, <2>4 DEF ListInv, ListOrdered, TurnExclusive
  <2>5. CASE Insert(push)
    <3>1. ListOrdered'
      BY <2>1, <2>2, <2>5, InsertOrdered DEF ListInv
    <3>2. ToSet(list') = ToSet(list) \cup {push}
      BY <2>1, <2>5, InsertParts DEF TypeOK
    <3>3. TurnExclusive'
      BY <2>1, <2>2, <3>2 DEF ListInv, TurnExclusive
    <3>4. QED
      BY <2>3, <3>1, <3>3 DEF ListInv
  <2>6. QED
    BY <2>1, <2>4, <2>5
<1>4. CASE RemoveOneSound
  <2>1. PICK s : ListRemove(s)
    BY <1>4 DEF RemoveOneSound
  <2>2. ListOrdered'
    BY <2>1, RemoveOrdered DEF ListInv
  <2>3. ToSet(list') \subseteq ToSet(list)
    BY <2>1, RemoveParts DEF TypeOK
  <2>4. UNCHANGED <<switch, push, crashed>> /\ push = NoSound
    BY <1>4 DEF RemoveOneSound, Unlocked, handle
  <2>5. QED
    BY <2>2, <2>3, <2>4 DEF ListInv, TurnExclusive, Pending
<1>5. CASE GetOneSound \/ Look \/ StopPlay \/ PlayWarning \/ AudioPlayThread \/ SetStop
           \/ UNCHANGED vars
  <2>1. UNCHANGED <<list, switch, push, crashed>>
    BY <1>5 DEF GetOneSound, Look, StopPlay, PlayWarning, AudioPlayThread, SetStop, vars,
                list_, handle
  <2>2. QED
    BY <2>1 DEF ListInv, ListOrdered, TurnExclusive, Pending
<1>6. QED
  BY <1>1, <1>2, <1>3, <1>4, <1>5 DEF Next, Handle, Control

\* The list, the switches of the turn signals and the sound handle is about to
\* insert agree, whatever control removes meanwhile.
THEOREM ListCorrect == Spec => []ListInv
<1>1. Init => ListInv
  BY DEF Init, ListInv, ListOrdered, TurnExclusive, Pending, ToSet
<1>2. TypeOK /\ ListInv /\ [Next]_vars => ListInv'
  BY ListStep
<1>3. QED
  BY <1>1, <1>2, SoundTypeCorrect, PTL DEF Spec

\* The list has every sound once and is ordered by urgency.
THEOREM OrderedCorrect == Spec => []ListOrdered
<1>1. ListInv => ListOrdered
  BY DEF ListInv
<1>2. QED
  BY <1>1, ListCorrect, PTL

\* The tick and the tock of the turn signal are never both on in the list.
THEOREM TurnCorrect == Spec => []TurnExclusive
<1>1. ListInv => TurnExclusive
  BY DEF ListInv
<1>2. QED
  BY <1>1, ListCorrect, PTL

=============================================================================
