-------------------------- MODULE MiddlewareProofs --------------------------
(***************************************************************************)
(* Proofs about the composition, for any doors, speeds and thresholds and  *)
(* any number of inputs: each component runs in it as it runs alone, and   *)
(* what CoreProcessor decides arrives at ViewService.                      *)
(***************************************************************************)
EXTENDS Middleware, TLAPS, SequenceTheorems

CoreAlone == INSTANCE DoorWarningProofs WITH
  told <- core_told, m_isConnected <- core_connected, MaxDrops <- 0

-----------------------------------------------------------------------------
(* CoreProcessor runs as it does alone, with a connection that lasts *)

LEMMA CoreAssumptions == CoreAlone!SpeedAssumption /\ CoreAlone!DropAssumption
  BY SpeedBound DEF CoreAlone!SpeedAssumption, CoreAlone!DropAssumption

LEMMA CoreInit == Init => CoreAlone!Init
  BY DEF Init, Core!Init, CoreAlone!Init, Core!Views, CoreAlone!Views,
         Core!DoorViews, CoreAlone!DoorViews, Core!Limit, CoreAlone!Limit

\* A handler, or the sending of one message, is the same step in both.
LEMMA CoreHandlers ==
  /\ \A doors : Core!DoorMessage(doors) => CoreAlone!DoorMessage(doors)
  /\ \A s : Core!SpeedMessage(s) => CoreAlone!SpeedMessage(s)
  /\ \A m : Core!SendViewPageInfo(m) => CoreAlone!SendViewPageInfo(m)
  BY DEF Core!DoorMessage, CoreAlone!DoorMessage, Core!SpeedMessage, CoreAlone!SpeedMessage,
         Core!SendViewPageInfo, CoreAlone!SendViewPageInfo, Core!core, CoreAlone!core,
         Core!link, CoreAlone!link, Core!view, CoreAlone!view, Core!Msgs, CoreAlone!Msgs,
         Core!DoorView, CoreAlone!DoorView, Core!OtherView, CoreAlone!OtherView,
         Core!Printed, CoreAlone!Printed, Core!LimitMsgs, CoreAlone!LimitMsgs,
         Core!Moved, CoreAlone!Moved, Core!Limit, CoreAlone!Limit,
         Core!Rounds, CoreAlone!Rounds, Core!Askewed, CoreAlone!Askewed

LEMMA CoreStep == [Next]_vars => [CoreAlone!Next]_CoreAlone!vars
<1> SUFFICES ASSUME [Next]_vars PROVE [CoreAlone!Next]_CoreAlone!vars
  OBVIOUS
<1>1. CASE UNCHANGED coreVars
  BY <1>1 DEF coreVars, CoreAlone!vars, CoreAlone!core, CoreAlone!link, CoreAlone!view
<1>2. CASE Input
  BY <1>2, CoreHandlers DEF Input, CoreAlone!Next
<1>3. CASE SendViewPageInfo
  BY <1>3, CoreHandlers DEF SendViewPageInfo, CoreAlone!Next
<1>4. QED
  BY <1>1, <1>2, <1>3 DEF Next, TurnKey, MsgReciever, Schedule, vars

\* CoreProcessor does in the composition what DoorWarning says of it.
THEOREM CoreRuns == Spec => CoreAlone!Spec
  BY CoreInit, CoreStep, PTL DEF Spec, CoreAlone!Spec

LEMMA CoreTypes == Spec => []CoreAlone!TypeOK
  BY CoreRuns, CoreAssumptions, CoreAlone!DoorTypeCorrect, PTL

-----------------------------------------------------------------------------
(* Sequences of messages: what the messages on their way will tell *)

Limit == Core!Limit

\* A door under one of its two views, and the overspeed warning.
Pairs == (Core!DoorViews \X Doors) \cup {<<Limit, Limit>>}

Of(m, v, e)        == m.view = v /\ m.extra = e
NoneOf(q, v, e)    == \A i \in DOMAIN q : ~Of(q[i], v, e)
Newest(q, i, v, e) == Of(q[i], v, e) /\ \A j \in DOMAIN q : Of(q[j], v, e) => j <= i

\* The newest message about <<v, e>> in the queue q says whether e is in C; with
\* no such message the receiver, who knows T, was told so.
Agrees(q, v, e, T, C) ==
  /\ \A i \in DOMAIN q : Newest(q, i, v, e) => (q[i].status = "ON" <=> e \in C)
  /\ NoneOf(q, v, e) => (e \in T <=> e \in C)

\* Message i is the next about the limit after message j.
Follows(q, j, i) ==
  j < i /\ q[j].view = Limit /\ \A k \in DOMAIN q : j < k /\ k < i => q[k].view # Limit

\* The messages about the limit say the opposite of one another, the first the
\* opposite of what the receiver, who knows T, was told.
Alternates(q, T) ==
  \A i \in DOMAIN q : q[i].view = Limit =>
    /\ (\A j \in DOMAIN q : j < i => q[j].view # Limit) =>
         (q[i].status = "ON" <=> Limit \notin T)
    /\ \A j \in DOMAIN q : Follows(q, j, i) => ~(q[i].status = "ON" <=> q[j].status = "ON")

LEMMA AppendParts ==
  ASSUME NEW S, NEW q \in Seq(S), NEW m \in S
  PROVE  /\ Append(q, m) \in Seq(S)
         /\ DOMAIN q = 1..Len(q) /\ Len(q) \in Nat
         /\ DOMAIN Append(q, m) = 1..(Len(q) + 1)
         /\ \A i \in 1..Len(q) : Append(q, m)[i] = q[i]
         /\ Append(q, m)[Len(q) + 1] = m
  BY AppendProperties

LEMMA TailParts ==
  ASSUME NEW S, NEW q \in Seq(S), q # <<>>
  PROVE  /\ Tail(q) \in Seq(S) /\ Head(q) \in S /\ Head(q) = q[1]
         /\ Len(q) \in Nat /\ Len(q) >= 1 /\ DOMAIN q = 1..Len(q)
         /\ DOMAIN Tail(q) = 1..(Len(q) - 1)
         /\ \A i \in 1..(Len(q) - 1) : Tail(q)[i] = q[i + 1]
  BY HeadTailProperties, EmptySeq, LenProperties

\* A message that is sent tells what it says, and nothing about other extras.
LEMMA AppendAgrees ==
  ASSUME NEW S, NEW q \in Seq(S), NEW m \in S, NEW v, NEW e,
         NEW T, NEW C, NEW D,
         Agrees(q, v, e, T, C),
         e \in D <=> IF Of(m, v, e) THEN m.status = "ON" ELSE e \in C
  PROVE  Agrees(Append(q, m), v, e, T, D)
<1>1. PICK r, n : r = Append(q, m) /\ n = Len(q)
  OBVIOUS
<1>2. /\ DOMAIN q = 1..n /\ n \in Nat /\ DOMAIN r = 1..(n + 1)
      /\ \A i \in 1..n : r[i] = q[i]
      /\ r[n + 1] = m
  BY <1>1, AppendParts
<1>3. CASE Of(m, v, e)
  <2>1. ~NoneOf(r, v, e)
    BY <1>2, <1>3 DEF NoneOf
  <2>2. ASSUME NEW i \in DOMAIN r, Newest(r, i, v, e)
        PROVE  i = n + 1
    BY <1>2, <1>3, <2>2 DEF Newest
  <2>3. \A i \in DOMAIN r : Newest(r, i, v, e) => (r[i].status = "ON" <=> e \in D)
    BY <1>2, <1>3, <2>2
  <2>4. QED
    BY <1>1, <2>1, <2>3 DEF Agrees
<1>4. CASE ~Of(m, v, e)
  <2>1. NoneOf(r, v, e) => NoneOf(q, v, e)
    BY <1>2 DEF NoneOf
  <2>2. ASSUME NEW i \in DOMAIN r, Newest(r, i, v, e)
        PROVE  i \in DOMAIN q /\ Newest(q, i, v, e) /\ r[i] = q[i]
    <3>1. i \in 1..n
      BY <1>2, <1>4, <2>2 DEF Newest
    <3>2. QED
      BY <1>2, <2>2, <3>1 DEF Newest
  <2>3. QED
    BY <1>1, <1>4, <2>1, <2>2 DEF Agrees
<1>5. QED
  BY <1>3, <1>4

\* A message that is received tells what it says to the receiver.
LEMMA TailAgrees ==
  ASSUME NEW S, NEW q \in Seq(S), q # <<>>, NEW v, NEW e,
         NEW T, NEW C, NEW U,
         Agrees(q, v, e, T, C),
         e \in U <=> IF Of(Head(q), v, e) THEN Head(q).status = "ON" ELSE e \in T
  PROVE  Agrees(Tail(q), v, e, U, C)
<1>1. PICK r, n, h : r = Tail(q) /\ n = Len(q) /\ h = Head(q)
  OBVIOUS
<1>2. /\ DOMAIN q = 1..n /\ n \in Nat /\ n >= 1 /\ DOMAIN r = 1..(n - 1)
      /\ \A i \in 1..(n - 1) : r[i] = q[i + 1]
      /\ q[1] = h
  BY <1>1, TailParts
<1>3. ASSUME NEW i \in DOMAIN r, Newest(r, i, v, e)
      PROVE  Newest(q, i + 1, v, e)
  <2>1. ASSUME NEW j \in DOMAIN q, Of(q[j], v, e)
        PROVE  j <= i + 1
    <3>1. CASE j = 1
      BY <1>2, <1>3, <3>1
    <3>2. CASE j # 1
      <4>1. j - 1 \in DOMAIN r /\ r[j - 1] = q[j]
        BY <1>2, <3>2
      <4>2. j - 1 <= i
        BY <1>3, <2>1, <4>1 DEF Newest
      <4>3. QED
        BY <1>2, <4>2
    <3>3. QED
      BY <3>1, <3>2
  <2>2. QED
    BY <1>2, <1>3, <2>1 DEF Newest
<1>4. \A i \in DOMAIN r : Newest(r, i, v, e) => (r[i].status = "ON" <=> e \in C)
  BY <1>2, <1>3 DEF Agrees
<1>5. ASSUME NoneOf(r, v, e)
      PROVE  e \in U <=> e \in C
  <2>1. \A j \in DOMAIN q : Of(q[j], v, e) => j = 1
    <3>1. ASSUME NEW j \in DOMAIN q, Of(q[j], v, e), j # 1
          PROVE  FALSE
      <4>1. j - 1 \in DOMAIN r /\ r[j - 1] = q[j]
        BY <1>2, <3>1
      <4>2. QED
        BY <1>5, <3>1, <4>1 DEF NoneOf
    <3>2. QED
      BY <3>1
  <2>2. CASE Of(h, v, e)
    <3>1. Newest(q, 1, v, e) /\ 1 \in DOMAIN q
      BY <1>2, <2>1, <2>2 DEF Newest
    <3>2. QED
      BY <1>1, <1>2, <2>2, <3>1 DEF Agrees
  <2>3. CASE ~Of(h, v, e)
    BY <1>1, <1>2, <2>1, <2>3 DEF Agrees, NoneOf
  <2>4. QED
    BY <2>2, <2>3
<1>6. QED
  BY <1>1, <1>4, <1>5 DEF Agrees

\* A message about the limit that says the opposite of what the last one said,
\* or the receiver was told, keeps the order.
LEMMA AppendAlternates ==
  ASSUME NEW S, NEW q \in Seq(S), NEW m \in S,
         NEW T, NEW C,
         Alternates(q, T),
         \A i \in DOMAIN q : q[i].view = Limit => q[i].extra = Limit,
         Agrees(q, Limit, Limit, T, C),
         m.view = Limit => (m.status = "ON" <=> Limit \notin C)
  PROVE  Alternates(Append(q, m), T)
<1>1. PICK r, n : r = Append(q, m) /\ n = Len(q)
  OBVIOUS
<1>2. /\ DOMAIN q = 1..n /\ n \in Nat /\ DOMAIN r = 1..(n + 1)
      /\ \A i \in 1..n : r[i] = q[i]
      /\ r[n + 1] = m
  BY <1>1, AppendParts
<1>3. ASSUME NEW i \in DOMAIN r, r[i].view = Limit
      PROVE  /\ (\A j \in DOMAIN r : j < i => r[j].view # Limit) =>
                  (r[i].status = "ON" <=> Limit \notin T)
             /\ \A j \in DOMAIN r :
                  Follows(r, j, i) => ~(r[i].status = "ON" <=> r[j].status = "ON")
  <2>1. CASE i \in 1..n
    <3>1. (\A j \in DOMAIN r : j < i => r[j].view # Limit) =>
            \A j \in DOMAIN q : j < i => q[j].view # Limit
      BY <1>2
    <3>2. ASSUME NEW j \in DOMAIN r, Follows(r, j, i)
          PROVE  j \in DOMAIN q /\ r[j] = q[j] /\ Follows(q, j, i)
      <4>1. j \in 1..n
        BY <1>2, <2>1, <3>2 DEF Follows
      <4>2. QED
        BY <1>2, <3>2, <4>1 DEF Follows
    <3>3. QED
      BY <1>2, <1>3, <2>1, <3>1, <3>2 DEF Alternates
  <2>2. CASE i = n + 1
    <3>1. r[i].status = "ON" <=> Limit \notin C
      BY <1>2, <1>3, <2>2
    <3>2. ASSUME \A j \in DOMAIN r : j < i => r[j].view # Limit
          PROVE  r[i].status = "ON" <=> Limit \notin T
      <4>1. NoneOf(q, Limit, Limit)
        BY <1>2, <2>2, <3>2 DEF NoneOf, Of
      <4>2. QED
        BY <3>1, <4>1 DEF Agrees
    <3>3. ASSUME NEW j \in DOMAIN r, Follows(r, j, i)
          PROVE  ~(r[i].status = "ON" <=> r[j].status = "ON")
      <4>1. j \in 1..n /\ r[j] = q[j]
        BY <1>2, <2>2, <3>3 DEF Follows
      <4>2. ASSUME NEW k \in DOMAIN q, Of(q[k], Limit, Limit)
            PROVE  k <= j
        BY <1>2, <2>2, <3>3, <4>1, <4>2 DEF Follows, Of
      <4>3. Newest(q, j, Limit, Limit)
        BY <1>2, <3>3, <4>1, <4>2 DEF Newest, Follows, Of
      <4>4. QED
        BY <1>2, <3>1, <4>1, <4>3 DEF Agrees
    <3>4. QED
      BY <3>2, <3>3
  <2>3. QED
    BY <1>2, <2>1, <2>2
<1>4. QED
  BY <1>1, <1>3 DEF Alternates

\* The first message about the limit changes what the receiver was told.
LEMMA TailAlternates ==
  ASSUME NEW S, NEW q \in Seq(S), q # <<>>,
         NEW T, NEW U,
         Alternates(q, T),
         Limit \in U <=> IF Head(q).view = Limit THEN Head(q).status = "ON" ELSE Limit \in T
  PROVE  /\ Head(q).view = Limit => (Head(q).status = "ON" <=> Limit \notin T)
         /\ Alternates(Tail(q), U)
<1>1. PICK r, n, h : r = Tail(q) /\ n = Len(q) /\ h = Head(q)
  OBVIOUS
<1>2. /\ DOMAIN q = 1..n /\ n \in Nat /\ n >= 1 /\ DOMAIN r = 1..(n - 1)
      /\ \A i \in 1..(n - 1) : r[i] = q[i + 1]
      /\ q[1] = h /\ 1 \in DOMAIN q
  BY <1>1, TailParts
<1>3. h.view = Limit => (h.status = "ON" <=> Limit \notin T)
  BY <1>2 DEF Alternates
<1>4. ASSUME NEW i \in DOMAIN r, r[i].view = Limit
      PROVE  /\ (\A j \in DOMAIN r : j < i => r[j].view # Limit) =>
                  (r[i].status = "ON" <=> Limit \notin U)
             /\ \A j \in DOMAIN r :
                  Follows(r, j, i) => ~(r[i].status = "ON" <=> r[j].status = "ON")
  <2>0. i + 1 \in DOMAIN q /\ r[i] = q[i + 1] /\ i \in 1..(n - 1)
    BY <1>2
  <2>1. ASSUME \A j \in DOMAIN r : j < i => r[j].view # Limit
        PROVE  r[i].status = "ON" <=> Limit \notin U
    <3>1. ASSUME NEW k \in DOMAIN q, 1 < k, k < i + 1
          PROVE  q[k].view # Limit
      <4>1. k - 1 \in DOMAIN r /\ r[k - 1] = q[k] /\ k - 1 < i
        BY <1>2, <2>0, <3>1
      <4>2. QED
        BY <2>1, <4>1
    <3>2. CASE h.view = Limit
      <4>1. Follows(q, 1, i + 1)
        BY <1>2, <2>0, <3>1, <3>2 DEF Follows
      <4>2. ~(q[i + 1].status = "ON" <=> q[1].status = "ON")
        BY <1>2, <1>4, <2>0, <4>1 DEF Alternates
      <4>3. QED
        BY <1>1, <1>2, <2>0, <3>2, <4>2
    <3>3. CASE h.view # Limit
      <4>1. \A k \in DOMAIN q : k < i + 1 => q[k].view # Limit
        BY <1>2, <3>1, <3>3
      <4>2. QED
        BY <1>1, <1>4, <2>0, <3>3, <4>1 DEF Alternates
    <3>4. QED
      BY <3>2, <3>3
  <2>2. ASSUME NEW j \in DOMAIN r, Follows(r, j, i)
        PROVE  ~(r[i].status = "ON" <=> r[j].status = "ON")
    <3>1. j \in 1..(n - 1) /\ j + 1 \in DOMAIN q /\ r[j] = q[j + 1]
      BY <1>2
    <3>2. ASSUME NEW k \in DOMAIN q, j + 1 < k, k < i + 1
          PROVE  q[k].view # Limit
      <4>1. k - 1 \in DOMAIN r /\ r[k - 1] = q[k] /\ j < k - 1 /\ k - 1 < i
        BY <1>2, <2>0, <3>1, <3>2
      <4>2. QED
        BY <2>2, <4>1 DEF Follows
    <3>3. Follows(q, j + 1, i + 1)
      BY <1>2, <2>0, <2>2, <3>1, <3>2 DEF Follows
    <3>4. QED
      BY <1>4, <2>0, <3>1, <3>3 DEF Alternates
  <2>3. QED
    BY <2>1, <2>2
<1>5. QED
  BY <1>1, <1>3, <1>4 DEF Alternates

-----------------------------------------------------------------------------
(* The scheduler takes the same steps whatever it expects of its messages: *)
(* only ReceiveWarn reads EdgeTriggered.                                    *)

LEMMA SameFirst ==
  ASSUME NEW s, NEW v
  PROVE  Scheduler!FirstAt(s, v) = Alone!FirstAt(s, v) /\ Scheduler!Has(s, v) = Alone!Has(s, v)
  BY DEF Scheduler!FirstAt, Alone!FirstAt, Scheduler!SelectInSeq, Alone!SelectInSeq,
         Scheduler!Min, Alone!Min, Scheduler!Has, Alone!Has
LEMMA SameErase ==
  ASSUME NEW s, NEW v PROVE Scheduler!Erase(s, v) = Alone!Erase(s, v)
  BY SameFirst
     DEF Scheduler!Erase, Alone!Erase, Scheduler!RemoveAt, Alone!RemoveAt

LEMMA SameSort ==
  ASSUME NEW s PROVE Scheduler!SortedByPriority(s) = Alone!SortedByPriority(s)
  BY DEF Scheduler!SortedByPriority, Alone!SortedByPriority, Scheduler!Bijection,
         Alone!Bijection, Scheduler!Injection, Alone!Injection, Scheduler!Surjection,
         Alone!Surjection, Scheduler!IsInjective, Alone!IsInjective

LEMMA SameUpdate ==
  ASSUME NEW s, NEW m PROVE Scheduler!UpdateFirst(s, m) = Alone!UpdateFirst(s, m)
  BY SameFirst
     DEF Scheduler!UpdateFirst, Alone!UpdateFirst, Scheduler!Updated, Alone!Updated

LEMMA SameReceiver == Scheduler!Receiver => Alone!Receiver
  BY SameFirst, SameErase, SameSort, SameUpdate
     DEF Scheduler!NoNode, Alone!NoNode, Scheduler!NoMsg, Alone!NoMsg, Scheduler!lists,
         Alone!lists, Scheduler!timers, Alone!timers, Scheduler!output, Alone!output,
         Scheduler!status, Alone!status, Scheduler!input, Alone!input, Scheduler!IsOn,
         Alone!IsOn, Scheduler!Updated, Alone!Updated, Scheduler!NewNode, Alone!NewNode,
         Scheduler!At, Alone!At, Scheduler!Go, Alone!Go, Scheduler!Conforms,
         Alone!Conforms, Scheduler!Leaves, Alone!Leaves, Scheduler!Notify, Alone!Notify,
         Scheduler!SendAudioWarnInfo, Alone!SendAudioWarnInfo, Scheduler!MsgSend,
         Alone!MsgSend, Scheduler!Notifies, Alone!Notifies, Scheduler!Received,
         Alone!Received, Scheduler!UpdateSeriousWarnList, Alone!UpdateSeriousWarnList,
         Scheduler!IsNodeExistInLoopList, Alone!IsNodeExistInLoopList,
         Scheduler!GetLoopDoorInfoNode, Alone!GetLoopDoorInfoNode, Scheduler!TakeFromLoop,
         Alone!TakeFromLoop, Scheduler!IsNodeExistInFreshList,
         Alone!IsNodeExistInFreshList, Scheduler!SetFreshNode, Alone!SetFreshNode,
         Scheduler!AppendFresh, Alone!AppendFresh, Scheduler!AppendDoorInfo,
         Alone!AppendDoorInfo, Scheduler!SortLoop, Alone!SortLoop, Scheduler!Receiver,
         Alone!Receiver

LEMMA SameHandler == Scheduler!Handler => Alone!Handler
  BY SameFirst, SameErase, SameSort, SameUpdate
     DEF Scheduler!NoNode, Alone!NoNode, Scheduler!Threads, Alone!Threads,
         Scheduler!Notifying, Alone!Notifying, Scheduler!lists, Alone!lists,
         Scheduler!timers, Alone!timers, Scheduler!output, Alone!output, Scheduler!status,
         Alone!status, Scheduler!input, Alone!input, Scheduler!IsOn, Alone!IsOn,
         Scheduler!HeadOf, Alone!HeadOf, Scheduler!At, Alone!At, Scheduler!Go, Alone!Go,
         Scheduler!Working, Alone!Working, Scheduler!RestartTimers, Alone!RestartTimers,
         Scheduler!Conforms, Alone!Conforms, Scheduler!Leaves, Alone!Leaves,
         Scheduler!Notify, Alone!Notify, Scheduler!SendAudioWarnInfo,
         Alone!SendAudioWarnInfo, Scheduler!MsgSend, Alone!MsgSend, Scheduler!Notifies,
         Alone!Notifies, Scheduler!After, Alone!After, Scheduler!EraseSeriousWarnListNode,
         Alone!EraseSeriousWarnListNode, Scheduler!EraseFreshWarnListNode,
         Alone!EraseFreshWarnListNode, Scheduler!EraseLoopWarnListNode,
         Alone!EraseLoopWarnListNode, Scheduler!CurrWarnLocked, Alone!CurrWarnLocked,
         Scheduler!HandleWarnViews, Alone!HandleWarnViews, Scheduler!Choose, Alone!Choose,
         Scheduler!GetSeriousWarnListNode, Alone!GetSeriousWarnListNode,
         Scheduler!PickList, Alone!PickList, Scheduler!GetFrashWarnListNode,
         Alone!GetFrashWarnListNode, Scheduler!GetLoopWarnListNode,
         Alone!GetLoopWarnListNode, Scheduler!StopShowTimer, Alone!StopShowTimer,
         Scheduler!ClearCurrent, Alone!ClearCurrent, Scheduler!StartTimers,
         Alone!StartTimers, Scheduler!SetCurrent, Alone!SetCurrent, Scheduler!Handler,
         Alone!Handler

LEMMA SameRemoveWarn == Scheduler!RemoveWarn => Alone!RemoveWarn
  BY SameFirst, SameErase, SameSort, SameUpdate
     DEF Scheduler!NoNode, Alone!NoNode, Scheduler!Notifying, Alone!Notifying,
         Scheduler!lists, Alone!lists, Scheduler!timers, Alone!timers, Scheduler!output,
         Alone!output, Scheduler!status, Alone!status, Scheduler!input, Alone!input,
         Scheduler!IsOn, Alone!IsOn, Scheduler!At, Alone!At, Scheduler!Go, Alone!Go,
         Scheduler!Leaves, Alone!Leaves, Scheduler!After, Alone!After,
         Scheduler!EraseSeriousWarnListNode, Alone!EraseSeriousWarnListNode,
         Scheduler!EraseFreshWarnListNode, Alone!EraseFreshWarnListNode,
         Scheduler!EraseLoopWarnListNode, Alone!EraseLoopWarnListNode,
         Scheduler!CurrWarnLocked, Alone!CurrWarnLocked, Scheduler!RemoveCurrentWarn,
         Alone!RemoveCurrentWarn, Scheduler!CheckNeedPushLoopAgain,
         Alone!CheckNeedPushLoopAgain, Scheduler!PushLoopAgain, Alone!PushLoopAgain,
         Scheduler!RemoveWarn, Alone!RemoveWarn

LEMMA SameTimers == Scheduler!Timers => Alone!Timers
  BY SameFirst, SameErase, SameSort, SameUpdate
     DEF Scheduler!Threads, Alone!Threads, Scheduler!lists, Alone!lists, Scheduler!output,
         Alone!output, Scheduler!status, Alone!status, Scheduler!input, Alone!input,
         Scheduler!steps, Alone!steps, Scheduler!Working, Alone!Working, Scheduler!InTime,
         Alone!InTime, Scheduler!AtLeastTime, Alone!AtLeastTime, Scheduler!AtLeastExpire,
         Alone!AtLeastExpire, Scheduler!AtLeastTimerThreadFun, Alone!AtLeastTimerThreadFun,
         Scheduler!WarnShowTimerThreadFun, Alone!WarnShowTimerThreadFun, Scheduler!Timers,
         Alone!Timers

LEMMA SameInit == Scheduler!Init => Alone!Init
  BY DEF Scheduler!NoNode, Alone!NoNode, Scheduler!NoMsg, Alone!NoMsg, Scheduler!Threads,
         Alone!Threads, Scheduler!status, Alone!status, Scheduler!AtLeastTime,
         Alone!AtLeastTime, Scheduler!Init, Alone!Init

LEMMA SameAcc ==
  ASSUME NEW s PROVE Scheduler!ReceiveAcc(s) => Alone!ReceiveAcc(s)
  BY DEF Scheduler!lists, Alone!lists, Scheduler!timers, Alone!timers, Scheduler!output,
         Alone!output, Scheduler!steps, Alone!steps, Scheduler!At, Alone!At,
         Scheduler!Receives, Alone!Receives, Scheduler!ReceiveAcc, Alone!ReceiveAcc

\* A message that is a change is taken by both.
LEMMA SameWarn ==
  ASSUME NEW m, Scheduler!ReceiveWarn(m),
         m.view \notin Core!DoorViews => (m.status = "ON" <=> m.extra \notin told[m.view])
  PROVE  Alone!ReceiveWarn(m)
  BY DEF Scheduler!Threads, Alone!Threads, Scheduler!lists, Alone!lists, Scheduler!timers,
         Alone!timers, Scheduler!output, Alone!output, Scheduler!status, Alone!status,
         Scheduler!IsOn, Alone!IsOn, Scheduler!At, Alone!At, Scheduler!Go, Alone!Go,
         Scheduler!OffLeft, Alone!OffLeft, Scheduler!ReceiveWarn, Alone!ReceiveWarn

-----------------------------------------------------------------------------
(* What CoreProcessor has sent, what is on its way and what ViewService was *)
(* told are the same at any time.                                           *)

Statuses == {"ON", "OFF"}
Notices  == [view : Core!DoorViews, extra : Doors, status : Statuses] \cup
            [view : {Limit}, extra : {Limit}, status : Statuses]
KeyMsg   == [view |-> Key, extra |-> Key, status |-> "ON"]

QueueOK ==
  /\ topic \in Seq(Notices \cup {KeyMsg})
  /\ told \in [Core!Views -> SUBSET (Doors \cup {Limit})]

\* The message about the limit that is still to be sent is news.
LimitNews ==
  /\ \A m \in pending :
       m.view = Limit => (m.on <=> over) /\ (m.on <=> Limit \notin core_told[Limit])
  /\ (\A m \in pending : m.view # Limit) => (over <=> Limit \in core_told[Limit])

Delivers ==
  \A p \in Pairs : Agrees(topic, p[1], p[2], told[p[1]], core_told[p[1]])

WayInv ==
  /\ core_connected = TRUE /\ lost = {}
  /\ QueueOK
  /\ LimitNews
  /\ Delivers
  /\ Alternates(topic, told[Limit])

LEMMA NoticeParts ==
  /\ \A m \in Notices :
       /\ m.view \in Core!Views /\ m.status \in Statuses /\ m.view # Key
       /\ m.view \in Core!DoorViews => m.extra \in Doors
       /\ m.view \notin Core!DoorViews => m.view = Limit /\ m.extra = Limit
  /\ KeyMsg.view = Key /\ KeyMsg.status = "ON"
  /\ \A p \in Pairs : p[1] \in Core!Views /\ p[1] # Key
  /\ Limit \in Core!Views /\ Limit \notin Core!DoorViews /\ Limit # Key
  /\ <<Limit, Limit>> \in Pairs
  BY DEF Notices, KeyMsg, Pairs, Limit, Core!Limit, Core!DoorViews, Core!Views, Key, Statuses

LEMMA InitWay == Init => WayInv
<1> SUFFICES ASSUME Init PROVE WayInv
  OBVIOUS
<1>1. /\ topic = <<>> /\ DOMAIN topic = {} /\ pending = {} /\ over = FALSE
      /\ core_connected = TRUE /\ lost = {}
      /\ core_told = [v \in Core!Views |-> {}] /\ told = [v \in Core!Views |-> {}]
  BY DEF Init, Core!Init, Scheduler!Init
<1>2. QueueOK
  BY <1>1 DEF QueueOK
<1>3. LimitNews
  BY <1>1, NoticeParts DEF LimitNews
<1>4. Delivers
  BY <1>1, NoticeParts DEF Delivers, Agrees, NoneOf
<1>5. Alternates(topic, told[Limit])
  BY <1>1 DEF Alternates
<1>6. QED
  BY <1>1, <1>2, <1>3, <1>4, <1>5 DEF WayInv

\* A message that is neither about a door nor about the limit tells nothing.
LEMMA StepTurnKey == WayInv /\ TurnKey => WayInv'
<1> SUFFICES ASSUME WayInv, TurnKey PROVE WayInv'
  OBVIOUS
<1>1. /\ topic' = Append(topic, KeyMsg) /\ UNCHANGED <<told, core_told, pending, over>>
      /\ UNCHANGED <<core_connected, lost>>
  BY DEF TurnKey, KeyMsg, coreVars, viewVars
<1>2. topic \in Seq(Notices \cup {KeyMsg}) /\ KeyMsg \in Notices \cup {KeyMsg}
  BY DEF WayInv, QueueOK
<1>3. QueueOK'
  BY <1>1, <1>2, AppendParts DEF WayInv, QueueOK
<1>4. LimitNews'
  BY <1>1 DEF WayInv, LimitNews
<1>5. ASSUME NEW p \in Pairs
      PROVE  Agrees(topic', p[1], p[2], told[p[1]], core_told[p[1]])
  <2>1. Agrees(topic, p[1], p[2], told[p[1]], core_told[p[1]])
    BY DEF WayInv, Delivers
  <2>2. ~Of(KeyMsg, p[1], p[2])
    BY NoticeParts DEF Of
  <2>3. QED
    BY <1>1, <1>2, <2>1, <2>2, AppendAgrees
<1>6. Delivers'
  BY <1>1, <1>5 DEF Delivers
<1>7. \A i \in DOMAIN topic : topic[i].view = Limit => topic[i].extra = Limit
  BY <1>2, NoticeParts, ElementOfSeq
<1>8. Agrees(topic, Limit, Limit, told[Limit], core_told[Limit])
  BY NoticeParts DEF WayInv, Delivers
<1>9. Alternates(topic', told[Limit])
  BY <1>1, <1>2, <1>7, <1>8, NoticeParts, AppendAlternates DEF WayInv
<1>10. QED
  BY <1>1, <1>3, <1>4, <1>6, <1>9 DEF WayInv

\* A handler finds nothing left to send; it sends about the limit on a change.
LEMMA StepInput == CoreAlone!TypeOK /\ WayInv /\ Input => WayInv'
<1> SUFFICES ASSUME CoreAlone!TypeOK, WayInv, Input PROVE WayInv'
  OBVIOUS
<1>1. UNCHANGED <<topic, told, core_told, core_connected, lost>>
  BY DEF Input, viewVars, Core!DoorMessage, Core!SpeedMessage, Core!link, Core!view
<1>2. pending = {} => (over <=> Limit \in core_told[Limit])
  BY DEF WayInv, LimitNews
<1>3. LimitNews'
  <2>1. ASSUME NEW doors, Core!DoorMessage(doors)
        PROVE  LimitNews'
    <3>1. pending = {} /\ over' = over /\ \A m \in pending' : m.view # Limit
      BY <2>1, NoticeParts DEF Core!DoorMessage, Core!Msgs, Core!DoorView, Core!DoorViews
    <3>2. QED
      BY <1>1, <1>2, <3>1 DEF LimitNews
  <2>2. ASSUME NEW s \in Speeds, Core!SpeedMessage(s)
        PROVE  LimitNews'
    <3>1. PICK isOver \in BOOLEAN : isOver = (Core!Printed(s) > OverSpeed)
      <4>1. (Core!Printed(s) > OverSpeed) \in BOOLEAN
        OBVIOUS
      <4>2. QED
        BY <4>1, Zenon
    <3>2. pending = {} /\ over' = isOver /\ over \in BOOLEAN
      BY <2>2, <3>1 DEF Core!SpeedMessage, CoreAlone!TypeOK
    <3>3. pending' = Core!LimitMsgs(isOver) \cup Core!Moved(Core!Printed(s))
      BY <2>2, <3>1 DEF Core!SpeedMessage
    <3>4. \A m \in Core!Moved(Core!Printed(s)) : m.view # Limit
      BY NoticeParts DEF Core!Moved, Core!Msgs, Core!DoorView, Core!OtherView, Core!DoorViews
    <3>5. CASE over = isOver
      BY <1>1, <1>2, <3>2, <3>3, <3>4, <3>5 DEF LimitNews, Core!LimitMsgs
    <3>6. CASE over # isOver
      <4>1. Core!LimitMsgs(isOver) = {[view |-> Limit, extra |-> Limit, on |-> isOver]}
        BY <3>6 DEF Core!LimitMsgs, Core!Msgs, Limit
      <4>2. (isOver <=> ~over) /\ (isOver <=> Limit \notin core_told'[Limit])
        BY <1>1, <1>2, <3>2, <3>6
      <4>3. \A m \in pending' : m.view = Limit => m.on = isOver
        BY <3>3, <3>4, <4>1
      <4>4. \E m \in pending' : m.view = Limit
        <5>1. [view |-> Limit, extra |-> Limit, on |-> isOver] \in pending'
          BY <3>3, <4>1
        <5>2. QED
          BY <5>1
      <4>5. QED
        BY <3>2, <4>2, <4>3, <4>4 DEF LimitNews
    <3>7. QED
      BY <3>5, <3>6
  <2>3. QED
    BY <2>1, <2>2 DEF Input
<1>4. QED
  BY <1>1, <1>3 DEF WayInv, QueueOK, Delivers

\* The message sent is the newest on its way, and what CoreProcessor then
\* counts as told.
LEMMA StepSend == CoreAlone!TypeOK /\ WayInv /\ SendViewPageInfo => WayInv'
<1> SUFFICES ASSUME CoreAlone!TypeOK, WayInv, SendViewPageInfo PROVE WayInv'
  OBVIOUS
<1>1. PICK m \in pending : Core!SendViewPageInfo(m) /\ topic' = Append(topic, Sent(m))
  BY DEF SendViewPageInfo
<1>2. /\ m \in CoreAlone!Messages /\ pending \subseteq CoreAlone!Messages
      /\ core_told \in [Core!Views -> SUBSET (Doors \cup {Limit})]
  BY DEF CoreAlone!TypeOK, CoreAlone!Views, Core!Views, CoreAlone!DoorViews, Core!DoorViews,
         CoreAlone!Limit, Core!Limit, Limit
<1>3. /\ Sent(m) \in Notices /\ Sent(m).view = m.view /\ Sent(m).extra = m.extra
      /\ Sent(m).status = "ON" <=> m.on
      /\ m.view \in Core!Views /\ m.on \in BOOLEAN
      /\ m.view = Limit => m.extra = Limit
  BY <1>2 DEF Sent, Notices, Statuses, CoreAlone!Messages, CoreAlone!DoorViews,
         Core!DoorViews, Core!Views, CoreAlone!Limit, Core!Limit, Limit
<1>4. /\ pending' = pending \ {m}
      /\ core_told' = [core_told EXCEPT ![m.view] =
                          IF m.on THEN @ \cup {m.extra} ELSE @ \ {m.extra}]
      /\ core_connected' = TRUE /\ lost' = {} /\ over' = over /\ told' = told
  BY <1>1 DEF SendViewPageInfo, Core!SendViewPageInfo, WayInv, viewVars, Core!core, Core!link
<1>5. topic \in Seq(Notices \cup {KeyMsg}) /\ Sent(m) \in Notices \cup {KeyMsg}
  BY <1>3 DEF WayInv, QueueOK
<1>6. QueueOK'
  BY <1>1, <1>4, <1>5, AppendParts DEF WayInv, QueueOK
<1>7. LimitNews'
  <2>1. CASE m.view = Limit
    <3>1. ASSUME NEW n \in pending, n.view = Limit
          PROVE  n = m
      <4>1. n.extra = Limit /\ n.on = m.on /\ n \in CoreAlone!Messages
        BY <1>2, <2>1, <3>1 DEF WayInv, LimitNews, CoreAlone!Messages, CoreAlone!DoorViews,
           CoreAlone!Limit, Limit, Core!Limit
      <4>2. QED
        BY <1>2, <1>3, <2>1, <3>1, <4>1 DEF CoreAlone!Messages
    <3>2. (m.on <=> over) /\ (m.on <=> Limit \notin core_told[Limit])
      BY <2>1 DEF WayInv, LimitNews
    <3>3. Limit \in core_told'[Limit] <=> m.on
      BY <1>2, <1>3, <1>4, <2>1
    <3>4. QED
      BY <1>4, <3>1, <3>2, <3>3 DEF LimitNews
  <2>2. CASE m.view # Limit
    <3>1. core_told'[Limit] = core_told[Limit]
      BY <1>2, <1>4, <2>2, NoticeParts
    <3>2. QED
      BY <1>4, <2>2, <3>1 DEF WayInv, LimitNews
  <2>3. QED
    BY <2>1, <2>2
<1>8. ASSUME NEW p \in Pairs
      PROVE  Agrees(topic', p[1], p[2], told[p[1]], core_told'[p[1]])
  <2>1. Agrees(topic, p[1], p[2], told[p[1]], core_told[p[1]])
    BY DEF WayInv, Delivers
  <2>2. p[2] \in core_told'[p[1]] <=>
          IF Of(Sent(m), p[1], p[2]) THEN Sent(m).status = "ON" ELSE p[2] \in core_told[p[1]]
    BY <1>2, <1>3, <1>4, NoticeParts DEF Of
  <2>3. QED
    BY <1>1, <1>5, <2>1, <2>2, AppendAgrees
<1>9. Delivers'
  BY <1>4, <1>8 DEF Delivers
<1>10. \A i \in DOMAIN topic : topic[i].view = Limit => topic[i].extra = Limit
  BY <1>5, NoticeParts, ElementOfSeq
<1>11. Agrees(topic, Limit, Limit, told[Limit], core_told[Limit])
  BY NoticeParts DEF WayInv, Delivers
<1>12. Sent(m).view = Limit => (Sent(m).status = "ON" <=> Limit \notin core_told[Limit])
  BY <1>3 DEF WayInv, LimitNews
<1>13. Alternates(topic', told[Limit])
  BY <1>1, <1>5, <1>10, <1>11, <1>12, AppendAlternates DEF WayInv
<1>14. QED
  BY <1>4, <1>6, <1>7, <1>9, <1>13 DEF WayInv

\* What is received first is what ViewService is told of next.
LEMMA StepReceive == WayInv /\ MsgReciever => WayInv'
<1> SUFFICES ASSUME WayInv, MsgReciever PROVE WayInv'
  OBVIOUS
<1> DEFINE h == Head(topic)
<1>1. /\ topic # <<>> /\ topic' = Tail(topic)
      /\ UNCHANGED <<core_told, core_connected, lost, over, pending>>
  BY DEF MsgReciever, coreVars
<1>2. topic \in Seq(Notices \cup {KeyMsg}) /\ h \in Notices \cup {KeyMsg}
  BY <1>1, TailParts DEF WayInv, QueueOK
<1>3. \/ h = KeyMsg /\ told' = told
      \/ /\ h \in Notices
         /\ told' = [told EXCEPT ![h.view] =
                        IF h.status = "ON" THEN @ \cup {h.extra} ELSE @ \ {h.extra}]
  BY <1>2, NoticeParts
     DEF MsgReciever, Scheduler!ReceiveAcc, Scheduler!Receives, Scheduler!ReceiveWarn
<1>4. QueueOK'
  <2>1. topic' \in Seq(Notices \cup {KeyMsg})
    BY <1>1, <1>2, TailParts
  <2>2. told' \in [Core!Views -> SUBSET (Doors \cup {Limit})]
    BY <1>3, NoticeParts DEF WayInv, QueueOK
  <2>3. QED
    BY <2>1, <2>2 DEF QueueOK
<1>5. ASSUME NEW p \in Pairs
      PROVE  p[2] \in told'[p[1]] <=>
               IF Of(h, p[1], p[2]) THEN h.status = "ON" ELSE p[2] \in told[p[1]]
  BY <1>3, NoticeParts DEF Of, WayInv, QueueOK
<1>6. ASSUME NEW p \in Pairs
      PROVE  Agrees(topic', p[1], p[2], told'[p[1]], core_told[p[1]])
  <2>1. Agrees(topic, p[1], p[2], told[p[1]], core_told[p[1]])
    BY DEF WayInv, Delivers
  <2>2. QED
    BY <1>1, <1>2, <1>5, <2>1, TailAgrees
<1>7. Delivers'
  BY <1>1, <1>6 DEF Delivers
<1>8. Limit \in told'[Limit] <=>
        IF h.view = Limit THEN h.status = "ON" ELSE Limit \in told[Limit]
  <2>1. h.view = Limit => h.extra = Limit
    BY <1>2, NoticeParts
  <2>2. QED
    BY <1>5, <2>1, NoticeParts DEF Of
<1>9. Alternates(topic', told'[Limit])
  BY <1>1, <1>2, <1>8, TailAlternates DEF WayInv
<1>10. LimitNews'
  BY <1>1 DEF WayInv, LimitNews
<1>11. QED
  BY <1>1, <1>4, <1>7, <1>9, <1>10 DEF WayInv

\* The threads of the scheduler do not change what it was told.
LEMMA ThreadsKeepTold == Schedule => UNCHANGED told
<1>1. Scheduler!Receiver => UNCHANGED told
  BY DEF Scheduler!input, Scheduler!Notify, Scheduler!SendAudioWarnInfo, Scheduler!MsgSend,
         Scheduler!Notifies, Scheduler!Received, Scheduler!UpdateSeriousWarnList,
         Scheduler!IsNodeExistInLoopList, Scheduler!GetLoopDoorInfoNode,
         Scheduler!TakeFromLoop, Scheduler!IsNodeExistInFreshList, Scheduler!SetFreshNode,
         Scheduler!AppendFresh, Scheduler!AppendDoorInfo, Scheduler!SortLoop,
         Scheduler!Receiver
<1>2. Scheduler!Handler => UNCHANGED told
  BY DEF Scheduler!input, Scheduler!Notify, Scheduler!SendAudioWarnInfo, Scheduler!MsgSend,
         Scheduler!Notifies, Scheduler!EraseSeriousWarnListNode,
         Scheduler!EraseFreshWarnListNode, Scheduler!EraseLoopWarnListNode,
         Scheduler!HandleWarnViews, Scheduler!GetSeriousWarnListNode, Scheduler!PickList,
         Scheduler!GetFrashWarnListNode, Scheduler!GetLoopWarnListNode,
         Scheduler!StopShowTimer, Scheduler!ClearCurrent, Scheduler!StartTimers,
         Scheduler!SetCurrent, Scheduler!Handler
<1>3. Scheduler!RemoveWarn => UNCHANGED told
  BY DEF Scheduler!input, Scheduler!EraseSeriousWarnListNode,
         Scheduler!EraseFreshWarnListNode, Scheduler!EraseLoopWarnListNode,
         Scheduler!RemoveCurrentWarn, Scheduler!PushLoopAgain, Scheduler!RemoveWarn
<1>4. Scheduler!Timers => UNCHANGED told
  BY DEF Scheduler!input, Scheduler!AtLeastExpire, Scheduler!AtLeastTimerThreadFun,
         Scheduler!WarnShowTimerThreadFun, Scheduler!Timers
<1>5. QED
  BY <1>1, <1>2, <1>3, <1>4 DEF Schedule

LEMMA StepWay == CoreAlone!TypeOK /\ WayInv /\ [Next]_vars => WayInv'
<1> SUFFICES ASSUME CoreAlone!TypeOK, WayInv, [Next]_vars PROVE WayInv'
  OBVIOUS
<1>1. CASE UNCHANGED <<coreVars, topic, told>>
  BY <1>1 DEF coreVars, WayInv, QueueOK, LimitNews, Delivers
<1>2. CASE UNCHANGED vars
  BY <1>1, <1>2 DEF vars, viewVars
<1>3. CASE Schedule
  BY <1>1, <1>3, ThreadsKeepTold DEF Schedule
<1>4. QED
  BY <1>2, <1>3, StepTurnKey, StepInput, StepSend, StepReceive DEF Next

LEMMA WayCorrect == Spec => []WayInv
  BY InitWay, StepWay, CoreTypes, PTL DEF Spec

-----------------------------------------------------------------------------
(* The scheduler runs as it does alone *)

LEMMA NoticesTaken == Notices \subseteq Alone!Messages
  BY DEF Notices, Statuses, Alone!Messages, Alone!Extras, Alone!AllExtras, Core!Views,
         Core!DoorViews, Limit, Core!Limit

\* What is received of the limit is always news to ViewService.
LEMMA ReceiveAlone == WayInv /\ MsgReciever => Alone!Receive
<1> SUFFICES ASSUME WayInv, MsgReciever PROVE Alone!Receive
  OBVIOUS
<1> DEFINE h == Head(topic)
<1>1. topic # <<>> /\ topic \in Seq(Notices \cup {KeyMsg})
  BY DEF MsgReciever, WayInv, QueueOK
<1>2. h \in Notices \cup {KeyMsg}
  BY <1>1, TailParts
<1>3. CASE h = KeyMsg
  BY <1>3, NoticeParts, SameAcc DEF MsgReciever, Alone!Receive
<1>4. CASE h \in Notices
  <2>1. Scheduler!ReceiveWarn(h)
    BY <1>4, NoticeParts DEF MsgReciever
  <2>2. h.view = Limit => (h.status = "ON" <=> Limit \notin told[Limit])
    <3>1. Alternates(topic, told[Limit])
      BY DEF WayInv
    <3>2. 1 \in DOMAIN topic /\ topic[1] = h /\ \A j \in DOMAIN topic : ~(j < 1)
      BY <1>1, TailParts
    <3>3. QED
      BY <3>1, <3>2 DEF Alternates
  <2>3. h.view \notin Core!DoorViews => (h.status = "ON" <=> h.extra \notin told[h.view])
    BY <1>4, <2>2, NoticeParts
  <2>4. Alone!ReceiveWarn(h)
    BY <2>1, <2>3, SameWarn
  <2>5. QED
    BY <1>4, <2>4, NoticesTaken DEF Alone!Receive
<1>5. QED
  BY <1>2, <1>3, <1>4

\* Every step of the composition is a step of the scheduler alone, or none.
LEMMA StepAlone == WayInv /\ [Next]_vars => [Alone!Next]_(Alone!vars)
<1> SUFFICES ASSUME WayInv, [Next]_vars PROVE [Alone!Next]_(Alone!vars)
  OBVIOUS
<1>1. CASE UNCHANGED viewVars
  BY <1>1 DEF viewVars, Alone!vars, Alone!lists, Alone!timers, Alone!output, Alone!status,
              Alone!input, Alone!steps
<1>2. CASE TurnKey \/ Input \/ SendViewPageInfo \/ UNCHANGED vars
  BY <1>1, <1>2 DEF TurnKey, Input, SendViewPageInfo, vars
<1>3. CASE MsgReciever
  BY <1>3, ReceiveAlone DEF Alone!Next
<1>4. CASE Schedule
  BY <1>4, SameReceiver, SameHandler, SameRemoveWarn, SameTimers DEF Schedule, Alone!Next
<1>5. QED
  BY <1>2, <1>3, <1>4 DEF Next

\* CoreProcessor is the environment MsgHandler assumes, for any doors, speeds
\* and thresholds: through the FIFO a message about the limit is received only
\* when it says the opposite of the one received before.
THEOREM EdgesCorrect == Spec => EdgesKept
<1>1. Init => Alone!Init
  BY SameInit DEF Init
<1>2. QED
  BY <1>1, WayCorrect, StepAlone, PTL DEF Spec, EdgesKept, Alone!Spec

-----------------------------------------------------------------------------
(* What is decided arrives *)

\* With nothing left to send and nothing on its way ViewService was told of the
\* doors that are open, each under the one view the speed calls for, except the
\* doors that were opened or closed at a speed that is rounded across the
\* threshold.
DoorsArrive ==
  pending = {} /\ topic = <<>> =>
    \A v \in Core!DoorViews, d \in Doors \ askew : d \in told[v] <=> Due(v, d)

\* And it was told whether the speed, as it is printed, is above the limit.
LimitArrives ==
  pending = {} /\ topic = <<>> =>
    (Limit \in told[Limit] <=> Core!Printed(speed) > OverSpeed)

\* With an empty topic both sides know the same.
LEMMA NothingOnTheWay ==
  ASSUME WayInv, topic = <<>>, NEW p \in Pairs
  PROVE  p[2] \in told[p[1]] <=> p[2] \in core_told[p[1]]
<1>1. DOMAIN topic = {}
  OBVIOUS
<1>2. NoneOf(topic, p[1], p[2])
  BY <1>1 DEF NoneOf
<1>3. QED
  BY <1>2 DEF WayInv, Delivers, Agrees

\* No other door is left behind between the processes, nor under two views.
THEOREM DoorsArriveCorrect == Spec => []DoorsArrive
<1>1. CoreAlone!ViewKnowsDoors /\ WayInv => DoorsArrive
  <2> SUFFICES ASSUME CoreAlone!ViewKnowsDoors, WayInv, pending = {}, topic = <<>>,
                      NEW v \in Core!DoorViews, NEW d \in Doors \ askew
               PROVE  d \in told[v] <=> Due(v, d)
    BY DEF DoorsArrive
  <2>1. <<v, d>> \in Pairs
    BY DEF Pairs
  <2>2. d \in told[v] <=> d \in core_told[v]
    BY <2>1, NothingOnTheWay
  <2>3. d \in core_told[v] <=>
          d \in open /\ v = CoreAlone!DoorView(CoreAlone!Printed(speed))
    BY DEF CoreAlone!ViewKnowsDoors, WayInv, CoreAlone!DoorViews, Core!DoorViews
  <2>4. QED
    BY <2>2, <2>3 DEF Due, Core!DoorView, CoreAlone!DoorView, Core!Printed, CoreAlone!Printed
<1>2. Spec => []CoreAlone!ViewKnowsDoors
  BY CoreRuns, CoreAssumptions, CoreAlone!DoorsCorrect, PTL
<1>3. QED
  BY <1>1, <1>2, WayCorrect, PTL

\* Nor is the overspeed warning.
THEOREM LimitArrivesCorrect == Spec => []LimitArrives
<1>1. CoreAlone!ViewKnowsLimit /\ WayInv => LimitArrives
  <2> SUFFICES ASSUME CoreAlone!ViewKnowsLimit, WayInv, pending = {}, topic = <<>>
               PROVE  Limit \in told[Limit] <=> Core!Printed(speed) > OverSpeed
    BY DEF LimitArrives
  <2>1. Limit \in told[Limit] <=> Limit \in core_told[Limit]
    BY NoticeParts, NothingOnTheWay
  <2>2. QED
    BY <2>1 DEF CoreAlone!ViewKnowsLimit, WayInv, CoreAlone!Limit, Limit, Core!Limit,
                Core!Printed, CoreAlone!Printed
<1>2. Spec => []CoreAlone!ViewKnowsLimit
  BY CoreRuns, CoreAssumptions, CoreAlone!LimitCorrect, PTL
<1>3. QED
  BY <1>1, <1>2, WayCorrect, PTL

-----------------------------------------------------------------------------
(* So what MsgHandlerProofs proves of it holds in the composition *)

ViewAlone == INSTANCE MsgHandlerProofs WITH
  Views <- Core!Views, NoView <- "none", DoorViews <- Core!DoorViews, Prompt <- TRUE,
  Requests <- {"ACC", "VIEW_OFF"}, Resent <- Core!DoorViews,
  MaxMsgs <- 1 + 13 * MaxInputs, MaxBreaks <- 0, MaxPosts <- 1,
  EdgeTriggered <- TRUE

LEMMA ViewAssumptions ==
  /\ ViewAlone!ViewAssumption /\ ViewAlone!PriorityAssumption
  /\ ViewAlone!PowerAssumption /\ ViewAlone!BoundAssumption
  BY InputBound
     DEF ViewAlone!ViewAssumption, ViewAlone!PriorityAssumption, ViewAlone!PowerAssumption,
         ViewAlone!BoundAssumption, ViewAlone!Controls, Core!Views, Core!DoorViews,
         Core!Limit, Serious, Repeat, Bound, Priority, Power

\* MsgHandlerProofs extends the module Alone is an instance of: the definitions
\* are the same.
LEMMA ViewInit == Alone!Init => ViewAlone!Init
  BY DEF Alone!NoNode, ViewAlone!NoNode, Alone!NoMsg, ViewAlone!NoMsg, Alone!Threads,
         ViewAlone!Threads, Alone!status, ViewAlone!status, Alone!AtLeastTime,
         ViewAlone!AtLeastTime, Alone!Init, ViewAlone!Init

LEMMA ViewStep == [Alone!Next]_(Alone!vars) => [ViewAlone!Next]_(ViewAlone!vars)
<1>1. \A s, v : /\ Alone!FirstAt(s, v) = ViewAlone!FirstAt(s, v)
               /\ Alone!Has(s, v) = ViewAlone!Has(s, v)
  BY DEF Alone!FirstAt, ViewAlone!FirstAt, Alone!SelectInSeq, ViewAlone!SelectInSeq,
         Alone!Min, ViewAlone!Min, Alone!Has, ViewAlone!Has
<1>2. \A s, v : Alone!Erase(s, v) = ViewAlone!Erase(s, v)
  BY <1>1 DEF Alone!Erase, ViewAlone!Erase, Alone!RemoveAt, ViewAlone!RemoveAt
<1>3. \A s : Alone!SortedByPriority(s) = ViewAlone!SortedByPriority(s)
  BY DEF Alone!SortedByPriority, ViewAlone!SortedByPriority, Alone!Bijection,
         ViewAlone!Bijection, Alone!Injection, ViewAlone!Injection, Alone!Surjection,
         ViewAlone!Surjection, Alone!IsInjective, ViewAlone!IsInjective
<1>4. \A s, m : Alone!UpdateFirst(s, m) = ViewAlone!UpdateFirst(s, m)
  BY <1>1 DEF Alone!UpdateFirst, ViewAlone!UpdateFirst, Alone!Updated, ViewAlone!Updated
<1>5. Alone!Receive => ViewAlone!Receive
  BY <1>1, <1>2, <1>3, <1>4
     DEF Alone!Extras, ViewAlone!Extras, Alone!AllExtras, ViewAlone!AllExtras,
         Alone!Messages, ViewAlone!Messages, Alone!Threads, ViewAlone!Threads, Alone!lists,
         ViewAlone!lists, Alone!timers, ViewAlone!timers, Alone!output, ViewAlone!output,
         Alone!status, ViewAlone!status, Alone!steps, ViewAlone!steps, Alone!IsOn,
         ViewAlone!IsOn, Alone!At, ViewAlone!At, Alone!Go, ViewAlone!Go, Alone!Working,
         ViewAlone!Working, Alone!RestartTimers, ViewAlone!RestartTimers, Alone!Receives,
         ViewAlone!Receives, Alone!ReceiveAcc, ViewAlone!ReceiveAcc,
         Alone!ReceiveWarnHiden, ViewAlone!ReceiveWarnHiden, Alone!ReceiveGetCurrWarn,
         ViewAlone!ReceiveGetCurrWarn, Alone!OffLeft, ViewAlone!OffLeft, Alone!ReceiveWarn,
         ViewAlone!ReceiveWarn, Alone!Receive, ViewAlone!Receive
<1>6. Alone!Receiver => ViewAlone!Receiver
  BY <1>1, <1>2, <1>3, <1>4
     DEF Alone!NoNode, ViewAlone!NoNode, Alone!NoMsg, ViewAlone!NoMsg, Alone!lists,
         ViewAlone!lists, Alone!timers, ViewAlone!timers, Alone!output, ViewAlone!output,
         Alone!status, ViewAlone!status, Alone!input, ViewAlone!input, Alone!IsOn,
         ViewAlone!IsOn, Alone!Updated, ViewAlone!Updated, Alone!NewNode,
         ViewAlone!NewNode, Alone!At, ViewAlone!At, Alone!Go, ViewAlone!Go, Alone!Conforms,
         ViewAlone!Conforms, Alone!Leaves, ViewAlone!Leaves, Alone!Notify,
         ViewAlone!Notify, Alone!SendAudioWarnInfo, ViewAlone!SendAudioWarnInfo,
         Alone!MsgSend, ViewAlone!MsgSend, Alone!Notifies, ViewAlone!Notifies,
         Alone!Received, ViewAlone!Received, Alone!UpdateSeriousWarnList,
         ViewAlone!UpdateSeriousWarnList, Alone!IsNodeExistInLoopList,
         ViewAlone!IsNodeExistInLoopList, Alone!GetLoopDoorInfoNode,
         ViewAlone!GetLoopDoorInfoNode, Alone!TakeFromLoop, ViewAlone!TakeFromLoop,
         Alone!IsNodeExistInFreshList, ViewAlone!IsNodeExistInFreshList,
         Alone!SetFreshNode, ViewAlone!SetFreshNode, Alone!AppendFresh,
         ViewAlone!AppendFresh, Alone!AppendDoorInfo, ViewAlone!AppendDoorInfo,
         Alone!SortLoop, ViewAlone!SortLoop, Alone!Receiver, ViewAlone!Receiver
<1>7. Alone!Handler => ViewAlone!Handler
  BY <1>1, <1>2, <1>3, <1>4
     DEF Alone!NoNode, ViewAlone!NoNode, Alone!Threads, ViewAlone!Threads, Alone!Notifying,
         ViewAlone!Notifying, Alone!lists, ViewAlone!lists, Alone!timers, ViewAlone!timers,
         Alone!output, ViewAlone!output, Alone!status, ViewAlone!status, Alone!input,
         ViewAlone!input, Alone!IsOn, ViewAlone!IsOn, Alone!HeadOf, ViewAlone!HeadOf,
         Alone!At, ViewAlone!At, Alone!Go, ViewAlone!Go, Alone!Working, ViewAlone!Working,
         Alone!RestartTimers, ViewAlone!RestartTimers, Alone!Conforms, ViewAlone!Conforms,
         Alone!Leaves, ViewAlone!Leaves, Alone!Notify, ViewAlone!Notify,
         Alone!SendAudioWarnInfo, ViewAlone!SendAudioWarnInfo, Alone!MsgSend,
         ViewAlone!MsgSend, Alone!Notifies, ViewAlone!Notifies, Alone!After,
         ViewAlone!After, Alone!EraseSeriousWarnListNode,
         ViewAlone!EraseSeriousWarnListNode, Alone!EraseFreshWarnListNode,
         ViewAlone!EraseFreshWarnListNode, Alone!EraseLoopWarnListNode,
         ViewAlone!EraseLoopWarnListNode, Alone!CurrWarnLocked, ViewAlone!CurrWarnLocked,
         Alone!HandleWarnViews, ViewAlone!HandleWarnViews, Alone!Choose, ViewAlone!Choose,
         Alone!GetSeriousWarnListNode, ViewAlone!GetSeriousWarnListNode, Alone!PickList,
         ViewAlone!PickList, Alone!GetFrashWarnListNode, ViewAlone!GetFrashWarnListNode,
         Alone!GetLoopWarnListNode, ViewAlone!GetLoopWarnListNode, Alone!StopShowTimer,
         ViewAlone!StopShowTimer, Alone!ClearCurrent, ViewAlone!ClearCurrent,
         Alone!StartTimers, ViewAlone!StartTimers, Alone!SetCurrent, ViewAlone!SetCurrent,
         Alone!Handler, ViewAlone!Handler
<1>8. Alone!RemoveWarn => ViewAlone!RemoveWarn
  BY <1>1, <1>2, <1>3, <1>4
     DEF Alone!NoNode, ViewAlone!NoNode, Alone!Notifying, ViewAlone!Notifying, Alone!lists,
         ViewAlone!lists, Alone!timers, ViewAlone!timers, Alone!output, ViewAlone!output,
         Alone!status, ViewAlone!status, Alone!input, ViewAlone!input, Alone!IsOn,
         ViewAlone!IsOn, Alone!At, ViewAlone!At, Alone!Go, ViewAlone!Go, Alone!Leaves,
         ViewAlone!Leaves, Alone!After, ViewAlone!After, Alone!EraseSeriousWarnListNode,
         ViewAlone!EraseSeriousWarnListNode, Alone!EraseFreshWarnListNode,
         ViewAlone!EraseFreshWarnListNode, Alone!EraseLoopWarnListNode,
         ViewAlone!EraseLoopWarnListNode, Alone!CurrWarnLocked, ViewAlone!CurrWarnLocked,
         Alone!RemoveCurrentWarn, ViewAlone!RemoveCurrentWarn,
         Alone!CheckNeedPushLoopAgain, ViewAlone!CheckNeedPushLoopAgain,
         Alone!PushLoopAgain, ViewAlone!PushLoopAgain, Alone!RemoveWarn,
         ViewAlone!RemoveWarn
<1>9. Alone!Timers => ViewAlone!Timers
  BY <1>1, <1>2, <1>3, <1>4
     DEF Alone!Threads, ViewAlone!Threads, Alone!lists, ViewAlone!lists, Alone!output,
         ViewAlone!output, Alone!status, ViewAlone!status, Alone!input, ViewAlone!input,
         Alone!steps, ViewAlone!steps, Alone!Working, ViewAlone!Working, Alone!InTime,
         ViewAlone!InTime, Alone!AtLeastTime, ViewAlone!AtLeastTime, Alone!AtLeastExpire,
         ViewAlone!AtLeastExpire, Alone!AtLeastTimerThreadFun,
         ViewAlone!AtLeastTimerThreadFun, Alone!WarnShowTimerThreadFun,
         ViewAlone!WarnShowTimerThreadFun, Alone!Timers, ViewAlone!Timers
<1>10. Alone!Link => ViewAlone!Link
  BY <1>1, <1>2, <1>3, <1>4
     DEF Alone!lists, ViewAlone!lists, Alone!timers, ViewAlone!timers, Alone!status,
         ViewAlone!status, Alone!input, ViewAlone!input, Alone!steps, ViewAlone!steps,
         Alone!on_disconnect_callback, ViewAlone!on_disconnect_callback,
         Alone!on_connect_callback, ViewAlone!on_connect_callback, Alone!Link,
         ViewAlone!Link
<1>11. UNCHANGED Alone!vars => UNCHANGED ViewAlone!vars
  BY DEF Alone!vars, ViewAlone!vars, Alone!lists, ViewAlone!lists, Alone!timers,
         ViewAlone!timers, Alone!output, ViewAlone!output, Alone!status, ViewAlone!status,
         Alone!input, ViewAlone!input, Alone!steps, ViewAlone!steps
<1>12. QED
  BY <1>5, <1>6, <1>7, <1>8, <1>9, <1>10, <1>11 DEF Alone!Next, ViewAlone!Next

LEMMA ViewRuns == Spec => ViewAlone!Spec
  BY EdgesCorrect, ViewInit, ViewStep, PTL DEF EdgesKept, Alone!Spec, ViewAlone!Spec

\* Driven by CoreProcessor, for any doors, speeds and thresholds, the scheduler
\* keeps its lists in order, sends sound and page of a warning that agree, leaves
\* a warning on the screen for the minimum time, and a serious one untimed; the
\* last two but for the races MinDisplay and SeriousUntimed name.
THEOREM ScreenCorrect ==
  Spec => [](/\ ViewAlone!SeriousOrdered /\ ViewAlone!LoopSound
             /\ ViewAlone!SoundAgrees
             /\ ViewAlone!MinDisplay /\ ViewAlone!SeriousUntimed)
<1>1. Spec => []ViewAlone!SeriousOrdered /\ []ViewAlone!LoopSound
  BY ViewRuns, ViewAssumptions, ViewAlone!SeriousCorrect, ViewAlone!LoopCorrect, PTL
<1>2. Spec => []ViewAlone!SoundAgrees
  BY ViewRuns, ViewAssumptions, ViewAlone!SoundCorrect, PTL
<1>3. Spec => []ViewAlone!MinDisplay /\ []ViewAlone!SeriousUntimed
  BY ViewRuns, ViewAssumptions, ViewAlone!MinDisplayCorrect,
     ViewAlone!SeriousUntimedCorrect, PTL
<1>4. QED
  BY <1>1, <1>2, <1>3, PTL
=============================================================================
