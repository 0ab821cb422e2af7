------------------------- MODULE DoorWarningProofs --------------------------
(***************************************************************************)
(* What DoorWarning guarantees for any doors, speeds and thresholds and    *)
(* any number of lost connections, the speeds that are rounded across the  *)
(* threshold included.                                                     *)
(***************************************************************************)
EXTENDS DoorWarning, TLAPS

\* What ViewService ought to know.
Due(v, e) ==
  \/ v = DoorView(Printed(speed)) /\ e \in open
  \/ v = Limit /\ over

Pairs == (DoorViews \X Doors) \cup {<<Limit, Limit>>}

\* The pairs the two handlers agree on.
Straight(v, e) == v = Limit \/ e \notin askew

\* A message on its way carries what is due, and ViewService knows what is due
\* of the pairs no message of which is on its way or lost.
Agree ==
  /\ \A m \in pending : Straight(m.view, m.extra) => (m.on <=> Due(m.view, m.extra))
  /\ \A p \in Pairs :
       Straight(p[1], p[2]) =>
       \/ p \in lost
       \/ \E m \in pending : m.view = p[1] /\ m.extra = p[2]
       \/ p[2] \in told[p[1]] <=> Due(p[1], p[2])

DoorInv ==
  /\ light <=> open # {}
  /\ over <=> Printed(speed) > OverSpeed
  /\ Agree

USE DEF DoorViews, Limit, Views

-----------------------------------------------------------------------------
LEMMA PrintedZero == Printed(0) = 0
BY DEF Printed

LEMMA MsgsType ==
  ASSUME NEW v \in DoorViews, NEW D \in SUBSET Doors, NEW b \in BOOLEAN
  PROVE  Msgs(v, D, b) \in SUBSET Messages
BY DEF Msgs, Messages

LEMMA LimitType ==
  ASSUME NEW b \in BOOLEAN
  PROVE  Msgs(Limit, {Limit}, b) \in SUBSET Messages
BY DEF Msgs, Messages

LEMMA ViewsDiffer ==
  ASSUME NEW s
  PROVE  /\ DoorView(s) \in DoorViews /\ OtherView(s) \in DoorViews
         /\ DoorView(s) # OtherView(s)
         /\ DoorViews = {DoorView(s), OtherView(s)}
         /\ Limit \notin DoorViews
BY DEF DoorView, OtherView

-----------------------------------------------------------------------------
\* The variables keep their types, for any doors and speeds.
THEOREM DoorTypeCorrect == Spec => []TypeOK
<1>1. Init => TypeOK
  <2> SUFFICES ASSUME Init PROVE TypeOK
    OBVIOUS
  <2>1. 0 \in 0..MaxDrops
    BY DropAssumption
  <2>2. fault \in [Views -> BOOLEAN] /\ told \in [Views -> SUBSET (Doors \cup {Limit})]
    BY DEF Init
  <2>3. pending \in SUBSET Messages /\ lost \in SUBSET (Views \X (Doors \cup {Limit}))
    BY DEF Init
  <2> QED BY <2>1, <2>2, <2>3 DEF Init, TypeOK
<1>2. TypeOK /\ [Next]_vars => TypeOK'
  <2> SUFFICES ASSUME TypeOK, [Next]_vars PROVE TypeOK'
    OBVIOUS
  <2>1. ASSUME NEW doors \in SUBSET Doors, DoorMessage(doors) PROVE TypeOK'
    <3>1. pending' \in SUBSET Messages
      BY <2>1, MsgsType, ViewsDiffer DEF DoorMessage, TypeOK
    <3>2. fault' \in [Views -> BOOLEAN]
      BY <2>1 DEF DoorMessage, TypeOK
    <3>3. askew' \in SUBSET Doors
      BY <2>1 DEF DoorMessage, Askewed, TypeOK
    <3> QED BY <2>1, <3>1, <3>2, <3>3 DEF DoorMessage, TypeOK, link, view
  <2>2. ASSUME NEW s \in Speeds, SpeedMessage(s) PROVE TypeOK'
    <3> DEFINE isOver == Printed(s) > OverSpeed
    <3>1. isOver \in BOOLEAN
      OBVIOUS
    <3>2. LimitMsgs(isOver) \in SUBSET Messages
      BY <3>1, LimitType DEF LimitMsgs
    <3>3. Moved(Printed(s)) \in SUBSET Messages
      BY MsgsType, ViewsDiffer DEF Moved, TypeOK
    <3>4. pending' \in SUBSET Messages /\ over' \in BOOLEAN
      BY <2>2, <3>1, <3>2, <3>3 DEF SpeedMessage
    <3>5. fault' \in [Views -> BOOLEAN]
      BY <2>2 DEF SpeedMessage, TypeOK
    <3>6. askew' \in SUBSET Doors
      BY <2>2 DEF SpeedMessage, TypeOK
    <3> QED BY <2>2, <3>4, <3>5, <3>6 DEF SpeedMessage, TypeOK, link, view
  <2>3. ASSUME NEW m \in pending, SendViewPageInfo(m) PROVE TypeOK'
    <3>1. m \in Messages
      BY DEF TypeOK
    <3>2. m.view \in Views /\ m.extra \in Doors \cup {Limit}
      BY <3>1 DEF Messages
    <3>3. told' \in [Views -> SUBSET (Doors \cup {Limit})]
      BY <2>3, <3>2 DEF SendViewPageInfo, TypeOK
    <3>4. lost' \in SUBSET (Views \X (Doors \cup {Limit}))
      BY <2>3, <3>2 DEF SendViewPageInfo, TypeOK
    <3> QED BY <2>3, <3>3, <3>4 DEF SendViewPageInfo, TypeOK, core, link
  <2>4. CASE on_disconnect
    <3>1. drops + 1 \in 0..MaxDrops
      BY <2>4, DropAssumption DEF on_disconnect, TypeOK
    <3> QED BY <2>4, <3>1 DEF on_disconnect, TypeOK, core, view
  <2>5. CASE on_connect
    BY <2>5 DEF on_connect, TypeOK, core, view
  <2>6. CASE UNCHANGED vars
    BY <2>6 DEF vars, core, link, view, TypeOK
  <2> QED BY <2>1, <2>2, <2>3, <2>4, <2>5, <2>6 DEF Next
<1> QED BY <1>1, <1>2, PTL DEF Spec

-----------------------------------------------------------------------------
LEMMA DoorMessageStep ==
  ASSUME TypeOK, DoorInv, NEW doors \in SUBSET Doors, DoorMessage(doors)
  PROVE  DoorInv'
<1> DEFINE v == DoorView(speed)
           changed == (doors \ open) \cup (open \ doors)
<1>1. pending = {} /\ open' = doors /\ speed' = speed /\ over' = over
      /\ told' = told /\ lost' = lost /\ askew' = Askewed(doors)
  BY DEF DoorMessage, view
<1>2. v \in DoorViews /\ v # Limit /\ Limit \notin DoorViews
  BY ViewsDiffer
<1>3. pending' = Msgs(v, doors \ open, TRUE) \cup Msgs(v, open \ doors, FALSE)
  BY DEF DoorMessage
<1>4. \/ v = DoorView(Printed(speed)) /\ askew' = askew
      \/ askew' = askew \cup changed
  BY <1>1 DEF Askewed, Rounds
<1>5. \A w, e : Due(w, e) <=> (w = DoorView(Printed(speed)) /\ e \in open) \/ (w = Limit /\ over)
  BY DEF Due
<1>6. \A w, e : Due(w, e)' <=> (w = DoorView(Printed(speed)) /\ e \in doors) \/ (w = Limit /\ over)
  BY <1>1 DEF Due
<1>7. \A w, e : Straight(w, e)' => Straight(w, e)
  BY <1>4 DEF Straight
<1> HIDE DEF v
<1>8. ASSUME NEW m \in pending', Straight(m.view, m.extra)'
      PROVE  m.on <=> Due(m.view, m.extra)'
  <2>1. /\ m.view = v
        /\ \/ m.extra \in doors \ open /\ m.on = TRUE
           \/ m.extra \in open \ doors /\ m.on = FALSE
    BY <1>3 DEF Msgs
  <2>2. m.extra \in changed /\ m.extra \notin askew'
    BY <1>2, <1>8, <2>1 DEF Straight
  <2>3. v = DoorView(Printed(speed))
    BY <1>4, <2>2
  <2>4. Due(m.view, m.extra)' <=> m.extra \in doors
    BY <1>2, <1>6, <2>1, <2>3
  <2> QED BY <2>1, <2>4
<1>9. ASSUME NEW p \in Pairs, Straight(p[1], p[2])'
      PROVE  \/ p \in lost'
             \/ \E m \in pending' : m.view = p[1] /\ m.extra = p[2]
             \/ p[2] \in told'[p[1]] <=> Due(p[1], p[2])'
  <2>1. p \in lost \/ (p[2] \in told[p[1]] <=> Due(p[1], p[2]))
    BY <1>1, <1>7, <1>9 DEF DoorInv, Agree
  <2>2. CASE Due(p[1], p[2]) <=> Due(p[1], p[2])'
    BY <1>1, <2>1, <2>2
  <2>3. CASE ~(Due(p[1], p[2]) <=> Due(p[1], p[2])')
    <3>1. p[1] = DoorView(Printed(speed)) /\ (p[2] \in doors \ open \/ p[2] \in open \ doors)
      BY <1>5, <1>6, <2>3
    <3>2. p[1] # Limit
      BY <3>1, ViewsDiffer
    <3>3. p[2] \notin askew'
      BY <1>9, <3>2 DEF Straight
    <3>4. p[1] = v
      BY <1>4, <3>1, <3>3
    <3>5. \/ [view |-> v, extra |-> p[2], on |-> TRUE] \in pending'
          \/ [view |-> v, extra |-> p[2], on |-> FALSE] \in pending'
      BY <1>3, <3>1 DEF Msgs
    <3> QED BY <3>4, <3>5
  <2> QED BY <2>2, <2>3
<1>10. light' <=> open' # {}
  BY DEF DoorMessage
<1> QED BY <1>1, <1>8, <1>9, <1>10 DEF DoorInv, Agree

LEMMA SpeedMessageStep ==
  ASSUME TypeOK, DoorInv, NEW s \in Speeds, SpeedMessage(s)
  PROVE  DoorInv'
<1> DEFINE new == DoorView(Printed(s))
           old == OtherView(Printed(s))
           isOver == Printed(s) > OverSpeed
<1>1. pending = {} /\ open' = open /\ light' = light /\ speed' = s
      /\ over' = isOver /\ told' = told /\ lost' = lost
  BY DEF SpeedMessage, view
<1>2. /\ new \in DoorViews /\ old \in DoorViews /\ new # old
      /\ new # Limit /\ old # Limit /\ DoorViews = {new, old}
  BY ViewsDiffer
<1>3. pending' = LimitMsgs(isOver) \cup Moved(Printed(s))
  BY DEF SpeedMessage
<1>4. Moved(Printed(s)) = Msgs(old, open, FALSE) \cup Msgs(new, open, TRUE)
  BY DEF Moved, DoorInv, Msgs
<1>5. \A w, e : Due(w, e)' <=> (w = new /\ e \in open) \/ (w = Limit /\ isOver)
  BY <1>1 DEF Due
<1>6. \A w, e : Due(w, e) => (w \in DoorViews /\ e \in open) \/ (w = Limit /\ over)
  BY ViewsDiffer DEF Due
<1>7. Due(Limit, Limit) <=> over
  BY ViewsDiffer DEF Due
<1>8. \A m \in LimitMsgs(isOver) : m.view = Limit /\ m.extra = Limit /\ m.on = isOver
  BY DEF LimitMsgs, Msgs
<1> HIDE DEF new, old, isOver
<1>9. \A m \in pending' : m.on <=> Due(m.view, m.extra)'
  BY <1>2, <1>3, <1>4, <1>5, <1>8 DEF Msgs
<1>12. askew' = askew \ open
  BY DEF SpeedMessage, DoorInv
<1>10. ASSUME NEW p \in Pairs, Straight(p[1], p[2])'
       PROVE  \/ p \in lost'
              \/ \E m \in pending' : m.view = p[1] /\ m.extra = p[2]
              \/ p[2] \in told'[p[1]] <=> Due(p[1], p[2])'
  <2>1. Straight(p[1], p[2]) =>
          p \in lost \/ (p[2] \in told[p[1]] <=> Due(p[1], p[2]))
    BY <1>1 DEF DoorInv, Agree
  <2>2. CASE p \in DoorViews \X Doors
    <3>1. p[1] \in {new, old}
      BY <1>2, <2>2
    <3>2. CASE p[2] \in open
      <4>1. \/ [view |-> old, extra |-> p[2], on |-> FALSE] \in pending' /\ p[1] = old
            \/ [view |-> new, extra |-> p[2], on |-> TRUE] \in pending' /\ p[1] = new
        BY <1>3, <1>4, <3>1, <3>2 DEF Msgs
      <4> QED BY <4>1
    <3>3. CASE p[2] \notin open
      <4>1. ~Due(p[1], p[2]) /\ ~Due(p[1], p[2])'
        BY <1>2, <1>5, <1>6, <3>1, <3>3
      <4>2. Straight(p[1], p[2])
        BY <1>10, <1>12, <3>3 DEF Straight
      <4> QED BY <1>1, <2>1, <4>1, <4>2
    <3> QED BY <3>2, <3>3
  <2>3. CASE p = <<Limit, Limit>>
    <3>1. CASE over = isOver
      <4>1. Due(p[1], p[2]) <=> Due(p[1], p[2])'
        BY <1>2, <1>5, <1>7, <2>3, <3>1
      <4>2. Straight(p[1], p[2])
        BY <2>3 DEF Straight
      <4> QED BY <1>1, <2>1, <4>1, <4>2
    <3>2. CASE over # isOver
      <4>1. [view |-> Limit, extra |-> Limit, on |-> isOver] \in pending'
        BY <1>3, <3>2 DEF LimitMsgs, Msgs
      <4> QED BY <2>3, <4>1
    <3> QED BY <3>1, <3>2
  <2> QED BY <2>2, <2>3 DEF Pairs
<1>11. over' <=> Printed(speed') > OverSpeed
  BY <1>1 DEF isOver
<1> QED BY <1>1, <1>9, <1>10, <1>11 DEF DoorInv, Agree

LEMMA SendStep ==
  ASSUME TypeOK, DoorInv, NEW m \in pending, SendViewPageInfo(m)
  PROVE  DoorInv'
<1>1. UNCHANGED core /\ pending' = pending \ {m}
  BY DEF SendViewPageInfo
<1>2. \A w, e : (Due(w, e)' <=> Due(w, e)) /\ (Straight(w, e)' <=> Straight(w, e))
  BY <1>1 DEF core, Due, Straight
<1>3. m.view \in Views /\ m \in Messages
  BY DEF TypeOK, Messages
<1>4. \A n \in pending : Straight(n.view, n.extra) => (n.on <=> Due(n.view, n.extra))
  BY DEF DoorInv, Agree
<1>5. ASSUME NEW p \in Pairs, Straight(p[1], p[2])
      PROVE  \/ p \in lost'
             \/ \E n \in pending' : n.view = p[1] /\ n.extra = p[2]
             \/ p[2] \in told'[p[1]] <=> Due(p[1], p[2])'
  <2>0. p = <<p[1], p[2]>> /\ p[1] \in Views
    BY DEF Pairs
  <2>1. CASE p = <<m.view, m.extra>>
    <3>1. p[1] = m.view /\ p[2] = m.extra
      BY <2>1
    <3>2. CASE m_isConnected
      <4>1. p[2] \in told'[p[1]] <=> m.on
        BY <1>3, <3>1, <3>2 DEF SendViewPageInfo, TypeOK
      <4> QED BY <1>2, <1>4, <1>5, <3>1, <4>1
    <3>3. CASE ~m_isConnected
      BY <2>1, <3>3 DEF SendViewPageInfo
    <3> QED BY <3>2, <3>3
  <2>2. CASE p # <<m.view, m.extra>>
    <3>1. ~(p[1] = m.view /\ p[2] = m.extra)
      BY <2>0, <2>2
    <3>2. p \in lost' <=> p \in lost
      BY <2>2 DEF SendViewPageInfo
    <3>3. p[2] \in told'[p[1]] <=> p[2] \in told[p[1]]
      BY <1>3, <2>0, <3>1 DEF SendViewPageInfo, TypeOK
    <3>4. \A n \in pending : n.view = p[1] /\ n.extra = p[2] => n \in pending'
      BY <1>1, <3>1
    <3> QED BY <1>2, <1>5, <3>2, <3>3, <3>4 DEF DoorInv, Agree
  <2> QED BY <2>1, <2>2
<1>6. Agree'
  BY <1>1, <1>2, <1>4, <1>5 DEF Agree
<1> QED BY <1>1, <1>6 DEF DoorInv, core

-----------------------------------------------------------------------------
\* The inductive invariant: the door light and the overspeed flag follow the
\* signals, a message on its way carries what is due, and of the pairs no message
\* of which is on its way or lost ViewService knows what is due, but for the doors
\* the two handlers disagree on.
THEOREM DoorInvCorrect == Spec => [](TypeOK /\ DoorInv)
<1>1. Init => DoorInv
  <2> SUFFICES ASSUME Init PROVE DoorInv
    OBVIOUS
  <2>1. ~over /\ ~(Printed(speed) > OverSpeed)
    BY PrintedZero, SpeedAssumption DEF Init
  <2>2. \A w, e : ~Due(w, e)
    BY DEF Init, Due
  <2>3. ASSUME NEW p \in Pairs PROVE p[2] \notin told[p[1]]
    <3>1. p[1] \in Views
      BY DEF Pairs
    <3> QED BY <3>1 DEF Init
  <2>4. Agree
    BY <2>2, <2>3 DEF Init, Agree
  <2> QED BY <2>1, <2>4 DEF Init, DoorInv
<1>2. TypeOK /\ DoorInv /\ [Next]_vars => DoorInv'
  <2> SUFFICES ASSUME TypeOK, DoorInv, [Next]_vars PROVE DoorInv'
    OBVIOUS
  <2>1. ASSUME UNCHANGED <<core, pending, view>> PROVE DoorInv'
    BY <2>1 DEF core, view, DoorInv, Agree, Due, Straight
  <2>2. CASE on_disconnect
    BY <2>1, <2>2 DEF on_disconnect
  <2>3. CASE on_connect
    BY <2>1, <2>3 DEF on_connect
  <2>4. CASE UNCHANGED vars
    BY <2>1, <2>4 DEF vars
  <2>5. ASSUME NEW doors \in SUBSET Doors, DoorMessage(doors) PROVE DoorInv'
    BY <2>5, DoorMessageStep
  <2>6. ASSUME NEW s \in Speeds, SpeedMessage(s) PROVE DoorInv'
    BY <2>6, SpeedMessageStep
  <2>7. ASSUME NEW m \in pending, SendViewPageInfo(m) PROVE DoorInv'
    BY <2>7, SendStep
  <2> QED BY <2>2, <2>3, <2>4, <2>5, <2>6, <2>7 DEF Next
<1> QED BY <1>1, <1>2, DoorTypeCorrect, PTL DEF Spec

\* When the handlers are idle every open door is known to ViewService under
\* the view of the last speed and under no other, but for messages that were
\* not sent and doors opened or closed at a speed rounded across the threshold.
THEOREM DoorsCorrect == Spec => []ViewKnowsDoors
<1>1. TypeOK /\ DoorInv => ViewKnowsDoors
  <2> SUFFICES ASSUME DoorInv, pending = {}, NEW v \in DoorViews, NEW d \in Doors,
                      d \notin askew, <<v, d>> \notin lost
               PROVE  d \in told[v] <=> d \in open /\ v = DoorView(Printed(speed))
    BY DEF ViewKnowsDoors
  <2>1. <<v, d>> \in Pairs
    BY DEF Pairs
  <2>2. d \in told[v] <=> Due(v, d)
    BY <2>1 DEF DoorInv, Agree, Straight
  <2> QED BY <2>2, ViewsDiffer DEF Due
<1> QED BY <1>1, DoorInvCorrect, PTL

\* When the handlers are idle ViewService knows whether the speed is above the
\* limit, but for a message that was not sent.
THEOREM LimitCorrect == Spec => []ViewKnowsLimit
<1>1. TypeOK /\ DoorInv => ViewKnowsLimit
  <2> SUFFICES ASSUME DoorInv, pending = {}, <<Limit, Limit>> \notin lost
               PROVE  Limit \in told[Limit] <=> Printed(speed) > OverSpeed
    BY DEF ViewKnowsLimit
  <2>1. <<Limit, Limit>> \in Pairs
    BY DEF Pairs
  <2>2. Limit \in told[Limit] <=> Due(Limit, Limit)
    BY <2>1 DEF DoorInv, Agree, Straight
  <2> QED BY <2>2, ViewsDiffer DEF Due, DoorInv
<1> QED BY <1>1, DoorInvCorrect, PTL

=============================================================================
