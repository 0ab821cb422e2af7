--------------------------- MODULE MqttLinkProofs ---------------------------
(***************************************************************************)
(* Proofs about MqttLink, for any number of messages and of lost           *)
(* connections and processes: type correctness, what a clean session       *)
(* means, that the newest message is kept, and that the link implements    *)
(* the abstract Channel.                                                   *)
(***************************************************************************)
EXTENDS MqttLink, TLAPS, SequenceTheorems

-----------------------------------------------------------------------------
(* Type correctness *)

LEMMA TypeInit == Init => TypeOK
<1> SUFFICES ASSUME Init PROVE TypeOK
  OBVIOUS
<1>1. inbox \in Seq(1..sent) /\ m_msgQueue \in Seq(1..sent)
  BY EmptySeq DEF Init
<1>2. /\ phase \in [Procs -> Phases]
      /\ link \in [Procs -> BOOLEAN] /\ m_isConnected \in [Procs -> BOOLEAN]
  BY DEF Init, Phases
<1>3. /\ sent \in 0..MaxSent /\ accepted \in 0..sent /\ acked \in 0..accepted
      /\ popped \in 0..sent /\ breaks \in 0..MaxBreaks
  BY LinkBounds DEF Init
<1>4. QED
  BY <1>1, <1>2, <1>3 DEF Init, TypeOK

LEMMA TypeProcess ==
  ASSUME TypeOK, NEW p \in Procs, Process(p)
  PROVE  TypeOK'
<1>0. <<>> \in Seq(1..sent)
  BY EmptySeq
<1>1. CASE Connect(p)
  BY <1>1 DEF Connect, TypeOK, Phases, flow, path
<1>2. CASE Subscribe(p)
  BY <1>2 DEF Subscribe, TypeOK, Phases, flow, path
<1>3. CASE Run(p)
  BY <1>3 DEF Run, TypeOK, Phases, flow, path
<1>4. CASE Start(p)
  BY <1>4 DEF Start, TypeOK, Phases, flow, path
<1>5. CASE LinkLost(p)
  <2>1. inbox' \in Seq(1..sent) /\ subscribed' \in BOOLEAN
    BY <1>0, <1>5 DEF LinkLost, EndSession, TypeOK
  <2>2. link' \in [Procs -> BOOLEAN]
    BY <1>5 DEF LinkLost, EndSession, TypeOK
  <2>3. breaks' \in 0..MaxBreaks
    BY <1>5, LinkBounds DEF LinkLost, TypeOK
  <2>4. QED
    BY <1>5, <2>1, <2>2, <2>3 DEF LinkLost, TypeOK, flow
<1>6. CASE on_disconnect_callback(p)
  BY <1>6 DEF on_disconnect_callback, TypeOK, flow, path
<1>7. CASE Reconnect(p)
  BY <1>7 DEF Reconnect, TypeOK, path
<1>8. CASE on_connect_callback(p)
  BY <1>8 DEF on_connect_callback, TypeOK, flow, path
<1>9. CASE Crash(p)
  <2>1. inbox' \in Seq(1..sent) /\ subscribed' \in BOOLEAN
    BY <1>0, <1>9 DEF Crash, EndSession, TypeOK
  <2>2. link' \in [Procs -> BOOLEAN] /\ m_isConnected' \in [Procs -> BOOLEAN]
    BY <1>9 DEF Crash, EndSession, TypeOK
  <2>3. phase' \in [Procs -> Phases] /\ breaks' \in 0..MaxBreaks
    BY <1>9, LinkBounds DEF Crash, TypeOK, Phases
  <2>4. m_msgQueue' \in Seq(1..sent) /\ popped' \in 0..sent
    <3>1. \/ m_msgQueue' = m_msgQueue /\ popped' = popped
          \/ m_msgQueue' = <<>> /\ popped' = 0
      BY <1>9 DEF Crash
    <3>2. 0 \in 0..sent /\ popped \in 0..sent /\ m_msgQueue \in Seq(1..sent)
      BY LinkBounds DEF TypeOK
    <3>3. QED
      BY <1>0, <3>1, <3>2
  <2>5. accepted' \in 0..sent /\ acked' \in 0..accepted'
    <3>1. sent \in Nat /\ accepted \in 0..sent /\ acked \in 0..accepted
      BY LinkBounds DEF TypeOK
    <3>2. \/ accepted' = sent /\ acked' = sent
          \/ accepted' = accepted /\ acked' = acked
      BY <1>9 DEF Crash
    <3>3. QED
      BY <3>1, <3>2
  <2>6. sent' = sent /\ sent \in 0..MaxSent
    BY <1>9 DEF Crash, TypeOK
  <2>7. QED
    BY <2>1, <2>2, <2>3, <2>4, <2>5, <2>6 DEF TypeOK
<1>10. QED
  BY <1>1, <1>2, <1>3, <1>4, <1>5, <1>6, <1>7, <1>8, <1>9 DEF Process

\* A queue of messages that were sent still is one when more are sent.
LEMMA QueueGrows ==
  ASSUME NEW n \in Nat, NEW m \in Nat, n <= m, NEW q \in Seq(1..n)
  PROVE  q \in Seq(1..m)
<1>1. 1..n \subseteq 1..m
  OBVIOUS
<1>2. QED
  BY <1>1, SeqMonotonic

LEMMA TypeTransport ==
  ASSUME TypeOK, Transport
  PROVE  TypeOK'
<1>0. sent \in Nat /\ accepted \in Nat /\ acked \in Nat
  BY LinkBounds DEF TypeOK
<1>1. CASE MsgSend
  <2>1. inbox \in Seq(1..(sent + 1)) /\ m_msgQueue \in Seq(1..(sent + 1))
    BY <1>0, QueueGrows DEF TypeOK
  <2>2. QED
    BY <1>0, <1>1, <2>1, LinkBounds DEF MsgSend, TypeOK, procs, path
<1>2. CASE BrokerAccept
  <2>1. accepted + 1 \in 1..sent
    BY <1>0, <1>2 DEF BrokerAccept
  <2>2. Append(inbox, accepted + 1) \in Seq(1..sent)
    BY <2>1 DEF TypeOK
  <2>3. accepted' \in 0..sent /\ acked \in 0..accepted'
    BY <1>0, <1>2, <2>1 DEF BrokerAccept, TypeOK
  <2>4. inbox' \in Seq(1..sent)
    BY <1>2, <2>2 DEF BrokerAccept, TypeOK
  <2>5. QED
    BY <1>2, <2>3, <2>4 DEF BrokerAccept, TypeOK, procs
<1>3. CASE on_publish_callback
  BY <1>0, <1>3 DEF on_publish_callback, TypeOK, procs, path
<1>4. CASE on_message_callback
  <2>1. Head(inbox) \in 1..sent /\ Tail(inbox) \in Seq(1..sent)
    BY <1>4, HeadTailProperties DEF on_message_callback, TypeOK
  <2>2. Append(m_msgQueue, Head(inbox)) \in Seq(1..sent)
    BY <2>1 DEF TypeOK
  <2>3. QED
    BY <1>4, <2>1, <2>2 DEF on_message_callback, MsgPush, TypeOK, procs, flow
<1>5. CASE MsgPop
  <2>1. Head(m_msgQueue) \in 1..sent /\ Tail(m_msgQueue) \in Seq(1..sent)
    BY <1>5, HeadTailProperties DEF MsgPop, TypeOK
  <2>2. QED
    BY <1>0, <1>5, <2>1 DEF MsgPop, TypeOK, procs, flow
<1>6. QED
  BY <1>1, <1>2, <1>3, <1>4, <1>5 DEF Transport

LEMMA TypeStutter == ASSUME TypeOK, UNCHANGED vars PROVE TypeOK'
  BY DEF TypeOK, vars, procs, flow, path

\* The variables keep their types, for any bounds.
THEOREM LinkTypeCorrect == Spec => []TypeOK
<1>1. TypeOK /\ [Next]_vars => TypeOK'
  BY TypeProcess, TypeTransport, TypeStutter DEF Next
<1>2. QED
  BY TypeInit, <1>1, PTL DEF Spec

-----------------------------------------------------------------------------
(* The clean session *)

LEMMA SessionStep ==
  ASSUME TypeOK, SessionClean, [Next]_vars
  PROVE  SessionClean'
<1>1. ASSUME NEW p \in Procs, Process(p) PROVE SessionClean'
  <2>1. CASE Connect(p)
    BY <2>1 DEF Connect, SessionClean, TypeOK, Procs, flow, path
  <2>2. CASE Subscribe(p)
    BY <2>2 DEF Subscribe, SessionClean, TypeOK, Procs, flow, path
  <2>3. CASE Run(p)
    BY <2>3 DEF Run, SessionClean, TypeOK, Procs, flow, path
  <2>4. CASE Start(p)
    BY <2>4 DEF Start, SessionClean, TypeOK, Procs, flow, path
  <2>5. CASE LinkLost(p)
    BY <2>5 DEF LinkLost, EndSession, SessionClean, TypeOK, Procs
  <2>6. CASE on_disconnect_callback(p)
    BY <2>6 DEF on_disconnect_callback, SessionClean, flow, path
  <2>7. CASE Reconnect(p)
    BY <2>7 DEF Reconnect, SessionClean, TypeOK, Procs, path
  <2>8. CASE on_connect_callback(p)
    BY <2>8 DEF on_connect_callback, SessionClean, flow, path
  <2>9. CASE Crash(p)
    BY <2>9 DEF Crash, EndSession, SessionClean, TypeOK, Procs
  <2>10. QED
    BY <1>1, <2>1, <2>2, <2>3, <2>4, <2>5, <2>6, <2>7, <2>8, <2>9 DEF Process
<1>2. CASE MsgSend
  BY <1>2 DEF MsgSend, SessionClean, procs, path
<1>3. CASE BrokerAccept
  BY <1>3 DEF BrokerAccept, SessionClean, procs
<1>4. CASE on_publish_callback
  BY <1>4 DEF on_publish_callback, SessionClean, procs, path
<1>5. CASE on_message_callback
  BY <1>5 DEF on_message_callback, SessionClean, procs
<1>6. CASE MsgPop
  BY <1>6 DEF MsgPop, SessionClean, procs
<1>7. CASE UNCHANGED vars
  BY <1>7 DEF SessionClean, vars, procs, path
<1>8. QED
  BY <1>1, <1>2, <1>3, <1>4, <1>5, <1>6, <1>7 DEF Next, Transport

\* Without a subscription the broker keeps nothing, and a subscription ends
\* with its connection.
THEOREM SessionCorrect == Spec => []SessionClean
<1>1. Init => SessionClean
  BY DEF Init, SessionClean, Procs
<1>2. QED
  BY <1>1, SessionStep, LinkTypeCorrect, PTL DEF Spec

-----------------------------------------------------------------------------
(* Sequences *)

LEMMA PrefixOfConcat ==
  ASSUME NEW S, NEW a \in Seq(S), NEW b \in Seq(S)
  PROVE  SubSeq(a \o b, 1, Len(a)) = a
<1> DEFINE t == SubSeq(a \o b, 1, Len(a))
<1>1. /\ a \o b \in Seq(S) /\ Len(a \o b) = Len(a) + Len(b)
      /\ \A i \in 1..Len(a) + Len(b) :
           (a \o b)[i] = IF i <= Len(a) THEN a[i] ELSE b[i - Len(a)]
  BY ConcatProperties
<1>2. Len(a) \in Nat /\ Len(b) \in Nat
  OBVIOUS
<1>3. /\ t \in Seq(S) /\ Len(t) = Len(a)
      /\ \A i \in 1..Len(a) : t[i] = (a \o b)[i]
  BY <1>1, <1>2
<1>4. \A i \in 1..Len(a) : (a \o b)[i] = a[i]
  BY <1>1, <1>2
<1>5. \A i \in 1..Len(t) : t[i] = a[i]
  BY <1>3, <1>4
<1> HIDE DEF t
<1>6. t = a
  BY <1>3, <1>5, SeqEqual
<1>7. QED
  BY <1>6 DEF t

LEMMA SuffixOfConcat ==
  ASSUME NEW S, NEW a \in Seq(S), NEW b \in Seq(S)
  PROVE  SubSeq(a \o b, Len(a) + 1, Len(a \o b)) = b
<1> DEFINE t == SubSeq(a \o b, Len(a) + 1, Len(a \o b))
<1>1. /\ a \o b \in Seq(S) /\ Len(a \o b) = Len(a) + Len(b)
      /\ \A i \in 1..Len(a) + Len(b) :
           (a \o b)[i] = IF i <= Len(a) THEN a[i] ELSE b[i - Len(a)]
  BY ConcatProperties
<1>2. Len(a) \in Nat /\ Len(b) \in Nat
  OBVIOUS
<1>3. /\ t \in Seq(S) /\ Len(t) = Len(b)
      /\ \A i \in 1..Len(b) : t[i] = (a \o b)[Len(a) + i]
  BY <1>1, <1>2
<1>4. \A i \in 1..Len(b) : (a \o b)[Len(a) + i] = b[i]
  <2>1. TAKE i \in 1..Len(b)
  <2>2. /\ Len(a) + i \in 1..Len(a) + Len(b)
        /\ ~(Len(a) + i <= Len(a))
        /\ (Len(a) + i) - Len(a) = i
    BY <1>2
  <2>3. QED
    BY <1>1, <2>2
<1>5. \A i \in 1..Len(t) : t[i] = b[i]
  BY <1>3, <1>4
<1> HIDE DEF t
<1>6. t = b
  BY <1>3, <1>5, SeqEqual
<1>7. QED
  BY <1>6 DEF t

\* s without what it has from i + 1 to j.
Cut(s, i, j) == SubSeq(s, 1, i) \o SubSeq(s, j + 1, Len(s))

LEMMA CutMiddle ==
  ASSUME NEW S, NEW a \in Seq(S), NEW b \in Seq(S), NEW c \in Seq(S)
  PROVE  Cut((a \o b) \o c, Len(a), Len(a) + Len(b)) = a \o c
<1>1. (a \o b) \o c = a \o (b \o c)
  BY ConcatAssociative
<1>2. b \o c \in Seq(S) /\ a \o b \in Seq(S) /\ Len(a \o b) = Len(a) + Len(b)
  BY ConcatProperties
<1>3. SubSeq((a \o b) \o c, 1, Len(a)) = a
  BY <1>1, <1>2, PrefixOfConcat
<1>4. SubSeq((a \o b) \o c, Len(a \o b) + 1, Len((a \o b) \o c)) = c
  BY <1>2, SuffixOfConcat
<1>5. QED
  BY <1>2, <1>3, <1>4 DEF Cut

LEMMA HeadThenTail ==
  ASSUME NEW S, NEW s \in Seq(S), s # <<>>
  PROVE  <<Head(s)>> \o Tail(s) = s
<1>1. Len(s) \in 1..Len(s)
  BY EmptySeq
<1>2. SubSeq(s, 1, Len(s)) = <<s[1]>> \o SubSeq(s, 2, Len(s))
  BY <1>1, SubSeqRecursiveFirst
<1>3. SubSeq(s, 1, Len(s)) = s
  BY SubSeqFull
<1>4. Tail(s) = SubSeq(s, 2, Len(s))
  BY TailIsSubSeq
<1>5. QED
  BY <1>2, <1>3, <1>4

-----------------------------------------------------------------------------
(* The link implements the abstract channel *)

\* The numbers from x + 1 to y.
Between(x, y) == [i \in 1..(y - x) |-> x + i]

LEMMA BetweenSeq ==
  ASSUME NEW x \in Nat, NEW y \in Nat, x <= y
  PROVE  /\ Between(x, y) \in Seq(Nat) /\ Len(Between(x, y)) = y - x
         /\ \A i \in 1..(y - x) : Between(x, y)[i] = x + i
<1>1. y - x \in Nat
  OBVIOUS
<1>2. Between(x, y) \in [1..(y - x) -> Nat]
  BY DEF Between
<1>3. QED
  BY <1>1, <1>2, SeqDef DEF Between

LEMMA BetweenEmpty == ASSUME NEW x \in Nat PROVE Between(x, x) = <<>>
<1>1. Between(x, x) \in Seq(Nat) /\ Len(Between(x, x)) = 0
  BY BetweenSeq
<1>2. QED
  BY <1>1, EmptySeq

LEMMA AppendLast ==
  ASSUME NEW S, NEW s \in Seq(S), NEW e \in S
  PROVE  Append(s, e)[Len(s) + 1] = e
OBVIOUS

LEMMA BetweenLast ==
  ASSUME NEW x \in Nat, NEW y \in Nat, x <= y
  PROVE  Append(Between(x, y), y + 1) = Between(x, y + 1)
<1> DEFINE a == Append(Between(x, y), y + 1)
           b == Between(x, y + 1)
<1>1. /\ Between(x, y) \in Seq(Nat) /\ Len(Between(x, y)) = y - x
      /\ \A i \in 1..(y - x) : Between(x, y)[i] = x + i
  BY BetweenSeq
<1>2. /\ b \in Seq(Nat) /\ Len(b) = y + 1 - x
      /\ \A i \in 1..(y + 1 - x) : b[i] = x + i
  BY BetweenSeq
<1>3. a \in Seq(Nat) /\ Len(a) = y + 1 - x
  BY <1>1
<1>4. ASSUME NEW i \in 1..(y + 1 - x) PROVE a[i] = x + i
  <2>1. CASE i \in 1..(y - x)
    BY <1>1, <2>1
  <2>2. CASE i = Len(Between(x, y)) + 1
    <3>1. a[i] = y + 1
      <4>1. y + 1 \in Nat /\ Between(x, y) \in Seq(Nat)
        BY <1>1
      <4>2. QED
        BY <2>2, <4>1, AppendLast
    <3>2. y + 1 = x + i
      BY <1>1, <2>2
    <3>3. QED
      BY <3>1, <3>2
  <2>3. i \in 1..(y - x) \/ i = (y - x) + 1
    OBVIOUS
  <2>4. QED
    BY <1>1, <2>1, <2>2, <2>3
<1> HIDE DEF a, b
<1>5. a = b
  BY <1>2, <1>3, <1>4, SeqEqual
<1>6. QED
  BY <1>5 DEF a, b

LEMMA BetweenFirst ==
  ASSUME NEW x \in Nat, NEW y \in Nat, x < y
  PROVE  <<x + 1>> \o Between(x + 1, y) = Between(x, y)
<1> DEFINE c == Between(x + 1, y)
           a == <<x + 1>> \o c
           b == Between(x, y)
<1>1. /\ c \in Seq(Nat) /\ Len(c) = y - (x + 1)
      /\ \A i \in 1..(y - (x + 1)) : c[i] = (x + 1) + i
  BY BetweenSeq
<1>2. b \in Seq(Nat) /\ Len(b) = y - x /\ \A i \in 1..(y - x) : b[i] = x + i
  BY BetweenSeq
<1>3. <<x + 1>> \in Seq(Nat) /\ Len(<<x + 1>>) = 1 /\ <<x + 1>>[1] = x + 1
  OBVIOUS
<1> HIDE DEF b, c
<1>4. /\ a \in Seq(Nat) /\ Len(a) = 1 + (y - (x + 1))
      /\ \A i \in 1..(1 + (y - (x + 1))) :
           a[i] = IF i <= 1 THEN <<x + 1>>[i] ELSE c[i - 1]
  BY <1>1, <1>3, ConcatProperties
<1>5. \A i \in 1..(y - x) : a[i] = x + i
  <2>1. TAKE i \in 1..(y - x)
  <2>2. CASE i = 1
    BY <1>3, <1>4, <2>2
  <2>3. CASE i # 1
    <3>1. i - 1 \in 1..(y - (x + 1)) /\ ~(i <= 1) /\ i \in 1..(1 + (y - (x + 1)))
      BY <2>3
    <3>2. a[i] = c[i - 1] /\ c[i - 1] = (x + 1) + (i - 1)
      BY <1>1, <1>4, <3>1
    <3>3. (x + 1) + (i - 1) = x + i
      OBVIOUS
    <3>4. QED
      BY <3>2, <3>3
  <2>4. QED
    BY <2>2, <2>3
<1>6. Len(a) = y - x
  BY <1>4
<1> HIDE DEF a
<1>7. a = b
  BY <1>2, <1>4, <1>5, <1>6, SeqEqual
<1>8. QED
  BY <1>7 DEF a, b, c

\* What the types say of the queues and of what is still to come.
LEMMA TodoParts ==
  ASSUME TypeOK
  PROVE  /\ sent \in Nat /\ accepted \in Nat /\ acked \in Nat
         /\ accepted <= sent /\ acked <= accepted
         /\ m_msgQueue \in Seq(Nat) /\ inbox \in Seq(Nat)
         /\ m_msgQueue \o inbox \in Seq(Nat)
         /\ Len(m_msgQueue \o inbox) = Len(m_msgQueue) + Len(inbox)
         /\ Untaken = Between(accepted, sent)
         /\ Untaken \in Seq(Nat) /\ Len(Untaken) = sent - accepted
         /\ Todo = (m_msgQueue \o inbox) \o Untaken
         /\ Todo \in Seq(Nat)
         /\ Len(Todo) = Len(m_msgQueue \o inbox) + (sent - accepted)
<1>1. /\ sent \in Nat /\ accepted \in Nat /\ acked \in Nat
      /\ accepted <= sent /\ acked <= accepted
  BY LinkBounds DEF TypeOK
<1>2. m_msgQueue \in Seq(Nat) /\ inbox \in Seq(Nat)
  <2>1. 1..sent \subseteq Nat
    OBVIOUS
  <2>2. QED
    BY <2>1, SeqMonotonic DEF TypeOK
<1>3. /\ m_msgQueue \o inbox \in Seq(Nat)
      /\ Len(m_msgQueue \o inbox) = Len(m_msgQueue) + Len(inbox)
  BY <1>2, ConcatProperties
<1>4. Untaken = Between(accepted, sent)
  BY DEF Untaken, Between
<1>5. Untaken \in Seq(Nat) /\ Len(Untaken) = sent - accepted
  BY <1>1, <1>4, BetweenSeq
<1>6. Todo = (m_msgQueue \o inbox) \o Untaken
  BY DEF Todo
<1>7. Todo \in Seq(Nat) /\ Len(Todo) = Len(m_msgQueue \o inbox) + (sent - accepted)
  <2> DEFINE a == m_msgQueue \o inbox
             b == Untaken
  <2>1. a \in Seq(Nat) /\ b \in Seq(Nat) /\ Todo = a \o b /\ Len(b) = sent - accepted
    BY <1>3, <1>5, <1>6
  <2> HIDE DEF a, b
  <2>2. Todo \in Seq(Nat) /\ Len(Todo) = Len(a) + Len(b)
    BY <2>1, ConcatProperties
  <2>3. QED
    BY <2>1, <2>2 DEF a
<1>8. QED
  BY <1>1, <1>2, <1>3, <1>4, <1>5, <1>6, <1>7

\* The broker's queue is lost with the connection of the receiver.
LEMMA LoseInbox ==
  ASSUME TypeOK, sent' = sent, popped' = popped, accepted' = accepted,
         m_msgQueue' = m_msgQueue, inbox' = <<>>
  PROVE  [Abstract!Next]_(Abstract!vars)
<1> DEFINE Q == m_msgQueue
           B == inbox
           C == Untaken
<1>1. Q \in Seq(Nat) /\ B \in Seq(Nat) /\ C \in Seq(Nat) /\ Todo = (Q \o B) \o C
  BY TodoParts
<1>2. Todo' = (Q \o <<>>) \o C
  BY DEF Todo, Untaken
<1> HIDE DEF Q, B, C
<1>3. Todo' = Q \o C
  BY <1>1, <1>2, ConcatEmptySeq
<1>4. CASE B = <<>>
  BY <1>1, <1>3, <1>4, ConcatEmptySeq DEF Abstract!vars
<1>5. CASE B # <<>>
  <2> DEFINE i == Len(Q)
             j == Len(Q) + Len(B)
  <2>1. /\ Len(Todo) = (Len(Q) + Len(B)) + Len(C)
        /\ Len(Q) \in Nat /\ Len(C) \in Nat /\ Len(B) \in Nat \ {0}
    BY <1>1, <1>5, ConcatProperties, EmptySeq
  <2>2. i \in 0..Len(Todo) /\ j \in 0..Len(Todo) /\ i < j
    BY <2>1
  <2>3. Todo' = Cut(Todo, i, j)
    BY <1>1, <1>3, CutMiddle
  <2>4. Todo' = Abstract!Stretch(i, j)
    BY <2>3 DEF Cut, Abstract!Stretch
  <2>5. Abstract!Lose
    BY <2>2, <2>4 DEF Abstract!Lose
  <2>6. QED
    BY <2>5 DEF Abstract!Next
<1>6. QED
  BY <1>4, <1>5

\* All but what the broker has not taken is lost with the receiver.
LEMMA ForgetAll ==
  ASSUME TypeOK, sent' = sent, popped' = 0, accepted' = accepted,
         m_msgQueue' = <<>>, inbox' = <<>>
  PROVE  Abstract!Next
<1>1. Todo' = Untaken
  BY TodoParts, ConcatEmptySeq, EmptySeq DEF Todo, Untaken
<1> DEFINE j == Len(m_msgQueue \o inbox)
<1>2. j \in 0..Len(Todo)
  BY TodoParts
<1>3. SubSeq(Todo, j + 1, Len(Todo)) = Untaken
  BY TodoParts, SuffixOfConcat
<1>4. SubSeq(Todo, 1, 0) = <<>>
  BY TodoParts, SubSeqEmpty
<1>5. Todo' = Abstract!Stretch(0, j)
  BY <1>1, <1>3, <1>4, TodoParts, ConcatEmptySeq DEF Abstract!Stretch
<1>6. QED
  BY <1>2, <1>5 DEF Abstract!Next, Abstract!Forget

\* Three sequences of messages joined either way.
LEMMA Regroup ==
  ASSUME NEW a \in Seq(Nat), NEW b \in Seq(Nat), NEW c \in Seq(Nat)
  PROVE  (a \o b) \o c = a \o (b \o c)
BY ConcatAssociative

\* A message is appended to what the broker has not taken.
LEMMA SendPuts ==
  ASSUME TypeOK, MsgSend
  PROVE  Abstract!Put
<1> DEFINE a == m_msgQueue \o inbox
           u == Untaken
<1>1. a \in Seq(Nat) /\ u \in Seq(Nat) /\ Todo = a \o u /\ sent + 1 \in Nat
  BY TodoParts
<1>2. Todo' = a \o Between(accepted, sent + 1)
  BY <1>1 DEF MsgSend, path, Todo, Untaken, Between
<1>3. Between(accepted, sent + 1) = Append(u, sent + 1)
  BY TodoParts, BetweenLast
<1> HIDE DEF a, u
<1>4. Append(u, sent + 1) = u \o <<sent + 1>> /\ <<sent + 1>> \in Seq(Nat)
  BY <1>1, AppendIsConcat
<1>5. a \o (u \o <<sent + 1>>) = (a \o u) \o <<sent + 1>>
  BY <1>1, <1>4, Regroup
<1>6. Todo \in Seq(Nat)
  BY TodoParts
<1>7. Append(Todo, sent + 1) = Todo \o <<sent + 1>>
  BY <1>1, <1>6, AppendIsConcat
<1>8. Todo' = Append(Todo, sent + 1)
  BY <1>1, <1>2, <1>3, <1>4, <1>5, <1>7
<1>9. sent' = sent + 1 /\ popped' = popped
  BY DEF MsgSend, path
<1>10. QED
  BY <1>8, <1>9 DEF Abstract!Put

LEMMA SingleLen == ASSUME NEW n PROVE Len(<<n>>) = 1
OBVIOUS

\* What is to be delivered, with the message the broker takes apart.
LEMMA AcceptParts ==
  ASSUME TypeOK, BrokerAccept
  PROVE  \E q, b, p, e, r \in Seq(Nat) :
           /\ q = m_msgQueue /\ b = inbox /\ p = q \o b /\ e = <<accepted + 1>>
           /\ Todo = (p \o e) \o r
           /\ Todo' = (q \o inbox') \o r
           /\ sent' = sent /\ popped' = popped
<1>1. /\ m_msgQueue \in Seq(Nat) /\ inbox \in Seq(Nat) /\ m_msgQueue \o inbox \in Seq(Nat)
      /\ accepted \in Nat /\ sent \in Nat /\ accepted < sent
  BY TodoParts DEF BrokerAccept
<1>2. PICK q, b, p, e, r :
        /\ q = m_msgQueue /\ b = inbox /\ p = m_msgQueue \o inbox
        /\ e = <<accepted + 1>> /\ r = Between(accepted + 1, sent)
  OBVIOUS
<1>3. /\ q \in Seq(Nat) /\ b \in Seq(Nat) /\ p \in Seq(Nat)
      /\ e \in Seq(Nat)
  BY <1>1, <1>2
<1>5. r \in Seq(Nat)
  BY <1>1, <1>2, BetweenSeq
<1>6. Todo = p \o (e \o r)
  BY <1>1, <1>2, TodoParts, BetweenFirst
<1>7. p \o (e \o r) = (p \o e) \o r
  <2>1. p \in Seq(Nat) /\ e \in Seq(Nat) /\ r \in Seq(Nat)
    BY <1>3, <1>5
  <2>2. (p \o e) \o r = p \o (e \o r)
    BY <2>1, Regroup
  <2>3. QED
    BY <2>2
<1>8. /\ sent' = sent /\ popped' = popped
      /\ Todo' = (q \o inbox') \o r
  BY <1>2 DEF BrokerAccept, Todo, Untaken, Between
<1>9. Todo = (p \o e) \o r
  BY <1>6, <1>7
<1>10. p = q \o b
  BY <1>2
<1>11. QED
  BY <1>2, <1>3, <1>5, <1>8, <1>9, <1>10

\* With a subscription the broker's step is none of the channel.
LEMMA AcceptKeeps ==
  ASSUME TypeOK, BrokerAccept
  PROVE  inbox' = Append(inbox, accepted + 1) => UNCHANGED Abstract!vars
<1>1. inbox \in Seq(Nat) /\ accepted \in Nat
  BY TodoParts
<1>2. PICK q, b, p, e, r \in Seq(Nat) :
        /\ q = m_msgQueue /\ b = inbox /\ p = q \o b /\ e = <<accepted + 1>>
        /\ Todo = (p \o e) \o r
        /\ Todo' = (q \o inbox') \o r
        /\ sent' = sent /\ popped' = popped
  BY AcceptParts
<1>3. q \in Seq(Nat) /\ b \in Seq(Nat) /\ e \in Seq(Nat)
  BY <1>2
<1>4. Append(inbox, accepted + 1) = b \o e
  BY <1>1, <1>2, AppendIsConcat
<1>5. (q \o b) \o e = q \o (b \o e)
  BY <1>3, Regroup
<1>6. inbox' = Append(inbox, accepted + 1) => Todo' = Todo
  BY <1>2, <1>4, <1>5
<1>7. QED
  BY <1>2, <1>6 DEF Abstract!vars

\* Without one the message is lost from what is to be delivered.
LEMMA AcceptLoses ==
  ASSUME TypeOK, BrokerAccept, inbox' = inbox
  PROVE  Abstract!Lose
<1>2. PICK q, b, p, e, r \in Seq(Nat) :
        /\ q = m_msgQueue /\ b = inbox /\ p = q \o b /\ e = <<accepted + 1>>
        /\ Todo = (p \o e) \o r
        /\ Todo' = (q \o inbox') \o r
        /\ sent' = sent /\ popped' = popped
  BY AcceptParts
<1>3. p \in Seq(Nat) /\ e \in Seq(Nat) /\ r \in Seq(Nat)
  BY <1>2
<1>4. Len(e) = 1
  BY <1>2, SingleLen
<1>5. PICK i, j : i = Len(p) /\ j = Len(p) + Len(e)
  OBVIOUS
<1>6. Cut((p \o e) \o r, Len(p), Len(p) + Len(e)) = p \o r
  BY <1>3, CutMiddle
<1>7. Todo' = Cut(Todo, i, j)
  BY <1>2, <1>5, <1>6
<1>8. Todo' = Abstract!Stretch(i, j)
  BY <1>7 DEF Cut, Abstract!Stretch
<1>9. p \o e \in Seq(Nat) /\ Len(p \o e) = Len(p) + Len(e)
  BY <1>3, ConcatProperties
<1>10. Len((p \o e) \o r) = Len(p \o e) + Len(r)
  BY <1>3, <1>9, ConcatProperties
<1>11. Len(Todo) = Len(p \o e) + Len(r)
  BY <1>2, <1>10
<1>12. Len(p) \in Nat /\ Len(r) \in Nat
  BY <1>3
<1>13. i \in 0..Len(Todo) /\ j \in 0..Len(Todo) /\ i < j
  BY <1>4, <1>5, <1>9, <1>11, <1>12
<1>14. QED
  BY <1>2, <1>8, <1>13 DEF Abstract!Lose

\* The callback moves a message from the broker's queue to the FIFO.
LEMMA MessageMoves ==
  ASSUME TypeOK, on_message_callback
  PROVE  UNCHANGED Abstract!vars
<1> DEFINE Q == m_msgQueue
           B == inbox
<1>1. Q \in Seq(Nat) /\ B \in Seq(Nat) /\ B # <<>>
  BY TodoParts DEF on_message_callback
<1>2. /\ Todo' = (Append(Q, Head(B)) \o Tail(B)) \o Untaken
      /\ sent' = sent /\ popped' = popped
  BY DEF on_message_callback, MsgPush, flow, Todo, Untaken
<1>3. Todo = (Q \o B) \o Untaken
  BY DEF Todo
<1> HIDE DEF Q, B
<1>4. Head(B) \in Nat /\ Tail(B) \in Seq(Nat) /\ <<Head(B)>> \in Seq(Nat)
  BY <1>1, HeadTailProperties
<1>5. Append(Q, Head(B)) = Q \o <<Head(B)>>
  BY <1>1, <1>4, AppendIsConcat
<1>6. (Q \o <<Head(B)>>) \o Tail(B) = Q \o (<<Head(B)>> \o Tail(B))
  BY <1>1, <1>4, Regroup
<1>7. <<Head(B)>> \o Tail(B) = B
  BY <1>1, HeadThenTail
<1>8. QED
  BY <1>2, <1>3, <1>5, <1>6, <1>7 DEF Abstract!vars

LEMMA TailOfConcat ==
  ASSUME NEW S, NEW s \in Seq(S), NEW t \in Seq(S), s # <<>>
  PROVE  /\ s \o t # <<>>
         /\ Head(s \o t) = Head(s)
         /\ Tail(s \o t) = Tail(s) \o t
<1>1. /\ s \o t \in Seq(S) /\ Len(s \o t) = Len(s) + Len(t)
      /\ \A i \in 1..Len(s) + Len(t) :
           (s \o t)[i] = IF i <= Len(s) THEN s[i] ELSE t[i - Len(s)]
  BY ConcatProperties
<1>2. Len(s) \in Nat \ {0} /\ Len(t) \in Nat
  BY EmptySeq
<1>3. s \o t # <<>>
  BY <1>1, <1>2, EmptySeq
<1>4. PICK x \in Seq(S) : x = s \o t
  BY <1>1
<1>5. /\ Tail(x) \in Seq(S) /\ Len(Tail(x)) = Len(x) - 1
      /\ \A i \in 1..Len(Tail(x)) : Tail(x)[i] = x[i + 1]
  BY <1>3, <1>4, HeadTailProperties
<1>6. /\ Tail(s) \in Seq(S) /\ Len(Tail(s)) = Len(s) - 1
      /\ \A i \in 1..Len(Tail(s)) : Tail(s)[i] = s[i + 1]
  BY HeadTailProperties
<1>7. PICK y \in Seq(S) : y = Tail(s)
  BY <1>6
<1>8. /\ y \o t \in Seq(S) /\ Len(y \o t) = Len(y) + Len(t)
      /\ \A i \in 1..Len(y) + Len(t) :
           (y \o t)[i] = IF i <= Len(y) THEN y[i] ELSE t[i - Len(y)]
  BY <1>7, ConcatProperties
<1>9. Len(Tail(x)) = Len(y \o t)
  BY <1>1, <1>2, <1>4, <1>5, <1>6, <1>7, <1>8
<1>10. ASSUME NEW i \in 1..Len(Tail(x)) PROVE Tail(x)[i] = (y \o t)[i]
  <2>1. /\ i + 1 \in 1..Len(s) + Len(t) /\ i \in 1..Len(y) + Len(t)
        /\ (i + 1 <= Len(s) <=> i <= Len(y))
        /\ (i + 1) - Len(s) = i - Len(y)
        /\ i <= Len(y) => i \in 1..Len(y)
    BY <1>2, <1>6, <1>7, <1>8, <1>9
  <2>2. Tail(x)[i] = (s \o t)[i + 1]
    BY <1>4, <1>5
  <2>3. CASE i <= Len(y)
    BY <1>1, <1>6, <1>7, <1>8, <2>1, <2>2, <2>3
  <2>4. CASE ~(i <= Len(y))
    BY <1>1, <1>8, <2>1, <2>2, <2>4
  <2>5. QED
    BY <2>3, <2>4
<1>11. Tail(x) = y \o t
  BY <1>5, <1>8, <1>9, <1>10, SeqEqual
<1>12. Head(x) = Head(s)
  <2>1. 1 \in 1..Len(s) + Len(t) /\ 1 <= Len(s)
    BY <1>2
  <2>2. (s \o t)[1] = s[1]
    BY <1>1, <2>1
  <2>3. QED
    BY <1>4, <2>2
<1>13. QED
  BY <1>3, <1>4, <1>7, <1>11, <1>12

\* The receiver takes the first message of its FIFO.
LEMMA PopTakes ==
  ASSUME TypeOK, MsgPop
  PROVE  Abstract!Take
<1>1. /\ m_msgQueue \in Seq(Nat) /\ inbox \in Seq(Nat) /\ Untaken \in Seq(Nat)
      /\ m_msgQueue # <<>>
  BY TodoParts DEF MsgPop
<1>2. PICK q, b, u : q = m_msgQueue /\ b = inbox /\ u = Untaken
  OBVIOUS
<1>3. q \in Seq(Nat) /\ b \in Seq(Nat) /\ u \in Seq(Nat) /\ q # <<>>
  BY <1>1, <1>2
<1>4. PICK p : p = q \o b
  OBVIOUS
<1>5. p # <<>> /\ Head(p) = Head(q) /\ Tail(p) = Tail(q) \o b
  BY <1>3, <1>4, TailOfConcat
<1>6. p \in Seq(Nat)
  BY <1>3, <1>4, ConcatProperties
<1>7. p \o u # <<>> /\ Head(p \o u) = Head(p) /\ Tail(p \o u) = Tail(p) \o u
  BY <1>3, <1>5, <1>6, TailOfConcat
<1>8. Todo = p \o u
  BY <1>2, <1>4 DEF Todo
<1>9. /\ sent' = sent /\ popped' = Head(q)
      /\ Todo' = (Tail(q) \o b) \o u
  BY <1>2 DEF MsgPop, flow, Todo, Untaken
<1>10. QED
  BY <1>5, <1>7, <1>8, <1>9 DEF Abstract!Take

\* What the library of the sender was to send ends with its process.
LEMMA SenderCrashLoses ==
  ASSUME TypeOK, Crash("sender")
  PROVE  [Abstract!Next]_(Abstract!vars)
<1>1. PICK p, u : p = m_msgQueue \o inbox /\ u = Untaken
  OBVIOUS
<1>2. p \in Seq(Nat) /\ u \in Seq(Nat) /\ Todo = p \o u
  BY <1>1, TodoParts
<1>3. /\ sent' = sent /\ popped' = popped /\ accepted' = sent
      /\ m_msgQueue' = m_msgQueue /\ inbox' = inbox
  BY DEF Crash, EndSession
<1>4. Todo' = p \o Between(sent, sent)
  BY <1>1, <1>3 DEF Todo, Untaken, Between
<1>5. Todo' = p
  BY <1>2, <1>4, TodoParts, BetweenEmpty, ConcatEmptySeq
<1>6. CASE u = <<>>
  BY <1>2, <1>3, <1>5, <1>6, ConcatEmptySeq DEF Abstract!vars
<1>7. CASE u # <<>>
  <2>1. PICK i, j : i = Len(p) /\ j = Len(p) + Len(u)
    OBVIOUS
  <2>2. PICK e : e \in Seq(Nat) /\ e = <<>>
    BY EmptySeq
  <2>3. Cut((p \o u) \o e, Len(p), Len(p) + Len(u)) = p \o e
    BY <1>2, <2>2, CutMiddle
  <2>4. p \o u \in Seq(Nat) /\ Len(p \o u) = Len(p) + Len(u)
    BY <1>2, ConcatProperties
  <2>5. (p \o u) \o e = p \o u /\ p \o e = p
    BY <1>2, <2>2, <2>4, ConcatEmptySeq
  <2>6. Todo' = Abstract!Stretch(i, j)
    <3>1. Todo' = Cut(Todo, i, j)
      BY <1>2, <1>5, <2>1, <2>3, <2>5
    <3>2. QED
      BY <3>1 DEF Cut, Abstract!Stretch
  <2>7. Len(p) \in Nat /\ Len(u) \in Nat \ {0}
    BY <1>2, <1>7, EmptySeq
  <2>8. i \in 0..Len(Todo) /\ j \in 0..Len(Todo) /\ i < j
    BY <1>2, <2>1, <2>4, <2>7
  <2>9. Abstract!Lose
    BY <1>3, <2>6, <2>8 DEF Abstract!Lose
  <2>10. QED
    BY <2>9 DEF Abstract!Next
<1>8. QED
  BY <1>6, <1>7

\* The library of the sender sends again what was not acknowledged.
LEMMA ReconnectRewinds ==
  ASSUME TypeOK, Reconnect("sender")
  PROVE  [Abstract!Next]_(Abstract!vars)
<1>1. PICK p, u : p = m_msgQueue \o inbox /\ u = Untaken
  OBVIOUS
<1>2. /\ p \in Seq(Nat) /\ u \in Seq(Nat) /\ Todo = p \o u
      /\ u = Between(accepted, sent)
      /\ Len(Todo) = Len(p) + (sent - accepted)
      /\ sent \in Nat /\ accepted \in Nat /\ acked \in Nat
      /\ accepted <= sent /\ acked <= accepted
  BY <1>1, TodoParts
<1>3. /\ sent' = sent /\ popped' = popped /\ accepted' = acked
      /\ m_msgQueue' = m_msgQueue /\ inbox' = inbox
  BY DEF Reconnect, path
<1>4. Todo' = p \o Between(acked, sent)
  BY <1>1, <1>3 DEF Todo, Untaken, Between
<1>5. CASE acked = accepted
  BY <1>2, <1>3, <1>4, <1>5 DEF Abstract!vars
<1>6. CASE acked < accepted
  <2>1. PICK i, k : i = Len(p) /\ k = acked + 1
    OBVIOUS
  <2>2. Len(p) \in Nat
    BY <1>2
  <2>3. i \in 0..Len(Todo) /\ k \in 1..sent
    BY <1>2, <1>6, <2>1, <2>2
  <2>4. sent - Len(Todo) + i = accepted
    BY <1>2, <2>1, <2>2
  <2>5. SubSeq(Todo, i + 1, Len(Todo)) = Between(accepted, sent)
    BY <1>2, <2>1, SuffixOfConcat
  <2>6. SubSeq(Todo, 1, i) = p
    BY <1>2, <2>1, PrefixOfConcat
  <2>7. ASSUME NEW x \in Nat PROVE Abstract!From(x + 1) = Between(x, sent)
    <3>1. sent - (x + 1) + 1 = sent - x
      BY <1>2
    <3>2. \A n \in 1..(sent - x) : (x + 1) + n - 1 = x + n
      BY <1>2
    <3>3. QED
      BY <3>1, <3>2 DEF Abstract!From, Between
  <2>8. Abstract!From(k) = Between(acked, sent)
    BY <1>2, <2>1, <2>7
  <2>9. Abstract!From(sent - Len(Todo) + i + 1) = Between(accepted, sent)
    BY <1>2, <2>4, <2>7
  <2>10. k <= sent - Len(Todo) + i
    BY <1>2, <1>6, <2>1, <2>4
  <2>11. Todo' = SubSeq(Todo, 1, i) \o Abstract!From(k)
    BY <1>4, <2>6, <2>8
  <2>12. SubSeq(Todo, i + 1, Len(Todo)) = Abstract!From(sent - Len(Todo) + i + 1)
    BY <2>5, <2>9
  <2>13. Abstract!Rewind
    BY <1>3, <2>3, <2>10, <2>11, <2>12 DEF Abstract!Rewind
  <2>14. QED
    BY <2>13 DEF Abstract!Next
<1>7. QED
  BY <1>2, <1>5, <1>6

\* A step that leaves the messages alone is none of the channel's.
LEMMA NothingMoves ==
  ASSUME UNCHANGED <<sent, accepted, inbox, m_msgQueue, popped>>
  PROVE  UNCHANGED Abstract!vars
BY DEF Todo, Untaken, Abstract!vars

\* Every step of the link is one of the channel, or none.
LEMMA ChannelStep ==
  ASSUME TypeOK, [Next]_vars
  PROVE  [Abstract!Next]_(Abstract!vars)
<1>1. ASSUME NEW p \in Procs, Process(p) PROVE [Abstract!Next]_(Abstract!vars)
  <2>1. CASE Connect(p)
    BY <2>1, NothingMoves DEF Connect, flow, path
  <2>2. CASE Subscribe(p)
    BY <2>2, NothingMoves DEF Subscribe, flow, path
  <2>3. CASE Run(p)
    BY <2>3, NothingMoves DEF Run, flow, path
  <2>4. CASE Start(p)
    BY <2>4, NothingMoves DEF Start, flow, path
  <2>5. CASE LinkLost(p)
    <3>1. CASE p = "sender"
      BY <2>5, <3>1, NothingMoves DEF LinkLost, EndSession, flow
    <3>2. CASE p = "receiver"
      BY <2>5, <3>2, LoseInbox DEF LinkLost, EndSession, flow
    <3>3. QED
      BY <1>1, <3>1, <3>2 DEF Procs
  <2>6. CASE on_disconnect_callback(p)
    BY <2>6, NothingMoves DEF on_disconnect_callback, flow, path
  <2>7. CASE Reconnect(p)
    <3>1. CASE p = "sender"
      BY <2>7, <3>1, ReconnectRewinds
    <3>2. CASE p = "receiver"
      BY <2>7, <3>2, NothingMoves DEF Reconnect, path
    <3>3. QED
      BY <1>1, <3>1, <3>2 DEF Procs
  <2>8. CASE on_connect_callback(p)
    BY <2>8, NothingMoves DEF on_connect_callback, flow, path
  <2>9. CASE Crash(p)
    <3>1. CASE p = "sender"
      BY <2>9, <3>1, SenderCrashLoses
    <3>2. CASE p = "receiver"
      BY <2>9, <3>2, ForgetAll DEF Crash, EndSession
    <3>3. QED
      BY <1>1, <3>1, <3>2 DEF Procs
  <2>10. QED
    BY <1>1, <2>1, <2>2, <2>3, <2>4, <2>5, <2>6, <2>7, <2>8, <2>9 DEF Process
<1>2. CASE MsgSend
  BY <1>2, SendPuts DEF Abstract!Next
<1>3. CASE BrokerAccept
  <2>1. CASE inbox' = Append(inbox, accepted + 1)
    BY <1>3, <2>1, AcceptKeeps
  <2>2. CASE inbox' = inbox
    BY <1>3, <2>2, AcceptLoses DEF Abstract!Next
  <2>3. QED
    BY <1>3, <2>1, <2>2 DEF BrokerAccept
<1>4. CASE on_publish_callback
  BY <1>4, NothingMoves DEF on_publish_callback, path
<1>5. CASE on_message_callback
  BY <1>5, MessageMoves
<1>6. CASE MsgPop
  BY <1>6, PopTakes DEF Abstract!Next
<1>7. CASE UNCHANGED vars
  BY <1>7, NothingMoves DEF vars, flow, path
<1>8. QED
  BY <1>1, <1>2, <1>3, <1>4, <1>5, <1>6, <1>7 DEF Next, Transport

\* With any number of messages and of lost connections and processes the link
\* implements the channel: the order of the messages is kept, and they are
\* lost and repeated only as the channel has it.
THEOREM LinkIsChannel == Spec => ChannelSpec
<1>1. Init => Abstract!Init
  <2> SUFFICES ASSUME Init PROVE Abstract!Init
    OBVIOUS
  <2>1. TypeOK
    BY TypeInit
  <2>2. m_msgQueue = <<>> /\ inbox = <<>> /\ sent = 0 /\ accepted = 0 /\ popped = 0
    BY DEF Init
  <2>3. Untaken = <<>>
    BY <2>2, BetweenEmpty DEF Untaken, Between
  <2>4. Todo = <<>>
    BY <2>2, <2>3 DEF Todo
  <2>5. QED
    BY <2>2, <2>4 DEF Abstract!Init
<1>2. QED
  BY <1>1, ChannelStep, LinkTypeCorrect, PTL DEF Spec, ChannelSpec, Abstract!Spec

-----------------------------------------------------------------------------
(* The newest message *)

\* What the channel does to its last message.
LEMMA LastOfConcat ==
  ASSUME NEW S, NEW a \in Seq(S), NEW b \in Seq(S), b # <<>>
  PROVE  a \o b # <<>> /\ (a \o b)[Len(a \o b)] = b[Len(b)]
<1>1. /\ a \o b \in Seq(S) /\ Len(a \o b) = Len(a) + Len(b)
      /\ \A i \in 1..Len(a) + Len(b) :
           (a \o b)[i] = IF i <= Len(a) THEN a[i] ELSE b[i - Len(a)]
  BY ConcatProperties
<1>2. Len(a) \in Nat /\ Len(b) \in Nat \ {0}
  BY EmptySeq
<1>3. /\ Len(a) + Len(b) \in 1..Len(a) + Len(b)
      /\ ~(Len(a) + Len(b) <= Len(a))
      /\ (Len(a) + Len(b)) - Len(a) = Len(b)
  BY <1>2
<1>4. (a \o b)[Len(a) + Len(b)] = b[Len(b)]
  BY <1>1, <1>3
<1>5. a \o b # <<>>
  BY <1>1, <1>2, EmptySeq
<1>6. QED
  BY <1>1, <1>4, <1>5

LEMMA NewestSent ==
  ASSUME TypeOK, MsgSend
  PROVE  Newest' = sent'
<1>1. /\ Todo \in Seq(Nat) /\ sent + 1 \in Nat
      /\ Todo' = Append(Todo, sent + 1) /\ sent' = sent + 1
  BY SendPuts, TodoParts DEF Abstract!Put
<1>2. PICK t : t = Append(Todo, sent + 1)
  OBVIOUS
<1>3. t \in Seq(Nat) /\ Len(t) = Len(Todo) + 1 /\ t # <<>> /\ t[Len(t)] = sent + 1
  <2>1. t[Len(Todo) + 1] = sent + 1
    BY <1>1, <1>2, AppendLast
  <2>2. t \in Seq(Nat) /\ Len(t) = Len(Todo) + 1 /\ Len(Todo) \in Nat
    BY <1>1, <1>2
  <2>3. QED
    BY <2>1, <2>2, EmptySeq
<1>4. QED
  BY <1>1, <1>2, <1>3 DEF Newest

LEMMA NewestPopped ==
  ASSUME TypeOK, MsgPop
  PROVE  Newest' = Newest
<1>1. /\ Todo \in Seq(Nat) /\ Todo # <<>>
      /\ Todo' = Tail(Todo) /\ popped' = Head(Todo)
  BY PopTakes, TodoParts DEF Abstract!Take
<1>2. PICK t : t = Todo
  OBVIOUS
<1>3. t \in Seq(Nat) /\ t # <<>> /\ Todo' = Tail(t) /\ popped' = Head(t)
  BY <1>1, <1>2
<1>4. /\ Tail(t) \in Seq(Nat) /\ Len(Tail(t)) = Len(t) - 1
      /\ \A i \in 1..Len(Tail(t)) : Tail(t)[i] = t[i + 1]
  BY <1>3, HeadTailProperties
<1>5. Len(t) \in Nat \ {0} /\ Head(t) = t[1]
  BY <1>3, EmptySeq
<1>6. CASE Len(t) = 1
  <2>1. Tail(t) = <<>>
    <3>1. Tail(t) \in Seq(Nat) /\ Len(Tail(t)) = 0
      BY <1>4, <1>6
    <3>2. QED
      BY <3>1, EmptySeq
  <2>2. QED
    BY <1>2, <1>3, <1>5, <1>6, <2>1 DEF Newest
<1>7. CASE Len(t) > 1
  <2>1. Tail(t) # <<>> /\ Tail(t)[Len(Tail(t))] = t[Len(t)]
    BY <1>4, <1>5, <1>7, EmptySeq
  <2>2. QED
    BY <1>2, <1>3, <2>1 DEF Newest
<1>8. Len(t) \in Nat \ {0}
  BY <1>5
<1>9. QED
  BY <1>6, <1>7, <1>8

LEMMA NewestResent ==
  ASSUME TypeOK, Reconnect("sender"), Newest = sent
  PROVE  Newest' = sent'
<1>1. PICK p : p = m_msgQueue \o inbox
  OBVIOUS
<1>2. /\ p \in Seq(Nat) /\ sent \in Nat /\ accepted \in Nat /\ acked \in Nat
      /\ accepted <= sent /\ acked <= accepted
  BY <1>1, TodoParts
<1>3. /\ sent' = sent /\ popped' = popped /\ accepted' = acked
      /\ Todo' = p \o Between(acked, sent)
  BY <1>1 DEF Reconnect, path, Todo, Untaken, Between
<1>4. CASE acked = sent
  <2>1. accepted' = accepted
    BY <1>2, <1>3, <1>4
  <2>2. UNCHANGED Abstract!vars
    BY <1>3, <2>1, NothingMoves DEF Reconnect, path
  <2>3. QED
    BY <1>3, <2>2 DEF Newest, Abstract!vars
<1>5. CASE acked < sent
  <2>1. PICK b : b = Between(acked, sent)
    OBVIOUS
  <2>2. b \in Seq(Nat) /\ Len(b) = sent - acked /\ b[sent - acked] = acked + (sent - acked)
    <3>1. acked \in Nat /\ sent \in Nat /\ acked <= sent
      BY <1>2, <1>5
    <3>2. sent - acked \in 1..(sent - acked)
      BY <1>2, <1>5
    <3>3. /\ Between(acked, sent) \in Seq(Nat) /\ Len(Between(acked, sent)) = sent - acked
          /\ \A i \in 1..(sent - acked) : Between(acked, sent)[i] = acked + i
      BY <3>1, BetweenSeq
    <3>4. QED
      BY <2>1, <3>2, <3>3
  <2>3. b # <<>> /\ b[Len(b)] = sent
    BY <1>2, <1>5, <2>2, EmptySeq
  <2>4. p \o b # <<>> /\ (p \o b)[Len(p \o b)] = sent
    BY <1>2, <2>2, <2>3, LastOfConcat
  <2>5. QED
    BY <1>3, <2>1, <2>4 DEF Newest
<1>6. QED
  BY <1>2, <1>4, <1>5

LEMMA NewestStays ==
  ASSUME UNCHANGED Abstract!vars, Newest = sent
  PROVE  Newest' = sent'
BY DEF Newest, Abstract!vars

LEMMA NewestStep ==
  ASSUME TypeOK, [Next]_vars, subscribed, subscribed', phase'["sender"] # "off",
         Newest = sent
  PROVE  Newest' = sent'
<1>1. ASSUME NEW p \in Procs, Process(p) PROVE Newest' = sent'
  <2>1. CASE Connect(p) \/ Subscribe(p) \/ Run(p) \/ Start(p)
    BY <2>1, NothingMoves, NewestStays DEF Connect, Subscribe, Run, Start, flow, path
  <2>2. CASE on_disconnect_callback(p) \/ on_connect_callback(p)
    BY <2>2, NothingMoves, NewestStays
       DEF on_disconnect_callback, on_connect_callback, flow, path
  <2>3. CASE LinkLost(p)
    <3>1. p = "sender"
      BY <1>1, <2>3 DEF LinkLost, EndSession, Procs
    <3>2. QED
      BY <2>3, <3>1, NothingMoves, NewestStays DEF LinkLost, EndSession, flow
  <2>4. CASE Reconnect(p)
    <3>1. CASE p = "sender"
      BY <2>4, <3>1, NewestResent
    <3>2. CASE p = "receiver"
      BY <2>4, <3>2, NothingMoves, NewestStays DEF Reconnect, path
    <3>3. QED
      BY <1>1, <3>1, <3>2 DEF Procs
  <2>5. CASE Crash(p)
    <3>1. p = "sender"
      BY <1>1, <2>5 DEF Crash, EndSession, Procs
    <3>2. phase'["sender"] = "off"
      BY <2>5, <3>1 DEF Crash, TypeOK, Procs
    <3>3. QED
      BY <3>2
  <2>6. QED
    BY <1>1, <2>1, <2>2, <2>3, <2>4, <2>5 DEF Process
<1>2. CASE MsgSend
  BY <1>2, NewestSent
<1>3. CASE BrokerAccept
  <2>1. inbox' = Append(inbox, accepted + 1)
    BY <1>3 DEF BrokerAccept
  <2>2. UNCHANGED Abstract!vars
    BY <1>3, <2>1, AcceptKeeps
  <2>3. QED
    BY <2>2, NewestStays
<1>4. CASE on_publish_callback
  BY <1>4, NothingMoves, NewestStays DEF on_publish_callback, path
<1>5. CASE on_message_callback
  BY <1>5, MessageMoves, NewestStays
<1>6. CASE MsgPop
  BY <1>6, NewestPopped DEF MsgPop, flow
<1>7. CASE UNCHANGED vars
  BY <1>7, NothingMoves, NewestStays DEF vars, flow, path
<1>8. QED
  BY <1>1, <1>2, <1>3, <1>4, <1>5, <1>6, <1>7 DEF Next, Transport

\* However often the sender is reconnected, a receiver that stays subscribed
\* has the newest message or will have it last.
THEOREM NewestCorrect == Spec => NewestKept
<1>1. TypeOK /\ [Next]_vars =>
        [subscribed /\ subscribed' /\ phase'["sender"] # "off" /\ Newest = sent
           => Newest' = sent']_vars
  BY NewestStep
<1>2. QED
  BY <1>1, LinkTypeCorrect, PTL DEF Spec, NewestKept

=============================================================================
