-------------------------- MODULE MsgHandlerProofs --------------------------
(***************************************************************************)
(* Proofs about MsgHandler, for any set of views, doors and messages:      *)
(* first what the list operations keep, then type correctness, then the    *)
(* invariants of the lists, of the outputs and of the timers.              *)
(***************************************************************************)
EXTENDS MsgHandler, TLAPS, SequenceTheorems, WellFoundedInduction

-----------------------------------------------------------------------------
(* The lists *)

LEMMA MinOfNats ==
  ASSUME NEW I, I \subseteq Nat, I # {}
  PROVE  Min(I) \in I
<1>1. PICK x \in I : \A y \in I : <<y, x>> \notin OpToRel(<, Nat)
  BY WFMin, NatLessThanWellFounded
<1>2. ASSUME NEW y \in I PROVE x <= y
  <2>1. <<y, x>> \in Nat \X Nat
    OBVIOUS
  <2>2. <<y, x>> \notin {ss \in Nat \X Nat : ss[1] < ss[2]}
    BY <1>1 DEF OpToRel
  <2>3. QED
    BY <2>1, <2>2
<1>3. QED
  BY <1>2 DEF Min

\* SelectInSeq finds a node that is there.
LEMMA FirstAtIn ==
  ASSUME NEW S, NEW s \in Seq(S), NEW v, Has(s, v)
  PROVE  FirstAt(s, v) \in 1..Len(s) /\ s[FirstAt(s, v)].view = v
<1> DEFINE I == {i \in 1..Len(s) : s[i].view = v}
<1>1. I \subseteq Nat /\ I # {}
  BY DEF Has
<1>2. Min(I) \in I
  BY <1>1, MinOfNats
<1>3. FirstAt(s, v) = Min(I)
  BY <1>1 DEF FirstAt, SelectInSeq
<1>4. QED
  BY <1>2, <1>3

\* t is s without its node at k, or s itself when there is none.
LeavesOut(s, t, k) ==
  \A i \in 1..Len(t) :
    /\ i < k => i \in 1..Len(s) /\ t[i] = s[i]
    /\ k <= i => i + 1 \in 1..Len(s) /\ t[i] = s[i + 1]

\* Erase leaves out at most one node and keeps the order of the others.
LEMMA EraseSkipsOne ==
  ASSUME NEW S, NEW s \in Seq(S), NEW v
  PROVE  /\ Erase(s, v) \in Seq(S)
         /\ \E k \in Nat : LeavesOut(s, Erase(s, v), k)
<1>1. CASE ~Has(s, v)
  <2>1. Erase(s, v) = s
    BY <1>1 DEF Erase
  <2>2. Len(s) + 1 \in Nat /\ LeavesOut(s, s, Len(s) + 1)
    BY DEF LeavesOut
  <2>3. QED
    BY <2>1, <2>2
<1>2. CASE Has(s, v)
  <2>1. PICK k \in 1..Len(s) : k = FirstAt(s, v)
    BY <1>2, FirstAtIn
  <2> DEFINE a == SubSeq(s, 1, k - 1)
             b == SubSeq(s, k + 1, Len(s))
  <2>2. Erase(s, v) = a \o b
    BY <1>2, <2>1 DEF Erase, RemoveAt
  <2>3. /\ a \in Seq(S) /\ Len(a) = k - 1
        /\ \A i \in 1..(k - 1) : a[i] = s[i]
    BY <2>1
  <2>4. /\ b \in Seq(S) /\ Len(b) = Len(s) - k
        /\ \A i \in 1..(Len(s) - k) : b[i] = s[k + i]
    BY <2>1
  <2> HIDE DEF a, b
  <2>5. /\ a \o b \in Seq(S) /\ Len(a \o b) = Len(a) + Len(b)
        /\ \A i \in 1..(Len(a) + Len(b)) :
             (a \o b)[i] = IF i <= Len(a) THEN a[i] ELSE b[i - Len(a)]
    BY <2>3, <2>4, ConcatProperties
  <2>6. Len(a) + Len(b) = Len(s) - 1
    BY <2>1, <2>3, <2>4
  <2>7. ASSUME NEW i \in 1..(Len(s) - 1), i < k
        PROVE  (a \o b)[i] = s[i]
    BY <2>1, <2>3, <2>5, <2>6, <2>7
  <2>8. ASSUME NEW i \in 1..(Len(s) - 1), ~(i < k)
        PROVE  (a \o b)[i] = s[i + 1]
    <3>1. i - Len(a) \in 1..(Len(s) - k) /\ k + (i - Len(a)) = i + 1
      BY <2>1, <2>3, <2>8
    <3>2. b[i - Len(a)] = s[i + 1]
      BY <2>4, <3>1
    <3>3. ~(i <= Len(a))
      BY <2>1, <2>3, <2>8
    <3>4. QED
      BY <2>5, <2>6, <3>2, <3>3
  <2>9. QED
    <3>1. ASSUME NEW i \in 1..(Len(s) - 1)
          PROVE  /\ i < k => i \in 1..Len(s) /\ (a \o b)[i] = s[i]
                 /\ k <= i => i + 1 \in 1..Len(s) /\ (a \o b)[i] = s[i + 1]
      <4>1. i \in 1..Len(s) /\ i + 1 \in 1..Len(s) /\ (k <= i => ~(i < k))
        BY <2>1
      <4>2. QED
        BY <2>7, <2>8, <4>1
    <3>2. Len(a \o b) = Len(s) - 1
      BY <2>5, <2>6
    <3>3. LeavesOut(s, a \o b, k)
      BY <3>1, <3>2 DEF LeavesOut
    <3>4. QED
      BY <2>1, <2>2, <2>5, <3>3
<1>3. QED
  BY <1>1, <1>2

\* A sort rearranges the nodes: none is lost, none is duplicated.
LEMMA SortRearranges ==
  ASSUME NEW S, NEW s \in Seq(S), NEW t \in SortedByPriority(s)
  PROVE  /\ t \in Seq(S)
         /\ DOMAIN t = DOMAIN s
         /\ \E p \in [DOMAIN s -> DOMAIN s] :
              /\ \A i \in DOMAIN s : t[i] = s[p[i]]
              /\ \A i, j \in DOMAIN s : p[i] = p[j] => i = j
         /\ \A i, j \in DOMAIN t :
              i < j => Priority[t[i].view] <= Priority[t[j].view]
<1>1. PICK p \in Bijection(DOMAIN s, DOMAIN s) : t = [i \in DOMAIN s |-> s[p[i]]]
  BY DEF SortedByPriority
<1>2. /\ p \in [DOMAIN s -> DOMAIN s]
      /\ \A i, j \in DOMAIN s : p[i] = p[j] => i = j
  BY <1>1 DEF Bijection, Injection, IsInjective
<1>3. t \in Seq(S) /\ DOMAIN t = DOMAIN s
  <2>1. DOMAIN s = 1..Len(s) /\ Len(s) \in Nat /\ \A i \in DOMAIN s : s[i] \in S
    OBVIOUS
  <2>2. t \in [1..Len(s) -> S]
    BY <1>1, <1>2, <2>1
  <2>3. QED
    BY <2>1, <2>2, SeqDef
<1>4. \A i, j \in DOMAIN t : i < j => Priority[t[i].view] <= Priority[t[j].view]
  BY DEF SortedByPriority
<1>5. QED
  BY <1>1, <1>2, <1>3, <1>4

\* UpdateFirst changes the extras of one node and no name.
LEMMA UpdateFirstKeepsNames ==
  ASSUME NEW s \in Seq(Node), NEW m \in Messages
  PROVE  /\ UpdateFirst(s, m) \in Seq(Node)
         /\ Len(UpdateFirst(s, m)) = Len(s)
         /\ \A i \in 1..Len(s) : UpdateFirst(s, m)[i].view = s[i].view
<1>1. CASE ~Has(s, m.view)
  BY <1>1 DEF UpdateFirst
<1>2. CASE Has(s, m.view)
  <2>1. FirstAt(s, m.view) \in 1..Len(s)
    BY <1>2, FirstAtIn
  <2>2. m.extra \in AllExtras
    BY ViewAssumption DEF Messages, AllExtras
  <2>3. ASSUME NEW n \in Node PROVE Updated(n, m) \in Node /\ Updated(n, m).view = n.view
    BY <2>2 DEF Updated, Node
  <2>4. QED
    BY <1>2, <2>1, <2>3 DEF UpdateFirst
<1>3. QED
  BY <1>1, <1>2

LEMMA NodeTypes ==
  /\ NoNode \in Node
  /\ \A s \in Seq(Node) : HeadOf(s) \in Node
  /\ \A n \in Node, m \in Messages : Updated(n, m) \in Node
  /\ \A m \in Messages : NewNode(m) \in Node /\ NewNode(m).view = m.view
  /\ \A m \in Messages : m.view \in Views /\ m.extra \in AllExtras
  /\ \A n \in Node : n.on \in SUBSET AllExtras
<1>1. NoNode \in Node
  BY DEF NoNode, Node
<1>2. ASSUME NEW s \in Seq(Node) PROVE HeadOf(s) \in Node
  BY <1>1 DEF HeadOf
<1>3. ASSUME NEW m \in Messages
      PROVE  m.view \in Views /\ m.extra \in AllExtras
  BY DEF Messages, AllExtras
<1>4. ASSUME NEW n \in Node, NEW m \in Messages PROVE Updated(n, m) \in Node
  BY <1>3 DEF Updated, Node
<1>5. ASSUME NEW m \in Messages
      PROVE  NewNode(m) \in Node /\ NewNode(m).view = m.view
  BY <1>3 DEF NewNode, Updated, Node
<1>6. ASSUME NEW n \in Node PROVE n.on \in SUBSET AllExtras
  BY DEF Node
<1>7. QED
  BY <1>1, <1>2, <1>3, <1>4, <1>5, <1>6

-----------------------------------------------------------------------------
(* Type correctness *)

\* While the receiver updates a list it has a message, and it updates the
\* serious list for a serious warning only.  What is sent is about a warning.
MsgGiven ==
  /\ pc["receiver"] \notin {"idle"} \cup Notifying => msg \in Messages
  /\ At("receiver", "serious") => msg.view \in Serious
  /\ \A t \in Threads : At(t, "sound") \/ At(t, "page") => node[t].view \in Views

TypeInv == TypeOK /\ MsgGiven

LEMMA InitTypes == Init => TypeInv
<1> SUFFICES ASSUME Init PROVE TypeInv
  OBVIOUS
<1>1. /\ serious \in Seq(Node) /\ fresh \in Seq(Node) /\ loop \in Seq(Node)
      /\ cur \in Node /\ node \in [Threads -> Node]
  BY NodeTypes DEF Init
<1>2. hmi \in [Views -> SUBSET AllExtras] /\ told \in [Views -> SUBSET AllExtras]
  BY DEF Init
<1>3. audio \in [Views -> {"ON", "OFF"}]
  BY DEF Init
<1>4. posts \in 0..MaxPosts /\ sent \in 0..MaxMsgs /\ breaks \in 0..MaxBreaks
  BY BoundAssumption DEF Init
<1>5. /\ lagging \in SUBSET Threads /\ msg \in Messages \cup {NoMsg}
      /\ races \subseteq {"expiry", "post", "asked"} /\ shown \in {0, AtLeastTime}
      /\ missed \subseteq Views \X {"sound", "page"} /\ crossed \subseteq Views
  BY DEF Init
<1>6. pc \in [Threads -> Places]
  BY DEF Init, Places
<1>7. TypeOK
  BY <1>1, <1>2, <1>3, <1>4, <1>5, <1>6 DEF Init, TypeOK, AccStates
<1>8. MsgGiven
  BY DEF Init, MsgGiven, At, Threads, Notifying
<1>9. QED
  BY <1>7, <1>8 DEF TypeInv

\* Notify moves its thread on and sends what is well typed.
LEMMA NotifiesTypes ==
  ASSUME TypeInv, NEW t \in Threads, Notifies(t)
  PROVE  TypeInv'
<1> USE DEF TypeInv, TypeOK, MsgGiven, At, Go, Threads, Places, Notifying
<1>1. node[t] \in Node /\ NoNode \in Node /\ node[t].on \in SUBSET AllExtras
  BY NodeTypes
<1>2. CASE Notify(t)
  <2>1. /\ UNCHANGED <<lists, cur, status, timers, input, output>>
        /\ node[t].view \in Views \/ node'[t] = NoNode
        /\ node' = [node EXCEPT ![t] = NoNode] \/ node' = node
    BY <1>2 DEF Notify, Leaves
  <2>2. PICK p \in {"sound", "page", "idle"} :
          /\ pc' = [pc EXCEPT ![t] = p]
          /\ lagging' = lagging \/ lagging' = lagging \ {t}
          /\ p # "idle" => node' = node /\ node[t].view \in Views
    BY <1>2 DEF Notify, Leaves
  <2>3. /\ node' \in [Threads -> Node]
        /\ pc' \in [Threads -> Places]
        /\ lagging' \in SUBSET Threads
    <3>1. node' \in [Threads -> Node]
      BY <1>1, <2>1
    <3>2. p \in Places
      BY <2>2
    <3>3. pc' \in [Threads -> Places]
      BY <2>2, <3>2
    <3>4. lagging' \in SUBSET Threads
      BY <2>2
    <3>5. QED
      BY <3>1, <3>3, <3>4
  <2>4. MsgGiven'
    BY <1>2, <2>1, <2>2 DEF Notify, input
  <2>5. QED
    BY <2>1, <2>3, <2>4 DEF lists, status, timers, input, output
<1>3. CASE SendAudioWarnInfo(t)
  <2>1. node[t].view \in Views
    BY <1>3 DEF SendAudioWarnInfo
  <2>2. audio' \in [Views -> {"ON", "OFF"}] /\ missed' \subseteq Views \X {"sound", "page"}
    BY <1>3, <2>1 DEF SendAudioWarnInfo
  <2>3. /\ pc' = [pc EXCEPT ![t] = "page"] /\ pc' \in [Threads -> Places]
        /\ lagging' = lagging
        /\ UNCHANGED <<lists, cur, status, timers, node, input, m_isConnected, breaks, hmi>>
    BY <1>3 DEF SendAudioWarnInfo
  <2>4. MsgGiven'
    BY <1>3, <2>1, <2>3 DEF SendAudioWarnInfo, input
  <2>5. QED
    BY <2>2, <2>3, <2>4 DEF lists, status, timers, input
<1>4. CASE MsgSend(t)
  <2>1. node[t].view \in Views
    BY <1>4 DEF MsgSend
  <2>2. /\ hmi' \in [Views -> SUBSET AllExtras]
        /\ missed' \subseteq Views \X {"sound", "page"}
    <3>1. CASE m_isConnected
      <4>1. /\ hmi' = [hmi EXCEPT ![node[t].view] = node[t].on]
            /\ missed' = missed \ {<<node[t].view, "page">>}
        BY <1>4, <3>1 DEF MsgSend
      <4>2. QED
        BY <1>1, <2>1, <4>1
    <3>2. CASE ~m_isConnected
      <4>1. missed' = missed \cup {<<node[t].view, "page">>} /\ hmi' = hmi
        BY <1>4, <3>2 DEF MsgSend
      <4>2. QED
        BY <2>1, <4>1
    <3>3. QED
      BY <3>1, <3>2
  <2>3. /\ pc' = [pc EXCEPT ![t] = "idle"] /\ pc' \in [Threads -> Places]
        /\ lagging' = lagging \ {t} /\ node' = [node EXCEPT ![t] = NoNode]
        /\ node' \in [Threads -> Node]
        /\ UNCHANGED <<lists, cur, status, timers, input, m_isConnected, breaks, audio>>
    BY <1>1, <1>4 DEF MsgSend, Leaves
  <2>4. MsgGiven'
    BY <1>4, <2>3 DEF MsgSend, input
  <2>5. QED
    BY <2>2, <2>3, <2>4 DEF lists, status, timers, input
<1>5. QED
  BY <1>2, <1>3, <1>4 DEF Notifies

LEMMA ReceiveTypes == TypeInv /\ Receive => TypeInv'
<1> SUFFICES ASSUME TypeInv, Receive PROVE TypeInv'
  OBVIOUS
<1> USE BoundAssumption DEF TypeInv, TypeOK, MsgGiven, At, Threads, Places, Notifying
<1>1. ASSUME NEW s \in {"ON", "OFF"}, ReceiveAcc(s) PROVE TypeInv'
  <2>1. /\ acc' \in AccStates /\ sent' \in 0..MaxMsgs
        /\ UNCHANGED <<lists, cur, msg, told, crossed, output, hidden, timers, steps, node>>
    BY <1>1 DEF ReceiveAcc, Receives, AccStates
  <2>2. QED
    BY <2>1 DEF lists, timers, output, steps
<1>2. CASE ReceiveWarnHiden
  BY <1>2 DEF ReceiveWarnHiden, Receives, lists, timers, output
<1>3. CASE ReceiveGetCurrWarn
  <2>1. done' \in BOOLEAN /\ atLeast' \in BOOLEAN /\ showTimer' \in BOOLEAN
        /\ lagging' \in SUBSET Threads /\ UNCHANGED <<expired, posts, shown>>
        /\ races' \subseteq {"expiry", "post", "asked"}
    BY <1>3 DEF ReceiveGetCurrWarn, RestartTimers, Working
  <2>2. /\ sent' \in 0..MaxMsgs /\ pc' \in [Threads -> Places] /\ node' \in [Threads -> Node]
        /\ UNCHANGED <<lists, cur, msg, told, crossed, status, output>>
    BY <1>3 DEF ReceiveGetCurrWarn, Receives
  <2>3. MsgGiven'
    BY <1>3, <2>2 DEF ReceiveGetCurrWarn
  <2>4. QED
    BY <2>1, <2>2, <2>3 DEF lists, status, output
<1>4. ASSUME NEW m \in Messages, ReceiveWarn(m) PROVE TypeInv'
  BY <1>4, NodeTypes DEF ReceiveWarn, Go, lists, timers, output
<1>5. QED
  BY <1>1, <1>2, <1>3, <1>4 DEF Receive

\* What the list operations return is a list again.
LEMMA ListTypes ==
  ASSUME NEW s \in Seq(Node)
  PROVE  /\ \A v : Erase(s, v) \in Seq(Node)
         /\ \A t \in SortedByPriority(s) : t \in Seq(Node)
         /\ \A m \in Messages : UpdateFirst(s, m) \in Seq(Node)
         /\ \A n \in Node : Append(s, n) \in Seq(Node)
         /\ \A v : Has(s, v) => s[FirstAt(s, v)] \in Node
<1>1. ASSUME NEW v PROVE Erase(s, v) \in Seq(Node)
  BY EraseSkipsOne
<1>2. ASSUME NEW t \in SortedByPriority(s) PROVE t \in Seq(Node)
  BY SortRearranges
<1>3. ASSUME NEW m \in Messages PROVE UpdateFirst(s, m) \in Seq(Node)
  BY UpdateFirstKeepsNames
<1>4. ASSUME NEW v, Has(s, v) PROVE s[FirstAt(s, v)] \in Node
  BY <1>4, FirstAtIn, ElementOfSeq
<1>5. QED
  BY <1>1, <1>2, <1>3, <1>4

LEMMA ReceiverTypes == TypeInv /\ Receiver => TypeInv'
<1> SUFFICES ASSUME TypeInv, Receiver PROVE TypeInv'
  OBVIOUS
<1> USE DEF TypeInv, TypeOK, MsgGiven, At, Go, Threads, Places, Notifying
<1>1. CASE UpdateSeriousWarnList
  BY <1>1, ListTypes, NodeTypes DEF UpdateSeriousWarnList, lists, status, timers, input, output
<1>2. CASE IsNodeExistInLoopList
  BY <1>2, NodeTypes DEF IsNodeExistInLoopList, lists, status, timers, input, output
<1>3. CASE GetLoopDoorInfoNode
  BY <1>3, ListTypes, NodeTypes DEF GetLoopDoorInfoNode, lists, status, timers, input, output
<1>4. CASE TakeFromLoop
  BY <1>4, ListTypes DEF TakeFromLoop, lists, status, timers, input, output
<1>5. CASE IsNodeExistInFreshList
  BY <1>5 DEF IsNodeExistInFreshList, lists, status, timers, input, output
<1>6. CASE SetFreshNode
  BY <1>6, ListTypes DEF SetFreshNode, lists, status, timers, input, output
<1>7. CASE AppendFresh
  BY <1>7, ListTypes DEF AppendFresh, lists, status, timers, input, output
<1>8. CASE AppendDoorInfo
  BY <1>8, ListTypes, NodeTypes DEF AppendDoorInfo, Received, Leaves, lists, status, timers, input, output
<1>9. CASE SortLoop
  BY <1>9, ListTypes, NodeTypes DEF SortLoop, Received, Leaves, lists, status, timers, input, output
<1>10. QED
  BY <1>1, <1>2, <1>3, <1>4, <1>5, <1>6, <1>7, <1>8, <1>9, NotifiesTypes DEF Receiver

LEMMA EraseTypes ==
  ASSUME TypeInv, NEW t \in {"handler", "actuator"}
  PROVE  /\ EraseSeriousWarnListNode(t) => TypeInv'
         /\ EraseFreshWarnListNode(t) => TypeInv'
         /\ EraseLoopWarnListNode(t) => TypeInv'
<1> USE DEF TypeInv, TypeOK, MsgGiven, At, Go, After, Threads, Places, Notifying
<1>1. ASSUME EraseSeriousWarnListNode(t) PROVE TypeInv'
  <2>1. serious' \in Seq(Node) /\ UNCHANGED <<fresh, loop, cur, status, timers, node, input, output>>
    BY <1>1, ListTypes DEF EraseSeriousWarnListNode
  <2>2. PICK p \in {"stop", "push", "eraseFresh", "eraseLoop"} :
          pc' = [pc EXCEPT ![t] = p] /\ lagging' = lagging
    BY <1>1 DEF EraseSeriousWarnListNode
  <2>3. pc' \in [Threads -> Places] /\ MsgGiven'
    BY <2>1, <2>2 DEF input
  <2>4. QED
    BY <2>1, <2>2, <2>3 DEF status, timers, input, output
<1>2. ASSUME EraseFreshWarnListNode(t) PROVE TypeInv'
  <2>1. fresh' \in Seq(Node) /\ UNCHANGED <<serious, loop, cur, status, timers, node, input, output>>
    BY <1>2, ListTypes DEF EraseFreshWarnListNode
  <2>2. PICK p \in {"stop", "push", "eraseFresh", "eraseLoop"} :
          pc' = [pc EXCEPT ![t] = p] /\ lagging' = lagging
    BY <1>2 DEF EraseFreshWarnListNode
  <2>3. pc' \in [Threads -> Places] /\ MsgGiven'
    BY <2>1, <2>2 DEF input
  <2>4. QED
    BY <2>1, <2>2, <2>3 DEF status, timers, input, output
<1>3. ASSUME EraseLoopWarnListNode(t) PROVE TypeInv'
  <2>1. loop' \in Seq(Node) /\ UNCHANGED <<serious, fresh, cur, status, timers, node, input, output>>
    BY <1>3, ListTypes DEF EraseLoopWarnListNode
  <2>2. PICK p \in {"stop", "push", "eraseFresh", "eraseLoop"} :
          pc' = [pc EXCEPT ![t] = p] /\ lagging' = lagging
    BY <1>3 DEF EraseLoopWarnListNode
  <2>3. pc' \in [Threads -> Places] /\ MsgGiven'
    BY <2>1, <2>2 DEF input
  <2>4. QED
    BY <2>1, <2>2, <2>3 DEF status, timers, input, output
<1>4. QED
  BY <1>1, <1>2, <1>3

LEMMA HandlerTypes == TypeInv /\ Handler => TypeInv'
<1> SUFFICES ASSUME TypeInv, Handler PROVE TypeInv'
  OBVIOUS
<1> USE DEF TypeInv, TypeOK, MsgGiven, At, Go, Threads, Places, Notifying
<1>1. CASE HandleWarnViews
  <2>1. /\ pc' = [pc EXCEPT !["handler"] = "getSerious"] /\ lagging' = lagging
        /\ UNCHANGED <<lists, cur, status, timers, node, input, output>>
    BY <1>1 DEF HandleWarnViews
  <2>2. pc' \in [Threads -> Places] /\ MsgGiven'
    BY <2>1 DEF input
  <2>3. QED
    BY <2>1, <2>2 DEF lists, status, timers, input, output
<1>2. CASE GetSeriousWarnListNode
  <2>1. CASE serious = <<>>
    <3>1. /\ pc' = [pc EXCEPT !["handler"] = "pick"] /\ lagging' = lagging
          /\ UNCHANGED <<lists, cur, status, timers, node, input, output>>
      BY <1>2, <2>1 DEF GetSeriousWarnListNode
    <3>2. pc' \in [Threads -> Places] /\ MsgGiven'
      BY <3>1 DEF input
    <3>3. QED
      BY <3>1, <3>2 DEF lists, status, timers, input, output
  <2>2. CASE serious # <<>>
    <3>1. Choose(HeadOf(serious)) /\ UNCHANGED <<lists, cur, status, timers, input, output>>
      BY <1>2, <2>2 DEF GetSeriousWarnListNode
    <3>2. HeadOf(serious) \in Node
      BY NodeTypes
    <3>3. QED
      BY <3>1, <3>2, NodeTypes DEF Choose, lists, status, timers, input, output
  <2>3. QED
    BY <2>1, <2>2
<1>3. CASE PickList
  BY <1>3 DEF PickList, lists, status, timers, input, output
<1>4. CASE GetFrashWarnListNode
  BY <1>4, NodeTypes DEF GetFrashWarnListNode, Choose, lists, status, timers, input, output
<1>5. CASE GetLoopWarnListNode
  BY <1>5, NodeTypes DEF GetLoopWarnListNode, Choose, lists, status, timers, input, output
<1>6. CASE EraseSeriousWarnListNode("handler")
  BY <1>6, EraseTypes DEF EraseSeriousWarnListNode, lists, status, timers, input, output
<1>7. CASE EraseFreshWarnListNode("handler")
  BY <1>7, EraseTypes DEF EraseFreshWarnListNode, lists, status, timers, input, output
<1>8. CASE EraseLoopWarnListNode("handler")
  BY <1>8, EraseTypes DEF EraseLoopWarnListNode, lists, status, timers, input, output
<1>9. CASE StopShowTimer
  BY <1>9 DEF StopShowTimer, lists, status, timers, input, output
<1>10. CASE ClearCurrent
  BY <1>10, NodeTypes DEF ClearCurrent, lists, status, timers, input, output
<1>11. CASE StartTimers
  BY <1>11 DEF StartTimers, RestartTimers, Working, lists, status, timers, input, output
<1>12. CASE SetCurrent
  BY <1>12 DEF SetCurrent, lists, status, timers, input, output
<1>13. QED
  BY <1>1, <1>2, <1>3, <1>4, <1>5, <1>6, <1>7, <1>8, <1>9, <1>10, <1>11, <1>12, NotifiesTypes
     DEF Handler

LEMMA RemoveWarnTypes == TypeInv /\ RemoveWarn => TypeInv'
<1> SUFFICES ASSUME TypeInv, RemoveWarn PROVE TypeInv'
  OBVIOUS
<1> USE BoundAssumption DEF TypeInv, TypeOK, MsgGiven, At, Go, Threads, Places, Notifying
<1>1. CASE RemoveCurrentWarn
  BY <1>1 DEF RemoveCurrentWarn, lists, status, timers, input, output
<1>2. CASE EraseSeriousWarnListNode("actuator")
  BY <1>2, EraseTypes DEF EraseSeriousWarnListNode, lists, status, timers, input, output
<1>3. CASE EraseFreshWarnListNode("actuator")
  BY <1>3, EraseTypes DEF EraseFreshWarnListNode, lists, status, timers, input, output
<1>4. CASE EraseLoopWarnListNode("actuator")
  BY <1>4, EraseTypes DEF EraseLoopWarnListNode, lists, status, timers, input, output
<1>5. CASE PushLoopAgain
  BY <1>5, ListTypes, NodeTypes DEF PushLoopAgain, Leaves, lists, status, timers, input, output
<1>6. QED
  BY <1>1, <1>2, <1>3, <1>4, <1>5 DEF RemoveWarn

LEMMA TimerTypes == TypeInv /\ Timers => TypeInv'
<1> SUFFICES ASSUME TypeInv, Timers PROVE TypeInv'
  OBVIOUS
<1> USE BoundAssumption DEF TypeInv, TypeOK, MsgGiven, At, Threads, Places, Notifying
<1>1. CASE AtLeastExpire
  BY <1>1 DEF AtLeastExpire, lists, status, steps, input, output
<1>2. CASE AtLeastTimerThreadFun
  BY <1>2 DEF AtLeastTimerThreadFun, Working, lists, status, steps, input, output
<1>3. CASE WarnShowTimerThreadFun
  <2>1. posts' \in 0..MaxPosts
    BY <1>3 DEF WarnShowTimerThreadFun
  <2>2. QED
    BY <1>3, <2>1 DEF WarnShowTimerThreadFun, lists, status, steps, input, output
<1>4. QED
  BY <1>1, <1>2, <1>3 DEF Timers

LEMMA LinkTypes == TypeInv /\ Link => TypeInv'
<1> SUFFICES ASSUME TypeInv, Link PROVE TypeInv'
  OBVIOUS
<1>1. m_isConnected' \in BOOLEAN /\ breaks' \in 0..MaxBreaks
  <2>1. breaks \in 0..MaxBreaks /\ MaxBreaks \in Nat
    BY BoundAssumption DEF TypeInv, TypeOK
  <2>2. CASE on_disconnect_callback
    <3>1. m_isConnected' = FALSE /\ breaks < MaxBreaks /\ breaks' = breaks + 1
      BY <2>2 DEF on_disconnect_callback
    <3>2. breaks' \in 0..MaxBreaks
      BY <2>1, <3>1
    <3>3. QED
      BY <3>1, <3>2
  <2>3. CASE on_connect_callback
    BY <2>1, <2>3 DEF on_connect_callback
  <2>4. QED
    BY <2>2, <2>3 DEF Link
<1>2. UNCHANGED <<hmi, audio, missed, lists, cur, status, timers, steps, node, input>>
  BY DEF Link, on_disconnect_callback, on_connect_callback
<1>3. QED
  BY <1>1, <1>2 DEF TypeInv, TypeOK, MsgGiven, At, lists, status, timers, steps, input

LEMMA StepTypes == TypeInv /\ [Next]_vars => TypeInv'
<1> SUFFICES ASSUME TypeInv, [Next]_vars PROVE TypeInv'
  OBVIOUS
<1>1. CASE UNCHANGED vars
  BY <1>1 DEF TypeInv, TypeOK, MsgGiven, At, vars, lists, status, timers, steps, input, output
<1>2. QED
  BY <1>1, ReceiveTypes, ReceiverTypes, HandlerTypes, RemoveWarnTypes, TimerTypes, LinkTypes DEF Next

\* Every list, node and output stays within the configured warnings and their
\* extras, through every interleaving of the three threads and the timers.
THEOREM TypeCorrect == Spec => []TypeOK
<1>1. TypeInv => TypeOK
  BY DEF TypeInv
<1>2. QED
  BY <1>1, InitTypes, StepTypes, PTL DEF Spec

-----------------------------------------------------------------------------
(* The lists keep their order and hold no duplicate *)

Rotates(s) ==
  /\ \A i \in DOMAIN s : s[i].view \in Repeat \ Serious /\ IsOn(s[i])
  /\ \A i, j \in DOMAIN s : s[i].view = s[j].view => i = j

Ordered(s) ==
  /\ \A i \in DOMAIN s : s[i].view \in Serious
  /\ \A i, j \in DOMAIN s :
       i < j => /\ s[i].view # s[j].view
                /\ Priority[s[i].view] <= Priority[s[j].view]

\* Leaving out one node keeps both.
LEMMA SkipKeepsBoth ==
  ASSUME NEW s \in Seq(Node), NEW t \in Seq(Node), NEW k \in Nat,
         LeavesOut(s, t, k)
  PROVE  /\ Rotates(s) => Rotates(t)
         /\ Ordered(s) => Ordered(t)
<1>1. DOMAIN t = 1..Len(t) /\ DOMAIN s = 1..Len(s) /\ Len(s) \in Nat /\ Len(t) \in Nat
  OBVIOUS
<1>2. ASSUME NEW i \in DOMAIN t
      PROVE  \E a \in DOMAIN s : /\ t[i] = s[a]
                                 /\ i < k => a = i
                                 /\ k <= i => a = i + 1
  BY <1>1 DEF LeavesOut
<1>3. ASSUME Rotates(s) PROVE Rotates(t)
  <2>1. ASSUME NEW i \in DOMAIN t
        PROVE  t[i].view \in Repeat \ Serious /\ IsOn(t[i])
    BY <1>2, <1>3 DEF Rotates
  <2>2. ASSUME NEW i \in DOMAIN t, NEW j \in DOMAIN t, t[i].view = t[j].view
        PROVE  i = j
    BY <1>1, <1>2, <1>3, <2>2 DEF Rotates
  <2>3. QED
    BY <2>1, <2>2 DEF Rotates
<1>4. ASSUME Ordered(s) PROVE Ordered(t)
  <2>1. ASSUME NEW i \in DOMAIN t PROVE t[i].view \in Serious
    BY <1>2, <1>4 DEF Ordered
  <2>2. ASSUME NEW i \in DOMAIN t, NEW j \in DOMAIN t, i < j
        PROVE  /\ t[i].view # t[j].view
               /\ Priority[t[i].view] <= Priority[t[j].view]
    <3>1. PICK a \in DOMAIN s, b \in DOMAIN s : t[i] = s[a] /\ t[j] = s[b] /\ a < b
      BY <1>1, <1>2, <2>2
    <3>2. QED
      BY <1>4, <3>1 DEF Ordered
  <2>3. QED
    BY <2>1, <2>2 DEF Ordered
<1>5. QED
  BY <1>3, <1>4

LEMMA EraseKeepsBoth ==
  ASSUME NEW s \in Seq(Node), NEW v
  PROVE  /\ Rotates(s) => Rotates(Erase(s, v))
         /\ Ordered(s) => Ordered(Erase(s, v))
  BY EraseSkipsOne, SkipKeepsBoth

LEMMA SortKeepsRotation ==
  ASSUME NEW s \in Seq(Node), Rotates(s), NEW t \in SortedByPriority(s)
  PROVE  Rotates(t)
<1>1. PICK p \in [DOMAIN s -> DOMAIN s] :
        /\ \A i \in DOMAIN s : t[i] = s[p[i]]
        /\ \A i, j \in DOMAIN s : p[i] = p[j] => i = j
  BY SortRearranges
<1>2. DOMAIN t = DOMAIN s
  BY SortRearranges
<1>3. QED
  BY <1>1, <1>2 DEF Rotates

\* A node is pushed behind nodes of other names only.
LEMMA PushKeepsRotation ==
  ASSUME NEW s \in Seq(Node), Rotates(s), NEW n \in Node,
         CheckNeedPushLoopAgain(n), ~Has(s, n.view)
  PROVE  Rotates(Append(s, n))
<1> DEFINE t == Append(s, n)
<1>1. /\ DOMAIN t = 1..Len(s) + 1 /\ DOMAIN s = 1..Len(s) /\ Len(s) \in Nat
      /\ \A i \in 1..Len(s) : t[i] = s[i]
      /\ t[Len(s) + 1] = n
  OBVIOUS
<1> HIDE DEF t
<1>2. \A i \in DOMAIN t : i \in DOMAIN s \/ i = Len(s) + 1
  BY <1>1
<1>3. \A i \in DOMAIN s : s[i].view # n.view
  BY DEF Has
<1>4. QED
  BY <1>1, <1>2, <1>3 DEF Rotates, CheckNeedPushLoopAgain, t

\* Distinct serious names, in any order, are ordered by the sort.
LEMMA SortOrders ==
  ASSUME NEW s \in Seq(Node), NEW t \in SortedByPriority(s),
         \A i \in DOMAIN s : s[i].view \in Serious,
         \A i, j \in DOMAIN s : s[i].view = s[j].view => i = j
  PROVE  Ordered(t)
<1>1. PICK p \in [DOMAIN s -> DOMAIN s] :
        /\ \A i \in DOMAIN s : t[i] = s[p[i]]
        /\ \A i, j \in DOMAIN s : p[i] = p[j] => i = j
  BY SortRearranges
<1>2. /\ DOMAIN t = DOMAIN s /\ DOMAIN s = 1..Len(s) /\ Len(s) \in Nat
      /\ \A i, j \in DOMAIN t : i < j => Priority[t[i].view] <= Priority[t[j].view]
  BY SortRearranges
<1>3. \A i, j \in DOMAIN t : i < j => t[i].view # t[j].view
  <2> SUFFICES ASSUME NEW i \in DOMAIN t, NEW j \in DOMAIN t, i < j
               PROVE  t[i].view # t[j].view
    OBVIOUS
  <2>1. p[i] \in DOMAIN s /\ p[j] \in DOMAIN s /\ i # j
    BY <1>1, <1>2
  <2>2. p[i] # p[j]
    BY <1>1, <1>2, <2>1
  <2>3. QED
    BY <1>1, <1>2, <2>1, <2>2
<1>4. QED
  BY <1>1, <1>2, <1>3 DEF Ordered

\* Insertion or update, then the sort.
LEMMA UpdateKeepsOrder ==
  ASSUME NEW s \in Seq(Node), Ordered(s), NEW m \in Messages, m.view \in Serious,
         NEW t \in SortedByPriority(
           IF m.status = "ON" /\ ~Has(s, m.view)
           THEN Append(s, NewNode(m)) ELSE UpdateFirst(s, m))
  PROVE  Ordered(t)
<1>0. DOMAIN s = 1..Len(s) /\ Len(s) \in Nat
  OBVIOUS
<1>1. \A i, j \in DOMAIN s : s[i].view = s[j].view => i = j
  BY <1>0 DEF Ordered
<1>2. CASE m.status = "ON" /\ ~Has(s, m.view)
  <2> DEFINE u == Append(s, NewNode(m))
  <2>1. NewNode(m) \in Node /\ NewNode(m).view = m.view
    BY NodeTypes
  <2>2. /\ u \in Seq(Node) /\ DOMAIN u = 1..Len(s) + 1
        /\ \A i \in 1..Len(s) : u[i] = s[i]
        /\ u[Len(s) + 1] = NewNode(m)
    BY <2>1
  <2>3. t \in SortedByPriority(u)
    BY <1>2
  <2> HIDE DEF u
  <2>4. \A i \in DOMAIN u : i \in DOMAIN s \/ i = Len(s) + 1
    BY <1>0, <2>2
  <2>5. \A i \in DOMAIN s : s[i].view # m.view
    BY <1>2 DEF Has
  <2>6. \A i \in DOMAIN u : u[i].view \in Serious
    BY <1>0, <2>1, <2>2, <2>4 DEF Ordered
  <2>7. \A i, j \in DOMAIN u : u[i].view = u[j].view => i = j
    BY <1>0, <1>1, <2>1, <2>2, <2>4, <2>5
  <2>8. QED
    BY <2>2, <2>3, <2>6, <2>7, SortOrders
<1>3. CASE ~(m.status = "ON" /\ ~Has(s, m.view))
  <2> DEFINE u == UpdateFirst(s, m)
  <2>1. /\ u \in Seq(Node) /\ Len(u) = Len(s)
        /\ \A i \in 1..Len(s) : u[i].view = s[i].view
    BY UpdateFirstKeepsNames
  <2>2. t \in SortedByPriority(u)
    BY <1>3
  <2> HIDE DEF u
  <2>3. DOMAIN u = 1..Len(s)
    BY <2>1
  <2>4. /\ \A i \in DOMAIN u : u[i].view \in Serious
        /\ \A i, j \in DOMAIN u : u[i].view = u[j].view => i = j
    BY <1>0, <1>1, <2>1, <2>3 DEF Ordered
  <2>5. QED
    BY <2>1, <2>2, <2>4, SortOrders
<1>4. QED
  BY <1>2, <1>3

\* The loop list is written by the receiver, the handler and the actuator.
LEMMA StepRotates == TypeInv /\ LoopSound /\ [Next]_vars => LoopSound'
<1> SUFFICES ASSUME TypeInv, LoopSound, [Next]_vars PROVE LoopSound'
  OBVIOUS
<1>1. loop \in Seq(Node) /\ Rotates(loop) /\ node["actuator"] \in Node
  BY DEF TypeInv, TypeOK, LoopSound, Rotates, Threads
<1>2. ASSUME Rotates(loop') PROVE LoopSound'
  BY <1>2 DEF LoopSound, Rotates
<1>3. CASE TakeFromLoop
  BY <1>1, <1>2, <1>3, EraseKeepsBoth DEF TakeFromLoop
<1>4. CASE SortLoop
  BY <1>1, <1>2, <1>4, SortKeepsRotation DEF SortLoop
<1>5. ASSUME NEW t \in Threads, EraseLoopWarnListNode(t) PROVE LoopSound'
  BY <1>1, <1>2, <1>5, EraseKeepsBoth DEF EraseLoopWarnListNode
<1>6. CASE PushLoopAgain
  BY <1>1, <1>2, <1>6, PushKeepsRotation DEF PushLoopAgain
<1>7. CASE UNCHANGED loop
  BY <1>1, <1>2, <1>7
<1>8. QED
  <2>1. CASE UNCHANGED vars
    BY <1>7, <2>1 DEF vars, lists
  <2>2. CASE Receive
    BY <1>7, <2>2
       DEF Receive, ReceiveAcc, ReceiveWarnHiden, ReceiveGetCurrWarn, ReceiveWarn, Receives, lists
  <2>3. CASE Receiver
    BY <1>3, <1>4, <1>7, <2>3
       DEF Receiver, UpdateSeriousWarnList, IsNodeExistInLoopList, GetLoopDoorInfoNode,
           IsNodeExistInFreshList, SetFreshNode, AppendFresh, AppendDoorInfo, Notifies,
           Notify, SendAudioWarnInfo, MsgSend, lists
  <2>4. CASE Handler
    BY <1>5, <1>7, <2>4
       DEF Handler, HandleWarnViews, GetSeriousWarnListNode, PickList, GetFrashWarnListNode,
           GetLoopWarnListNode, EraseSeriousWarnListNode, EraseFreshWarnListNode,
           StopShowTimer, ClearCurrent, StartTimers, SetCurrent, Notifies, Notify,
           SendAudioWarnInfo, MsgSend, lists, Threads
  <2>5. CASE RemoveWarn
    BY <1>5, <1>6, <1>7, <2>5
       DEF RemoveWarn, RemoveCurrentWarn, EraseSeriousWarnListNode, EraseFreshWarnListNode,
           lists, Threads
  <2>6. CASE Timers
    BY <1>7, <2>6
       DEF Timers, AtLeastExpire, AtLeastTimerThreadFun, WarnShowTimerThreadFun, lists
  <2>7. CASE Link
    BY <1>7, <2>7 DEF Link, on_disconnect_callback, on_connect_callback, lists
  <2>8. QED
    BY <2>1, <2>2, <2>3, <2>4, <2>5, <2>6, <2>7 DEF Next

\* The rotation holds no duplicate and no warning that was OFF when it was
\* pushed: the find-then-insert of RemoveCurrentWarn is not undone by what the
\* receiver and the handler do to the list between its steps.
THEOREM LoopCorrect == Spec => []LoopSound
<1>1. Init => LoopSound
  BY DEF Init, LoopSound
<1>2. QED
  BY <1>1, InitTypes, StepTypes, StepRotates, PTL DEF Spec

LEMMA StepOrdered == TypeInv /\ SeriousOrdered /\ [Next]_vars => SeriousOrdered'
<1> SUFFICES ASSUME TypeInv, SeriousOrdered, [Next]_vars PROVE SeriousOrdered'
  OBVIOUS
<1>1. serious \in Seq(Node) /\ Ordered(serious)
  BY DEF TypeInv, TypeOK, SeriousOrdered, Ordered
<1>2. ASSUME Ordered(serious') PROVE SeriousOrdered'
  BY <1>2 DEF SeriousOrdered, Ordered
<1>3. CASE UpdateSeriousWarnList
  <2>1. msg \in Messages /\ msg.view \in Serious
    <3>1. pc["receiver"] = "serious"
      BY <1>3 DEF UpdateSeriousWarnList, At
    <3>2. QED
      BY <3>1 DEF TypeInv, MsgGiven, At, Notifying
  <2>2. QED
    BY <1>1, <1>2, <1>3, <2>1, UpdateKeepsOrder DEF UpdateSeriousWarnList
<1>4. ASSUME NEW t \in Threads, EraseSeriousWarnListNode(t) PROVE SeriousOrdered'
  BY <1>1, <1>2, <1>4, EraseKeepsBoth DEF EraseSeriousWarnListNode
<1>5. CASE UNCHANGED serious
  BY <1>1, <1>2, <1>5
<1>6. QED
  <2>1. CASE UNCHANGED vars
    BY <1>5, <2>1 DEF vars, lists
  <2>2. CASE Receive
    BY <1>5, <2>2
       DEF Receive, ReceiveAcc, ReceiveWarnHiden, ReceiveGetCurrWarn, ReceiveWarn, Receives, lists
  <2>3. CASE Receiver
    BY <1>3, <1>5, <2>3
       DEF Receiver, IsNodeExistInLoopList, GetLoopDoorInfoNode, TakeFromLoop, SortLoop,
           IsNodeExistInFreshList, SetFreshNode, AppendFresh, AppendDoorInfo, Notifies,
           Notify, SendAudioWarnInfo, MsgSend, lists
  <2>4. CASE Handler
    BY <1>4, <1>5, <2>4
       DEF Handler, HandleWarnViews, GetSeriousWarnListNode, PickList, GetFrashWarnListNode,
           GetLoopWarnListNode, EraseFreshWarnListNode, EraseLoopWarnListNode,
           StopShowTimer, ClearCurrent, StartTimers, SetCurrent, Notifies, Notify,
           SendAudioWarnInfo, MsgSend, lists, Threads
  <2>5. CASE RemoveWarn
    BY <1>4, <1>5, <2>5
       DEF RemoveWarn, RemoveCurrentWarn, EraseFreshWarnListNode, EraseLoopWarnListNode,
           PushLoopAgain, lists, Threads
  <2>6. CASE Timers
    BY <1>5, <2>6
       DEF Timers, AtLeastExpire, AtLeastTimerThreadFun, WarnShowTimerThreadFun, lists
  <2>7. CASE Link
    BY <1>5, <2>7 DEF Link, on_disconnect_callback, on_connect_callback, lists
  <2>8. QED
    BY <2>1, <2>2, <2>3, <2>4, <2>5, <2>6, <2>7 DEF Next

\* The handler always finds the most urgent pending serious warning first.
THEOREM SeriousCorrect == Spec => []SeriousOrdered
<1>1. Init => SeriousOrdered
  BY DEF Init, SeriousOrdered
<1>2. QED
  BY <1>1, InitTypes, StepTypes, StepOrdered, PTL DEF Spec

-----------------------------------------------------------------------------
(* Sound and page *)

\* From its choice to Notify, the handler works on a node that is ON on the
\* showing branch and OFF on the erasing one.
Hides == At("handler", "eraseSerious") \/ At("handler", "eraseFresh") \/
         At("handler", "eraseLoop") \/ At("handler", "stop") \/ At("handler", "clear")
Shows == At("handler", "show") \/ At("handler", "set")

\* The current warning is ON, and the node of a thread in Notify has its status:
\* the handler has made it the current warning or cleared that one, and the
\* receiver keeps others from doing so.  Before its page, a thread has sent the
\* sound of that status.
SoundInv ==
  /\ SoundAgrees
  /\ cur = NoNode \/ IsOn(cur)
  /\ Hides => ~IsOn(node["handler"])
  /\ Shows => IsOn(node["handler"])
  /\ pc["actuator"] \notin Notifying
  /\ \A t \in Threads : pc[t] \in Notifying => (IsOn(node[t]) <=> IsOn(cur))
  /\ \A t \in Threads :
       LET v == node[t].view IN
       At(t, "page") /\ v \in Bound /\ <<v, "sound">> \notin missed =>
         (audio[v] = "ON" <=> IsOn(cur))

\* Who moves on without sending and without changing the current warning.
LEMMA SilentKeepsSound ==
  ASSUME TypeInv, SoundInv, NEW t \in Threads,
         UNCHANGED <<cur, hmi, audio, missed>>,
         \A u \in Threads \ {t} : UNCHANGED <<pc[u], node[u]>>,
         pc'[t] # "page", ~At(t, "page"),
         pc'[t] \in Notifying => t # "actuator" /\ (IsOn(node'[t]) <=> IsOn(cur)),
         t = "handler" =>
           /\ Hides' => ~IsOn(node'["handler"])
           /\ Shows' => IsOn(node'["handler"])
  PROVE  SoundInv'
<1>1. Threads = {"receiver", "handler", "actuator"}
  BY DEF Threads
<1>2. SoundAgrees'
  <2> SUFFICES ASSUME NEW v \in Bound,
                      {<<v, "sound">>, <<v, "page">>} \cap missed = {},
                      \A u \in Threads : At(u, "page")' => node'[u].view # v
               PROVE  audio[v] = "ON" <=> hmi[v] # {}
    BY DEF SoundAgrees
  <2>1. \A u \in Threads : At(u, "page") => node[u].view # v
    BY DEF At
  <2>2. QED
    BY <2>1 DEF SoundInv, SoundAgrees
<1>3. cur' = NoNode \/ IsOn(cur)'
  BY DEF SoundInv, IsOn
<1>4. (Hides' => ~IsOn(node["handler"])') /\ (Shows' => IsOn(node["handler"])')
  BY <1>1 DEF SoundInv, Hides, Shows, At, IsOn
<1>5. pc'["actuator"] \notin Notifying
  BY <1>1 DEF SoundInv
<1>6. \A u \in Threads : pc'[u] \in Notifying => (IsOn(node'[u]) <=> IsOn(cur'))
  BY DEF SoundInv, IsOn
<1>7. \A u \in Threads :
        At(u, "page")' /\ node'[u].view \in Bound /\ <<node'[u].view, "sound">> \notin missed' =>
          (audio'[node'[u].view] = "ON" <=> IsOn(cur'))
  BY DEF SoundInv, At, IsOn
<1>8. QED
  BY <1>2, <1>3, <1>4, <1>5, <1>6, <1>7 DEF SoundInv, IsOn

\* Nobody moves.
LEMMA StillKeepsSound ==
  ASSUME SoundInv, UNCHANGED <<pc, node, cur, hmi, audio, missed>>
  PROVE  SoundInv'
  BY DEF SoundInv, SoundAgrees, Hides, Shows, At, IsOn

\* The handler sets or clears the current warning when nobody else notifies.
LEMMA SetKeepsSound ==
  ASSUME TypeInv, SoundInv, ClearCurrent \/ SetCurrent
  PROVE  SoundInv'
<1>1. /\ Threads = {"receiver", "handler", "actuator"}
      /\ pc \in [Threads -> Places] /\ node \in [Threads -> Node]
  BY DEF Threads, TypeInv, TypeOK
<1>2. /\ UNCHANGED <<node, hmi, audio, missed>>
      /\ pc' = [pc EXCEPT !["handler"] = "notify"]
      /\ pc["receiver"] \notin Notifying /\ pc["actuator"] \notin Notifying
      /\ pc["handler"] \in {"clear", "set"}
  BY DEF ClearCurrent, SetCurrent, Go, At, CurrWarnLocked, output, SoundInv
<1>3. /\ pc'["handler"] = "notify" /\ pc'["receiver"] = pc["receiver"]
      /\ pc'["actuator"] = pc["actuator"]
  BY <1>1, <1>2
<1>4. /\ IsOn(node["handler"]) <=> IsOn(cur')
      /\ cur' = NoNode \/ IsOn(cur')
  BY DEF ClearCurrent, SetCurrent, At, SoundInv, Hides, Shows, NoNode, IsOn
<1>5. \A t \in Threads : pc[t] # "page" /\ pc'[t] # "page"
  BY <1>1, <1>2, <1>3 DEF Notifying
<1>6. SoundAgrees'
  BY <1>2, <1>5 DEF SoundInv, SoundAgrees, At
<1>7. ~Hides' /\ ~Shows'
  BY <1>3 DEF Hides, Shows, At
<1>8. \A t \in Threads : pc'[t] \in Notifying => (IsOn(node'[t]) <=> IsOn(cur'))
  BY <1>1, <1>2, <1>3, <1>4
<1>9. QED
  BY <1>2, <1>3, <1>4, <1>5, <1>6, <1>7, <1>8 DEF SoundInv, At, IsOn

LEMMA SendKeepsSound ==
  ASSUME TypeInv, SoundInv, NEW t \in Threads, SendAudioWarnInfo(t)
  PROVE  SoundInv'
<1> DEFINE v == node[t].view
<1>1. /\ Threads = {"receiver", "handler", "actuator"}
      /\ pc \in [Threads -> Places] /\ node \in [Threads -> Node]
      /\ audio \in [Views -> {"ON", "OFF"}] /\ v \in Views
  BY DEF Threads, TypeInv, TypeOK, MsgGiven, SendAudioWarnInfo
<1>2. /\ UNCHANGED <<cur, hmi, node>>
      /\ At(t, "sound")
      /\ pc' = [pc EXCEPT ![t] = "page"]
  BY DEF SendAudioWarnInfo, Go
<1>3. /\ pc'[t] = "page" /\ pc[t] = "sound" /\ t # "actuator"
      /\ \A u \in Threads \ {t} : pc'[u] = pc[u]
  BY <1>1, <1>2 DEF At, SoundInv, Notifying
<1>4. /\ \A u \in Views \ {v} : audio'[u] = audio[u]
      /\ \A u \in Views \ {v} :
           /\ <<u, "sound">> \in missed' <=> <<u, "sound">> \in missed
           /\ <<u, "page">> \in missed' <=> <<u, "page">> \in missed
      /\ <<v, "sound">> \notin missed' => (audio'[v] = "ON" <=> IsOn(cur))
  <2>1. CASE m_isConnected
    <3>1. /\ audio' = [audio EXCEPT ![v] = IF IsOn(cur) THEN "ON" ELSE "OFF"]
          /\ missed' = missed \ {<<v, "sound">>}
      BY <2>1 DEF SendAudioWarnInfo
    <3>2. audio'[v] = "ON" <=> IsOn(cur)
      BY <1>1, <3>1
    <3>3. \A u \in Views \ {v} : audio'[u] = audio[u]
      BY <1>1, <3>1
    <3>4. \A u \in Views \ {v} :
            /\ <<u, "sound">> \in missed' <=> <<u, "sound">> \in missed
            /\ <<u, "page">> \in missed' <=> <<u, "page">> \in missed
      BY <3>1
    <3>5. QED
      BY <3>2, <3>3, <3>4
  <2>2. CASE ~m_isConnected
    <3>1. audio' = audio /\ missed' = missed \cup {<<v, "sound">>}
      BY <2>2 DEF SendAudioWarnInfo
    <3>2. QED
      BY <3>1
  <2>3. QED
    BY <2>1, <2>2
<1>5. SoundAgrees'
  <2> SUFFICES ASSUME NEW u \in Bound,
                      <<u, "sound">> \notin missed', <<u, "page">> \notin missed',
                      \A s \in Threads : At(s, "page")' => node'[s].view # u
               PROVE  audio'[u] = "ON" <=> hmi'[u] # {}
    BY DEF SoundAgrees
  <2>1. u \in Views /\ u # v
    BY <1>2, <1>3, ViewAssumption DEF At
  <2>2. <<u, "sound">> \notin missed /\ <<u, "page">> \notin missed /\ audio'[u] = audio[u]
    BY <1>4, <2>1
  <2>3. \A s \in Threads : At(s, "page") => node[s].view # u
    BY <1>2, <1>3 DEF At
  <2>4. QED
    BY <1>2, <2>2, <2>3 DEF SoundInv, SoundAgrees
<1>6. \A s \in Threads :
        At(s, "page")' /\ node'[s].view \in Bound /\ <<node'[s].view, "sound">> \notin missed' =>
          (audio'[node'[s].view] = "ON" <=> IsOn(cur'))
  <2> SUFFICES ASSUME NEW s \in Threads, pc'[s] = "page", node[s].view \in Bound,
                      <<node[s].view, "sound">> \notin missed'
               PROVE  audio'[node[s].view] = "ON" <=> IsOn(cur)
    BY <1>2 DEF At
  <2>1. CASE node[s].view = v
    BY <1>4, <2>1
  <2>2. CASE node[s].view # v
    <3>1. s # t /\ pc[s] = "page"
      BY <1>3, <2>2
    <3>2. node[s].view \in Views
      BY ViewAssumption
    <3>3. <<node[s].view, "sound">> \notin missed /\ audio'[node[s].view] = audio[node[s].view]
      BY <1>4, <2>2, <3>2
    <3>4. audio[node[s].view] = "ON" <=> IsOn(cur)
      BY <3>1, <3>3 DEF SoundInv, At
    <3>5. QED
      BY <3>3, <3>4
  <2>3. QED
    BY <2>1, <2>2
<1>7. /\ Hides' => ~IsOn(node'["handler"])
      /\ Shows' => IsOn(node'["handler"])
      /\ pc'["actuator"] \notin Notifying
      /\ \A s \in Threads : pc'[s] \in Notifying => (IsOn(node'[s]) <=> IsOn(cur'))
  BY <1>1, <1>2, <1>3 DEF SoundInv, Hides, Shows, At, Notifying, IsOn
<1>8. cur' = NoNode \/ IsOn(cur')
  BY <1>2 DEF SoundInv, IsOn
<1>9. QED
  BY <1>5, <1>6, <1>7, <1>8 DEF SoundInv, At, IsOn

LEMMA PageKeepsSound ==
  ASSUME TypeInv, SoundInv, NEW t \in Threads, MsgSend(t)
  PROVE  SoundInv'
<1> DEFINE v == node[t].view
<1>1. /\ Threads = {"receiver", "handler", "actuator"}
      /\ pc \in [Threads -> Places] /\ node \in [Threads -> Node]
      /\ hmi \in [Views -> SUBSET AllExtras] /\ v \in Views
  BY DEF Threads, TypeInv, TypeOK, MsgGiven, MsgSend
<1>2. /\ UNCHANGED <<cur, audio>>
      /\ At(t, "page")
      /\ pc' = [pc EXCEPT ![t] = "idle"]
      /\ node' = [node EXCEPT ![t] = NoNode]
  BY DEF MsgSend, Leaves, Go
<1>3. /\ pc'[t] = "idle" /\ pc[t] = "page" /\ t # "actuator"
      /\ \A u \in Threads \ {t} : pc'[u] = pc[u] /\ node'[u] = node[u]
  BY <1>1, <1>2 DEF At, SoundInv, Notifying
<1>4. /\ \A u \in Views \ {v} :
           /\ hmi'[u] = hmi[u]
           /\ <<u, "page">> \in missed' <=> <<u, "page">> \in missed
      /\ \A u \in Views : <<u, "sound">> \in missed' <=> <<u, "sound">> \in missed
      /\ <<v, "page">> \notin missed' => hmi'[v] = node[t].on
  <2>1. CASE m_isConnected
    <3>1. /\ hmi' = [hmi EXCEPT ![v] = node[t].on]
          /\ missed' = missed \ {<<v, "page">>}
      BY <2>1 DEF MsgSend
    <3>2. hmi'[v] = node[t].on /\ \A u \in Views \ {v} : hmi'[u] = hmi[u]
      BY <1>1, <3>1
    <3>3. /\ \A u \in Views \ {v} : <<u, "page">> \in missed' <=> <<u, "page">> \in missed
          /\ \A u \in Views : <<u, "sound">> \in missed' <=> <<u, "sound">> \in missed
      BY <3>1
    <3>4. QED
      BY <3>2, <3>3
  <2>2. CASE ~m_isConnected
    <3>1. hmi' = hmi /\ missed' = missed \cup {<<v, "page">>}
      BY <2>2 DEF MsgSend
    <3>2. QED
      BY <3>1
  <2>3. QED
    BY <2>1, <2>2
<1>5. SoundAgrees'
  <2> SUFFICES ASSUME NEW u \in Bound,
                      <<u, "sound">> \notin missed', <<u, "page">> \notin missed',
                      \A s \in Threads : At(s, "page")' => node'[s].view # u
               PROVE  audio'[u] = "ON" <=> hmi'[u] # {}
    BY DEF SoundAgrees
  <2>1. u \in Views
    BY ViewAssumption
  <2>2. CASE u = v
    <3>1. hmi'[u] = node[t].on /\ <<v, "sound">> \notin missed
      BY <1>1, <1>4, <2>2
    <3>2. audio[v] = "ON" <=> IsOn(cur)
      BY <1>3, <2>2, <3>1 DEF SoundInv, At
    <3>3. IsOn(node[t]) <=> IsOn(cur)
      BY <1>3 DEF SoundInv, Notifying
    <3>4. QED
      BY <1>2, <2>2, <3>1, <3>2, <3>3 DEF IsOn
  <2>3. CASE u # v
    <3>1. <<u, "sound">> \notin missed /\ <<u, "page">> \notin missed /\ hmi'[u] = hmi[u]
      BY <1>4, <2>1, <2>3
    <3>2. \A s \in Threads : At(s, "page") => node[s].view # u
      BY <1>3, <2>3 DEF At
    <3>3. QED
      BY <1>2, <3>1, <3>2 DEF SoundInv, SoundAgrees
  <2>4. QED
    BY <2>2, <2>3
<1>6. \A s \in Threads :
        At(s, "page")' /\ node'[s].view \in Bound /\ <<node'[s].view, "sound">> \notin missed' =>
          (audio'[node'[s].view] = "ON" <=> IsOn(cur'))
  <2> SUFFICES ASSUME NEW s \in Threads, pc'[s] = "page", node'[s].view \in Bound,
                      <<node'[s].view, "sound">> \notin missed'
               PROVE  audio[node'[s].view] = "ON" <=> IsOn(cur)
    BY <1>2 DEF At
  <2>1. s # t /\ pc[s] = "page" /\ node'[s] = node[s]
    BY <1>3
  <2>2. <<node[s].view, "sound">> \notin missed
    BY <1>4, <2>1, ViewAssumption
  <2>3. QED
    BY <2>1, <2>2 DEF SoundInv, At
<1>7. /\ Hides' => ~IsOn(node'["handler"])
      /\ Shows' => IsOn(node'["handler"])
      /\ pc'["actuator"] \notin Notifying
      /\ \A s \in Threads : pc'[s] \in Notifying => (IsOn(node'[s]) <=> IsOn(cur'))
  BY <1>1, <1>2, <1>3 DEF SoundInv, Hides, Shows, At, Notifying, IsOn
<1>8. cur' = NoNode \/ IsOn(cur')
  BY <1>2 DEF SoundInv, IsOn
<1>9. QED
  BY <1>5, <1>6, <1>7, <1>8 DEF SoundInv, At, IsOn

LEMMA NotifiesKeepSound ==
  ASSUME TypeInv, SoundInv, NEW t \in {"receiver", "handler"}, Notifies(t)
  PROVE  SoundInv'
<1>1. CASE Notify(t)
  <2>1. /\ pc \in [Threads -> Places] /\ node \in [Threads -> Node] /\ t \in Threads
        /\ pc[t] = "notify"
    BY <1>1 DEF TypeInv, TypeOK, Threads, Notify, At
  <2>2. UNCHANGED <<cur, hmi, audio, missed>>
    BY <1>1 DEF Notify, output
  <2>3. CASE UNCHANGED node /\ \E p \in {"sound", "page"} : Go(t, p)
    <3>1. PICK p \in {"sound", "page"} : pc' = [pc EXCEPT ![t] = p]
      BY <2>3 DEF Go
    <3>2. CASE p = "sound"
      BY <2>1, <2>2, <2>3, <3>1, <3>2, SilentKeepsSound
         DEF SoundInv, Notifying, Hides, Shows, At
    <3>3. CASE p = "page"
      <4>1. node[t].view \notin Bound
        BY <1>1, <2>1, <3>1, <3>3 DEF Notify, Go, Leaves
      <4>2. /\ pc'[t] = "page" /\ \A u \in Threads \ {t} : pc'[u] = pc[u]
            /\ UNCHANGED <<node, cur, hmi, audio, missed>>
        BY <2>1, <2>2, <2>3, <3>1, <3>3
      <4>3. SoundAgrees'
        <5> SUFFICES ASSUME NEW u \in Bound,
                            {<<u, "sound">>, <<u, "page">>} \cap missed = {},
                            \A s \in Threads : At(s, "page")' => node[s].view # u
                     PROVE  audio[u] = "ON" <=> hmi[u] # {}
          BY <4>2 DEF SoundAgrees
        <5>1. \A s \in Threads : At(s, "page") => node[s].view # u
          BY <2>1, <4>2 DEF At
        <5>2. QED
          BY <5>1 DEF SoundInv, SoundAgrees
      <4>4. \A s \in Threads :
              At(s, "page")' /\ node'[s].view \in Bound /\ <<node'[s].view, "sound">> \notin missed' =>
                (audio'[node'[s].view] = "ON" <=> IsOn(cur'))
        BY <4>1, <4>2 DEF SoundInv, At
      <4>5. /\ Hides' => ~IsOn(node'["handler"])
            /\ Shows' => IsOn(node'["handler"])
            /\ pc'["actuator"] \notin Notifying
            /\ \A s \in Threads : pc'[s] \in Notifying => (IsOn(node'[s]) <=> IsOn(cur'))
        BY <2>1, <4>2 DEF SoundInv, Hides, Shows, At, Notifying, IsOn, Threads
      <4>6. QED
        BY <4>2, <4>3, <4>4, <4>5 DEF SoundInv, At, IsOn
    <3>4. QED
      BY <3>2, <3>3
  <2>4. CASE Leaves(t)
    <3>1. /\ pc'[t] = "idle"
          /\ \A u \in Threads \ {t} : pc'[u] = pc[u] /\ node'[u] = node[u]
      BY <2>1, <2>4 DEF Leaves, Go
    <3>2. QED
      BY <2>1, <2>2, <3>1, SilentKeepsSound DEF Notifying, Hides, Shows, At
  <2>5. QED
    BY <1>1, <2>3, <2>4 DEF Notify
<1>2. CASE SendAudioWarnInfo(t)
  BY <1>2, SendKeepsSound DEF Threads
<1>3. CASE MsgSend(t)
  BY <1>3, PageKeepsSound DEF Threads
<1>4. QED
  BY <1>1, <1>2, <1>3 DEF Notifies

LEMMA StepSound == TypeInv /\ SoundInv /\ [Next]_vars => SoundInv'
<1> SUFFICES ASSUME TypeInv, SoundInv, [Next]_vars PROVE SoundInv'
  OBVIOUS
<1>1. /\ pc \in [Threads -> Places] /\ node \in [Threads -> Node] /\ TypeOK
      /\ Threads = {"receiver", "handler", "actuator"}
  BY DEF TypeInv, TypeOK, Threads
<1>2. CASE UNCHANGED <<pc, node, cur, hmi, audio, missed>>
  BY <1>2, StillKeepsSound
<1>3. CASE UNCHANGED vars
  BY <1>2, <1>3 DEF vars, steps, output
\* A thread other than the handler, on its way through the lists.
<1>4. ASSUME NEW t \in {"receiver", "actuator"}, NEW p \in Places \ Notifying, NEW n,
             pc[t] # "page", pc' = [pc EXCEPT ![t] = p],
             node' = [node EXCEPT ![t] = n] \/ node' = node,
             UNCHANGED <<cur, output>>
      PROVE  SoundInv'
  <2>1. /\ pc'[t] = p /\ t \in Threads
        /\ \A u \in Threads \ {t} : pc'[u] = pc[u] /\ node'[u] = node[u]
    BY <1>1, <1>4
  <2>2. p # "page" /\ p \notin Notifying
    BY DEF Notifying
  <2>3. QED
    BY <1>4, <2>1, <2>2, SilentKeepsSound DEF output, At
<1>5. CASE Receive
  <2>1. CASE ReceiveGetCurrWarn
    <3>1. /\ pc' = [pc EXCEPT !["receiver"] = "notify"] /\ At("receiver", "idle")
          /\ node' = [node EXCEPT !["receiver"] = cur]
          /\ UNCHANGED <<cur, hmi, audio, missed>>
      BY <2>1 DEF ReceiveGetCurrWarn, Receives, output
    <3>2. /\ pc'["receiver"] = "notify" /\ node'["receiver"] = cur /\ "receiver" \in Threads
          /\ \A u \in Threads \ {"receiver"} : pc'[u] = pc[u] /\ node'[u] = node[u]
      BY <1>1, <3>1
    <3>3. QED
      BY <3>1, <3>2, SilentKeepsSound DEF At
  <2>2. ASSUME NEW m \in Messages, ReceiveWarn(m) PROVE SoundInv'
    <3>1. PICK p \in {"serious", "inLoop"} : pc' = [pc EXCEPT !["receiver"] = p]
      BY <2>2 DEF ReceiveWarn, Go
    <3>2. p \in Places \ Notifying
      BY DEF Places, Notifying
    <3>3. QED
      BY <1>4, <2>2, <3>1, <3>2 DEF ReceiveWarn, At
  <2>3. QED
    BY <1>2, <1>5, <2>1, <2>2
       DEF Receive, ReceiveAcc, ReceiveWarnHiden, Receives, steps, output
<1>6. CASE Receiver
  <2>1. CASE Notifies("receiver")
    BY <2>1, NotifiesKeepSound
  <2>2. CASE UpdateSeriousWarnList
    BY <1>4, <2>2 DEF UpdateSeriousWarnList, Go, At, Places, Notifying
  <2>3. CASE IsNodeExistInLoopList
    BY <1>4, <2>3 DEF IsNodeExistInLoopList, Go, At, Places, Notifying
  <2>4. CASE GetLoopDoorInfoNode
    BY <1>4, <2>4 DEF GetLoopDoorInfoNode, Go, At, Places, Notifying
  <2>5. CASE TakeFromLoop
    BY <1>4, <2>5 DEF TakeFromLoop, Go, At, Places, Notifying
  <2>6. CASE IsNodeExistInFreshList
    BY <1>4, <2>6 DEF IsNodeExistInFreshList, Go, At, Places, Notifying
  <2>7. CASE SetFreshNode
    BY <1>4, <2>7 DEF SetFreshNode, Go, At, Places, Notifying
  <2>8. CASE AppendFresh
    BY <1>4, <2>8 DEF AppendFresh, Go, At, Places, Notifying
  <2>9. CASE AppendDoorInfo
    BY <1>4, <2>9 DEF AppendDoorInfo, Received, Leaves, Go, At, Places, Notifying
  <2>10. CASE SortLoop
    BY <1>4, <2>10 DEF SortLoop, Received, Leaves, Go, At, Places, Notifying
  <2>11. QED
    BY <1>6, <2>1, <2>2, <2>3, <2>4, <2>5, <2>6, <2>7, <2>8, <2>9, <2>10 DEF Receiver
<1>7. CASE RemoveWarn
  <2>1. CASE RemoveCurrentWarn
    BY <1>4, <2>1 DEF RemoveCurrentWarn, Go, At, Places, Notifying
  <2>2. CASE EraseSeriousWarnListNode("actuator")
    BY <1>4, <2>2 DEF EraseSeriousWarnListNode, After, Go, At, Places, Notifying
  <2>3. CASE EraseFreshWarnListNode("actuator")
    BY <1>4, <2>3 DEF EraseFreshWarnListNode, After, Go, At, Places, Notifying
  <2>4. CASE EraseLoopWarnListNode("actuator")
    BY <1>4, <2>4 DEF EraseLoopWarnListNode, After, Go, At, Places, Notifying
  <2>5. CASE PushLoopAgain
    BY <1>4, <2>5 DEF PushLoopAgain, Leaves, Go, At, Places, Notifying
  <2>6. QED
    BY <1>7, <2>1, <2>2, <2>3, <2>4, <2>5 DEF RemoveWarn
<1>8. CASE Timers
  BY <1>2, <1>8
     DEF Timers, AtLeastExpire, AtLeastTimerThreadFun, WarnShowTimerThreadFun, steps, output
<1>9. CASE Link
  BY <1>2, <1>9 DEF Link, on_disconnect_callback, on_connect_callback, steps
<1>10. CASE Handler
  <2>1. ASSUME NEW p, pc["handler"] # "page", pc' = [pc EXCEPT !["handler"] = p],
               p \notin Notifying, NEW n,
               node' = [node EXCEPT !["handler"] = n],
               p \in {"eraseSerious", "eraseFresh", "eraseLoop", "stop", "clear"} => ~IsOn(n),
               p \in {"show", "set"} => IsOn(n),
               UNCHANGED <<cur, output>>
        PROVE  SoundInv'
    <3>1. /\ pc'["handler"] = p /\ node'["handler"] = n /\ "handler" \in Threads
          /\ \A u \in Threads \ {"handler"} : pc'[u] = pc[u] /\ node'[u] = node[u]
      BY <1>1, <2>1
    <3>2. (Hides' => ~IsOn(n)) /\ (Shows' => IsOn(n))
      BY <2>1, <3>1 DEF Hides, Shows, At
    <3>3. QED
      BY <2>1, <3>1, <3>2, SilentKeepsSound DEF output, At, Notifying
  <2>2. ASSUME NEW p, pc["handler"] # "page", pc' = [pc EXCEPT !["handler"] = p],
               p \notin Notifying,
               p \in {"eraseSerious", "eraseFresh", "eraseLoop", "stop", "clear"} => Hides,
               p \in {"show", "set"} => Shows,
               UNCHANGED <<cur, node, output>>
        PROVE  SoundInv'
    <3>1. node' = [node EXCEPT !["handler"] = node["handler"]]
      BY <1>1, <2>2
    <3>2. QED
      BY <2>1, <2>2, <3>1 DEF SoundInv
  <2>3. ASSUME NEW n, Choose(n), UNCHANGED <<cur, output>>, pc["handler"] # "page"
        PROVE  SoundInv'
    <3>1. CASE n.view = NoView \/ n = cur
      <4>1. /\ pc' = [pc EXCEPT !["handler"] = "idle"]
            /\ node' = [node EXCEPT !["handler"] = NoNode]
        BY <2>3, <3>1 DEF Choose, Go
      <4>2. /\ "idle" \notin Notifying
            /\ "idle" \in {"eraseSerious", "eraseFresh", "eraseLoop", "stop", "clear"} =>
                 ~IsOn(NoNode)
            /\ "idle" \in {"show", "set"} => IsOn(NoNode)
        BY <3>1 DEF Notifying
      <4>3. UNCHANGED <<cur, output>> /\ pc["handler"] # "page"
        BY <2>3
      <4>4. QED
        BY <2>1, <4>1, <4>2, <4>3
    <3>2. CASE ~(n.view = NoView \/ n = cur) /\ IsOn(n)
      <4>1. /\ pc' = [pc EXCEPT !["handler"] = "show"]
            /\ node' = [node EXCEPT !["handler"] = n]
        BY <2>3, <3>2 DEF Choose, Go
      <4>2. /\ "show" \notin Notifying
            /\ "show" \in {"eraseSerious", "eraseFresh", "eraseLoop", "stop", "clear"} =>
                 ~IsOn(n)
            /\ "show" \in {"show", "set"} => IsOn(n)
        BY <3>2 DEF Notifying
      <4>3. UNCHANGED <<cur, output>> /\ pc["handler"] # "page"
        BY <2>3
      <4>4. QED
        BY <2>1, <4>1, <4>2, <4>3
    <3>3. CASE ~(n.view = NoView \/ n = cur) /\ ~IsOn(n)
      <4>1. /\ pc' = [pc EXCEPT !["handler"] = "eraseSerious"]
            /\ node' = [node EXCEPT !["handler"] = n]
        BY <2>3, <3>3 DEF Choose, Go
      <4>2. /\ "eraseSerious" \notin Notifying
            /\ "eraseSerious" \in {"eraseSerious", "eraseFresh", "eraseLoop", "stop", "clear"} =>
                 ~IsOn(n)
            /\ "eraseSerious" \in {"show", "set"} => IsOn(n)
        BY <3>3 DEF Notifying
      <4>3. UNCHANGED <<cur, output>> /\ pc["handler"] # "page"
        BY <2>3
      <4>4. QED
        BY <2>1, <4>1, <4>2, <4>3
    <3>4. QED
      BY <3>1, <3>2, <3>3
  <2>4. CASE GetSeriousWarnListNode
    BY <2>2, <2>3, <2>4 DEF GetSeriousWarnListNode, Go, At, Notifying
  <2>5. CASE GetFrashWarnListNode \/ GetLoopWarnListNode
    BY <2>3, <2>5 DEF GetFrashWarnListNode, GetLoopWarnListNode, At
  <2>6. CASE HandleWarnViews \/ PickList \/ StopShowTimer \/ StartTimers
    BY <2>2, <2>6
       DEF HandleWarnViews, PickList, StopShowTimer, StartTimers, Go, At, Hides, Shows, Notifying
  <2>7. CASE \/ EraseSeriousWarnListNode("handler")
             \/ EraseFreshWarnListNode("handler")
             \/ EraseLoopWarnListNode("handler")
    BY <2>2, <2>7
       DEF EraseSeriousWarnListNode, EraseFreshWarnListNode, EraseLoopWarnListNode, After,
           Go, At, Hides, Notifying
  <2>8. CASE ClearCurrent \/ SetCurrent
    BY <2>8, SetKeepsSound
  <2>9. CASE Notifies("handler")
    BY <2>9, NotifiesKeepSound
  <2>10. QED
    BY <1>10, <2>4, <2>5, <2>6, <2>7, <2>8, <2>9 DEF Handler
<1>11. QED
  BY <1>3, <1>5, <1>6, <1>7, <1>8, <1>9, <1>10 DEF Next

LEMMA InitSound == Init => SoundInv
  BY ViewAssumption
     DEF Init, SoundInv, SoundAgrees, Hides, Shows, At, Threads, Notifying

\* The sound of a warning agrees with its page unless a message was dropped,
\* whatever the ACC state, the hiding, the breaks of the connection and the
\* requests of the HMI.
THEOREM SoundCorrect == Spec => []SoundAgrees
<1>1. SoundInv => SoundAgrees
  BY DEF SoundInv
<1>2. QED
  BY <1>1, InitSound, InitTypes, StepTypes, StepSound, PTL DEF Spec

-----------------------------------------------------------------------------
(* The timers *)

\* The view the WarnShow timer is for: that of the node about to become current,
\* or of the current one.
OnScreen == IF At("handler", "set") THEN node["handler"].view ELSE cur.view

Chooses ==
  {"getSerious", "pick", "getFresh", "getLoop", "eraseSerious", "eraseFresh",
   "eraseLoop", "stop", "clear", "show"}

\* The flag is set by an expiry, and an expiry follows the minimum time: the
\* handler, once it has seen the flag, knows that this time is over even when a
\* get_curr_warn resets the flag during its pass.
TimerInv ==
  /\ \/ "expiry" \in races
     \/ done \/ expired \/ pc["handler"] \in Chooses => shown = AtLeastTime
  /\ races \cap {"post", "asked"} = {} =>
       (OnScreen \in Serious => ~showTimer /\ posts = 0)

LEMMA TimerInvSuffices == TypeInv /\ TimerInv => MinDisplay /\ SeriousUntimed
<1> SUFFICES ASSUME TypeInv, TimerInv PROVE MinDisplay /\ SeriousUntimed
  OBVIOUS
<1>1. AtLeastTime >= AtLeastTime
  BY DEF AtLeastTime
<1>2. MinDisplay
  BY <1>1 DEF TimerInv, Chooses, MinDisplay, At
<1>3. SeriousUntimed
  BY DEF TimerInv, OnScreen, SeriousUntimed
<1>4. QED
  BY <1>2, <1>3

LEMMA StepTimers == TypeInv /\ TimerInv /\ [Next]_vars => TimerInv'
<1> SUFFICES ASSUME TypeInv, TimerInv, [Next]_vars PROVE TimerInv'
  OBVIOUS
<1>1. /\ pc \in [Threads -> Places] /\ node \in [Threads -> Node]
      /\ Threads = {"receiver", "handler", "actuator"}
  BY DEF TypeInv, TypeOK, Threads
<1>2. CASE UNCHANGED <<timers, cur, pc["handler"], node["handler"]>>
  BY <1>2 DEF TimerInv, OnScreen, At, timers
\* A thread other than the handler moves.
<1>3. ASSUME NEW t \in {"receiver", "actuator"},
             \/ UNCHANGED pc
             \/ \E p : pc' = [pc EXCEPT ![t] = p],
             \/ UNCHANGED node
             \/ \E n : node' = [node EXCEPT ![t] = n]
      PROVE  UNCHANGED <<pc["handler"], node["handler"]>>
  BY <1>1, <1>3
<1>4. CASE UNCHANGED vars
  BY <1>2, <1>4 DEF vars, steps
<1>5. CASE Receive
  <2>1. CASE ReceiveGetCurrWarn
    <3>1. /\ done' = FALSE /\ showTimer' = (cur.view \notin Serious)
          /\ UNCHANGED <<expired, posts, shown, cur>>
          /\ races' = races \cup (IF At("handler", "set") THEN {"asked"} ELSE {})
          /\ pc' = [pc EXCEPT !["receiver"] = "notify"]
          /\ node' = [node EXCEPT !["receiver"] = cur]
      BY <2>1 DEF ReceiveGetCurrWarn, RestartTimers, Receives
    <3>2. UNCHANGED <<pc["handler"], node["handler"]>>
      BY <1>3, <3>1
    <3>3. \/ "expiry" \in races'
          \/ done' \/ expired' \/ pc'["handler"] \in Chooses => shown' = AtLeastTime
      BY <3>1, <3>2 DEF TimerInv
    <3>4. CASE At("handler", "set")
      BY <3>1, <3>3, <3>4 DEF TimerInv
    <3>5. CASE ~At("handler", "set")
      <4>1. OnScreen' = cur.view /\ OnScreen = cur.view /\ races' = races
        BY <3>1, <3>2, <3>5 DEF OnScreen, At
      <4>2. QED
        BY <3>1, <3>3, <4>1 DEF TimerInv
    <3>6. QED
      BY <3>4, <3>5
  <2>2. QED
    BY <1>2, <1>3, <1>5, <2>1
       DEF Receive, ReceiveAcc, ReceiveWarnHiden, ReceiveWarn, Receives, Go, steps
<1>6. ASSUME NEW t \in {"receiver", "actuator"}, Notifies(t) PROVE TimerInv'
  BY <1>2, <1>3, <1>6 DEF Notifies, Notify, SendAudioWarnInfo, MsgSend, Leaves, Go
<1>7. CASE Receiver
  BY <1>2, <1>3, <1>6, <1>7
     DEF Receiver, UpdateSeriousWarnList, IsNodeExistInLoopList, GetLoopDoorInfoNode,
         TakeFromLoop, IsNodeExistInFreshList, SetFreshNode, AppendFresh, AppendDoorInfo,
         SortLoop, Received, Leaves, Go
<1>8. CASE RemoveWarn
  <2>1. CASE RemoveCurrentWarn
    <3>1. /\ UNCHANGED <<done, expired, showTimer, shown, races, cur>>
          /\ posts' = posts - 1 /\ posts > 0
          /\ UNCHANGED <<pc["handler"], node["handler"]>>
      BY <1>3, <2>1 DEF RemoveCurrentWarn, Go
    <3>2. UNCHANGED OnScreen
      BY <3>1 DEF OnScreen, At
    <3>3. posts > 0 => posts # 0
      BY DEF TypeInv, TypeOK
    <3>4. QED
      BY <3>1, <3>2, <3>3 DEF TimerInv
  <2>2. QED
    BY <1>2, <1>3, <1>8, <2>1
       DEF RemoveWarn, EraseSeriousWarnListNode, EraseFreshWarnListNode,
           EraseLoopWarnListNode, PushLoopAgain, Leaves, Go
<1>9. CASE Timers
  BY <1>9
     DEF Timers, AtLeastExpire, AtLeastTimerThreadFun, WarnShowTimerThreadFun, steps,
         TimerInv, OnScreen, At
<1>10. CASE Link
  BY <1>2, <1>10 DEF Link, on_disconnect_callback, on_connect_callback, steps
<1>11. CASE Handler
  <2> USE DEF TimerInv, Chooses, OnScreen, At, Go, timers
  <2>1. CASE HandleWarnViews \/ PickList
    BY <1>1, <2>1 DEF HandleWarnViews, PickList
  <2>2. ASSUME NEW n, Choose(n), UNCHANGED <<timers, cur>>,
               pc["handler"] \in {"getSerious", "getFresh", "getLoop"}
        PROVE  TimerInv'
    BY <1>1, <2>2 DEF Choose
  <2>3. CASE GetSeriousWarnListNode
    BY <1>1, <2>2, <2>3 DEF GetSeriousWarnListNode
  <2>4. CASE GetFrashWarnListNode \/ GetLoopWarnListNode
    BY <2>2, <2>4 DEF GetFrashWarnListNode, GetLoopWarnListNode
  <2>5. CASE \/ EraseSeriousWarnListNode("handler")
             \/ EraseFreshWarnListNode("handler")
             \/ EraseLoopWarnListNode("handler")
    BY <1>1, <2>5
       DEF EraseSeriousWarnListNode, EraseFreshWarnListNode, EraseLoopWarnListNode, After
  <2>6. CASE StopShowTimer
    BY <1>1, <2>6 DEF StopShowTimer
  <2>7. CASE ClearCurrent
    BY <1>1, <2>7, ViewAssumption DEF ClearCurrent, NoNode
  <2>8. CASE StartTimers
    <3>1. /\ done' = FALSE /\ showTimer' = (node["handler"].view \notin Serious)
          /\ UNCHANGED <<expired, posts, cur, node>> /\ shown' = 0
          /\ races' = (IF expired THEN {"expiry"} ELSE {}) \cup
                      (IF posts > 0 THEN {"post"} ELSE {})
          /\ pc'["handler"] = "set"
      BY <1>1, <2>8 DEF StartTimers, RestartTimers
    <3>2. posts \in Nat
      BY BoundAssumption DEF TypeInv, TypeOK
    <3>3. races' \cap {"post", "asked"} = {} => posts = 0
      BY <3>1, <3>2
    <3>4. QED
      BY <3>1, <3>3
  <2>9. CASE SetCurrent
    BY <1>1, <2>9 DEF SetCurrent
  <2>10. CASE Notifies("handler")
    BY <1>1, <2>10 DEF Notifies, Notify, SendAudioWarnInfo, MsgSend, Leaves
  <2>11. QED
    BY <1>11, <2>1, <2>3, <2>4, <2>5, <2>6, <2>7, <2>8, <2>9, <2>10 DEF Handler
<1>12. QED
  BY <1>4, <1>5, <1>7, <1>8, <1>9, <1>10, <1>11 DEF Next

LEMMA InitTimers == Init => TimerInv
  BY ViewAssumption DEF Init, TimerInv, Chooses, OnScreen, At, Threads, NoNode

\* A warning keeps the screen for the minimum time, whatever is requested.
THEOREM MinDisplayCorrect == Spec => []MinDisplay
<1>1. TypeInv /\ TimerInv => MinDisplay
  BY TimerInvSuffices
<1>2. QED
  BY <1>1, InitTimers, StepTimers, InitTypes, StepTypes, PTL DEF Spec

\* No display timer and no post of it is left for a serious warning, unless the
\* one or the other raced its coming to the screen.
THEOREM SeriousUntimedCorrect == Spec => []SeriousUntimed
<1>1. TypeInv /\ TimerInv => SeriousUntimed
  BY TimerInvSuffices
<1>2. QED
  BY <1>1, InitTimers, StepTimers, InitTypes, StepTypes, PTL DEF Spec

-----------------------------------------------------------------------------
(* No repeating warning is lost between the lists *)

NodeOn(n, v) == n.view = v => IsOn(n)
AllOn(s, v)  == \A i \in DOMAIN s : NodeOn(s[i], v)

\* Erasing the first node of a view leaves the other views in the list.
LEMMA EraseKeepsOthers ==
  ASSUME NEW s \in Seq(Node), NEW u, NEW v, u # v, Has(s, v)
  PROVE  Has(Erase(s, u), v)
<1>1. CASE ~Has(s, u)
  BY <1>1 DEF Erase
<1>2. CASE Has(s, u)
  <2>1. PICK k \in 1..Len(s) : k = FirstAt(s, u) /\ s[k].view = u
    BY <1>2, FirstAtIn
  <2>2. PICK i \in 1..Len(s) : s[i].view = v
    BY DEF Has
  <2> DEFINE a == SubSeq(s, 1, k - 1)
             b == SubSeq(s, k + 1, Len(s))
  <2>3. Erase(s, u) = a \o b
    BY <1>2, <2>1 DEF Erase, RemoveAt
  <2>4. /\ a \in Seq(Node) /\ Len(a) = k - 1
        /\ \A j \in 1..(k - 1) : a[j] = s[j]
    BY <2>1
  <2>5. /\ b \in Seq(Node) /\ Len(b) = Len(s) - k
        /\ \A j \in 1..(Len(s) - k) : b[j] = s[k + j]
    BY <2>1
  <2> HIDE DEF a, b
  <2>6. /\ a \o b \in Seq(Node) /\ Len(a \o b) = Len(a) + Len(b)
        /\ \A j \in 1..(Len(a) + Len(b)) :
             (a \o b)[j] = IF j <= Len(a) THEN a[j] ELSE b[j - Len(a)]
    BY <2>4, <2>5, ConcatProperties
  <2>7. Len(a) + Len(b) = Len(s) - 1
    BY <2>1, <2>4, <2>5
  <2>8. \E j \in 1..(Len(s) - 1) : (a \o b)[j] = s[i]
    <3>1. CASE i < k
      <4>1. i \in 1..(k - 1) /\ i \in 1..(Len(s) - 1) /\ i <= Len(a)
        BY <2>1, <2>2, <2>4, <3>1
      <4>2. (a \o b)[i] = a[i] /\ a[i] = s[i]
        BY <2>4, <2>6, <2>7, <4>1
      <4>3. QED
        BY <4>1, <4>2
    <3>2. CASE ~(i < k)
      <4>1. i # k
        BY <2>1, <2>2, Zenon
      <4>2. /\ i - k \in 1..(Len(s) - k) /\ k + (i - k) = i
            /\ i - 1 \in 1..(Len(s) - 1) /\ ~(i - 1 <= Len(a)) /\ (i - 1) - Len(a) = i - k
        <5>1. PICK n \in Nat : n = Len(s)
          OBVIOUS
        <5>2. PICK m \in Int : m = Len(a) /\ m = k - 1
          BY <2>4
        <5>3. k \in 1..n /\ i \in 1..n /\ k < i
          BY <3>2, <4>1, <5>1
        <5>4. /\ i - k \in 1..(n - k) /\ k + (i - k) = i
              /\ i - 1 \in 1..(n - 1) /\ ~(i - 1 <= m) /\ (i - 1) - m = i - k
          BY <5>2, <5>3
        <5>5. QED
          BY <5>1, <5>2, <5>4
      <4>3. (a \o b)[i - 1] = b[i - k]
        BY <2>6, <2>7, <4>2
      <4>4. b[i - k] = s[i]
        BY <2>5, <4>2
      <4>5. QED
        BY <4>2, <4>3, <4>4
    <3>3. QED
      BY <3>1, <3>2
  <2>9. PICK j \in 1..(Len(s) - 1) : (a \o b)[j] = s[i]
    BY <2>8
  <2>10. DOMAIN (a \o b) = 1..(Len(s) - 1)
    BY <2>6, <2>7
  <2>11. QED
    BY <2>2, <2>3, <2>9, <2>10 DEF Has
<1>3. QED
  BY <1>1, <1>2

LEMMA EraseKeepsOn ==
  ASSUME NEW s \in Seq(Node), NEW u, NEW v, AllOn(s, v)
  PROVE  AllOn(Erase(s, u), v)
<1>1. PICK t : t = Erase(s, u)
  OBVIOUS
<1>2. t \in Seq(Node) /\ \E k \in Nat : LeavesOut(s, t, k)
  BY <1>1, EraseSkipsOne
<1>3. PICK k \in Nat : LeavesOut(s, t, k)
  BY <1>2
<1>4. ASSUME NEW i \in DOMAIN t PROVE \E j \in DOMAIN s : t[i] = s[j]
  BY <1>2, <1>3 DEF LeavesOut
<1>5. QED
  BY <1>1, <1>4 DEF AllOn

LEMMA SortKeepsNodes ==
  ASSUME NEW s \in Seq(Node), NEW t \in SortedByPriority(s), NEW v
  PROVE  /\ Has(s, v) => Has(t, v)
         /\ AllOn(s, v) => AllOn(t, v)
<1>1. PICK p \in Bijection(DOMAIN s, DOMAIN s) : t = [i \in DOMAIN s |-> s[p[i]]]
  BY DEF SortedByPriority
<1>2. p \in [DOMAIN s -> DOMAIN s] /\ \A j \in DOMAIN s : \E i \in DOMAIN s : p[i] = j
  BY <1>1 DEF Bijection, Surjection
<1>3. QED
  BY <1>1, <1>2 DEF Has, AllOn

LEMMA UpdateKeepsNodes ==
  ASSUME NEW s \in Seq(Node), NEW m \in Messages, NEW v, m.view = v => m.status = "ON"
  PROVE  /\ Has(s, v) => Has(UpdateFirst(s, m), v)
         /\ AllOn(s, v) => AllOn(UpdateFirst(s, m), v)
<1>1. Has(s, v) => Has(UpdateFirst(s, m), v)
  BY UpdateFirstKeepsNames DEF Has
<1>2. ASSUME AllOn(s, v) PROVE AllOn(UpdateFirst(s, m), v)
  <2>1. CASE ~Has(s, m.view)
    BY <1>2, <2>1 DEF UpdateFirst
  <2>2. CASE Has(s, m.view)
    <3>1. PICK k \in 1..Len(s) : k = FirstAt(s, m.view) /\ s[k].view = m.view
      BY <2>2, FirstAtIn
    <3>2. UpdateFirst(s, m) = [s EXCEPT ![k] = Updated(s[k], m)]
      BY <2>2, <3>1 DEF UpdateFirst
    <3>3. s[k] \in Node
      BY <3>1
    <3>4. NodeOn(Updated(s[k], m), v)
      BY <3>1, <3>3 DEF NodeOn, Updated, Node, IsOn
    <3>5. QED
      BY <1>2, <3>1, <3>2, <3>4 DEF AllOn
  <2>3. QED
    BY <2>1, <2>2
<1>3. QED
  BY <1>1, <1>2

LEMMA AppendKeepsNodes ==
  ASSUME NEW s \in Seq(Node), NEW n \in Node, NEW v
  PROVE  /\ Has(s, v) => Has(Append(s, n), v)
         /\ n.view = v => Has(Append(s, n), v)
         /\ AllOn(s, v) /\ NodeOn(n, v) => AllOn(Append(s, n), v)
<1>1. PICK t : t = Append(s, n)
  OBVIOUS
<1>2. /\ DOMAIN t = 1..Len(s) + 1 /\ DOMAIN s = 1..Len(s) /\ Len(s) \in Nat
      /\ \A i \in 1..Len(s) : t[i] = s[i]
      /\ t[Len(s) + 1] = n
  BY <1>1
<1>3. /\ \A i \in DOMAIN s : i \in DOMAIN t
      /\ Len(s) + 1 \in DOMAIN t
      /\ \A i \in DOMAIN t : i \in DOMAIN s \/ i = Len(s) + 1
  BY <1>2
<1>4. QED
  BY <1>1, <1>2, <1>3 DEF Has, AllOn

\* Where warning v is when it is in neither list: with the actuator, between
\* its removal and its insertion, or with the receiver, which found it in no
\* list or takes it from one to append it to another.  No copy of it is OFF.
Pushed(v)  == At("actuator", "push") /\ node["actuator"].view = v
Held(v)    == Has(fresh, v) \/ Has(loop, v) \/ Pushed(v)
Carried(v) == msg.view = v /\ pc["receiver"] \in {"inLoop", "fromLoop", "inFresh", "append"}

Stays(v)   == msg.view = v => msg.status = "ON"

NodesOn(v) ==
  /\ AllOn(fresh, v) /\ AllOn(loop, v) /\ NodeOn(cur, v)
  /\ \A t \in Threads : NodeOn(node[t], v)

Waits(v) ==
  /\ At("receiver", "getLoop") \/ At("receiver", "appendDoor") => msg.view # v
  /\ msg.view = v /\ pc["receiver"] \in {"fromLoop", "inFresh", "append"} =>
       node["receiver"].view = v
  /\ told[v] # {} => Held(v) \/ Carried(v)

\* Nodes of the serious list are of other warnings.
LEMMA HeadsOn ==
  ASSUME TypeOK, SeriousOrdered, NEW v \in Repeat \ Serious, NodesOn(v)
  PROVE  NodeOn(HeadOf(serious), v) /\ NodeOn(HeadOf(fresh), v) /\ NodeOn(HeadOf(loop), v)
<1>1. NodeOn(NoNode, v)
  BY ViewAssumption DEF NoNode, NodeOn
<1>2. \A s \in Seq(Node) : s # <<>> => 1 \in DOMAIN s
  OBVIOUS
<1>3. NodeOn(HeadOf(serious), v)
  BY <1>1, <1>2 DEF TypeOK, SeriousOrdered, HeadOf, NodeOn
<1>4. NodeOn(HeadOf(fresh), v)
  BY <1>1, <1>2 DEF TypeOK, NodesOn, AllOn, HeadOf
<1>5. NodeOn(HeadOf(loop), v)
  BY <1>1, <1>2 DEF TypeOK, NodesOn, AllOn, HeadOf
<1>6. QED
  BY <1>3, <1>4, <1>5

\* What a message makes of a node.
LEMMA UpdatedOn ==
  ASSUME NEW n \in Node, NEW m \in Messages, NEW v, NodeOn(n, v),
         m.view = v => m.status = "ON", n.view = v => m.view = v
  PROVE  NodeOn(Updated(n, m), v)
  BY DEF NodeOn, Updated, Node, IsOn

LEMMA NewNodeOn ==
  ASSUME NEW m \in Messages, NEW v, m.view = v => m.status = "ON"
  PROVE  NodeOn(NewNode(m), v)
<1>1. [view |-> m.view, on |-> {}] \in Node
  BY NodeTypes DEF Node
<1>2. CASE m.view = v
  BY <1>2 DEF NodeOn, NewNode, Updated, IsOn
<1>3. CASE m.view # v
  BY <1>3, NodeTypes DEF NodeOn
<1>4. QED
  BY <1>2, <1>3

LEMMA StepNodesOn ==
  ASSUME NEW v \in Repeat \ (Serious \cup DoorViews)
  PROVE  TypeInv /\ SeriousOrdered /\ Stays(v) /\ NodesOn(v) /\ [Next]_vars =>
           NodesOn(v)'
<1> SUFFICES ASSUME TypeInv, SeriousOrdered, Stays(v), NodesOn(v), [Next]_vars
             PROVE  NodesOn(v)'
  OBVIOUS
<1>0. /\ fresh \in Seq(Node) /\ loop \in Seq(Node) /\ node \in [Threads -> Node]
      /\ cur \in Node /\ TypeOK /\ MsgGiven
  BY DEF TypeInv, TypeOK
<1>1. /\ AllOn(fresh, v) /\ AllOn(loop, v) /\ NodeOn(cur, v)
      /\ \A t \in Threads : NodeOn(node[t], v)
  BY DEF NodesOn
<1>2. NodeOn(NoNode, v)
  BY ViewAssumption DEF NoNode, NodeOn
<1>3. ASSUME UNCHANGED <<fresh, loop, cur>>, NEW t \in Threads, NEW n,
             NodeOn(n, v), node' = [node EXCEPT ![t] = n]
      PROVE  NodesOn(v)'
  BY <1>0, <1>1, <1>3 DEF NodesOn, AllOn, NodeOn
<1>4. ASSUME AllOn(fresh, v)', AllOn(loop, v)', UNCHANGED <<cur, node>>
      PROVE  NodesOn(v)'
  BY <1>1, <1>4 DEF NodesOn, NodeOn
<1>5. CASE UNCHANGED <<fresh, loop, cur, node>>
  BY <1>1, <1>5 DEF NodesOn, AllOn, NodeOn
<1>6. CASE UNCHANGED vars
  BY <1>5, <1>6 DEF vars, lists
<1>7. CASE Receive
  <2>1. CASE ReceiveGetCurrWarn
    BY <1>1, <1>3, <2>1 DEF ReceiveGetCurrWarn, Receives, lists, Threads
  <2>2. QED
    BY <1>5, <1>7, <2>1
       DEF Receive, ReceiveAcc, ReceiveWarnHiden, ReceiveWarn, Receives, lists
<1>14. ASSUME NEW t \in Threads, Notifies(t) PROVE NodesOn(v)'
  BY <1>2, <1>3, <1>5, <1>14
     DEF Notifies, Notify, SendAudioWarnInfo, MsgSend, Leaves, lists
<1>8. CASE Receiver /\ ~Notifies("receiver")
  <2>1. msg \in Messages /\ (msg.view = v => msg.status = "ON")
    BY <1>0, <1>8
       DEF Stays, MsgGiven, Receiver, UpdateSeriousWarnList, IsNodeExistInLoopList,
           GetLoopDoorInfoNode, TakeFromLoop, IsNodeExistInFreshList, SetFreshNode,
           AppendFresh, AppendDoorInfo, SortLoop, At, Notifying
  <2>2. CASE UpdateSeriousWarnList \/ IsNodeExistInFreshList
    BY <1>5, <2>2 DEF UpdateSeriousWarnList, IsNodeExistInFreshList, lists
  <2>3. CASE IsNodeExistInLoopList
    BY <1>3, <2>1, <2>3, NewNodeOn DEF IsNodeExistInLoopList, lists, Threads
  <2>4. CASE GetLoopDoorInfoNode
    <3>1. PICK n : /\ n = IF Has(loop, msg.view) THEN loop[FirstAt(loop, msg.view)] ELSE NoNode
                   /\ node' = [node EXCEPT !["receiver"] = Updated(n, msg)]
      BY <2>4 DEF GetLoopDoorInfoNode
    <3>2. n \in Node /\ NodeOn(n, v) /\ (n.view = v => msg.view = v)
      <4>1. CASE Has(loop, msg.view)
        <5>1. PICK k \in 1..Len(loop) : k = FirstAt(loop, msg.view) /\ loop[k].view = msg.view
          BY <1>0, <4>1, FirstAtIn
        <5>2. QED
          BY <1>0, <1>1, <3>1, <4>1, <5>1 DEF AllOn
      <4>2. CASE ~Has(loop, msg.view)
        BY <1>2, <3>1, <4>2, NodeTypes, ViewAssumption DEF NoNode
      <4>3. QED
        BY <4>1, <4>2
    <3>3. NodeOn(Updated(n, msg), v)
      BY <2>1, <3>2, UpdatedOn
    <3>4. QED
      BY <1>3, <2>4, <3>1, <3>3 DEF GetLoopDoorInfoNode, lists, Threads
  <2>5. CASE TakeFromLoop
    <3>1. AllOn(loop, v)' /\ AllOn(fresh, v)'
      BY <1>0, <1>1, <2>5, EraseKeepsOn DEF TakeFromLoop, AllOn
    <3>2. QED
      BY <1>4, <2>5, <3>1 DEF TakeFromLoop
  <2>6. CASE SetFreshNode
    <3>1. AllOn(loop, v)' /\ AllOn(fresh, v)'
      BY <1>0, <1>1, <2>1, <2>6, UpdateKeepsNodes DEF SetFreshNode, AllOn
    <3>2. QED
      BY <1>4, <2>6, <3>1 DEF SetFreshNode
  <2>7. ASSUME fresh' = Append(fresh, node["receiver"]), UNCHANGED loop
        PROVE  AllOn(fresh, v)' /\ AllOn(loop, v)'
    <3>1. AllOn(fresh', v)
      BY <1>0, <1>1, <2>7, AppendKeepsNodes DEF Threads
    <3>2. QED
      BY <1>1, <2>7, <3>1 DEF AllOn
  <2>8. CASE AppendFresh
    BY <1>4, <2>7, <2>8 DEF AppendFresh
  <2>9. ASSUME AllOn(fresh, v)', AllOn(loop, v)', UNCHANGED cur,
               node' = [node EXCEPT !["receiver"] = NoNode]
        PROVE  NodesOn(v)'
    BY <1>0, <1>1, <1>2, <2>9 DEF NodesOn, NodeOn
  <2>10. CASE AppendDoorInfo
    BY <2>7, <2>9, <2>10 DEF AppendDoorInfo, Received, Leaves
  <2>11. CASE SortLoop
    <3>1. AllOn(loop', v) /\ UNCHANGED fresh
      BY <1>0, <1>1, <2>11, SortKeepsNodes DEF SortLoop
    <3>2. AllOn(fresh, v)' /\ AllOn(loop, v)'
      BY <1>1, <3>1 DEF AllOn
    <3>3. QED
      BY <2>9, <2>11, <3>2 DEF SortLoop, Received, Leaves
  <2>12. QED
    BY <1>8, <2>2, <2>3, <2>4, <2>5, <2>6, <2>8, <2>10, <2>11 DEF Receiver
<1>9. ASSUME NEW t \in Threads,
             \/ EraseSeriousWarnListNode(t) \/ EraseFreshWarnListNode(t)
             \/ EraseLoopWarnListNode(t)
      PROVE  NodesOn(v)'
  <2>1. CASE EraseSeriousWarnListNode(t)
    BY <1>5, <2>1 DEF EraseSeriousWarnListNode
  <2>2. CASE EraseFreshWarnListNode(t)
    <3>1. AllOn(fresh, v)' /\ AllOn(loop, v)'
      BY <1>0, <1>1, <2>2, EraseKeepsOn DEF EraseFreshWarnListNode, AllOn
    <3>2. QED
      BY <1>4, <2>2, <3>1 DEF EraseFreshWarnListNode
  <2>3. CASE EraseLoopWarnListNode(t)
    <3>1. AllOn(loop, v)' /\ AllOn(fresh, v)'
      BY <1>0, <1>1, <2>3, EraseKeepsOn DEF EraseLoopWarnListNode, AllOn
    <3>2. QED
      BY <1>4, <2>3, <3>1 DEF EraseLoopWarnListNode
  <2>4. QED
    BY <1>9, <2>1, <2>2, <2>3
<1>10. CASE Handler
  <2>1. ASSUME NEW n, Choose(n), NodeOn(n, v), UNCHANGED <<lists, cur>> PROVE NodesOn(v)'
    <3>1. PICK x : /\ node' = [node EXCEPT !["handler"] = x]
                   /\ x = n \/ x = NoNode
      BY <2>1 DEF Choose
    <3>2. NodeOn(x, v)
      BY <1>2, <2>1, <3>1
    <3>3. QED
      BY <1>3, <2>1, <3>1, <3>2 DEF lists, Threads
  <2>2. NodeOn(HeadOf(serious), v) /\ NodeOn(HeadOf(fresh), v) /\ NodeOn(HeadOf(loop), v)
    BY <1>0, HeadsOn
  <2>3. CASE GetSeriousWarnListNode
    BY <1>5, <2>1, <2>2, <2>3 DEF GetSeriousWarnListNode, lists
  <2>4. CASE GetFrashWarnListNode \/ GetLoopWarnListNode
    BY <2>1, <2>2, <2>4 DEF GetFrashWarnListNode, GetLoopWarnListNode
  <2>5. CASE HandleWarnViews \/ PickList \/ StopShowTimer \/ StartTimers
    BY <1>5, <2>5 DEF HandleWarnViews, PickList, StopShowTimer, StartTimers, lists
  <2>6. CASE \/ EraseSeriousWarnListNode("handler")
             \/ EraseFreshWarnListNode("handler")
             \/ EraseLoopWarnListNode("handler")
    BY <1>9, <2>6 DEF Threads
  <2>7. ASSUME UNCHANGED <<lists, node>>, NodeOn(cur', v) PROVE NodesOn(v)'
    BY <1>1, <2>7 DEF NodesOn, lists, AllOn, NodeOn
  <2>8. CASE ClearCurrent \/ SetCurrent
    BY <1>1, <1>2, <2>7, <2>8 DEF ClearCurrent, SetCurrent, Threads
  <2>9. CASE Notifies("handler")
    BY <1>14, <2>9 DEF Threads
  <2>10. QED
    BY <1>10, <2>3, <2>4, <2>5, <2>6, <2>8, <2>9 DEF Handler
<1>11. CASE RemoveWarn
  <2>1. CASE RemoveCurrentWarn
    BY <1>1, <1>3, <2>1 DEF RemoveCurrentWarn, lists, Threads
  <2>2. CASE PushLoopAgain
    <3>1. PICK n : n = node["actuator"] /\ n \in Node /\ NodeOn(n, v)
      BY <1>0, <1>1 DEF Threads
    <3>2. AllOn(Append(loop, n), v)
      BY <1>0, <1>1, <3>1, AppendKeepsNodes
    <3>3. AllOn(loop', v) /\ UNCHANGED <<fresh, cur>>
      BY <1>1, <2>2, <3>1, <3>2 DEF PushLoopAgain
    <3>4. node' = [node EXCEPT !["actuator"] = NoNode]
      BY <2>2 DEF PushLoopAgain, Leaves
    <3>5. QED
      BY <1>0, <1>1, <1>2, <3>3, <3>4 DEF NodesOn, NodeOn, AllOn
  <2>3. QED
    BY <1>9, <1>11, <2>1, <2>2 DEF RemoveWarn, Threads
<1>12. CASE Timers
  BY <1>5, <1>12
     DEF Timers, AtLeastExpire, AtLeastTimerThreadFun, WarnShowTimerThreadFun, lists
<1>13. CASE Link
  BY <1>5, <1>13 DEF Link, on_disconnect_callback, on_connect_callback, lists
<1>15. QED
  BY <1>6, <1>7, <1>8, <1>10, <1>11, <1>12, <1>13, <1>14 DEF Next, Threads

LEMMA StepWaits ==
  ASSUME NEW v \in Repeat \ (Serious \cup DoorViews)
  PROVE  /\ TypeInv /\ SeriousOrdered /\ SoundInv /\ Stays(v) /\ NodesOn(v)
         /\ Waits(v) /\ [Next]_vars /\ Stays(v)'
         => Waits(v)'
<1> SUFFICES ASSUME TypeInv, SeriousOrdered, SoundInv, Stays(v), NodesOn(v),
                    Waits(v), [Next]_vars, Stays(v)'
             PROVE  Waits(v)'
  OBVIOUS
<1>0. /\ fresh \in Seq(Node) /\ loop \in Seq(Node) /\ node \in [Threads -> Node]
      /\ pc \in [Threads -> Places] /\ told \in [Views -> SUBSET AllExtras]
      /\ v \in Views /\ v # NoView
  BY ViewAssumption DEF TypeInv, TypeOK
<1>1. Threads = {"receiver", "handler", "actuator"}
  BY DEF Threads
\* The receiver stands still: only what is held matters.
<1>2. ASSUME Held(v) => Held(v)',
             UNCHANGED <<pc["receiver"], node["receiver"], msg, told>>
      PROVE  Waits(v)'
  BY <1>2 DEF Waits, Carried, At
\* The receiver alone moves, and the lists do not lose the warning.
<1>3. ASSUME UNCHANGED <<pc["actuator"], node["actuator"]>>,
             Has(fresh, v) => Has(fresh', v), Has(loop, v) => Has(loop', v)
      PROVE  Held(v) => Held(v)'
  BY <1>3 DEF Held, Pushed, At, Has
<1>4. ASSUME UNCHANGED <<fresh, loop, pc["receiver"], node["receiver"], msg, told,
                         pc["actuator"], node["actuator"]>>
      PROVE  Waits(v)'
  BY <1>2, <1>3, <1>4
<1>5. CASE UNCHANGED vars
  BY <1>4, <1>5 DEF vars, lists, steps, input
<1>6. CASE Receive
  <2>1. ASSUME NEW m \in Messages, ReceiveWarn(m) PROVE Waits(v)'
    <3>1. /\ At("receiver", "idle") /\ msg' = m
          /\ told' = [told EXCEPT ![m.view] =
                        IF m.status = "ON" THEN @ \cup {m.extra} ELSE @ \ {m.extra}]
          /\ pc' = [pc EXCEPT !["receiver"] = IF m.view \in Serious THEN "serious" ELSE "inLoop"]
          /\ UNCHANGED <<fresh, loop, node>>
      BY <2>1 DEF ReceiveWarn, Go, lists
    <3>2. Held(v) => Held(v)'
      BY <1>0, <1>1, <1>3, <3>1
    <3>3. pc'["receiver"] = IF m.view \in Serious THEN "serious" ELSE "inLoop"
      BY <1>0, <1>1, <3>1
    <3>4. CASE m.view = v
      BY <3>1, <3>3, <3>4 DEF Waits, Carried, At
    <3>5. CASE m.view # v
      <4>1. told'[v] = told[v]
        BY <1>0, <3>1, <3>5
      <4>2. told[v] # {} => Held(v)
        BY <3>1 DEF Waits, Carried, At
      <4>3. QED
        BY <3>1, <3>2, <3>3, <3>5, <4>1, <4>2 DEF Waits, At
    <3>6. QED
      BY <3>4, <3>5
  <2>2. CASE ReceiveGetCurrWarn
    <3>1. /\ At("receiver", "idle") /\ UNCHANGED <<fresh, loop, msg, told>>
          /\ pc' = [pc EXCEPT !["receiver"] = "notify"]
          /\ node' = [node EXCEPT !["receiver"] = cur]
      BY <2>2 DEF ReceiveGetCurrWarn, Receives, lists
    <3>2. Held(v) => Held(v)'
      BY <1>0, <1>1, <1>3, <3>1
    <3>3. pc'["receiver"] = "notify"
      BY <1>0, <1>1, <3>1
    <3>4. QED
      BY <3>1, <3>2, <3>3 DEF Waits, Carried, At
  <2>3. QED
    BY <1>4, <1>6, <2>1, <2>2
       DEF Receive, ReceiveAcc, ReceiveWarnHiden, Receives, lists, steps
<1>12. CASE Notifies("receiver")
  <2>1. /\ UNCHANGED <<fresh, loop, msg, told>>
        /\ pc["receiver"] \in Notifying
        /\ \E p \in {"sound", "page", "idle"} : pc' = [pc EXCEPT !["receiver"] = p]
        /\ UNCHANGED <<pc["actuator"], node["actuator"]>>
    BY <1>0, <1>1, <1>12
       DEF Notifies, Notify, SendAudioWarnInfo, MsgSend, Leaves, Go, At, lists, input, Notifying
  <2>2. Held(v) => Held(v)'
    BY <1>3, <2>1
  <2>3. pc'["receiver"] \in {"sound", "page", "idle"}
    BY <1>0, <1>1, <2>1
  <2>4. QED
    BY <2>1, <2>2, <2>3 DEF Waits, Carried, At, Notifying
<1>7. CASE Receiver /\ ~Notifies("receiver")
  <2>1. msg \in Messages /\ (msg.view = v => msg.status = "ON")
    BY <1>7
       DEF Stays, TypeInv, MsgGiven, Receiver, UpdateSeriousWarnList, IsNodeExistInLoopList,
           GetLoopDoorInfoNode, TakeFromLoop, IsNodeExistInFreshList, SetFreshNode,
           AppendFresh, AppendDoorInfo, SortLoop, At, Notifying
  <2>2. CASE UpdateSeriousWarnList
    <3>1. msg.view # v
      BY <2>2 DEF UpdateSeriousWarnList, TypeInv, MsgGiven
    <3>2. /\ UNCHANGED <<fresh, loop, node, msg, told>>
          /\ pc' = [pc EXCEPT !["receiver"] = "sort"]
      BY <2>2 DEF UpdateSeriousWarnList, Go, input
    <3>3. Held(v) => Held(v)'
      BY <1>0, <1>1, <1>3, <3>2
    <3>4. QED
      BY <1>0, <1>1, <3>1, <3>2, <3>3 DEF Waits, Carried, At
  <2>3. CASE IsNodeExistInLoopList
    <3>1. /\ UNCHANGED <<fresh, loop, msg, told>>
          /\ node' = [node EXCEPT !["receiver"] = NewNode(msg)]
          /\ At("receiver", "inLoop")
      BY <2>3 DEF IsNodeExistInLoopList, input, lists
    <3>2. pc' = [pc EXCEPT !["receiver"] =
                   IF ~Has(loop, msg.view) THEN "inFresh"
                   ELSE IF msg.view \in DoorViews THEN "getLoop" ELSE "fromLoop"]
      BY <2>3 DEF IsNodeExistInLoopList, Go
    <3>3. NewNode(msg).view = msg.view
      BY <2>1, NodeTypes
    <3>4. Held(v) => Held(v)'
      BY <1>0, <1>1, <1>3, <3>1, <3>2
    <3>5. /\ pc'["receiver"] \in {"inFresh", "getLoop", "fromLoop"}
          /\ msg.view = v => pc'["receiver"] \in {"inFresh", "fromLoop"}
          /\ node'["receiver"].view = msg.view
      BY <1>0, <1>1, <3>1, <3>2, <3>3
    <3>6. QED
      BY <3>1, <3>4, <3>5 DEF Waits, Carried, At
  <2>4. CASE GetLoopDoorInfoNode
    <3>1. /\ UNCHANGED <<fresh, loop, msg, told, pc["actuator"], node["actuator"]>>
          /\ msg.view # v /\ pc'["receiver"] = "fromLoop"
      BY <1>0, <1>1, <2>4 DEF GetLoopDoorInfoNode, Go, input, lists, Waits
    <3>2. Held(v) => Held(v)'
      BY <1>3, <3>1
    <3>3. QED
      BY <3>1, <3>2 DEF Waits, Carried, At
  <2>5. CASE TakeFromLoop
    <3>1. /\ loop' = Erase(loop, msg.view) /\ UNCHANGED <<fresh, msg, told, node>>
          /\ At("receiver", "fromLoop")
          /\ pc' = [pc EXCEPT !["receiver"] =
                      IF msg.view \in DoorViews THEN "appendDoor" ELSE "append"]
      BY <2>5 DEF TakeFromLoop, Go, input
    <3>2. pc'["receiver"] = IF msg.view \in DoorViews THEN "appendDoor" ELSE "append"
      BY <1>0, <1>1, <3>1
    <3>3. CASE msg.view = v
      BY <3>1, <3>2, <3>3 DEF Waits, Carried, At
    <3>4. CASE msg.view # v
      <4>1. Held(v) => Held(v)'
        BY <1>0, <1>1, <1>3, <3>1, <3>4, EraseKeepsOthers
      <4>2. QED
        BY <3>1, <3>2, <3>4, <4>1 DEF Waits, Carried, At
    <3>5. QED
      BY <3>3, <3>4
  <2>6. CASE IsNodeExistInFreshList
    <3>1. UNCHANGED <<fresh, loop, msg, told, node>> /\ At("receiver", "inFresh")
      BY <2>6 DEF IsNodeExistInFreshList, input, lists
    <3>2. pc' = [pc EXCEPT !["receiver"] =
                   IF Has(fresh, msg.view) THEN "setFresh"
                   ELSE IF msg.view \in DoorViews /\ msg.status = "OFF" THEN "sort"
                   ELSE "append"]
      BY <2>6 DEF IsNodeExistInFreshList, Go
    <3>3. Held(v) => Held(v)'
      BY <1>0, <1>1, <1>3, <3>1, <3>2
    <3>4. pc'["receiver"] = IF Has(fresh, msg.view) THEN "setFresh"
                            ELSE IF msg.view \in DoorViews /\ msg.status = "OFF" THEN "sort"
                            ELSE "append"
      BY <1>0, <1>1, <3>2
    <3>5. CASE msg.view = v /\ Has(fresh, v)
      BY <3>1, <3>3, <3>4, <3>5 DEF Waits, Carried, Held, At
    <3>6. CASE msg.view = v /\ ~Has(fresh, v)
      BY <3>1, <3>4, <3>6 DEF Waits, Carried, At
    <3>7. CASE msg.view # v
      BY <3>1, <3>3, <3>4, <3>7 DEF Waits, Carried, At
    <3>8. QED
      BY <3>5, <3>6, <3>7
  <2>7. CASE SetFreshNode
    <3>1. /\ fresh' = UpdateFirst(fresh, msg) /\ UNCHANGED <<loop, msg, told, node>>
          /\ At("receiver", "setFresh") /\ pc' = [pc EXCEPT !["receiver"] = "sort"]
      BY <2>7 DEF SetFreshNode, Go, input
    <3>2. Held(v) => Held(v)'
      BY <1>0, <1>1, <1>3, <2>1, <3>1, UpdateKeepsNodes
    <3>3. QED
      BY <1>0, <1>1, <3>1, <3>2 DEF Waits, Carried, At
  <2>8. CASE AppendFresh
    <3>1. /\ fresh' = Append(fresh, node["receiver"]) /\ UNCHANGED <<loop, msg, told, node>>
          /\ At("receiver", "append") /\ pc' = [pc EXCEPT !["receiver"] = "sort"]
      BY <2>8 DEF AppendFresh, Go, input
    <3>2. /\ Has(fresh, v) => Has(fresh', v)
          /\ node["receiver"].view = v => Has(fresh', v)
      BY <1>0, <1>1, <3>1, AppendKeepsNodes
    <3>3. Held(v) => Held(v)'
      BY <1>0, <1>1, <1>3, <3>1, <3>2
    <3>4. Carried(v) => Held(v)'
      BY <3>1, <3>2 DEF Carried, Waits, Held, At, Has
    <3>5. QED
      BY <1>0, <1>1, <3>1, <3>3, <3>4 DEF Waits, At
  <2>9. ASSUME Received, Has(fresh, v) => Has(fresh', v), Has(loop, v) => Has(loop', v),
               ~Carried(v)
        PROVE  Waits(v)'
    <3>1. /\ UNCHANGED <<told, pc["actuator"], node["actuator"]>>
          /\ pc'["receiver"] = "idle"
      BY <1>0, <1>1, <2>9 DEF Received, Leaves, Go
    <3>2. Held(v) => Held(v)'
      BY <1>3, <2>9, <3>1
    <3>3. QED
      BY <2>9, <3>1, <3>2 DEF Waits, At
  <2>10. CASE AppendDoorInfo
    <3>1. fresh' = Append(fresh, node["receiver"]) /\ UNCHANGED loop /\ Received
          /\ At("receiver", "appendDoor")
      BY <2>10 DEF AppendDoorInfo
    <3>2. Has(fresh, v) => Has(fresh', v)
      BY <1>0, <1>1, <3>1, AppendKeepsNodes
    <3>3. QED
      BY <2>9, <3>1, <3>2 DEF Carried, At
  <2>11. CASE SortLoop
    <3>1. loop' \in SortedByPriority(loop) /\ UNCHANGED fresh /\ Received
          /\ At("receiver", "sort")
      BY <2>11 DEF SortLoop
    <3>2. Has(loop, v) => Has(loop', v)
      BY <1>0, <3>1, SortKeepsNodes
    <3>3. QED
      BY <2>9, <3>1, <3>2 DEF Carried, At
  <2>12. QED
    BY <1>7, <2>2, <2>3, <2>4, <2>5, <2>6, <2>7, <2>8, <2>10, <2>11 DEF Receiver
<1>8. CASE Handler
  <2>1. ASSUME UNCHANGED <<fresh, loop, msg, told>>,
               NEW n, node' = [node EXCEPT !["handler"] = n],
               NEW p, pc' = [pc EXCEPT !["handler"] = p]
        PROVE  Waits(v)'
    BY <1>0, <1>1, <1>4, <2>1
  <2>2. ASSUME UNCHANGED <<fresh, loop, msg, told, node>>,
               NEW p, pc' = [pc EXCEPT !["handler"] = p]
        PROVE  Waits(v)'
    BY <1>0, <1>1, <1>4, <2>2
  <2>3. ASSUME NEW n, Choose(n), UNCHANGED <<lists, msg, told>> PROVE Waits(v)'
    BY <2>1, <2>3 DEF Choose, Go, lists
  <2>4. CASE GetSeriousWarnListNode
    BY <2>2, <2>3, <2>4 DEF GetSeriousWarnListNode, Go, lists, input
  <2>5. CASE GetFrashWarnListNode \/ GetLoopWarnListNode
    BY <2>3, <2>5 DEF GetFrashWarnListNode, GetLoopWarnListNode, input
  <2>6. CASE HandleWarnViews \/ PickList \/ StopShowTimer \/ StartTimers
    BY <2>2, <2>6 DEF HandleWarnViews, PickList, StopShowTimer, StartTimers, Go, lists, input
  <2>7. CASE EraseSeriousWarnListNode("handler")
    BY <2>2, <2>7 DEF EraseSeriousWarnListNode, Go, input
  \* What the handler erases is OFF, and so it is another warning.
  <2>8. Hides => node["handler"].view # v
    BY <1>1 DEF SoundInv, NodesOn, NodeOn
  <2>9. CASE EraseFreshWarnListNode("handler")
    <3>1. /\ fresh' = Erase(fresh, node["handler"].view)
          /\ UNCHANGED <<loop, node, msg, told>>
          /\ node["handler"].view # v
          /\ UNCHANGED <<pc["actuator"], pc["receiver"]>>
      BY <1>0, <1>1, <2>8, <2>9 DEF EraseFreshWarnListNode, Hides, Go, input
    <3>2. Has(fresh, v) => Has(fresh', v)
      BY <1>0, <3>1, EraseKeepsOthers
    <3>3. QED
      BY <1>2, <1>3, <3>1, <3>2
  <2>10. CASE EraseLoopWarnListNode("handler")
    <3>1. /\ loop' = Erase(loop, node["handler"].view)
          /\ UNCHANGED <<fresh, node, msg, told>>
          /\ node["handler"].view # v
          /\ UNCHANGED <<pc["actuator"], pc["receiver"]>>
      BY <1>0, <1>1, <2>8, <2>10 DEF EraseLoopWarnListNode, Hides, Go, input
    <3>2. Has(loop, v) => Has(loop', v)
      BY <1>0, <3>1, EraseKeepsOthers
    <3>3. QED
      BY <1>2, <1>3, <3>1, <3>2
  <2>11. CASE ClearCurrent \/ SetCurrent
    BY <2>2, <2>11 DEF ClearCurrent, SetCurrent, Go, lists, input
  <2>12. CASE Notifies("handler")
    BY <2>1, <2>2, <2>12
       DEF Notifies, Notify, SendAudioWarnInfo, MsgSend, Leaves, Go, lists, input
  <2>13. QED
    BY <1>8, <2>4, <2>5, <2>6, <2>7, <2>9, <2>10, <2>11, <2>12 DEF Handler
<1>9. CASE RemoveWarn
  <2>1. PICK n : n = node["actuator"] /\ n \in Node /\ NodeOn(n, v)
    BY <1>0, <1>1 DEF NodesOn
  <2>2. ASSUME pc["actuator"] # "push", UNCHANGED <<loop, fresh, msg, told>>,
               UNCHANGED <<pc["receiver"], node["receiver"]>>
        PROVE  Waits(v)'
    BY <1>2, <2>2 DEF Held, Pushed, At, Has
  <2>3. CASE RemoveCurrentWarn
    BY <1>0, <1>1, <2>2, <2>3 DEF RemoveCurrentWarn, Go, lists, input, At
  <2>4. CASE EraseSeriousWarnListNode("actuator")
    BY <1>0, <1>1, <2>2, <2>4 DEF EraseSeriousWarnListNode, Go, input, At
  <2>5. CASE EraseFreshWarnListNode("actuator")
    <3>1. /\ fresh' = Erase(fresh, n.view) /\ At("actuator", "eraseFresh")
          /\ UNCHANGED <<loop, node, msg, told, pc["receiver"]>>
          /\ pc'["actuator"] = IF Has(fresh, n.view) THEN "push" ELSE "eraseLoop"
      BY <1>0, <1>1, <2>1, <2>5 DEF EraseFreshWarnListNode, After, Go, input
    <3>2. CASE n.view = v /\ Has(fresh, v)
      <4>1. Held(v)'
        BY <2>1, <3>1, <3>2 DEF Held, Pushed, At
      <4>2. QED
        BY <1>2, <3>1, <4>1
    <3>3. CASE ~(n.view = v /\ Has(fresh, v))
      <4>1. Has(fresh, v) => Has(fresh', v)
        BY <1>0, <3>1, <3>3, EraseKeepsOthers
      <4>2. Held(v) => Held(v)'
        BY <3>1, <4>1 DEF Held, Pushed, At, Has
      <4>3. QED
        BY <1>2, <3>1, <4>2
    <3>4. QED
      BY <3>2, <3>3
  <2>6. CASE EraseLoopWarnListNode("actuator")
    <3>1. /\ loop' = Erase(loop, n.view) /\ At("actuator", "eraseLoop")
          /\ UNCHANGED <<fresh, node, msg, told, pc["receiver"]>>
          /\ pc'["actuator"] = "push"
      BY <1>0, <1>1, <2>1, <2>6 DEF EraseLoopWarnListNode, After, Go, input
    <3>2. CASE n.view = v
      <4>1. Held(v)'
        BY <2>1, <3>1, <3>2 DEF Held, Pushed, At
      <4>2. QED
        BY <1>2, <3>1, <4>1
    <3>3. CASE n.view # v
      <4>1. Has(loop, v) => Has(loop', v)
        BY <1>0, <3>1, <3>3, EraseKeepsOthers
      <4>2. Held(v) => Held(v)'
        BY <3>1, <4>1 DEF Held, Pushed, At, Has
      <4>3. QED
        BY <1>2, <3>1, <4>2
    <3>4. QED
      BY <3>2, <3>3
  <2>7. CASE PushLoopAgain
    <3>1. /\ loop' = IF CheckNeedPushLoopAgain(n) /\ ~Has(loop, n.view)
                      THEN Append(loop, n) ELSE loop
          /\ UNCHANGED <<fresh, msg, told, pc["receiver"], node["receiver"]>>
      BY <1>0, <1>1, <2>1, <2>7 DEF PushLoopAgain, Leaves, Go, input
    <3>2. /\ Has(loop, v) => Has(loop', v)
          /\ n.view = v => Has(loop', v)
      <4>1. n.view = v => CheckNeedPushLoopAgain(n)
        BY <2>1 DEF CheckNeedPushLoopAgain, NodeOn
      <4>2. /\ Has(loop, v) => Has(Append(loop, n), v)
            /\ n.view = v => Has(Append(loop, n), v)
        BY <1>0, <2>1, AppendKeepsNodes
      <4>3. QED
        BY <3>1, <4>1, <4>2
    <3>3. Held(v) => Held(v)'
      BY <2>1, <3>1, <3>2 DEF Held, Pushed, Has
    <3>4. QED
      BY <1>2, <3>1, <3>3
  <2>8. QED
    BY <1>9, <2>3, <2>4, <2>5, <2>6, <2>7 DEF RemoveWarn
<1>10. CASE Timers
  BY <1>4, <1>10
     DEF Timers, AtLeastExpire, AtLeastTimerThreadFun, WarnShowTimerThreadFun, lists, steps, input
<1>11. CASE Link
  BY <1>4, <1>11 DEF Link, on_disconnect_callback, on_connect_callback, lists, steps, input
<1>13. QED
  BY <1>5, <1>6, <1>7, <1>8, <1>9, <1>10, <1>11, <1>12 DEF Next

\* The message the receiver works on, and what was told of its warning.
Tells(v) ==
  /\ told[v] \subseteq {v}
  /\ msg.view = v => (msg.status = "ON" <=> told[v] # {})

LEMMA StepTells ==
  ASSUME NEW v \in Repeat \ (Serious \cup DoorViews)
  PROVE  TypeInv /\ Tells(v) /\ [Next]_vars => Tells(v)'
<1> SUFFICES ASSUME TypeInv, Tells(v), [Next]_vars PROVE Tells(v)'
  OBVIOUS
<1>1. CASE UNCHANGED <<msg, told>>
  BY <1>1 DEF Tells
<1>2. CASE msg' = NoMsg /\ UNCHANGED told
  BY <1>2, ViewAssumption DEF Tells, NoMsg
<1>3. ASSUME NEW m \in Messages, ReceiveWarn(m) PROVE Tells(v)'
  <2>1. /\ msg' = m /\ told \in [Views -> SUBSET AllExtras] /\ v \in Views
        /\ told' = [told EXCEPT ![m.view] =
                      IF m.status = "ON" THEN @ \cup {m.extra} ELSE @ \ {m.extra}]
    BY <1>3, ViewAssumption DEF ReceiveWarn, TypeInv, TypeOK
  <2>2. CASE m.view = v
    <3>1. m.extra = v
      BY <2>2 DEF Messages, Extras
    <3>2. told'[v] = IF m.status = "ON" THEN {v} ELSE {}
      BY <2>1, <2>2, <3>1 DEF Tells
    <3>3. QED
      BY <2>1, <2>2, <3>2 DEF Tells
  <2>3. CASE m.view # v
    BY <2>1, <2>3 DEF Tells
  <2>4. QED
    BY <2>2, <2>3
<1>4. CASE UNCHANGED vars
  BY <1>1, <1>4 DEF vars, input
<1>5. CASE Receive
  BY <1>1, <1>3, <1>5 DEF Receive, ReceiveAcc, ReceiveWarnHiden, ReceiveGetCurrWarn, Receives
<1>6. CASE Receiver
  BY <1>1, <1>2, <1>6
     DEF Receiver, UpdateSeriousWarnList, IsNodeExistInLoopList, GetLoopDoorInfoNode,
         TakeFromLoop, IsNodeExistInFreshList, SetFreshNode, AppendFresh, AppendDoorInfo,
         SortLoop, Received, Notifies, Notify, SendAudioWarnInfo, MsgSend, input
<1>7. CASE Handler
  BY <1>1, <1>7
     DEF Handler, HandleWarnViews, GetSeriousWarnListNode, PickList, GetFrashWarnListNode,
         GetLoopWarnListNode, EraseSeriousWarnListNode, EraseFreshWarnListNode,
         EraseLoopWarnListNode, StopShowTimer, ClearCurrent, StartTimers, SetCurrent,
         Notifies, Notify, SendAudioWarnInfo, MsgSend, input
<1>8. CASE RemoveWarn
  BY <1>1, <1>8
     DEF RemoveWarn, RemoveCurrentWarn, EraseSeriousWarnListNode, EraseFreshWarnListNode,
         EraseLoopWarnListNode, PushLoopAgain, input
<1>9. CASE Timers
  BY <1>1, <1>9
     DEF Timers, AtLeastExpire, AtLeastTimerThreadFun, WarnShowTimerThreadFun, input
<1>10. CASE Link
  BY <1>1, <1>10 DEF Link, on_disconnect_callback, on_connect_callback, input
<1>11. QED
  BY <1>4, <1>5, <1>6, <1>7, <1>8, <1>9, <1>10 DEF Next

\* Once a warning was turned on, and no node was left of it then, all its nodes
\* are ON and it waits in one of the lists or on the way between them.
Matters(v) == told[v] # {} /\ v \notin crossed
KeptInv(v) == Matters(v) => NodesOn(v) /\ Waits(v)

LEMMA KeptSuffices ==
  ASSUME NEW v, v \notin crossed
  PROVE  KeptInv(v) => (Quiet => Kept(v))
  BY DEF KeptInv, Matters, Waits, Held, Pushed, Carried, Quiet, Kept, At, Threads

LEMMA InitKept ==
  ASSUME NEW v \in Views
  PROVE  Init => KeptInv(v) /\ Tells(v)
  BY ViewAssumption DEF Init, KeptInv, Matters, Tells, NoMsg

\* The message that turns the warning on.
LEMMA TurnOnKept ==
  ASSUME NEW v \in Repeat \ (Serious \cup DoorViews), TypeInv, LoopSound, SoundInv,
         NEW m \in Messages, ReceiveWarn(m), m.view = v, told[v] = {}, Matters(v)'
  PROVE  NodesOn(v)' /\ Waits(v)'
<1>1. /\ pc' = [pc EXCEPT !["receiver"] = "inLoop"]
      /\ msg' = m /\ UNCHANGED <<fresh, loop, cur, node>>
      /\ crossed' = IF OffLeft(v) THEN crossed \cup {v} ELSE crossed \ {v}
  BY DEF ReceiveWarn, Go, lists
<1>2. ~OffLeft(v)
  BY <1>1 DEF Matters
<1>3. /\ fresh \in Seq(Node) /\ loop \in Seq(Node) /\ pc \in [Threads -> Places]
      /\ v # NoView
  BY ViewAssumption DEF TypeInv, TypeOK
<1>4. AllOn(fresh, v) /\ \A t \in Threads : NodeOn(node[t], v)
  BY <1>2 DEF OffLeft, AllOn, NodeOn
<1>5. AllOn(loop, v)
  BY DEF LoopSound, AllOn, NodeOn
<1>6. NodeOn(cur, v)
  BY <1>3 DEF SoundInv, NodeOn, NoNode
<1>7. NodesOn(v)'
  BY <1>1, <1>4, <1>5, <1>6 DEF NodesOn, AllOn, NodeOn
<1>8. pc'["receiver"] = "inLoop"
  BY <1>1, <1>3 DEF Threads
<1>9. Waits(v)'
  BY <1>1, <1>8 DEF Waits, Carried, At
<1>10. QED
  BY <1>7, <1>9

LEMMA StepKept ==
  ASSUME NEW v \in Repeat \ (Serious \cup DoorViews)
  PROVE  /\ TypeInv /\ SeriousOrdered /\ LoopSound /\ SoundInv /\ Tells(v) /\ KeptInv(v)
         /\ [Next]_vars /\ Tells(v)'
         => KeptInv(v)'
<1> SUFFICES ASSUME TypeInv, SeriousOrdered, LoopSound, SoundInv, Tells(v), KeptInv(v),
                    [Next]_vars, Tells(v)', Matters(v)'
             PROVE  NodesOn(v)' /\ Waits(v)'
  BY DEF KeptInv
<1>1. CASE Matters(v)
  <2>1. Stays(v) /\ Stays(v)'
    BY <1>1 DEF Matters, Tells, Stays
  <2>2. QED
    BY <1>1, <2>1, StepNodesOn, StepWaits DEF KeptInv
<1>2. CASE ~Matters(v)
  <2>1. ~UNCHANGED <<told, crossed>>
    BY <1>2 DEF Matters
  <2>2. PICK m \in Messages : ReceiveWarn(m)
    <3>1. CASE UNCHANGED vars
      BY <2>1, <3>1 DEF vars, input
    <3>2. CASE Receive
      BY <2>1, <3>2 DEF Receive, ReceiveAcc, ReceiveWarnHiden, ReceiveGetCurrWarn, Receives
    <3>3. CASE Receiver
      BY <2>1, <3>3
         DEF Receiver, UpdateSeriousWarnList, IsNodeExistInLoopList, GetLoopDoorInfoNode,
             TakeFromLoop, IsNodeExistInFreshList, SetFreshNode, AppendFresh, AppendDoorInfo,
             SortLoop, Received, Notifies, Notify, SendAudioWarnInfo, MsgSend, input
    <3>4. CASE Handler
      BY <2>1, <3>4
         DEF Handler, HandleWarnViews, GetSeriousWarnListNode, PickList, GetFrashWarnListNode,
             GetLoopWarnListNode, EraseSeriousWarnListNode, EraseFreshWarnListNode,
             EraseLoopWarnListNode, StopShowTimer, ClearCurrent, StartTimers, SetCurrent,
             Notifies, Notify, SendAudioWarnInfo, MsgSend, input
    <3>5. CASE RemoveWarn
      BY <2>1, <3>5
         DEF RemoveWarn, RemoveCurrentWarn, EraseSeriousWarnListNode, EraseFreshWarnListNode,
             EraseLoopWarnListNode, PushLoopAgain, input
    <3>6. CASE Timers \/ Link
      BY <2>1, <3>6
         DEF Timers, AtLeastExpire, AtLeastTimerThreadFun, WarnShowTimerThreadFun, Link,
             on_disconnect_callback, on_connect_callback, input
    <3>7. QED
      BY <3>1, <3>2, <3>3, <3>4, <3>5, <3>6 DEF Next
  <2>3. /\ told \in [Views -> SUBSET AllExtras] /\ v \in Views
        /\ told' = [told EXCEPT ![m.view] =
                      IF m.status = "ON" THEN @ \cup {m.extra} ELSE @ \ {m.extra}]
        /\ crossed' = IF told[m.view] # {} THEN crossed
                      ELSE IF OffLeft(m.view) THEN crossed \cup {m.view}
                      ELSE crossed \ {m.view}
    BY <2>2, ViewAssumption DEF ReceiveWarn, TypeInv, TypeOK
  <2>4. m.view = v
    BY <1>2, <2>3 DEF Matters
  <2>5. told[v] = {}
    BY <1>2, <2>3, <2>4 DEF Matters
  <2>6. QED
    BY <2>2, <2>4, <2>5, TurnOnKept
<1>3. QED
  BY <1>1, <1>2

\* The way from the fresh list to the screen and to the rotation loses no
\* repeating warning, whatever happens to the other warnings, the ACC state, the
\* timers and the connection meanwhile.
THEOREM RepeatCorrect == Spec => []RepeatKept
<1> DEFINE Rotating == Repeat \ (Serious \cup DoorViews)
           AllTell  == \A v \in Rotating : Tells(v)
           AllKept  == \A v \in Rotating : KeptInv(v)
<1>1. Init => AllTell /\ AllKept /\ SeriousOrdered /\ LoopSound /\ SoundInv
  <2>1. Init => AllTell /\ AllKept
    BY InitKept, ViewAssumption
  <2>2. QED
    BY <2>1, InitSound DEF Init, SeriousOrdered, LoopSound
<1>2. TypeInv /\ AllTell /\ [Next]_vars => AllTell'
  BY StepTells
<1>3. /\ TypeInv /\ SeriousOrdered /\ LoopSound /\ SoundInv /\ AllTell /\ AllKept
      /\ [Next]_vars /\ AllTell'
      => AllKept'
  BY StepKept
<1>4. AllKept => RepeatKept
  BY KeptSuffices DEF RepeatKept
<1> HIDE DEF AllTell, AllKept
<1>5. QED
  BY <1>1, <1>2, <1>3, <1>4, InitTypes, StepTypes, StepOrdered, StepRotates, StepSound, PTL
     DEF Spec

===============================================================================
