------------------------------ MODULE MqttLink ------------------------------
(***************************************************************************)
(* One topic of the middleware: the process that publishes on it, the      *)
(* broker, the process that has subscribed to it and the FIFO in which its *)
(* mosquitto thread leaves the messages for its receiver thread            *)
(* (MqttConnection.cpp, Forwarder.cpp and the loops of Actuator.cpp,       *)
(* handle.cpp and CoreMsgHandler.cpp).                                     *)
(*                                                                         *)
(* Every process is started in the same order: Connect in the constructor  *)
(* of MqttConnection, which ends the process when it fails, Subscribe, Run *)
(* (the mosquitto thread), and then the thread that polls the FIFO.  Only  *)
(* the mosquitto thread writes m_isConnected, in two callbacks.  The       *)
(* session is clean and on_connect_callback does not subscribe, so that a  *)
(* process that lost its connection is connected again and deaf.           *)
(*                                                                         *)
(* The library and the broker are modelled from how they are used here:    *)
(* messages of QoS 1, kept by the library of the sender until the broker   *)
(* acknowledges them and sent again after a reconnection; the broker drops *)
(* what it has for a clean session that ends.  A message is its number.    *)
(***************************************************************************)
EXTENDS Integers, Sequences

CONSTANTS
  MaxSent,   \* bound: number of messages published
  MaxBreaks  \* bound: how often a connection or a process is lost

ASSUME LinkBounds == MaxSent \in Nat /\ MaxBreaks \in Nat

Procs  == {"sender", "receiver"}
Phases == {"off", "connected", "subscribed", "running", "serving"}

VARIABLES
  phase,          \* process -> how far it was started
  link,           \* process -> its connection to the broker exists
  m_isConnected,  \* process -> what its callbacks left in the flag
  subscribed,     \* the broker has the subscription of the receiver's session
  sent,           \* the number of messages given to mosquitto_publish
  accepted,       \* those the broker has taken from the present connection
  acked,          \* those the library of the sender does not send again
  inbox,          \* what the broker has for the receiver
  m_msgQueue,     \* the FIFO of the receiver
  popped,         \* the message last returned by MsgPop, 0 if none
  breaks

procs == <<phase, link, m_isConnected, subscribed>>
flow  == <<sent, accepted, acked>>
path  == <<inbox, m_msgQueue, popped>>
vars  == <<procs, flow, path, breaks>>

\* The mosquitto thread of a process runs.
Runs(p) == phase[p] \in {"running", "serving"}

-----------------------------------------------------------------------------
(* The start of a process *)

\* A failed mosquitto_connect ends the process, which is a stutter here.
Connect(p) ==
  /\ phase[p] = "off"
  /\ phase' = [phase EXCEPT ![p] = "connected"]
  /\ link' = [link EXCEPT ![p] = TRUE]
  /\ UNCHANGED <<m_isConnected, subscribed, flow, path, breaks>>

\* The result of mosquitto_subscribe is not looked at: without a connection
\* there is no subscription, now or later.
Subscribe(p) ==
  /\ phase[p] = "connected"
  /\ phase' = [phase EXCEPT ![p] = "subscribed"]
  /\ subscribed' = (subscribed \/ (p = "receiver" /\ link[p]))
  /\ UNCHANGED <<link, m_isConnected, flow, path, breaks>>

Run(p) ==
  /\ phase[p] = "subscribed"
  /\ phase' = [phase EXCEPT ![p] = "running"]
  /\ UNCHANGED <<link, m_isConnected, subscribed, flow, path, breaks>>

\* The thread that polls the FIFO.
Start(p) ==
  /\ phase[p] = "running"
  /\ phase' = [phase EXCEPT ![p] = "serving"]
  /\ UNCHANGED <<link, m_isConnected, subscribed, flow, path, breaks>>

-----------------------------------------------------------------------------
(* The connection of a process *)

\* What the broker has for the receiver's session goes with the connection.
EndSession(p) ==
  /\ link' = [link EXCEPT ![p] = FALSE]
  /\ subscribed' = (subscribed /\ p # "receiver")
  /\ inbox' = IF p = "receiver" THEN <<>> ELSE inbox

LinkLost(p) ==
  /\ link[p] /\ breaks < MaxBreaks
  /\ EndSession(p)
  /\ breaks' = breaks + 1
  /\ UNCHANGED <<phase, m_isConnected, flow, m_msgQueue, popped>>

on_disconnect_callback(p) ==
  /\ Runs(p) /\ ~link[p] /\ m_isConnected[p]
  /\ m_isConnected' = [m_isConnected EXCEPT ![p] = FALSE]
  /\ UNCHANGED <<phase, link, subscribed, flow, path, breaks>>

\* The library connects again by itself, after the callback, and the sender's
\* sends what was not acknowledged.
Reconnect(p) ==
  /\ Runs(p) /\ ~link[p] /\ ~m_isConnected[p]
  /\ link' = [link EXCEPT ![p] = TRUE]
  /\ accepted' = IF p = "sender" THEN acked ELSE accepted
  /\ UNCHANGED <<phase, m_isConnected, subscribed, sent, acked, path, breaks>>

on_connect_callback(p) ==
  /\ Runs(p) /\ link[p] /\ ~m_isConnected[p]
  /\ m_isConnected' = [m_isConnected EXCEPT ![p] = TRUE]
  /\ UNCHANGED <<phase, link, subscribed, flow, path, breaks>>

\* The process ends, with its FIFO or with what its library was to send.
Crash(p) ==
  /\ phase[p] # "off" /\ breaks < MaxBreaks
  /\ phase' = [phase EXCEPT ![p] = "off"]
  /\ EndSession(p)
  /\ m_isConnected' = [m_isConnected EXCEPT ![p] = FALSE]
  /\ breaks' = breaks + 1
  /\ UNCHANGED sent
  /\ IF p = "sender"
     THEN /\ accepted' = sent /\ acked' = sent
          /\ UNCHANGED <<m_msgQueue, popped>>
     ELSE /\ m_msgQueue' = <<>> /\ popped' = 0
          /\ UNCHANGED <<accepted, acked>>

-----------------------------------------------------------------------------
(* A message on its way *)

\* The callers publish while m_isConnected, whatever became of the connection.
MsgSend ==
  /\ m_isConnected["sender"] /\ sent < MaxSent
  /\ sent' = sent + 1
  /\ UNCHANGED <<procs, accepted, acked, path, breaks>>

\* Without a subscription the broker drops the message.
BrokerAccept ==
  /\ link["sender"] /\ accepted < sent
  /\ accepted' = accepted + 1
  /\ inbox' = IF subscribed THEN Append(inbox, accepted + 1) ELSE inbox
  /\ UNCHANGED <<procs, sent, acked, m_msgQueue, popped, breaks>>

\* Mutant: a message counts as delivered when it was sent.
AckedWhenSent ==
  /\ Runs("sender") /\ link["sender"] /\ acked < sent
  /\ acked' = acked + 1
  /\ UNCHANGED <<procs, sent, accepted, path, breaks>>

\* The callback is empty: the library forgets the message.
on_publish_callback ==
  /\ Runs("sender") /\ link["sender"] /\ acked < accepted
  /\ acked' = acked + 1
  /\ UNCHANGED <<procs, sent, accepted, path, breaks>>

\* Mutant: pushed at the front.
PushedFirst(msg) == m_msgQueue' = <<msg>> \o m_msgQueue

\* Mutant: a message that finds another one in the queue is dropped.
PushedIfEmpty(msg) ==
  m_msgQueue' = IF m_msgQueue = <<>> THEN <<msg>> ELSE m_msgQueue

\* Only a message without topic and text is dropped, which nobody sends.
MsgPush(msg) == m_msgQueue' = Append(m_msgQueue, msg)

on_message_callback ==
  /\ Runs("receiver") /\ link["receiver"] /\ inbox # <<>>
  /\ MsgPush(Head(inbox))
  /\ inbox' = Tail(inbox)
  /\ UNCHANGED <<procs, flow, popped, breaks>>

\* Mutant: the queue is emptied by the pop.
PopAll ==
  /\ phase["receiver"] = "serving" /\ m_msgQueue # <<>>
  /\ popped' = Head(m_msgQueue)
  /\ m_msgQueue' = <<>>
  /\ UNCHANGED <<procs, flow, inbox, breaks>>

\* Polled every 10 ms by the receiver thread, one message each time.
MsgPop ==
  /\ phase["receiver"] = "serving" /\ m_msgQueue # <<>>
  /\ popped' = Head(m_msgQueue)
  /\ m_msgQueue' = Tail(m_msgQueue)
  /\ UNCHANGED <<procs, flow, inbox, breaks>>

-----------------------------------------------------------------------------
Init ==
  /\ phase = [p \in Procs |-> "off"]
  /\ link = [p \in Procs |-> FALSE]
  /\ m_isConnected = [p \in Procs |-> FALSE]
  /\ subscribed = FALSE
  /\ sent = 0 /\ accepted = 0 /\ acked = 0
  /\ inbox = <<>> /\ m_msgQueue = <<>> /\ popped = 0
  /\ breaks = 0

Process(p) ==
  \/ Connect(p)
  \/ Subscribe(p)
  \/ Run(p)
  \/ Start(p)
  \/ LinkLost(p)
  \/ on_disconnect_callback(p)
  \/ Reconnect(p)
  \/ on_connect_callback(p)
  \/ Crash(p)

Transport ==
  \/ MsgSend
  \/ BrokerAccept
  \/ on_publish_callback
  \/ on_message_callback
  \/ MsgPop

Next == (\E p \in Procs : Process(p)) \/ Transport

\* The threads of a process that was started run, the library connects again
\* when it can, and the broker works; nothing restarts a process.
Fairness ==
  /\ \A p \in Procs : /\ WF_vars(Run(p)) /\ WF_vars(Start(p))
                      /\ WF_vars(on_disconnect_callback(p))
                      /\ WF_vars(Reconnect(p))
  /\ WF_vars(BrokerAccept)
  /\ WF_vars(on_message_callback)
  /\ WF_vars(MsgPop)

Spec     == Init /\ [][Next]_vars
FairSpec == Spec /\ Fairness

-----------------------------------------------------------------------------
(* Properties *)

\* What the receiver is still to get: its FIFO, the broker's queue, and what
\* the broker has not taken yet.
Untaken == [i \in 1..(sent - accepted) |-> accepted + i]
Todo    == (m_msgQueue \o inbox) \o Untaken

\* The variables have their types; what is acknowledged was accepted, what was
\* accepted was sent.
TypeOK ==
  /\ phase \in [Procs -> Phases]
  /\ link \in [Procs -> BOOLEAN] /\ m_isConnected \in [Procs -> BOOLEAN]
  /\ subscribed \in BOOLEAN
  /\ sent \in 0..MaxSent /\ accepted \in 0..sent /\ acked \in 0..accepted
  /\ inbox \in Seq(1..sent) /\ m_msgQueue \in Seq(1..sent)
  /\ popped \in 0..sent
  /\ breaks \in 0..MaxBreaks

\* A subscription belongs to a connection that was never lost since: without
\* one the broker keeps nothing, and nothing is left to come but what is in the
\* FIFO.
SessionClean ==
  /\ subscribed => link["receiver"] /\ phase["receiver"] \notin {"off", "connected"}
  /\ ~subscribed => inbox = <<>>

\* The receiver gets what was sent in the order it was sent, with gaps and
\* repetitions only as the abstract channel has them.
Abstract == INSTANCE Channel WITH put <- sent, todo <- Todo, got <- popped
ChannelSpec == Abstract!Spec

\* The newest message the receiver has or will have.
Newest == IF Todo = <<>> THEN popped ELSE Todo[Len(Todo)]

\* As long as the receiver stays subscribed and the sender lives, the newest
\* message is had or on its way, and no repetition of an older one comes after
\* it: reconnections of the sender, with m_isConnected behind the connection
\* and messages sent again, never leave the receiver with an old state.
NewestKept ==
  [][subscribed /\ subscribed' /\ phase'["sender"] # "off" /\ Newest = sent
       => Newest' = sent']_vars

\* A message published while the receiver is subscribed comes out of its FIFO,
\* however often the sender is reconnected, unless the receiver loses its
\* connection or the sender its process.
Delivered ==
  \A n \in 1..MaxSent :
    (accepted < n /\ n <= sent /\ subscribed) ~>
      (popped = n \/ ~subscribed \/ phase["sender"] = "off")

=============================================================================
