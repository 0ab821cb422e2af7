------------------------------ MODULE Channel -------------------------------
(***************************************************************************)
(* What a topic promises between the process that publishes on it and the  *)
(* one that has subscribed to it: the messages, numbered as they are sent, *)
(* are taken in the order they were sent.  A stretch of them may be lost,  *)
(* and the sender may start again from a message it has already sent, but  *)
(* it then goes on to the newest: an old message is never the last one the *)
(* receiver gets, unless the newer ones were lost.                         *)
(***************************************************************************)
EXTENDS Integers, Sequences

VARIABLES
  put,   \* the number of messages sent
  todo,  \* the messages the receiver is still to get
  got    \* the message it got last, 0 if none

vars == <<put, todo, got>>

\* The messages from number k on.
From(k) == [i \in 1..(put - k + 1) |-> k + i - 1]

Init == put = 0 /\ todo = <<>> /\ got = 0

Put ==
  /\ put' = put + 1
  /\ todo' = Append(todo, put + 1)
  /\ UNCHANGED got

Take ==
  /\ todo # <<>>
  /\ got' = Head(todo)
  /\ todo' = Tail(todo)
  /\ UNCHANGED put

Stretch(i, j) == SubSeq(todo, 1, i) \o SubSeq(todo, j + 1, Len(todo))

\* Messages are lost on their way.
Lose ==
  /\ \E i, j \in 0..Len(todo) : i < j /\ todo' = Stretch(i, j)
  /\ UNCHANGED <<put, got>>

\* The receiver is started anew and knows nothing of the earlier messages.
Forget ==
  /\ \E j \in 0..Len(todo) : todo' = Stretch(0, j)
  /\ got' = 0
  /\ UNCHANGED put

\* The messages that end the sequence are sent again, and older ones before them.
Rewind ==
  /\ \E i \in 0..Len(todo), k \in 1..put :
       /\ SubSeq(todo, i + 1, Len(todo)) = From(put - Len(todo) + i + 1)
       /\ k <= put - Len(todo) + i
       /\ todo' = SubSeq(todo, 1, i) \o From(k)
  /\ UNCHANGED <<put, got>>

Next == Put \/ Take \/ Lose \/ Forget \/ Rewind

Spec == Init /\ [][Next]_vars

=============================================================================
