-------------------------- MODULE CoreSignalsProofs -------------------------
(***************************************************************************)
(* Proofs about CoreSignals, for any values the MCU reports and any number *)
(* of changes, requests and lost connections.                              *)
(*                                                                         *)
(* First part: at rest ViewService and AudioService know every warning and *)
(* sound as the MCU has its signals, and hear no status of a warning       *)
(* twice.                                                                  *)
(*                                                                         *)
(* Second part: at rest the HMI shows the lamps, the turn lamps, the       *)
(* faults of the tires and the list of faults as the MCU has its signals,  *)
(* but for messages that were lost.  Of these keys several messages may    *)
(* wait, some sent with every report and changed or not: it is the last    *)
(* one that counts.  A lamp may have two writers.                          *)
(*                                                                         *)
(* Third part: type correctness.  Each handler stores the bits of its own  *)
(* message and sends messages of the known keys; the line carries what the *)
(* MCU may report.                                                         *)
(***************************************************************************)
EXTENDS CoreSignals, TLAPS, SequenceTheorems, FiniteSetTheorems

-----------------------------------------------------------------------------
(* Sequences of messages *)

IsSeq(s) == \E S : s \in Seq(S)

\* No message of s, or exactly one and with that value, has the key.
Clean(s, w)   == \A i \in DOMAIN s : s[i].key # w
Once(s, w, v) == \E i \in DOMAIN s : /\ s[i].key = w /\ s[i].val = v
                                     /\ \A j \in DOMAIN s : s[j].key = w => j = i

LEMMA EmptyParts == IsSeq(<<>>) /\ \A w : Clean(<<>>, w)
<1>1. <<>> \in Seq({}) /\ Len(<<>>) = 0
  BY EmptySeq
<1>2. DOMAIN <<>> = {}
  BY <1>1
<1>3. QED
  BY <1>1, <1>2 DEF IsSeq, Clean

\* One message.
LEMMA OneParts ==
  ASSUME NEW m
  PROVE  /\ IsSeq(<<m>>)
         /\ \A w : w # m.key => Clean(<<m>>, w)
         /\ Once(<<m>>, m.key, m.val)
<1>1. PICK s : s = <<m>>
  OBVIOUS
<1>2. s \in Seq({m}) /\ DOMAIN s = {1} /\ s[1] = m
  BY <1>1
<1>3. IsSeq(s)
  BY <1>2 DEF IsSeq
<1>4. (\A w : w # m.key => Clean(s, w)) /\ Once(s, m.key, m.val)
  BY <1>2 DEF Clean, Once
<1>5. QED
  BY <1>1, <1>3, <1>4

\* A message is in one of two parts.
LEMMA ConcatParts ==
  ASSUME NEW a, NEW b, IsSeq(a), IsSeq(b)
  PROVE  /\ IsSeq(a \o b)
         /\ \A w : Clean(a, w) /\ Clean(b, w) => Clean(a \o b, w)
         /\ \A w, v : Once(a, w, v) /\ Clean(b, w) => Once(a \o b, w, v)
         /\ \A w, v : Clean(a, w) /\ Once(b, w, v) => Once(a \o b, w, v)
<1>1. PICK S : a \in Seq(S)
  BY DEF IsSeq
<1>2. PICK T : b \in Seq(T)
  BY DEF IsSeq
<1>3. a \in Seq(S \cup T) /\ b \in Seq(S \cup T)
  <2>1. \A i \in 1..Len(a) : a[i] \in S \cup T
    BY <1>1
  <2>2. \A i \in 1..Len(b) : b[i] \in S \cup T
    BY <1>2
  <2>3. QED
    BY <1>1, <1>2, <2>1, <2>2
<1>4. PICK c : c = a \o b
  OBVIOUS
<1>5. /\ c \in Seq(S \cup T) /\ Len(c) = Len(a) + Len(b)
      /\ \A i \in 1..Len(a) + Len(b) : c[i] = IF i <= Len(a) THEN a[i] ELSE b[i - Len(a)]
  BY <1>3, <1>4, ConcatProperties
<1>6. PICK m, n : m = Len(a) /\ n = Len(b)
  OBVIOUS
<1>7. /\ m \in Nat /\ n \in Nat
      /\ DOMAIN a = 1..m /\ DOMAIN b = 1..n /\ DOMAIN c = 1..m + n
      /\ \A i \in 1..m + n : c[i] = IF i <= m THEN a[i] ELSE b[i - m]
  BY <1>3, <1>5, <1>6
<1>8. \A i \in 1..m : i \in 1..m + n /\ c[i] = a[i]
  BY <1>7
<1>9. \A i \in 1..n : m + i \in 1..m + n /\ c[m + i] = b[i]
  <2>1. TAKE i \in 1..n
  <2>2. m + i \in 1..m + n /\ ~(m + i <= m) /\ (m + i) - m = i
    BY <1>7
  <2>3. QED
    BY <1>7, <2>2
<1>10. \A i \in 1..m + n : i \in 1..m \/ (i - m \in 1..n /\ i = m + (i - m))
  BY <1>7
<1>11. IsSeq(c)
  BY <1>5 DEF IsSeq
<1>12. ASSUME NEW w, Clean(a, w), Clean(b, w) PROVE Clean(c, w)
  <2>1. ASSUME NEW j \in 1..m + n PROVE c[j].key # w
    <3>1. CASE j \in 1..m
      BY <1>7, <1>8, <1>12, <3>1 DEF Clean
    <3>2. CASE j - m \in 1..n /\ j = m + (j - m)
      BY <1>7, <1>9, <1>12, <3>2 DEF Clean
    <3>3. QED
      BY <1>10, <3>1, <3>2
  <2>2. QED
    BY <1>7, <2>1 DEF Clean
<1>13. ASSUME NEW w, NEW v, Once(a, w, v), Clean(b, w) PROVE Once(c, w, v)
  <2>1. PICK i \in 1..m : a[i].key = w /\ a[i].val = v /\ \A j \in 1..m : a[j].key = w => j = i
    BY <1>7, <1>13 DEF Once
  <2>2. i \in 1..m + n /\ c[i].key = w /\ c[i].val = v
    BY <1>8, <2>1
  <2>3. ASSUME NEW j \in 1..m + n, c[j].key = w PROVE j = i
    <3>1. CASE j \in 1..m
      BY <1>8, <2>1, <2>3, <3>1
    <3>2. CASE j - m \in 1..n /\ j = m + (j - m)
      BY <1>7, <1>9, <1>13, <2>3, <3>2 DEF Clean
    <3>3. QED
      BY <1>10, <3>1, <3>2
  <2>4. QED
    BY <1>7, <2>2, <2>3 DEF Once
<1>14. ASSUME NEW w, NEW v, Clean(a, w), Once(b, w, v) PROVE Once(c, w, v)
  <2>1. PICK i \in 1..n : b[i].key = w /\ b[i].val = v /\ \A j \in 1..n : b[j].key = w => j = i
    BY <1>7, <1>14 DEF Once
  <2>2. m + i \in 1..m + n /\ c[m + i].key = w /\ c[m + i].val = v
    BY <1>9, <2>1
  <2>3. ASSUME NEW j \in 1..m + n, c[j].key = w PROVE j = m + i
    <3>1. CASE j \in 1..m
      BY <1>7, <1>8, <1>14, <2>3, <3>1 DEF Clean
    <3>2. CASE j - m \in 1..n /\ j = m + (j - m)
      BY <1>9, <2>1, <2>3, <3>2
    <3>3. QED
      BY <1>10, <3>1, <3>2
  <2>4. QED
    BY <1>7, <2>2, <2>3 DEF Once
<1>15. QED
  BY <1>4, <1>11, <1>12, <1>13, <1>14

\* The first message of a key is sent or another one before it.
LEMMA TailParts ==
  ASSUME NEW s, IsSeq(s), s # <<>>
  PROVE  /\ IsSeq(Tail(s))
         /\ \A w : Clean(s, w) => Head(s).key # w /\ Clean(Tail(s), w)
         /\ \A w, v : Once(s, w, v) =>
              \/ Head(s).key = w /\ Head(s).val = v /\ Clean(Tail(s), w)
              \/ Head(s).key # w /\ Once(Tail(s), w, v)
<1>1. PICK S : s \in Seq(S)
  BY DEF IsSeq
<1>2. PICK t : t = Tail(s)
  OBVIOUS
<1>3. t \in Seq(S) /\ Len(t) = Len(s) - 1 /\ \A i \in 1..Len(s) - 1 : t[i] = s[i + 1]
  BY <1>1, <1>2, HeadTailProperties
<1>4. PICK n : n = Len(s)
  OBVIOUS
<1>5. /\ n \in Nat \ {0} /\ DOMAIN s = 1..n /\ DOMAIN t = 1..n - 1
      /\ \A i \in 1..n - 1 : t[i] = s[i + 1]
      /\ Head(s) = s[1]
  BY <1>1, <1>3, <1>4, EmptySeq
<1>6. \A i \in 1..n : i = 1 \/ (i - 1 \in 1..n - 1 /\ t[i - 1] = s[i])
  <2>1. TAKE i \in 1..n
  <2>2. i = 1 \/ (i - 1 \in 1..n - 1 /\ (i - 1) + 1 = i)
    BY <1>5
  <2>3. QED
    BY <1>5, <2>2
<1>7. \A i \in 1..n - 1 : i + 1 \in 1..n /\ i + 1 # 1
  BY <1>5
<1>8. ASSUME NEW w, Clean(s, w) PROVE s[1].key # w /\ Clean(t, w)
  BY <1>5, <1>7, <1>8 DEF Clean
<1>9. ASSUME NEW w, NEW v, Once(s, w, v)
      PROVE  \/ s[1].key = w /\ s[1].val = v /\ Clean(t, w)
             \/ s[1].key # w /\ Once(t, w, v)
  <2>1. PICK i \in 1..n : s[i].key = w /\ s[i].val = v /\ \A j \in 1..n : s[j].key = w => j = i
    BY <1>5, <1>9 DEF Once
  <2>2. CASE i = 1
    <3>1. Clean(t, w)
      BY <1>5, <1>7, <2>1, <2>2 DEF Clean
    <3>2. QED
      BY <2>1, <2>2, <3>1
  <2>3. CASE i # 1
    <3>1. s[1].key # w
      BY <1>5, <2>1, <2>3
    <3>2. i - 1 \in 1..n - 1 /\ t[i - 1].key = w /\ t[i - 1].val = v
      BY <1>6, <2>1, <2>3
    <3>3. ASSUME NEW j \in 1..n - 1, t[j].key = w PROVE j = i - 1
      <4>1. j + 1 \in 1..n /\ s[j + 1].key = w
        BY <1>5, <1>7, <3>3
      <4>2. j + 1 = i
        BY <2>1, <4>1
      <4>3. QED
        BY <1>5, <4>2
    <3>4. QED
      BY <1>5, <3>1, <3>2, <3>3 DEF Once
  <2>4. QED
    BY <2>2, <2>3
<1>10. IsSeq(t)
  BY <1>3 DEF IsSeq
<1>11. QED
  BY <1>2, <1>5, <1>8, <1>9, <1>10

\* A message when the status changes and none otherwise.
LEMMA EdgeParts ==
  ASSUME NEW k, NEW old, NEW on
  PROVE  /\ IsSeq(Edge(k, old, on))
         /\ \A w : w # k => Clean(Edge(k, old, on), w)
         /\ old = on => Clean(Edge(k, old, on), k)
         /\ old # on => Once(Edge(k, old, on), k, Flag(k, on))
<1>1. CASE old = on
  <2>1. Edge(k, old, on) = <<>>
    BY <1>1 DEF Edge
  <2>2. QED
    BY <1>1, <2>1, EmptyParts
<1>2. CASE old # on
  <2>1. Edge(k, old, on) = <<Msg(k, Flag(k, on))>>
    BY <1>2 DEF Edge
  <2>2. Msg(k, Flag(k, on)).key = k /\ Msg(k, Flag(k, on)).val = Flag(k, on)
    BY DEF Msg
  <2>3. QED
    BY <1>2, <2>1, <2>2, OneParts
<1>3. QED
  BY <1>1, <1>2

\* The same for a warning with its fault.
LEMMA SendWarningParts ==
  ASSUME NEW k, NEW on, NEW list, k # "fault"
  PROVE  /\ IsSeq(SendWarning(k, on, list))
         /\ \A w : w \notin {k, "fault"} => Clean(SendWarning(k, on, list), w)
         /\ Once(SendWarning(k, on, list), k, Flag(k, on))
<1>1. PICK m, f : m = Msg(k, Flag(k, on)) /\ f = Msg("fault", list)
  OBVIOUS
<1>2. PICK s : s = <<m, f>>
  OBVIOUS
<1>3. s \in Seq({m, f}) /\ DOMAIN s = {1, 2} /\ s[1] = m /\ s[2] = f
  BY <1>2
<1>4. m.key = k /\ m.val = Flag(k, on) /\ f.key = "fault"
  BY <1>1 DEF Msg
<1>5. SendWarning(k, on, list) = s
  BY <1>1, <1>2 DEF SendWarning
<1>6. IsSeq(s)
  BY <1>3 DEF IsSeq
<1>7. \A w : w \notin {k, "fault"} => Clean(s, w)
  BY <1>3, <1>4 DEF Clean
<1>8. Once(s, k, Flag(k, on))
  BY <1>3, <1>4 DEF Once
<1>9. QED
  BY <1>5, <1>6, <1>7, <1>8

LEMMA WarningParts ==
  ASSUME NEW k, NEW on, NEW list, k # "fault"
  PROVE  /\ IsSeq(Warning(k, on, list))
         /\ \A w : w \notin {k, "fault"} => Clean(Warning(k, on, list), w)
         /\ (k \in warns) = on => Clean(Warning(k, on, list), k)
         /\ (k \in warns) # on => Once(Warning(k, on, list), k, Flag(k, on))
<1>1. CASE (k \in warns) = on
  <2>1. Warning(k, on, list) = <<>>
    BY <1>1 DEF Warning
  <2>2. QED
    BY <1>1, <2>1, EmptyParts
<1>2. CASE (k \in warns) # on
  <2>1. Warning(k, on, list) = SendWarning(k, on, list)
    BY <1>2 DEF Warning
  <2>2. QED
    BY <1>2, <2>1, SendWarningParts
<1>3. QED
  BY <1>1, <1>2

-----------------------------------------------------------------------------
(* The line of the MCU *)

Reported(s, k) == \E i \in DOMAIN s : s[i].kind = k

\* The last message of each kind in s has the value of f.
Current(s, f) ==
  \A i \in DOMAIN s : (\A j \in DOMAIN s : j > i => s[j].kind # s[i].kind)
                       => s[i].val = f[s[i].kind]

\* Reports of messages the MCU has; of the lane lamps, of these alone.
Fit(m) == m.kind \in Kinds /\ (m.kind = "LANE_DEPATURE" => m.val \subseteq LaneLamps)
AllFit(s) == \A i \in DOMAIN s : Fit(s[i])

\* The first message is taken: the others are still current, and it was itself if
\* it was the only one of its kind.
LEMMA TailCurrent ==
  ASSUME NEW s, NEW f, IsSeq(s), s # <<>>, Current(s, f)
  PROVE  /\ Current(Tail(s), f)
         /\ \A k : Reported(s, k) /\ k # Head(s).kind => Reported(Tail(s), k)
         /\ \A k : Reported(Tail(s), k) => Reported(s, k)
         /\ ~Reported(Tail(s), Head(s).kind) => Head(s).val = f[Head(s).kind]
         /\ AllFit(s) => Fit(Head(s)) /\ AllFit(Tail(s))
<1>1. PICK S : s \in Seq(S)
  BY DEF IsSeq
<1>2. PICK t : t = Tail(s)
  OBVIOUS
<1>3. t \in Seq(S) /\ Len(t) = Len(s) - 1 /\ \A i \in 1..Len(s) - 1 : t[i] = s[i + 1]
  BY <1>1, <1>2, HeadTailProperties
<1>4. PICK n : n = Len(s)
  OBVIOUS
<1>5. /\ n \in Nat \ {0} /\ DOMAIN s = 1..n /\ DOMAIN t = 1..n - 1
      /\ \A i \in 1..n - 1 : t[i] = s[i + 1]
      /\ Head(s) = s[1]
  BY <1>1, <1>3, <1>4, EmptySeq
<1>6. \A i \in 1..n : i # 1 => i - 1 \in 1..n - 1 /\ t[i - 1] = s[i]
  <2>1. TAKE i \in 1..n
  <2>2. i # 1 => i - 1 \in 1..n - 1 /\ (i - 1) + 1 = i
    BY <1>5
  <2>3. QED
    BY <1>5, <2>2
<1>7. \A i \in 1..n - 1 : i + 1 \in 1..n /\ i + 1 # 1
  BY <1>5
<1>8. Current(t, f)
  <2>1. ASSUME NEW i \in 1..n - 1, \A j \in 1..n - 1 : j > i => t[j].kind # t[i].kind
        PROVE  t[i].val = f[t[i].kind]
    <3>1. i + 1 \in 1..n /\ t[i] = s[i + 1]
      BY <1>5, <1>7
    <3>2. ASSUME NEW j \in 1..n, j > i + 1 PROVE s[j].kind # s[i + 1].kind
      <4>1. j # 1 /\ j - 1 > i
        BY <1>5, <3>2
      <4>2. j - 1 \in 1..n - 1 /\ t[j - 1] = s[j]
        BY <1>6, <4>1
      <4>3. QED
        BY <2>1, <3>1, <4>1, <4>2
    <3>3. QED
      BY <1>5, <3>1, <3>2 DEF Current
  <2>2. QED
    BY <1>5, <2>1 DEF Current
<1>9. ASSUME NEW k, Reported(s, k), k # s[1].kind PROVE Reported(t, k)
  BY <1>5, <1>6, <1>9 DEF Reported
<1>10. ASSUME NEW k, Reported(t, k) PROVE Reported(s, k)
  BY <1>5, <1>7, <1>10 DEF Reported
<1>11. ASSUME ~Reported(t, s[1].kind) PROVE s[1].val = f[s[1].kind]
  <2>1. ASSUME NEW j \in 1..n, j > 1 PROVE s[j].kind # s[1].kind
    BY <1>5, <1>6, <1>11, <2>1 DEF Reported
  <2>2. 1 \in 1..n
    BY <1>5
  <2>3. QED
    BY <1>5, <2>1, <2>2 DEF Current
<1>12. ASSUME AllFit(s) PROVE Fit(s[1]) /\ AllFit(t)
  BY <1>5, <1>7, <1>12 DEF AllFit
<1>13. QED
  BY <1>2, <1>5, <1>8, <1>9, <1>10, <1>11, <1>12

\* Messages behind the others, each with the value of g: what was said of other
\* kinds has not changed.
LEMMA ConcatCurrent ==
  ASSUME NEW s, NEW t, NEW f, NEW g, IsSeq(s), IsSeq(t), Current(s, f),
         \A i \in DOMAIN t : t[i].val = g[t[i].kind],
         \A i \in DOMAIN s : ~Reported(t, s[i].kind) => f[s[i].kind] = g[s[i].kind]
  PROVE  /\ IsSeq(s \o t)
         /\ Current(s \o t, g)
         /\ \A k : Reported(s \o t, k) <=> Reported(s, k) \/ Reported(t, k)
<1>1. PICK S : s \in Seq(S)
  BY DEF IsSeq
<1>2. PICK T : t \in Seq(T)
  BY DEF IsSeq
<1>3. s \in Seq(S \cup T) /\ t \in Seq(S \cup T)
  <2>1. \A i \in 1..Len(s) : s[i] \in S \cup T
    BY <1>1
  <2>2. \A i \in 1..Len(t) : t[i] \in S \cup T
    BY <1>2
  <2>3. QED
    BY <1>1, <1>2, <2>1, <2>2
<1>4. PICK c : c = s \o t
  OBVIOUS
<1>5. /\ c \in Seq(S \cup T) /\ Len(c) = Len(s) + Len(t)
      /\ \A i \in 1..Len(s) + Len(t) : c[i] = IF i <= Len(s) THEN s[i] ELSE t[i - Len(s)]
  BY <1>3, <1>4, ConcatProperties
<1>6. PICK m, n : m = Len(s) /\ n = Len(t)
  OBVIOUS
<1>7. /\ m \in Nat /\ n \in Nat
      /\ DOMAIN s = 1..m /\ DOMAIN t = 1..n /\ DOMAIN c = 1..m + n
      /\ \A i \in 1..m + n : c[i] = IF i <= m THEN s[i] ELSE t[i - m]
  BY <1>3, <1>5, <1>6
<1>8. \A i \in 1..m : i \in 1..m + n /\ c[i] = s[i]
  BY <1>7
<1>9. \A i \in 1..n : m + i \in 1..m + n /\ m + i > m /\ c[m + i] = t[i]
  <2>1. TAKE i \in 1..n
  <2>2. m + i \in 1..m + n /\ ~(m + i <= m) /\ (m + i) - m = i
    BY <1>7
  <2>3. QED
    BY <1>7, <2>2
<1>10. \A i \in 1..m + n : i \in 1..m \/ (i - m \in 1..n /\ i = m + (i - m))
  BY <1>7
<1>11. ASSUME NEW i \in 1..m + n, \A j \in 1..m + n : j > i => c[j].kind # c[i].kind
       PROVE  c[i].val = g[c[i].kind]
  <2>1. CASE i \in 1..m
    <3>1. \A j \in 1..m : j > i => s[j].kind # s[i].kind
      BY <1>8, <1>11, <2>1
    <3>2. \A j \in 1..n : t[j].kind # s[i].kind
      <4>1. TAKE j \in 1..n
      <4>2. m + j > i
        BY <1>7, <2>1
      <4>3. QED
        BY <1>8, <1>9, <1>11, <2>1, <4>2
    <3>3. s[i].val = f[s[i].kind]
      BY <1>7, <2>1, <3>1 DEF Current
    <3>4. f[s[i].kind] = g[s[i].kind]
      BY <1>7, <2>1, <3>2 DEF Reported
    <3>5. QED
      BY <1>8, <2>1, <3>3, <3>4
  <2>2. CASE i - m \in 1..n /\ i = m + (i - m)
    BY <1>7, <1>9, <2>2
  <2>3. QED
    BY <1>10, <2>1, <2>2
<1>12. Current(c, g)
  BY <1>7, <1>11 DEF Current
<1>13. ASSUME NEW k PROVE Reported(c, k) <=> Reported(s, k) \/ Reported(t, k)
  <2>1. ASSUME Reported(s, k) PROVE Reported(c, k)
    BY <1>7, <1>8, <2>1 DEF Reported
  <2>2. ASSUME Reported(t, k) PROVE Reported(c, k)
    BY <1>7, <1>9, <2>2 DEF Reported
  <2>3. ASSUME Reported(c, k) PROVE Reported(s, k) \/ Reported(t, k)
    <3>1. PICK i \in 1..m + n : c[i].kind = k
      BY <1>7, <2>3 DEF Reported
    <3>2. CASE i \in 1..m
      BY <1>7, <1>8, <3>1, <3>2 DEF Reported
    <3>3. CASE i - m \in 1..n /\ i = m + (i - m)
      BY <1>7, <1>9, <3>1, <3>3 DEF Reported
    <3>4. QED
      BY <1>10, <3>2, <3>3
  <2>4. QED
    BY <2>1, <2>2, <2>3
<1>14. IsSeq(c)
  BY <1>5 DEF IsSeq
<1>15. QED
  BY <1>4, <1>12, <1>13, <1>14

LEMMA ConcatFit ==
  ASSUME NEW s, NEW t, IsSeq(s), IsSeq(t), AllFit(s), AllFit(t)
  PROVE  AllFit(s \o t)
<1>1. PICK S : s \in Seq(S)
  BY DEF IsSeq
<1>2. PICK T : t \in Seq(T)
  BY DEF IsSeq
<1>3. s \in Seq(S \cup T) /\ t \in Seq(S \cup T)
  <2>1. \A i \in 1..Len(s) : s[i] \in S \cup T
    BY <1>1
  <2>2. \A i \in 1..Len(t) : t[i] \in S \cup T
    BY <1>2
  <2>3. QED
    BY <1>1, <1>2, <2>1, <2>2
<1>4. PICK c : c = s \o t
  OBVIOUS
<1>5. /\ c \in Seq(S \cup T) /\ Len(c) = Len(s) + Len(t)
      /\ \A i \in 1..Len(s) + Len(t) : c[i] = IF i <= Len(s) THEN s[i] ELSE t[i - Len(s)]
  BY <1>3, <1>4, ConcatProperties
<1>6. PICK m, n : m = Len(s) /\ n = Len(t)
  OBVIOUS
<1>7. /\ m \in Nat /\ n \in Nat
      /\ DOMAIN s = 1..m /\ DOMAIN t = 1..n /\ DOMAIN c = 1..m + n
      /\ \A i \in 1..m + n : c[i] = IF i <= m THEN s[i] ELSE t[i - m]
  BY <1>3, <1>5, <1>6
<1>8. \A i \in 1..m : i \in 1..m + n /\ c[i] = s[i]
  BY <1>7
<1>9. \A i \in 1..n : m + i \in 1..m + n /\ m + i > m /\ c[m + i] = t[i]
  <2>1. TAKE i \in 1..n
  <2>2. m + i \in 1..m + n /\ ~(m + i <= m) /\ (m + i) - m = i
    BY <1>7
  <2>3. QED
    BY <1>7, <2>2
<1>10. \A i \in 1..m + n : i \in 1..m \/ (i - m \in 1..n /\ i = m + (i - m))
  BY <1>7
<1>11. ASSUME NEW i \in 1..m + n PROVE Fit(c[i])
  <2>1. CASE i \in 1..m
    BY <1>7, <1>8, <2>1 DEF AllFit
  <2>2. CASE i - m \in 1..n /\ i = m + (i - m)
    BY <1>7, <1>9, <2>2 DEF AllFit
  <2>3. QED
    BY <1>10, <2>1, <2>2
<1>12. QED
  BY <1>4, <1>7, <1>11 DEF AllFit

\* A signal changes and is reported.
LEMMA AppendCurrent ==
  ASSUME NEW s, NEW f, NEW k, NEW v, IsSeq(s), Current(s, f), k \in DOMAIN f,
         \A i \in DOMAIN s : s[i].kind \in DOMAIN f
  PROVE  LET c == Append(s, [kind |-> k, val |-> v]) IN
         /\ IsSeq(c)
         /\ Current(c, [f EXCEPT ![k] = v])
         /\ \A x : Reported(c, x) <=> Reported(s, x) \/ x = k
         /\ AllFit(s) /\ Fit([kind |-> k, val |-> v]) => AllFit(c)
<1>1. PICK e, g, t : e = [kind |-> k, val |-> v] /\ g = [f EXCEPT ![k] = v] /\ t = <<e>>
  OBVIOUS
<1>2. e.kind = k /\ e.val = v
  BY <1>1
<1>3. g[k] = v /\ \A x \in DOMAIN f : x # k => g[x] = f[x]
  BY <1>1
<1>4. t \in Seq({e}) /\ DOMAIN t = {1} /\ t[1] = e
  BY <1>1
<1>5. IsSeq(t) /\ \A x : Reported(t, x) <=> x = k
  BY <1>2, <1>4 DEF IsSeq, Reported
<1>6. \A i \in DOMAIN t : t[i].val = g[t[i].kind]
  BY <1>2, <1>3, <1>4
<1>7. \A i \in DOMAIN s : ~Reported(t, s[i].kind) => f[s[i].kind] = g[s[i].kind]
  BY <1>3, <1>5
<1>8. /\ IsSeq(s \o t) /\ Current(s \o t, g)
      /\ \A x : Reported(s \o t, x) <=> Reported(s, x) \/ Reported(t, x)
  BY <1>5, <1>6, <1>7, ConcatCurrent
<1>14. AllFit(s) /\ AllFit(t) => AllFit(s \o t)
  BY <1>5, ConcatFit
<1>9. PICK S : s \in Seq(S)
  BY DEF IsSeq
<1>10. s \in Seq(S \cup {e})
  <2>1. \A i \in 1..Len(s) : s[i] \in S \cup {e}
    BY <1>9
  <2>2. QED
    BY <1>9, <2>1
<1>11. Append(s, e) = s \o <<e>>
  BY <1>10, AppendIsConcat
<1>12. Fit(e) => AllFit(t)
  BY <1>4 DEF AllFit
<1>13. QED
  BY <1>1, <1>5, <1>8, <1>11, <1>12, <1>14

-----------------------------------------------------------------------------
(* The messages of the MCU *)

LEMMA BitsKinds == BitKinds = {"CAR_LIGHT", "FAULT", "ALARM", "EPB", "AIRBAG", "PEPS", "LANE_DEPATURE",
   "ALARM_TIRE", "DTC", "OILLOW", "TIRE_PRESSURE", "TIRE_FAULT", "CFG_THEME", "CFG_LANG",
   "AUDIO_REPORT", "MUSIC_CLOSE", "MUSIC_PROCESS", "MUSIC_ALBUM", "MUSIC_NAME", "MUSIC_AUTHOR",
   "GEAR_BOX", "TIRE_TEMPERATURE", "TOTAL_MILEAGE", "SUBTOTAL_MILEAGE", "ENDURANCE_MILEAGE",
   "AVERAGE_FUEL", "INTANT_FUEL", "EXTERNEL_TEMPERATURE", "NAVIGATION", "KEY"}
BY DEF BitKinds, Bits

LEMMA BeltBits ==
  \A k \in BitKinds : k # "ALARM" => /\ "driverBeltLight" \notin Bits[k]
                                     /\ "passengerBeltLight" \notin Bits[k]
BY DEF BitKinds, Bits

LEMMA WarnBits ==
  \A k \in BitKinds : /\ "parking" \in Bits[k] <=> k = "ALARM"
                      /\ "pepsnotfindb" \in Bits[k] <=> k = "PEPS"
                      /\ "pepsbatterylow" \in Bits[k] <=> k = "PEPS"
                      /\ "WrongGear_P" \in Bits[k] <=> k = "DTC"
                      /\ "tiresystemfault" \in Bits[k] <=> k = "TIRE_PRESSURE"
BY DEF BitKinds, Bits

\* The MCU is asked for messages it has.
LEMMA AskedKinds ==
  ASSUME NEW r \in DOMAIN Asked PROVE Asked[r] \in Seq(Kinds)
<1>1. Asked["WARNING_GET"] \in Seq(Kinds)
  <2>1. Asked["WARNING_GET"] = <<"FAULT", "ALARM", "PEPS">>
    BY DEF Asked
  <2>2. "FAULT" \in Kinds /\ "ALARM" \in Kinds /\ "PEPS" \in Kinds
    BY BitsKinds DEF Kinds
  <2>3. QED
    BY <2>1, <2>2
<1>2. Asked["TELLTALE"] \in Seq(Kinds)
  <2>1. Asked["TELLTALE"] = <<"FAULT", "ALARM", "EPB", "PEPS", "AIRBAG", "LANE_DEPATURE", "OILLOW">>
    BY DEF Asked
  <2>2. {"FAULT", "ALARM", "EPB", "PEPS", "AIRBAG", "LANE_DEPATURE", "OILLOW"} \subseteq Kinds
    BY BitsKinds DEF Kinds
  <2>3. QED
    BY <2>1, <2>2
<1>3. Asked["TIRE_PRESS_WARN"] \in Seq(Kinds)
  <2>1. Asked["TIRE_PRESS_WARN"] = <<"ALARM_TIRE", "TIRE_FAULT">>
    BY DEF Asked
  <2>2. "ALARM_TIRE" \in Kinds /\ "TIRE_FAULT" \in Kinds
    BY BitsKinds DEF Kinds
  <2>3. QED
    BY <2>1, <2>2
<1>4. CASE r \notin {"WARNING_GET", "TELLTALE", "TIRE_PRESS_WARN"}
  <2>1. \E k \in {"TIRE_PRESSURE", "TIRE_TEMPERATURE", "GEAR_BOX", "TOTAL_MILEAGE",
                  "SUBTOTAL_MILEAGE", "EXTERNEL_TEMPERATURE", "COOLANT", "FUEL",
                  "CAR_LIGHT", "INTANT_FUEL", "AVERAGE_FUEL", "ENDURANCE_MILEAGE"} :
          Asked[r] = <<k>>
    BY <1>4 DEF Asked
  <2>2. {"TIRE_PRESSURE", "TIRE_TEMPERATURE", "GEAR_BOX", "TOTAL_MILEAGE",
         "SUBTOTAL_MILEAGE", "EXTERNEL_TEMPERATURE", "COOLANT", "FUEL",
         "CAR_LIGHT", "INTANT_FUEL", "AVERAGE_FUEL", "ENDURANCE_MILEAGE"} \subseteq Kinds
    BY BitsKinds DEF Kinds
  <2>3. PICK k \in Kinds : Asked[r] = <<k>>
    BY <2>1, <2>2
  <2>4. QED
    BY <2>3
<1>5. QED
  BY <1>1, <1>2, <1>3, <1>4

\* The percentage that a warning calls for, by its segment.
LEMMA FuelMarks ==
  ASSUME NEW x \in Int PROVE OilLow(FuelSegment(x)) <=> x < 25
<1>1. PICK M : M = {m \in {1, 13, 25, 37, 49, 61, 73, 85} : m <= x}
  OBVIOUS
<1>2. IsFiniteSet(M)
  <2>1. PICK n \in Nat : n = 85
    OBVIOUS
  <2>2. M \in SUBSET Nat /\ \A m \in M : m <= n
    BY <1>1, <2>1
  <2>3. QED
    BY <2>2, FS_BoundedSetOfNaturals
<1>3. IsFiniteSet({1}) /\ Cardinality({1}) = 1
  BY FS_Singleton
<1>4. IsFiniteSet({1} \cup {13}) /\ Cardinality({1} \cup {13}) = 2
  BY <1>3, FS_AddElement
<1>5. IsFiniteSet(({1} \cup {13}) \cup {25}) /\ Cardinality(({1} \cup {13}) \cup {25}) = 3
  BY <1>4, FS_AddElement
<1>6. CASE x < 25
  <2>1. M \subseteq {1} \cup {13}
    BY <1>1, <1>6
  <2>2. Cardinality(M) <= 2
    <3>1. PICK T : T = {1} \cup {13}
      OBVIOUS
    <3>2. IsFiniteSet(T) /\ Cardinality(T) = 2 /\ M \subseteq T
      BY <1>4, <2>1, <3>1
    <3>3. QED
      BY <3>2, FS_Subset
  <2>3. QED
    BY <1>1, <1>6, <2>2 DEF OilLow, FuelSegment, Reached
<1>7. CASE ~(x < 25)
  <2>1. ({1} \cup {13}) \cup {25} \subseteq M
    BY <1>1, <1>7
  <2>2. Cardinality(M) >= 3 /\ Cardinality(M) \in Nat
    BY <1>2, <1>5, <2>1, FS_Subset, FS_CardinalityType
  <2>3. QED
    BY <1>1, <1>7, <2>2 DEF OilLow, FuelSegment, Reached
<1>8. QED
  BY <1>6, <1>7

\* The temperature whose degrees are above the mark.
LEMMA CoolantMark ==
  ASSUME NEW x \in Int PROVE CoolantHigh(x) <=> x >= 1210
<1>1. CASE x < 0
  <2>1. (-x) \div 10 >= 0
    BY <1>1
  <2>2. QED
    BY <1>1, <2>1 DEF CoolantHigh, Degrees
<1>2. CASE x >= 0
  BY <1>2 DEF CoolantHigh, Degrees
<1>3. QED
  BY <1>1, <1>2

-----------------------------------------------------------------------------
(* The warnings and sounds and where they come from *)

Watched == Warns \cup Sounds

\* The message of the MCU that decides about w.
Owner(w) ==
  CASE w \in {"drive_belt", "copilot_belt", "parking"} -> "ALARM"
    [] w \in {"pepsnotfindb", "pepsbatterylow"} -> "PEPS"
    [] w = "WrongGear_P" -> "DTC"
    [] w = "tiresystemfault" -> "TIRE_PRESSURE"
    [] w = "oillow" -> "FUEL"
    [] w = "coolandtemperaturehigh" -> "COOLANT"
    [] OTHER -> "AUDIO_REPORT"

\* Whether the stored signals say that w is on, and its status as it is sent.
On(w) ==
  \/ w = "drive_belt" /\ "driverBeltLight" \in lamps
  \/ w = "copilot_belt" /\ "passengerBeltLight" \in lamps
  \/ w = "coolandtemperaturehigh" /\ CoolantHigh(coolant)
  \/ w = "audio_belong2dhu" /\ belongs # {}
  \/ w \in warns \ Sounds
Status(w) == Flag(w, On(w))

\* Whether a report v of its owner says so.
Calls(w, v) ==
  \/ w = "drive_belt" /\ "driverBeltLight" \in v
  \/ w = "copilot_belt" /\ "passengerBeltLight" \in v
  \/ w = "coolandtemperaturehigh" /\ CoolantHigh(v)
  \/ w = "audio_belong2dhu" /\ v # {}
  \/ w = "oillow" /\ OilLow(FuelSegment(v))
  \/ w \in v /\ w \notin Sounds /\ w # "oillow"

\* What a handler has to leave alone for w to stay as it is.
LEMMA OnKept ==
  ASSUME NEW w, UNCHANGED <<warns, coolant, belongs>>,
         "driverBeltLight" \in lamps' <=> "driverBeltLight" \in lamps,
         "passengerBeltLight" \in lamps' <=> "passengerBeltLight" \in lamps
  PROVE  On(w)' <=> On(w)
BY DEF On

\* What a handler of k makes of w: one message when the status changes (or the
\* temperature, or a report of the tire system with another bit comes), and the
\* status that was reported; none for a w of another message.
Passes(w) ==
  \/ (On(w)' <=> On(w)) /\ Clean(out', w)
  \/ Once(out', w, Status(w)') /\ (w \in Warns => ~(On(w)' <=> On(w)) \/ Resends(w)')
Takes(w) ==
  \/ On(w)' <=> Calls(w, Received)
  \/ w = "oillow" /\ ~IsPercent(Received)
Spares(w) == (On(w)' <=> On(w)) /\ Clean(out', w)
Handles(k) ==
  /\ IsSeq(out')
  /\ \A w \in Watched : IF Owner(w) = k THEN Passes(w) /\ Takes(w) ELSE Spares(w)

Owners == {"ALARM", "PEPS", "DTC", "TIRE_PRESSURE", "FUEL", "COOLANT", "AUDIO_REPORT"}

\* A handler that decides about no warning and no sound.
LEMMA QuietHandles ==
  ASSUME NEW k, k \notin Owners, UNCHANGED <<warns, coolant, belongs>>,
         "driverBeltLight" \in lamps' <=> "driverBeltLight" \in lamps,
         "passengerBeltLight" \in lamps' <=> "passengerBeltLight" \in lamps,
         IsSeq(out'), \A w \in Watched : Clean(out', w)
  PROVE  Handles(k)
<1>1. \A w \in Watched : Owner(w) # k
  BY DEF Owner, Owners
<1>2. QED
  BY <1>1, OnKept DEF Handles, Spares

LEMMA OneClean ==
  ASSUME NEW k, NEW v
  PROVE  /\ IsSeq(<<Msg(k, v)>>)
         /\ \A w : w # k => Clean(<<Msg(k, v)>>, w)
         /\ Once(<<Msg(k, v)>>, k, v)
<1>1. PICK m : m = Msg(k, v)
  OBVIOUS
<1>2. m.key = k /\ m.val = v
  BY <1>1 DEF Msg
<1>3. QED
  BY <1>1, <1>2, OneParts

\* What is sent besides warnings and sounds.
LEMMA NoWarning ==
  /\ "telltale" \notin Watched /\ "turn" \notin Watched /\ "turn sound" \notin Watched
  /\ "fault" \notin Watched /\ "tirePressures" \notin Watched
  /\ "fuel" \notin Watched /\ "coolant" \notin Watched /\ "musicStatus" \notin Watched
  /\ \A k \in Tires \cup Settings \cup Music \cup Gauges : k \notin Watched
BY DEF Watched, Warns, Listed, Sounds, Tires, Bits, Settings, Music, Gauges

LEMMA QuietOne ==
  ASSUME NEW k, NEW v, k \notin Watched
  PROVE  IsSeq(<<Msg(k, v)>>) /\ \A w \in Watched : Clean(<<Msg(k, v)>>, w)
<1>1. \A w \in Watched : w # k
  OBVIOUS
<1>2. QED
  BY <1>1, OneClean

-----------------------------------------------------------------------------
(* The handlers of the lamps, the settings, the music and the gauges *)

LEMMA LampHandles ==
  ASSUME NEW k \in {"FAULT", "EPB", "AIRBAG", "ALARM_TIRE", "OILLOW"}, LampMessage(k)
  PROVE  Handles(k)
<1>1. k \in BitKinds /\ k \notin Owners
  BY BitsKinds DEF Owners
<1>2. /\ "driverBeltLight" \in lamps' <=> "driverBeltLight" \in lamps
      /\ "passengerBeltLight" \in lamps' <=> "passengerBeltLight" \in lamps
  BY <1>1, BeltBits DEF LampMessage, SetBits, Owners
<1>3. out' = <<Msg("telltale", lamps')>>
  BY DEF LampMessage
<1>4. IsSeq(out') /\ \A w \in Watched : Clean(out', w)
  BY <1>3, NoWarning, QuietOne
<1>5. UNCHANGED <<warns, coolant, belongs>>
  BY DEF LampMessage
<1>6. QED
  BY <1>1, <1>2, <1>4, <1>5, QuietHandles

LEMMA LaneHandles ==
  ASSUME LaneDepature, Received \subseteq LaneLamps
  PROVE  Handles("LANE_DEPATURE")
<1>1. LaneLamps = {"ldwLightRed", "ldwLightGreen"}
  BY DEF LaneLamps, Bits
<1>2. /\ "driverBeltLight" \in lamps' <=> "driverBeltLight" \in lamps
      /\ "passengerBeltLight" \in lamps' <=> "passengerBeltLight" \in lamps
  BY <1>1 DEF LaneDepature
<1>3. out' = <<Msg("telltale", lamps')>>
  BY DEF LaneDepature
<1>4. IsSeq(out') /\ \A w \in Watched : Clean(out', w)
  BY <1>3, NoWarning, QuietOne
<1>5. UNCHANGED <<warns, coolant, belongs>>
  BY DEF LaneDepature
<1>6. QED
  BY <1>2, <1>4, <1>5, QuietHandles DEF Owners

\* Two messages behind each other that no watched w is about.
LEMMA QuietTwo ==
  ASSUME NEW a, NEW b, IsSeq(a), IsSeq(b),
         \A w \in Watched : Clean(a, w), \A w \in Watched : Clean(b, w)
  PROVE  IsSeq(a \o b) /\ \A w \in Watched : Clean(a \o b, w)
BY ConcatParts

LEMMA QuietEdge ==
  ASSUME NEW k, k \notin Watched, NEW old, NEW on
  PROVE  IsSeq(Edge(k, old, on)) /\ \A w \in Watched : Clean(Edge(k, old, on), w)
<1>1. \A w \in Watched : w # k
  OBVIOUS
<1>2. QED
  BY <1>1, EdgeParts

LEMMA CarHandles ==
  ASSUME CarLight PROVE Handles("CAR_LIGHT")
<1>1. PICK l : l = <<Msg("turn", Received \cup Flag("danger", Received = {"left", "right"}))>>
  OBVIOUS
<1>2. PICK a, b : a = <<Msg("turn sound", {"turn_on"})>> /\ b = <<Msg("turn sound", {"turn_off"})>>
  OBVIOUS
<1>3. IsSeq(l) /\ \A w \in Watched : Clean(l, w)
  BY <1>1, NoWarning, QuietOne
<1>4. IsSeq(a) /\ \A w \in Watched : Clean(a, w)
  BY <1>2, NoWarning, QuietOne
<1>5. IsSeq(b) /\ \A w \in Watched : Clean(b, w)
  BY <1>2, NoWarning, QuietOne
<1>6. IsSeq(<<>>) /\ \A w \in Watched : Clean(<<>>, w)
  BY EmptyParts
<1>7. \/ out' = a \o l \/ out' = b \o l \/ out' = <<>> \o l
  BY <1>1, <1>2 DEF CarLight
<1>8. IsSeq(out') /\ \A w \in Watched : Clean(out', w)
  BY <1>3, <1>4, <1>5, <1>6, <1>7, QuietTwo
<1>9. UNCHANGED <<lamps, warns, coolant, belongs>>
  BY DEF CarLight
<1>10. QED
  BY <1>8, <1>9, QuietHandles DEF Owners

LEMMA TireFaultHandles ==
  ASSUME TireFault PROVE Handles("TIRE_FAULT")
<1>1. PICK a, b, c, d :
        /\ a = Edge("frontLeftTire", "frontLeftTire" \in tires, "frontLeftTire" \in Received)
        /\ b = Edge("frontRightTire", "frontRightTire" \in tires, "frontRightTire" \in Received)
        /\ c = Edge("rearLeftTire", "rearLeftTire" \in tires, "rearLeftTire" \in Received)
        /\ d = Edge("rearRightTire", "rearRightTire" \in tires, "rearRightTire" \in Received)
  OBVIOUS
<1>2. {"frontLeftTire", "frontRightTire", "rearLeftTire", "rearRightTire"} = Tires
  BY DEF Tires, Bits
<1>3. \A t \in Tires : t \notin Watched
  BY NoWarning
<1>4. /\ IsSeq(a) /\ \A w \in Watched : Clean(a, w)
      /\ IsSeq(b) /\ \A w \in Watched : Clean(b, w)
  BY <1>1, <1>2, <1>3, QuietEdge
<1>5. /\ IsSeq(c) /\ \A w \in Watched : Clean(c, w)
      /\ IsSeq(d) /\ \A w \in Watched : Clean(d, w)
  BY <1>1, <1>2, <1>3, QuietEdge
<1>6. out' = ((a \o b) \o c) \o d
  BY <1>1 DEF TireFault
<1>7. PICK x, y : x = a \o b /\ y = x \o c
  OBVIOUS
<1>8. IsSeq(x) /\ \A w \in Watched : Clean(x, w)
  BY <1>4, <1>7, QuietTwo
<1>9. IsSeq(y) /\ \A w \in Watched : Clean(y, w)
  BY <1>5, <1>7, <1>8, QuietTwo
<1>10. IsSeq(y \o d) /\ \A w \in Watched : Clean(y \o d, w)
  BY <1>5, <1>9, QuietTwo
<1>11. out' = y \o d
  BY <1>6, <1>7
<1>12. UNCHANGED <<lamps, warns, coolant, belongs>>
  BY DEF TireFault
<1>13. QED
  BY <1>10, <1>11, <1>12, QuietHandles DEF Owners

LEMMA SetupHandles ==
  ASSUME NEW k \in {"CFG_THEME", "CFG_LANG"}, NEW t \in Settings, Setup(k, t)
  PROVE  Handles(k)
<1>1. out' = Edge(t, t \in setup, t \in Received)
  BY DEF Setup
<1>2. t \notin Watched
  BY NoWarning
<1>3. IsSeq(out') /\ \A w \in Watched : Clean(out', w)
  BY <1>1, <1>2, QuietEdge
<1>4. UNCHANGED <<lamps, warns, coolant, belongs>>
  BY DEF Setup
<1>5. QED
  BY <1>3, <1>4, QuietHandles DEF Owners

LEMMA CloseHandles ==
  ASSUME MusicClose PROVE Handles("MUSIC_CLOSE")
<1>1. out' = <<Msg("musicStatus", {})>>
  BY DEF MusicClose
<1>2. IsSeq(out') /\ \A w \in Watched : Clean(out', w)
  BY <1>1, NoWarning, QuietOne
<1>3. UNCHANGED <<lamps, warns, coolant, belongs>>
  BY DEF MusicClose
<1>4. QED
  BY <1>2, <1>3, QuietHandles DEF Owners

LEMMA InfoHandles ==
  ASSUME NEW k \in {"MUSIC_PROCESS", "MUSIC_ALBUM", "MUSIC_NAME", "MUSIC_AUTHOR"}, MusicInfo(k)
  PROVE  Handles(k)
<1>1. PICK t : t = CHOOSE x \in Bits[k] : TRUE
  OBVIOUS
<1>2. /\ Bits["MUSIC_PROCESS"] = {"musicProcess"} /\ Bits["MUSIC_ALBUM"] = {"albumName"}
      /\ Bits["MUSIC_NAME"] = {"musicName"} /\ Bits["MUSIC_AUTHOR"] = {"authorName"}
  BY DEF Bits
<1>3. \E x \in Bits[k] : TRUE
  BY <1>2
<1>4. t \in Bits[k]
  BY <1>1, <1>3
<1>5. t \in Music
  BY <1>2, <1>4 DEF Music
<1>6. t \notin Watched
  BY <1>5, NoWarning
<1>7. out' = <<Msg(t, Received)>>
  BY <1>1 DEF MusicInfo
<1>8. IsSeq(out') /\ \A w \in Watched : Clean(out', w)
  BY <1>6, <1>7, QuietOne
<1>9. UNCHANGED <<lamps, warns, coolant, belongs>>
  BY DEF MusicInfo
<1>10. QED
  BY <1>8, <1>9, QuietHandles DEF Owners

LEMMA GaugeHandles ==
  ASSUME NEW k \in Gauges, Gauge(k) PROVE Handles(k)
<1>1. out' = <<Msg(k, Received)>>
  BY DEF Gauge
<1>2. k \notin Watched
  BY NoWarning
<1>3. IsSeq(out') /\ \A w \in Watched : Clean(out', w)
  BY <1>1, <1>2, QuietOne
<1>4. UNCHANGED <<lamps, warns, coolant, belongs>>
  BY DEF Gauge, signals
<1>5. k \notin Owners
  BY DEF Gauges, Owners
<1>6. QED
  BY <1>3, <1>4, <1>5, QuietHandles

-----------------------------------------------------------------------------
(* The handlers that decide about a warning or a sound *)

\* One message exactly when the status changes.
LEMMA PassIs ==
  ASSUME NEW w, (On(w)' <=> On(w)) => Clean(out', w),
         ~(On(w)' <=> On(w)) => Once(out', w, Status(w)')
  PROVE  Passes(w)
BY DEF Passes

\* Three messages that may be there and one that is none of w.
LEMMA FourParts ==
  ASSUME NEW a, NEW b, NEW c, NEW d, IsSeq(a), IsSeq(b), IsSeq(c), IsSeq(d),
         NEW w, Clean(d, w)
  PROVE  LET s == ((a \o b) \o c) \o d IN
         /\ IsSeq(s)
         /\ Clean(a, w) /\ Clean(b, w) /\ Clean(c, w) => Clean(s, w)
         /\ \A v : Once(a, w, v) /\ Clean(b, w) /\ Clean(c, w) => Once(s, w, v)
         /\ \A v : Clean(a, w) /\ Once(b, w, v) /\ Clean(c, w) => Once(s, w, v)
         /\ \A v : Clean(a, w) /\ Clean(b, w) /\ Once(c, w, v) => Once(s, w, v)
<1>1. PICK x, y, z : x = a \o b /\ y = x \o c /\ z = y \o d
  OBVIOUS
<1>2. /\ IsSeq(x)
      /\ Clean(a, w) /\ Clean(b, w) => Clean(x, w)
      /\ \A v : Once(a, w, v) /\ Clean(b, w) => Once(x, w, v)
      /\ \A v : Clean(a, w) /\ Once(b, w, v) => Once(x, w, v)
  BY <1>1, ConcatParts
<1>3. /\ IsSeq(y)
      /\ Clean(x, w) /\ Clean(c, w) => Clean(y, w)
      /\ \A v : Once(x, w, v) /\ Clean(c, w) => Once(y, w, v)
      /\ \A v : Clean(x, w) /\ Once(c, w, v) => Once(y, w, v)
  BY <1>1, <1>2, ConcatParts
<1>4. /\ IsSeq(z)
      /\ Clean(y, w) => Clean(z, w)
      /\ \A v : Once(y, w, v) => Once(z, w, v)
  BY <1>1, <1>3, ConcatParts
<1>5. z = ((a \o b) \o c) \o d
  BY <1>1
<1>6. QED
  BY <1>2, <1>3, <1>4, <1>5

LEMMA AlarmHandles ==
  ASSUME Alarm PROVE Handles("ALARM")
<1>1. PICK a, b, c, d :
        /\ a = Edge("drive_belt", "driverBeltLight" \in lamps, "driverBeltLight" \in Received)
        /\ b = Edge("copilot_belt", "passengerBeltLight" \in lamps,
                    "passengerBeltLight" \in Received)
        /\ c = Edge("parking", "parking" \in warns, "parking" \in Received)
        /\ d = <<Msg("telltale", lamps')>>
  OBVIOUS
<1>2. out' = ((a \o b) \o c) \o d
  BY <1>1 DEF Alarm
<1>3. /\ IsSeq(a)
      /\ \A w : w # "drive_belt" => Clean(a, w)
      /\ ("driverBeltLight" \in lamps <=> "driverBeltLight" \in Received)
           => Clean(a, "drive_belt")
      /\ ~("driverBeltLight" \in lamps <=> "driverBeltLight" \in Received)
           => Once(a, "drive_belt", Flag("drive_belt", "driverBeltLight" \in Received))
  BY <1>1, EdgeParts
<1>4. /\ IsSeq(b)
      /\ \A w : w # "copilot_belt" => Clean(b, w)
      /\ ("passengerBeltLight" \in lamps <=> "passengerBeltLight" \in Received)
           => Clean(b, "copilot_belt")
      /\ ~("passengerBeltLight" \in lamps <=> "passengerBeltLight" \in Received)
           => Once(b, "copilot_belt", Flag("copilot_belt", "passengerBeltLight" \in Received))
  BY <1>1, EdgeParts
<1>5. /\ IsSeq(c)
      /\ \A w : w # "parking" => Clean(c, w)
      /\ ("parking" \in warns <=> "parking" \in Received) => Clean(c, "parking")
      /\ ~("parking" \in warns <=> "parking" \in Received)
           => Once(c, "parking", Flag("parking", "parking" \in Received))
  BY <1>1, EdgeParts
<1>6. IsSeq(d) /\ \A w \in Watched : Clean(d, w)
  BY <1>1, NoWarning, QuietOne
<1>7. {"driverBeltLight", "passengerBeltLight"} \subseteq Bits["ALARM"] \ {"parking"}
  BY DEF Bits
<1>8. /\ "driverBeltLight" \in lamps' <=> "driverBeltLight" \in Received
      /\ "passengerBeltLight" \in lamps' <=> "passengerBeltLight" \in Received
  BY <1>7 DEF Alarm, SetBits
<1>9. /\ "parking" \in warns' <=> "parking" \in Received
      /\ \A w : w # "parking" => (w \in warns' <=> w \in warns)
      /\ UNCHANGED <<coolant, belongs>>
  BY DEF Alarm, SetBits
<1>10. ASSUME NEW w \in Watched, w \notin {"drive_belt", "copilot_belt", "parking"}
       PROVE  Spares(w)
  <2>1. On(w)' <=> On(w)
    BY <1>9, <1>10 DEF On
  <2>2. Clean(out', w)
    BY <1>2, <1>3, <1>4, <1>5, <1>6, <1>10, FourParts
  <2>3. QED
    BY <2>1, <2>2 DEF Spares
<1>11. Passes("drive_belt") /\ Takes("drive_belt")
  <2>1. /\ On("drive_belt") <=> "driverBeltLight" \in lamps
        /\ On("drive_belt")' <=> "driverBeltLight" \in Received
        /\ Calls("drive_belt", Received) <=> "driverBeltLight" \in Received
    BY <1>8 DEF On, Calls, Sounds
  <2>2. Status("drive_belt")' = Flag("drive_belt", "driverBeltLight" \in Received)
    BY <2>1 DEF Status, Flag
  <2>3. "drive_belt" \in Watched
    BY DEF Watched, Sounds
  <2>4. /\ (On("drive_belt")' <=> On("drive_belt")) => Clean(out', "drive_belt")
        /\ ~(On("drive_belt")' <=> On("drive_belt"))
             => Once(out', "drive_belt", Status("drive_belt")')
    BY <1>2, <1>3, <1>4, <1>5, <1>6, <2>1, <2>2, <2>3, FourParts
  <2>5. QED
    BY <2>1, <2>4, PassIs DEF Takes
<1>12. Passes("copilot_belt") /\ Takes("copilot_belt")
  <2>1. /\ On("copilot_belt") <=> "passengerBeltLight" \in lamps
        /\ On("copilot_belt")' <=> "passengerBeltLight" \in Received
        /\ Calls("copilot_belt", Received) <=> "passengerBeltLight" \in Received
    BY <1>8 DEF On, Calls, Sounds
  <2>2. Status("copilot_belt")' = Flag("copilot_belt", "passengerBeltLight" \in Received)
    BY <2>1 DEF Status, Flag
  <2>3. "copilot_belt" \in Watched
    BY DEF Watched, Sounds
  <2>4. /\ (On("copilot_belt")' <=> On("copilot_belt")) => Clean(out', "copilot_belt")
        /\ ~(On("copilot_belt")' <=> On("copilot_belt"))
             => Once(out', "copilot_belt", Status("copilot_belt")')
    BY <1>2, <1>3, <1>4, <1>5, <1>6, <2>1, <2>2, <2>3, FourParts
  <2>5. QED
    BY <2>1, <2>4, PassIs DEF Takes
<1>13. Passes("parking") /\ Takes("parking")
  <2>1. /\ On("parking") <=> "parking" \in warns
        /\ On("parking")' <=> "parking" \in Received
        /\ Calls("parking", Received) <=> "parking" \in Received
    BY <1>9 DEF On, Calls, Sounds
  <2>2. Status("parking")' = Flag("parking", "parking" \in Received)
    BY <2>1 DEF Status, Flag
  <2>3. "parking" \in Watched
    BY DEF Watched, Warns
  <2>4. /\ (On("parking")' <=> On("parking")) => Clean(out', "parking")
        /\ ~(On("parking")' <=> On("parking")) => Once(out', "parking", Status("parking")')
    BY <1>2, <1>3, <1>4, <1>5, <1>6, <2>1, <2>2, <2>3, FourParts
  <2>5. QED
    BY <2>1, <2>4, PassIs DEF Takes
<1>14. IsSeq(out')
  BY <1>2, <1>3, <1>4, <1>5, <1>6, <1>13, FourParts DEF Watched, Warns
<1>15. \A w \in Watched : Owner(w) = "ALARM" <=> w \in {"drive_belt", "copilot_belt", "parking"}
  BY DEF Owner
<1>16. QED
  BY <1>10, <1>11, <1>12, <1>13, <1>14, <1>15 DEF Handles

\* A handler of one warning, on or not, behind a message that is none: it sends
\* the warning when it changes, or again.
LEMMA OneHandles ==
  ASSUME NEW k, NEW w \in Listed, NEW a, NEW b, NEW on \in BOOLEAN,
         IsSeq(a), \A x \in Watched : Clean(a, x),
         IsSeq(b), \A x : x \notin {w, "fault"} => Clean(b, x),
         \/ (w \in warns) = on /\ Clean(b, w)
         \/ (w \in warns) # on /\ Once(b, w, Flag(w, on))
         \/ w = "tiresystemfault" /\ spare' /\ Once(b, w, Flag(w, on)),
         out' = a \o b,
         warns' = SetBits(warns, {w}, Flag(w, on)),
         UNCHANGED <<lamps, coolant, belongs>>,
         \A x \in Watched : Owner(x) = k <=> x = w,
         (on <=> Calls(w, Received)) \/ (w = "oillow" /\ ~IsPercent(Received))
  PROVE  Handles(k)
<1>1. w \in Watched /\ w # "fault" /\ "fault" \notin Watched
  BY NoWarning DEF Watched, Warns, Listed
<1>2. /\ w \in warns' <=> on
      /\ \A x : x # w => (x \in warns' <=> x \in warns)
  BY DEF SetBits, Flag
<1>3. (On(w) <=> w \in warns) /\ (On(w)' <=> on)
  BY <1>2 DEF On, Listed, Sounds
<1>4. Status(w)' = Flag(w, on)
  BY <1>3 DEF Status, Flag
<1>5. IsSeq(out')
  BY ConcatParts
<1>6. Passes(w)
  <2>1. CASE (w \in warns) = on /\ Clean(b, w)
    <3>1. Clean(out', w)
      BY <1>1, <2>1, ConcatParts
    <3>2. QED
      BY <1>3, <2>1, <3>1 DEF Passes
  <2>2. CASE Once(b, w, Flag(w, on))
    <3>1. Once(out', w, Status(w)')
      BY <1>1, <1>4, <2>2, ConcatParts
    <3>2. CASE w = "tiresystemfault" /\ spare'
      BY <3>1, <3>2 DEF Passes, Resends
    <3>3. CASE (w \in warns) # on
      BY <1>3, <3>1, <3>3 DEF Passes
    <3>4. CASE (w \in warns) = on /\ Clean(b, w)
      BY <2>1, <3>4
    <3>5. QED
      BY <3>2, <3>3, <3>4
  <2>3. QED
    BY <2>1, <2>2
<1>7. Takes(w)
  BY <1>3 DEF Takes
<1>8. ASSUME NEW x \in Watched, x # w PROVE Spares(x)
  <2>1. On(x)' <=> On(x)
    BY <1>2, <1>8 DEF On
  <2>2. x # "fault"
    BY <1>1
  <2>3. Clean(out', x)
    BY <1>8, <2>2, ConcatParts
  <2>4. QED
    BY <2>1, <2>3 DEF Spares
<1>9. QED
  BY <1>5, <1>6, <1>7, <1>8 DEF Handles

LEMMA WarningHandles ==
  ASSUME NEW k, NEW w \in Listed, NEW a, NEW on \in BOOLEAN, NEW list,
         IsSeq(a), \A x \in Watched : Clean(a, x),
         out' = a \o Warning(w, on, list),
         warns' = SetBits(warns, {w}, Flag(w, on)),
         UNCHANGED <<lamps, coolant, belongs>>,
         \A x \in Watched : Owner(x) = k <=> x = w,
         (on <=> Calls(w, Received)) \/ (w = "oillow" /\ ~IsPercent(Received))
  PROVE  Handles(k)
<1>1. w # "fault"
  BY DEF Listed
<1>2. PICK b : b = Warning(w, on, list)
  OBVIOUS
<1>3. /\ IsSeq(b)
      /\ \A x : x \notin {w, "fault"} => Clean(b, x)
      /\ (w \in warns) = on => Clean(b, w)
      /\ (w \in warns) # on => Once(b, w, Flag(w, on))
  BY <1>1, <1>2, WarningParts
<1>4. out' = a \o b
  BY <1>2
<1>5. QED
  BY <1>3, <1>4, OneHandles

LEMMA DtcHandles ==
  ASSUME Dtc PROVE Handles("DTC")
<1>1. PICK on \in BOOLEAN : on <=> "WrongGear_P" \in Received
  OBVIOUS
<1>2. PICK a, b : a = <<>> /\ b = Warning("WrongGear_P", on, faults')
  OBVIOUS
<1>3. out' = b
  BY <1>1, <1>2 DEF Dtc
<1>4. PICK S : b \in Seq(S)
  BY <1>2, WarningParts DEF IsSeq
<1>5. out' = a \o b
  BY <1>2, <1>3, <1>4, ConcatEmptySeq
<1>6. IsSeq(a) /\ \A x \in Watched : Clean(a, x)
  BY <1>2, EmptyParts
<1>7. warns' = SetBits(warns, {"WrongGear_P"}, Flag("WrongGear_P", on))
  BY <1>1 DEF Dtc, SetWarning
<1>8. \A x \in Watched : Owner(x) = "DTC" <=> x = "WrongGear_P"
  BY DEF Owner
<1>9. UNCHANGED <<lamps, coolant, belongs>>
  BY DEF Dtc
<1>10. on <=> Calls("WrongGear_P", Received)
  BY <1>1 DEF Calls, Sounds
<1>11. "WrongGear_P" \in Listed
  BY DEF Listed
<1>12. QED
  BY <1>2, <1>5, <1>6, <1>7, <1>8, <1>9, <1>10, <1>11, WarningHandles

LEMMA TirePressureHandles ==
  ASSUME TirePressure PROVE Handles("TIRE_PRESSURE")
<1> DEFINE w == "tiresystemfault"
<1>1. PICK on \in BOOLEAN : on <=> w \in Received
  OBVIOUS
<1>2. (w \in Received) = on
  BY <1>1
<1>3. PICK a : a = <<Msg("tirePressures", Received \cap {"tirePressures"})>>
  OBVIOUS
<1>4. IsSeq(a) /\ \A x \in Watched : Clean(a, x)
  BY <1>3, NoWarning, QuietOne
<1>5. warns' = SetBits(warns, {w}, Flag(w, on)) /\ UNCHANGED <<lamps, coolant, belongs>>
  BY <1>2 DEF TirePressure
<1>6. \A x \in Watched : Owner(x) = "TIRE_PRESSURE" <=> x = w
  BY DEF Owner
<1>7. on <=> Calls(w, Received)
  BY <1>1 DEF Calls, Sounds
<1>8. w \in Listed /\ w # "fault"
  BY DEF Listed
<1>9. CASE spare'
  <2>1. PICK b : b = SendWarning(w, on, faults')
    OBVIOUS
  <2>2. out' = a \o b
    BY <1>2, <1>3, <1>9, <2>1 DEF TirePressure
  <2>3. /\ IsSeq(b)
        /\ \A x : x \notin {w, "fault"} => Clean(b, x)
        /\ Once(b, w, Flag(w, on))
    BY <1>8, <2>1, SendWarningParts
  <2>4. QED
    BY <1>4, <1>5, <1>6, <1>7, <1>8, <1>9, <2>2, <2>3, OneHandles
<1>10. CASE ~spare'
  <2>1. out' = a \o Warning(w, on, faults')
    BY <1>2, <1>3, <1>10 DEF TirePressure
  <2>2. QED
    BY <1>4, <1>5, <1>6, <1>7, <1>8, <2>1, WarningHandles
<1>11. QED
  BY <1>9, <1>10

LEMMA FuelHandles ==
  ASSUME Fuel PROVE Handles("FUEL")
<1>1. PICK on \in BOOLEAN : on <=> OilLow(segment')
  OBVIOUS
<1>2. PICK a : a = <<Msg("fuel", {segment'})>>
  OBVIOUS
<1>3. out' = a \o Warning("oillow", on, faults')
  BY <1>1, <1>2 DEF Fuel, OilLow
<1>4. IsSeq(a) /\ \A x \in Watched : Clean(a, x)
  BY <1>2, NoWarning, QuietOne
<1>5. warns' = SetBits(warns, {"oillow"}, Flag("oillow", on))
  BY <1>1 DEF Fuel, SetWarning, OilLow
<1>6. \A x \in Watched : Owner(x) = "FUEL" <=> x = "oillow"
  BY DEF Owner
<1>7. UNCHANGED <<lamps, coolant, belongs>>
  BY DEF Fuel
<1>8. IsPercent(Received) => (on <=> Calls("oillow", Received))
  BY <1>1 DEF Calls, Sounds, Fuel
<1>9. "oillow" \in Listed
  BY DEF Listed
<1>10. QED
  BY <1>3, <1>4, <1>5, <1>6, <1>7, <1>8, <1>9, WarningHandles

LEMMA PepsHandles ==
  ASSUME Peps PROVE Handles("PEPS")
<1>1. PICK n, l \in BOOLEAN : /\ n <=> "pepsnotfindb" \in Received
                              /\ l <=> "pepsbatterylow" \in Received
  OBVIOUS
<1>2. \E f, g : out' = Warning("pepsnotfindb", n, f) \o Warning("pepsbatterylow", l, g)
  BY <1>1 DEF Peps
<1>3. PICK a, b, f, g : /\ a = Warning("pepsnotfindb", n, f)
                        /\ b = Warning("pepsbatterylow", l, g)
                        /\ out' = a \o b
  BY <1>2
<1>4. /\ IsSeq(a)
      /\ \A x : x \notin {"pepsnotfindb", "fault"} => Clean(a, x)
      /\ ("pepsnotfindb" \in warns) = n => Clean(a, "pepsnotfindb")
      /\ ("pepsnotfindb" \in warns) # n => Once(a, "pepsnotfindb", Flag("pepsnotfindb", n))
  BY <1>3, WarningParts
<1>5. /\ IsSeq(b)
      /\ \A x : x \notin {"pepsbatterylow", "fault"} => Clean(b, x)
      /\ ("pepsbatterylow" \in warns) = l => Clean(b, "pepsbatterylow")
      /\ ("pepsbatterylow" \in warns) # l
           => Once(b, "pepsbatterylow", Flag("pepsbatterylow", l))
  BY <1>3, WarningParts
<1>6. /\ "pepsnotfindb" \in warns' <=> n
      /\ "pepsbatterylow" \in warns' <=> l
      /\ \A x : x \notin {"pepsnotfindb", "pepsbatterylow"} => (x \in warns' <=> x \in warns)
      /\ UNCHANGED <<lamps, coolant, belongs>>
  BY <1>1 DEF Peps, SetBits, Bits
<1>7. IsSeq(out')
  BY <1>3, <1>4, <1>5, ConcatParts
<1>8. /\ On("pepsnotfindb") <=> "pepsnotfindb" \in warns
      /\ On("pepsnotfindb")' <=> n
      /\ Calls("pepsnotfindb", Received) <=> n
      /\ On("pepsbatterylow") <=> "pepsbatterylow" \in warns
      /\ On("pepsbatterylow")' <=> l
      /\ Calls("pepsbatterylow", Received) <=> l
  BY <1>1, <1>6 DEF On, Calls, Sounds
<1>9. /\ Status("pepsnotfindb")' = Flag("pepsnotfindb", n)
      /\ Status("pepsbatterylow")' = Flag("pepsbatterylow", l)
  BY <1>8 DEF Status, Flag
<1>10. Passes("pepsnotfindb") /\ Takes("pepsnotfindb")
  <2>1. Clean(b, "pepsnotfindb")
    BY <1>5
  <2>2. /\ (On("pepsnotfindb")' <=> On("pepsnotfindb")) => Clean(out', "pepsnotfindb")
        /\ ~(On("pepsnotfindb")' <=> On("pepsnotfindb"))
             => Once(out', "pepsnotfindb", Status("pepsnotfindb")')
    BY <1>3, <1>4, <1>5, <1>8, <1>9, <2>1, ConcatParts
  <2>3. QED
    BY <1>8, <2>2, PassIs DEF Takes
<1>11. Passes("pepsbatterylow") /\ Takes("pepsbatterylow")
  <2>1. Clean(a, "pepsbatterylow")
    BY <1>4
  <2>2. /\ (On("pepsbatterylow")' <=> On("pepsbatterylow")) => Clean(out', "pepsbatterylow")
        /\ ~(On("pepsbatterylow")' <=> On("pepsbatterylow"))
             => Once(out', "pepsbatterylow", Status("pepsbatterylow")')
    BY <1>3, <1>4, <1>5, <1>8, <1>9, <2>1, ConcatParts
  <2>3. QED
    BY <1>8, <2>2, PassIs DEF Takes
<1>12. ASSUME NEW x \in Watched, x \notin {"pepsnotfindb", "pepsbatterylow"} PROVE Spares(x)
  <2>1. On(x)' <=> On(x)
    BY <1>6, <1>12 DEF On
  <2>2. x # "fault"
    BY NoWarning
  <2>3. Clean(out', x)
    BY <1>3, <1>4, <1>5, <1>12, <2>2, ConcatParts
  <2>4. QED
    BY <2>1, <2>3 DEF Spares
<1>13. \A x \in Watched : Owner(x) = "PEPS" <=> x \in {"pepsnotfindb", "pepsbatterylow"}
  BY DEF Owner
<1>14. QED
  BY <1>7, <1>10, <1>11, <1>12, <1>13 DEF Handles

LEMMA CoolantHandles ==
  ASSUME Coolant PROVE Handles("COOLANT")
<1>1. PICK w : w = "coolandtemperaturehigh"
  OBVIOUS
<1>2. PICK b : b = <<Msg("coolant", {CoolantSegment(Received)})>>
  OBVIOUS
<1>3. PICK a, m : /\ m = <<Msg(w, Flag(w, CoolantHigh(Received)))>>
                  /\ a = IF Received = coolant THEN <<>> ELSE m
  OBVIOUS
<1>4. out' = a \o b
  BY <1>1, <1>2, <1>3 DEF Coolant
<1>5. coolant' = Received /\ UNCHANGED <<lamps, warns, belongs>>
  BY DEF Coolant
<1>6. IsSeq(b) /\ \A x \in Watched : Clean(b, x)
  BY <1>2, NoWarning, QuietOne
<1>7. /\ IsSeq(m) /\ \A x : x # w => Clean(m, x)
      /\ Once(m, w, Flag(w, CoolantHigh(Received)))
  BY <1>3, OneClean
<1>8. /\ IsSeq(a) /\ \A x : x # w => Clean(a, x)
      /\ Received = coolant => Clean(a, w)
      /\ Received # coolant => Once(a, w, Flag(w, CoolantHigh(Received)))
  BY <1>3, <1>7, EmptyParts
<1>9. IsSeq(out')
  BY <1>4, <1>6, <1>8, ConcatParts
<1>10. w \in Watched /\ w \notin Warns
  BY <1>1 DEF Watched, Sounds, Warns, Listed
<1>11. /\ On(w) <=> CoolantHigh(coolant)
       /\ On(w)' <=> CoolantHigh(Received)
       /\ Calls(w, Received) <=> CoolantHigh(Received)
  BY <1>1, <1>5 DEF On, Calls, Sounds
<1>12. Status(w)' = Flag(w, CoolantHigh(Received))
  BY <1>11 DEF Status, Flag
<1>13. Passes(w) /\ Takes(w)
  <2>1. CASE Received = coolant
    <3>1. Clean(out', w)
      BY <1>4, <1>6, <1>8, <1>10, <2>1, ConcatParts
    <3>2. QED
      BY <1>11, <2>1, <3>1 DEF Passes, Takes
  <2>2. CASE Received # coolant
    <3>1. Once(out', w, Status(w)')
      BY <1>4, <1>6, <1>8, <1>10, <1>12, <2>2, ConcatParts
    <3>2. QED
      BY <1>10, <1>11, <3>1 DEF Passes, Takes
  <2>3. QED
    BY <2>1, <2>2
<1>14. ASSUME NEW x \in Watched, x # w PROVE Spares(x)
  <2>1. On(x)' <=> On(x)
    BY <1>1, <1>5, <1>14 DEF On
  <2>2. Clean(out', x)
    BY <1>4, <1>6, <1>8, <1>14, ConcatParts
  <2>3. QED
    BY <2>1, <2>2 DEF Spares
<1>15. \A x \in Watched : Owner(x) = "COOLANT" <=> x = w
  BY <1>1 DEF Owner
<1>16. QED
  BY <1>9, <1>13, <1>14, <1>15 DEF Handles

LEMMA AudioHandles ==
  ASSUME AudioReport PROVE Handles("AUDIO_REPORT")
<1>1. PICK w : w = "audio_belong2dhu"
  OBVIOUS
<1>2. PICK on, old \in BOOLEAN : (on <=> Received # {}) /\ (old <=> belongs # {})
  OBVIOUS
<1>3. out' = Edge(w, old, on)
  BY <1>1, <1>2 DEF AudioReport
<1>4. belongs' = Received /\ UNCHANGED <<lamps, warns, coolant>>
  BY DEF AudioReport
<1>5. /\ IsSeq(out') /\ \A x : x # w => Clean(out', x)
      /\ old = on => Clean(out', w)
      /\ old # on => Once(out', w, Flag(w, on))
  BY <1>3, EdgeParts
<1>6. (On(w) <=> old) /\ (On(w)' <=> on) /\ (Calls(w, Received) <=> on)
  BY <1>1, <1>2, <1>4 DEF On, Calls, Sounds
<1>7. Status(w)' = Flag(w, on)
  BY <1>6 DEF Status, Flag
<1>8. Passes(w) /\ Takes(w)
  <2>1. /\ (On(w)' <=> On(w)) => Clean(out', w)
        /\ ~(On(w)' <=> On(w)) => Once(out', w, Status(w)')
    BY <1>5, <1>6, <1>7
  <2>2. QED
    BY <1>6, <2>1, PassIs DEF Takes
<1>9. ASSUME NEW x \in Watched, x # w PROVE Spares(x)
  BY <1>1, <1>4, <1>5, <1>9 DEF Spares, On
<1>10. \A x \in Watched : Owner(x) = "AUDIO_REPORT" <=> x = w
  BY <1>1 DEF Owner, Watched, Warns, Listed, Sounds
<1>11. QED
  BY <1>5, <1>8, <1>9, <1>10 DEF Handles

-----------------------------------------------------------------------------
(* The inductive invariant *)

McuFit ==
  /\ DOMAIN mcu = Kinds
  /\ mcu["FUEL"] \in Int /\ mcu["COOLANT"] \in Int
  /\ mcu["AUDIO_REPORT"] \subseteq {"audio_belong2dhu"}
  /\ mcu["LANE_DEPATURE"] \subseteq LaneLamps
LineFit == IsSeq(wire) /\ AllFit(wire) /\ Current(wire, mcu)
SendFit == /\ IsSeq(out) /\ DOMAIN told = Keys
           /\ reply # NoReply => reply.key \notin Watched

\* At most one message about w waits, with the status; without one the receiver
\* has the status, with one about a warning it has another (but for the one that
\* is sent again), unless it missed the last message.
Outstanding(w) ==
  /\ Clean(out, w) \/ Once(out, w, Status(w))
  /\ w \notin lost => /\ Clean(out, w) => told[w] = Status(w)
                      /\ w \in Warns /\ ~Clean(out, w) =>
                           told[w] # Status(w) \/ Resends(w)

\* Without a report on its way the status is what the MCU's signals call for;
\* before the first report of the fuel and of the temperature nothing is sent.
Settled(w) ==
  \/ Reported(wire, Owner(w))
  \/ On(w) <=> Calls(w, mcu[Owner(w)])
  \/ w \in lost /\ Clean(out, w)
  \/ w = "oillow" /\ ~IsPercent(mcu["FUEL"])

IInv == /\ McuFit /\ LineFit /\ SendFit
        /\ \A w \in Watched : Outstanding(w) /\ Settled(w)

LEMMA OwnerKinds == \A w : Owner(w) \in Kinds
BY BitsKinds DEF Owner, Kinds

LEMMA WatchedKeys == Watched \subseteq Keys
BY DEF Watched, Keys, Dropped

LEMMA OnceNotClean == ASSUME NEW s, NEW w, NEW v, Once(s, w, v) PROVE ~Clean(s, w)
BY DEF Once, Clean

LEMMA StatusTells ==
  ASSUME NEW w
  PROVE  Status(w)' = Status(w) <=> (On(w)' <=> On(w))
BY DEF Status, Flag

LEMMA StatusKept ==
  ASSUME UNCHANGED signals, NEW w
  PROVE  (On(w)' <=> On(w)) /\ Status(w)' = Status(w)
<1>1. On(w)' <=> On(w)
  BY OnKept DEF signals
<1>2. QED
  BY <1>1, StatusTells

\* Steps that leave the handler's side alone.
LEMMA SendFitKept ==
  ASSUME SendFit, UNCHANGED <<out, told, reply>> PROVE SendFit'
BY DEF SendFit

LEMMA OutstandingKept ==
  ASSUME NEW w, Outstanding(w), UNCHANGED <<spare, signals, out, told, lost>>
  PROVE  Outstanding(w)'
BY StatusKept DEF Outstanding, Resends

-----------------------------------------------------------------------------
(* The MCU *)

\* A signal that changes is reported: its owner has to be taken first.
LEMMA LineAdds ==
  ASSUME IInv, NEW k \in Kinds, NEW v,
         k = "FUEL" => v \in Int, k = "COOLANT" => v \in Int,
         k = "AUDIO_REPORT" => v \subseteq {"audio_belong2dhu"},
         k = "LANE_DEPATURE" => v \subseteq LaneLamps,
         mcu' = [mcu EXCEPT ![k] = v],
         wire' = Append(wire, [kind |-> k, val |-> v]),
         UNCHANGED <<spare, signals, out, reply, view>>
  PROVE  IInv'
<1>1. McuFit /\ LineFit /\ SendFit
  BY DEF IInv
<1>2. McuFit'
  BY <1>1 DEF McuFit
<1>3. \A i \in DOMAIN wire : wire[i].kind \in DOMAIN mcu
  BY <1>1 DEF LineFit, AllFit, Fit, McuFit
<1>4. Fit([kind |-> k, val |-> v])
  BY DEF Fit
<1>5. /\ IsSeq(wire') /\ Current(wire', mcu') /\ AllFit(wire')
      /\ \A x : Reported(wire', x) <=> Reported(wire, x) \/ x = k
  <2>1. IsSeq(wire) /\ Current(wire, mcu) /\ AllFit(wire) /\ k \in DOMAIN mcu
    BY <1>1 DEF LineFit, McuFit
  <2>2. QED
    BY <1>3, <1>4, <2>1, AppendCurrent
<1>6. LineFit'
  BY <1>5 DEF LineFit
<1>7. SendFit'
  BY <1>1, SendFitKept DEF view
<1>8. ASSUME NEW w \in Watched PROVE Outstanding(w)' /\ Settled(w)'
  <2>1. Outstanding(w) /\ Settled(w)
    BY DEF IInv
  <2>2. Outstanding(w)'
    BY <2>1, OutstandingKept DEF view
  <2>3. On(w)' <=> On(w)
    BY StatusKept
  <2>4. CASE Owner(w) = k
    BY <1>5, <2>2, <2>4 DEF Settled
  <2>5. CASE Owner(w) # k
    <3>1. mcu'[Owner(w)] = mcu[Owner(w)]
      BY <1>1, <2>5, OwnerKinds DEF McuFit
    <3>2. w = "oillow" => Owner(w) = "FUEL"
      BY DEF Owner
    <3>3. w = "oillow" => mcu'["FUEL"] = mcu["FUEL"]
      BY <3>1, <3>2
    <3>4. Reported(wire, Owner(w)) => Reported(wire', Owner(w))
      BY <1>5
    <3>5. UNCHANGED <<out, lost>>
      BY DEF view
    <3>6. QED
      BY <2>1, <2>2, <2>3, <3>1, <3>3, <3>4, <3>5 DEF Settled
  <2>6. QED
    BY <2>2, <2>4, <2>5
<1>9. QED
  BY <1>2, <1>6, <1>7, <1>8 DEF IInv

LEMMA ChangeKeeps ==
  ASSUME IInv, NEW k \in Kinds, NEW v \in Values[k], Change(k, v)
  PROVE  IInv'
<1>1. (k = "FUEL" => v \in Int) /\ (k = "COOLANT" => v \in Int)
  BY ValuesAssumption
<1>2. k \in BitKinds => v \subseteq Bits[k]
  BY ValuesAssumption
<1>3. "AUDIO_REPORT" \in BitKinds /\ "LANE_DEPATURE" \in BitKinds
  BY BitsKinds
<1>4. Bits["AUDIO_REPORT"] = {"audio_belong2dhu"} /\ Bits["LANE_DEPATURE"] = LaneLamps
  BY DEF Bits, LaneLamps
<1>5. /\ k = "AUDIO_REPORT" => v \subseteq {"audio_belong2dhu"}
      /\ k = "LANE_DEPATURE" => v \subseteq LaneLamps
  BY <1>2, <1>3, <1>4
<1>6. /\ mcu' = [mcu EXCEPT ![k] = v]
      /\ wire' = Append(wire, [kind |-> k, val |-> v])
      /\ UNCHANGED <<spare, signals, out, reply, view>>
  BY DEF Change
<1>7. QED
  BY <1>1, <1>5, <1>6, LineAdds

LEMMA CleanKeeps ==
  ASSUME IInv, NEW r \in DOMAIN Cleaned, RequestClean(r)
  PROVE  IInv'
<1>1. PICK k : k = Cleaned[r]
  OBVIOUS
<1>2. k \in {"SUBTOTAL_MILEAGE", "AVERAGE_FUEL"}
  BY <1>1 DEF Cleaned
<1>3. k \in Kinds
  BY <1>2, BitsKinds DEF Kinds
<1>4. /\ mcu' = [mcu EXCEPT ![k] = {}]
      /\ wire' = Append(wire, [kind |-> k, val |-> {}])
      /\ UNCHANGED <<spare, signals, out, reply, view>>
  BY <1>1 DEF RequestClean, Request
<1>5. QED
  BY <1>2, <1>3, <1>4, LineAdds

LEMMA ReportKeeps ==
  ASSUME IInv, NEW r \in DOMAIN Asked, RequestReport(r)
  PROVE  IInv'
<1>1. PICK q : q = Asked[r]
  OBVIOUS
<1>2. PICK t : t = [i \in DOMAIN q |-> Report(q[i])]
  OBVIOUS
<1>3. q \in Seq(Kinds)
  BY <1>1, AskedKinds
<1>4. /\ DOMAIN t = DOMAIN q
      /\ \A i \in DOMAIN t : t[i].kind = q[i] /\ t[i].val = mcu[q[i]] /\ q[i] \in Kinds
  BY <1>2, <1>3 DEF Report
<1>5. IsSeq(t)
  <2>1. PICK n \in Nat : n = Len(q) /\ DOMAIN q = 1..n
    BY <1>3
  <2>2. PICK S : S = {Report(q[i]) : i \in DOMAIN q}
    OBVIOUS
  <2>3. t = [i \in 1..n |-> t[i]] /\ \A i \in 1..n : t[i] \in S
    BY <1>2, <2>1, <2>2
  <2>4. t \in Seq(S)
    BY <2>1, <2>3
  <2>5. QED
    BY <2>4 DEF IsSeq
<1>6. McuFit /\ LineFit /\ SendFit
  BY DEF IInv
<1>7. AllFit(t)
  BY <1>4, <1>6 DEF AllFit, Fit, McuFit
<1>8. wire' = wire \o t /\ UNCHANGED <<spare, mcu, signals, out, reply, view>>
  BY <1>1, <1>2 DEF RequestReport, Request, E02_AsynGet
<1>9. /\ IsSeq(wire') /\ Current(wire', mcu)
      /\ \A x : Reported(wire', x) <=> Reported(wire, x) \/ Reported(t, x)
  <2>1. \A i \in DOMAIN t : t[i].val = mcu[t[i].kind]
    BY <1>4
  <2>2. IsSeq(wire) /\ Current(wire, mcu)
    BY <1>6 DEF LineFit
  <2>3. \A i \in DOMAIN wire : ~Reported(t, wire[i].kind) => mcu[wire[i].kind] = mcu[wire[i].kind]
    OBVIOUS
  <2>4. QED
    BY <1>5, <1>8, <2>1, <2>2, <2>3, ConcatCurrent
<1>10. AllFit(wire')
  BY <1>5, <1>6, <1>7, <1>8, ConcatFit DEF LineFit
<1>11. McuFit' /\ LineFit' /\ SendFit'
  BY <1>6, <1>8, <1>9, <1>10, SendFitKept DEF McuFit, LineFit, view
<1>12. ASSUME NEW w \in Watched PROVE Outstanding(w)' /\ Settled(w)'
  <2>1. Outstanding(w) /\ Settled(w)
    BY DEF IInv
  <2>2. Outstanding(w)'
    BY <1>8, <2>1, OutstandingKept DEF view
  <2>3. On(w)' <=> On(w)
    BY <1>8, StatusKept
  <2>4. UNCHANGED <<mcu, out, lost>>
    BY <1>8 DEF view
  <2>5. QED
    BY <1>9, <2>1, <2>2, <2>3, <2>4 DEF Settled
<1>13. QED
  BY <1>11, <1>12 DEF IInv

-----------------------------------------------------------------------------
(* The handlers *)

\* What every handler does for a warning or sound of its own, and of others.
LEMMA HandlerKeeps ==
  ASSUME IInv, NEW k \in Kinds, Receive(k), Handles(k)
  PROVE  IInv'
<1>1. McuFit /\ LineFit /\ SendFit
  BY DEF IInv
<1>2. PICK h, t : h = Head(wire) /\ t = Tail(wire)
  OBVIOUS
<1>3. /\ out = <<>> /\ wire # <<>> /\ h.kind = k /\ wire' = t
      /\ UNCHANGED <<mcu, reply, told, lost>>
  BY <1>2 DEF Receive, view
<1>4. /\ IsSeq(t) /\ Current(t, mcu) /\ AllFit(t)
      /\ \A x : Reported(wire, x) /\ x # k => Reported(t, x)
      /\ ~Reported(t, k) => h.val = mcu[k]
  <2>1. IsSeq(wire) /\ Current(wire, mcu) /\ AllFit(wire)
    BY <1>1 DEF LineFit
  <2>2. IsSeq(Tail(wire))
    BY <1>3, <2>1, TailParts
  <2>3. QED
    BY <1>2, <1>3, <2>1, <2>2, TailCurrent
<1>5. Received = h.val
  BY <1>2 DEF Received
<1>6. McuFit' /\ LineFit' /\ SendFit'
  BY <1>1, <1>3, <1>4 DEF McuFit, LineFit, SendFit, Handles
<1>7. ASSUME NEW w \in Watched PROVE Outstanding(w)' /\ Settled(w)'
  <2>1. Outstanding(w) /\ Settled(w)
    BY DEF IInv
  <2>2. Clean(out, w)
    BY <1>3, EmptyParts
  <2>3. w \notin lost => told[w] = Status(w)
    BY <2>1, <2>2 DEF Outstanding
  <2>4. (On(w)' <=> On(w)) /\ Clean(out', w) => Outstanding(w)'
    BY <1>3, <2>3, StatusTells DEF Outstanding
  <2>5. CASE Owner(w) = k
    <3>1. Passes(w) /\ Takes(w)
      BY <2>5 DEF Handles
    <3>2. Outstanding(w)'
      <4>1. CASE (On(w)' <=> On(w)) /\ Clean(out', w)
        BY <2>4, <4>1
      <4>2. CASE Once(out', w, Status(w)') /\
                 (w \in Warns => ~(On(w)' <=> On(w)) \/ Resends(w)')
        <5>1. ~Clean(out', w)
          BY <4>2, OnceNotClean
        <5>2. w \in Warns => Status(w)' # Status(w) \/ Resends(w)'
          BY <4>2, StatusTells
        <5>3. QED
          BY <1>3, <2>3, <4>2, <5>1, <5>2 DEF Outstanding
      <4>3. QED
        BY <3>1, <4>1, <4>2 DEF Passes
    <3>3. CASE Reported(t, k)
      BY <1>3, <2>5, <3>2, <3>3 DEF Settled
    <3>4. CASE ~Reported(t, k)
      <4>1. Received = mcu[k]
        BY <1>4, <1>5, <3>4
      <4>2. w = "oillow" => k = "FUEL"
        BY <2>5 DEF Owner
      <4>3. QED
        BY <1>3, <2>5, <3>1, <3>2, <4>1, <4>2 DEF Settled, Takes
    <3>5. QED
      BY <3>3, <3>4
  <2>6. CASE Owner(w) # k
    <3>1. (On(w)' <=> On(w)) /\ Clean(out', w)
      BY <2>6 DEF Handles, Spares
    <3>2. Outstanding(w)'
      BY <2>4, <3>1
    <3>3. Reported(wire, Owner(w)) => Reported(wire', Owner(w))
      BY <1>3, <1>4, <2>6
    <3>4. QED
      BY <1>3, <2>1, <3>1, <3>2, <3>3 DEF Settled
  <2>7. QED
    BY <2>5, <2>6
<1>8. QED
  BY <1>6, <1>7 DEF IInv

-----------------------------------------------------------------------------
(* The receivers *)

\* The receiver of the key hears the value or misses it; the others do not change.
LEMMA SendTells ==
  ASSUME DOMAIN told = Keys, NEW m, Send(m)
  PROVE  /\ DOMAIN told' = Keys
         /\ \A w \in Keys : w # m.key => told'[w] = told[w] /\ (w \in lost' <=> w \in lost)
         /\ m.key \in Keys /\ m.key \notin lost' => told'[m.key] = m.val
BY DEF Send, Hears, Misses

LEMMA SendKeeps ==
  ASSUME IInv, MsgSend PROVE IInv'
<1>1. McuFit /\ LineFit /\ SendFit
  BY DEF IInv
<1>2. PICK h, t : h = Head(out) /\ t = Tail(out)
  OBVIOUS
<1>3. out # <<>> /\ Send(h) /\ out' = t /\ UNCHANGED <<mcu, wire, spare, signals, reply>>
  BY <1>2 DEF MsgSend, line
<1>4. /\ IsSeq(t)
      /\ \A w : Clean(out, w) => h.key # w /\ Clean(t, w)
      /\ \A w, v : Once(out, w, v) => \/ h.key = w /\ h.val = v /\ Clean(t, w)
                                      \/ h.key # w /\ Once(t, w, v)
  BY <1>1, <1>2, <1>3, TailParts DEF SendFit
<1>5. /\ DOMAIN told' = Keys
      /\ \A w \in Keys : w # h.key => told'[w] = told[w] /\ (w \in lost' <=> w \in lost)
      /\ h.key \in Keys /\ h.key \notin lost' => told'[h.key] = h.val
  BY <1>1, <1>3, SendTells DEF SendFit
<1>6. McuFit' /\ LineFit' /\ SendFit'
  BY <1>1, <1>3, <1>4, <1>5 DEF McuFit, LineFit, SendFit
<1>7. ASSUME NEW w \in Watched PROVE Outstanding(w)' /\ Settled(w)'
  <2>1. Outstanding(w) /\ Settled(w) /\ w \in Keys
    BY WatchedKeys DEF IInv
  <2>2. (On(w)' <=> On(w)) /\ Status(w)' = Status(w)
    BY <1>3, StatusKept
  <2>3. CASE h.key = w
    <3>1. ~Clean(out, w)
      BY <1>4, <2>3
    <3>2. h.val = Status(w) /\ Clean(t, w)
      BY <1>4, <2>1, <2>3, <3>1 DEF Outstanding
    <3>3. w \notin lost' => told'[w] = Status(w)
      BY <1>5, <2>1, <2>3, <3>2
    <3>4. Outstanding(w)'
      BY <1>3, <2>2, <3>2, <3>3 DEF Outstanding
    <3>5. QED
      BY <1>3, <2>1, <2>2, <3>1, <3>4 DEF Settled
  <2>4. CASE h.key # w
    <3>1. told'[w] = told[w] /\ (w \in lost' <=> w \in lost)
      BY <1>5, <2>1, <2>4
    <3>2. CASE Clean(out, w)
      <4>1. Clean(t, w)
        BY <1>4, <3>2
      <4>2. QED
        BY <1>3, <2>1, <2>2, <3>1, <3>2, <4>1 DEF Outstanding, Settled
    <3>3. CASE ~Clean(out, w)
      <4>1. Once(t, w, Status(w))
        BY <1>4, <2>1, <2>4, <3>3 DEF Outstanding
      <4>2. ~Clean(t, w)
        BY <4>1, OnceNotClean
      <4>3. Outstanding(w)'
        BY <1>3, <2>1, <2>2, <3>1, <3>3, <4>1, <4>2 DEF Outstanding, Resends
      <4>4. QED
        BY <1>3, <2>1, <2>2, <3>3, <4>3 DEF Settled
    <3>4. QED
      BY <3>2, <3>3
  <2>5. QED
    BY <2>3, <2>4
<1>8. QED
  BY <1>6, <1>7 DEF IInv

LEMMA ReplyKeeps ==
  ASSUME IInv, SendReply PROVE IInv'
<1>1. McuFit /\ LineFit /\ SendFit
  BY DEF IInv
<1>2. /\ reply # NoReply /\ Send(reply) /\ reply' = NoReply
      /\ UNCHANGED <<mcu, wire, spare, signals, out>>
  BY DEF SendReply, line
<1>3. reply.key \notin Watched
  BY <1>1, <1>2 DEF SendFit
<1>4. /\ DOMAIN told' = Keys
      /\ \A w \in Keys : w # reply.key => told'[w] = told[w] /\ (w \in lost' <=> w \in lost)
  BY <1>1, <1>2, SendTells DEF SendFit
<1>5. McuFit' /\ LineFit' /\ SendFit'
  BY <1>1, <1>2, <1>4 DEF McuFit, LineFit, SendFit
<1>6. ASSUME NEW w \in Watched PROVE Outstanding(w)' /\ Settled(w)'
  <2>1. Outstanding(w) /\ Settled(w) /\ w \in Keys /\ w # reply.key
    BY <1>3, WatchedKeys DEF IInv
  <2>2. (On(w)' <=> On(w)) /\ Status(w)' = Status(w)
    BY <1>2, StatusKept
  <2>3. told'[w] = told[w] /\ (w \in lost' <=> w \in lost)
    BY <1>4, <2>1
  <2>4. QED
    BY <1>2, <2>1, <2>2, <2>3 DEF Outstanding, Resends, Settled
<1>7. QED
  BY <1>5, <1>6 DEF IInv

\* A step of the connection, of the reply that is prepared, or none.
LEMMA LinkKeeps ==
  ASSUME IInv, UNCHANGED <<mcu, wire, spare, signals, out, view>>,
         reply' = reply \/ reply' = NoReply \/ reply'.key \notin Watched
  PROVE  IInv'
<1>1. McuFit /\ LineFit /\ SendFit
  BY DEF IInv
<1>2. McuFit' /\ LineFit' /\ SendFit'
  BY <1>1 DEF McuFit, LineFit, SendFit, view
<1>3. ASSUME NEW w \in Watched PROVE Outstanding(w)' /\ Settled(w)'
  <2>1. Outstanding(w) /\ Settled(w)
    BY DEF IInv
  <2>2. (On(w)' <=> On(w)) /\ Status(w)' = Status(w)
    BY StatusKept
  <2>3. QED
    BY <2>1, <2>2 DEF Outstanding, Resends, Settled, view
<1>4. QED
  BY <1>2, <1>3 DEF IInv

LEMMA MusicKeeps ==
  ASSUME IInv, NEW r \in DOMAIN MusicOf, RequestMusic(r)
  PROVE  IInv'
<1>1. reply'.key = MusicOf[r]
  BY DEF RequestMusic, Msg
<1>2. MusicOf[r] \in Music \cup {"musicStatus"}
  BY DEF MusicOf, Music
<1>3. reply'.key \notin Watched
  BY <1>1, <1>2, NoWarning
<1>4. UNCHANGED <<mcu, wire, spare, signals, out, view>>
  BY DEF RequestMusic, Request
<1>5. QED
  BY <1>3, <1>4, LinkKeeps

-----------------------------------------------------------------------------
(* The theorems *)

LEMMA InitInv == Init => IInv
<1>1. SUFFICES ASSUME Init PROVE IInv
  OBVIOUS
<1>2. PICK fuel \in Values["FUEL"], temperature \in Values["COOLANT"] :
        mcu = [k \in Kinds |-> CASE k = "FUEL" -> fuel [] k = "COOLANT" -> temperature
                                 [] OTHER -> {}]
  BY <1>1 DEF Init
<1>3. fuel \in Int /\ temperature \in Int
  BY ValuesAssumption
<1>4. /\ DOMAIN mcu = Kinds /\ mcu["FUEL"] = fuel /\ mcu["COOLANT"] = temperature
      /\ \A k \in BitKinds : mcu[k] = {}
  BY <1>2, BitsKinds DEF Kinds
<1>5. McuFit
  BY <1>3, <1>4, BitsKinds DEF McuFit
<1>6. LineFit
  <2>1. wire = <<>> /\ IsSeq(<<>>) /\ DOMAIN <<>> = {}
    BY <1>1, EmptyParts, EmptySeq DEF Init
  <2>2. QED
    BY <2>1 DEF LineFit, AllFit, Current
<1>7. SendFit
  BY <1>1, EmptyParts DEF Init, SendFit
<1>8. ASSUME NEW w \in Watched PROVE Outstanding(w) /\ Settled(w)
  <2>1. Clean(out, w)
    BY <1>1, EmptyParts DEF Init
  <2>2. w \notin {"oillow", "coolandtemperaturehigh"} => ~On(w)
    BY <1>1 DEF On, Init
  <2>3. {"oillow", "coolandtemperaturehigh"} \subseteq lost
    BY <1>1 DEF Init, NeverTold
  <2>4. told[w] = {}
    BY <1>1, WatchedKeys DEF Init
  <2>5. Outstanding(w)
    BY <2>1, <2>2, <2>3, <2>4 DEF Outstanding, Status, Flag
  <2>6. CASE w \in {"oillow", "coolandtemperaturehigh"}
    BY <2>1, <2>3, <2>5, <2>6 DEF Settled
  <2>7. CASE w \notin {"oillow", "coolandtemperaturehigh"}
    <3>1. Owner(w) \in BitKinds
      BY <2>7, BitsKinds DEF Owner
    <3>2. mcu[Owner(w)] = {}
      BY <1>4, <3>1
    <3>3. ~Calls(w, {})
      BY <2>7 DEF Calls
    <3>4. QED
      BY <2>2, <2>5, <2>7, <3>2, <3>3 DEF Settled
  <2>8. QED
    BY <2>6, <2>7
<1>9. QED
  BY <1>5, <1>6, <1>7, <1>8 DEF IInv

LEMMA NextInv == IInv /\ [Next]_vars => IInv'
<1>1. SUFFICES ASSUME IInv, [Next]_vars PROVE IInv'
  OBVIOUS
<1>2. ASSUME NEW k \in Kinds, NEW v \in Values[k], Change(k, v) PROVE IInv'
  BY <1>1, <1>2, ChangeKeeps
<1>3. ASSUME NEW r \in Requests \cap DOMAIN Asked, RequestReport(r) PROVE IInv'
  BY <1>1, <1>3, ReportKeeps
<1>4. ASSUME NEW r \in Requests \cap DOMAIN Cleaned, RequestClean(r) PROVE IInv'
  BY <1>1, <1>4, CleanKeeps
<1>5. ASSUME NEW r \in Requests \cap DOMAIN MusicOf, RequestMusic(r) PROVE IInv'
  BY <1>1, <1>5, MusicKeeps
<1>6. ASSUME NEW k \in Kinds, Receive(k), Handles(k) PROVE IInv'
  BY <1>1, <1>6, HandlerKeeps
<1>7. BitKinds \subseteq Kinds /\ {"FUEL", "COOLANT"} \subseteq Kinds
  BY DEF Kinds
<1>8. CASE CarLight
  <2>1. Receive("CAR_LIGHT") /\ "CAR_LIGHT" \in Kinds
    BY <1>7, <1>8, BitsKinds DEF CarLight
  <2>2. QED
    BY <1>6, <1>8, <2>1, CarHandles
<1>9. ASSUME NEW k \in {"FAULT", "EPB", "AIRBAG", "ALARM_TIRE", "OILLOW"}, LampMessage(k)
      PROVE  IInv'
  <2>1. Receive(k) /\ k \in Kinds
    BY <1>7, <1>9, BitsKinds DEF LampMessage
  <2>2. QED
    BY <1>6, <1>9, <2>1, LampHandles
<1>10. CASE Fault \/ Epb \/ Airbag \/ AlarmTire \/ OilLowLight
  BY <1>9, <1>10 DEF Fault, Epb, Airbag, AlarmTire, OilLowLight
<1>11. CASE Alarm
  <2>1. Receive("ALARM") /\ "ALARM" \in Kinds
    BY <1>7, <1>11, BitsKinds DEF Alarm
  <2>2. QED
    BY <1>6, <1>11, <2>1, AlarmHandles
<1>12. CASE Peps
  <2>1. Receive("PEPS") /\ "PEPS" \in Kinds
    BY <1>7, <1>12, BitsKinds DEF Peps
  <2>2. QED
    BY <1>6, <1>12, <2>1, PepsHandles
<1>13. CASE LaneDepature
  <2>1. Receive("LANE_DEPATURE") /\ "LANE_DEPATURE" \in Kinds
    BY <1>7, <1>13, BitsKinds DEF LaneDepature
  <2>2. Fit(Head(wire))
    BY <1>1, <2>1, TailCurrent DEF IInv, LineFit, Receive
  <2>3. Received \subseteq LaneLamps
    BY <2>1, <2>2 DEF Fit, Receive, Received
  <2>4. QED
    BY <1>6, <1>13, <2>1, <2>3, LaneHandles
<1>14. CASE Dtc
  <2>1. Receive("DTC") /\ "DTC" \in Kinds
    BY <1>7, <1>14, BitsKinds DEF Dtc
  <2>2. QED
    BY <1>6, <1>14, <2>1, DtcHandles
<1>15. CASE Fuel
  <2>1. Receive("FUEL") /\ "FUEL" \in Kinds
    BY <1>7, <1>15 DEF Fuel
  <2>2. QED
    BY <1>6, <1>15, <2>1, FuelHandles
<1>16. CASE Coolant
  <2>1. Receive("COOLANT") /\ "COOLANT" \in Kinds
    BY <1>7, <1>16 DEF Coolant
  <2>2. QED
    BY <1>6, <1>16, <2>1, CoolantHandles
<1>17. CASE TirePressure
  <2>1. Receive("TIRE_PRESSURE") /\ "TIRE_PRESSURE" \in Kinds
    BY <1>7, <1>17, BitsKinds DEF TirePressure
  <2>2. QED
    BY <1>6, <1>17, <2>1, TirePressureHandles
<1>18. CASE TireFault
  <2>1. Receive("TIRE_FAULT") /\ "TIRE_FAULT" \in Kinds
    BY <1>7, <1>18, BitsKinds DEF TireFault
  <2>2. QED
    BY <1>6, <1>18, <2>1, TireFaultHandles
<1>19. ASSUME NEW k \in {"CFG_THEME", "CFG_LANG"}, NEW t \in Settings, Setup(k, t) PROVE IInv'
  <2>1. Receive(k) /\ k \in Kinds
    BY <1>7, <1>19, BitsKinds DEF Setup
  <2>2. QED
    BY <1>6, <1>19, <2>1, SetupHandles
<1>20. CASE SetupTheme \/ SetupLanguage
  BY <1>19, <1>20 DEF SetupTheme, SetupLanguage, Settings
<1>21. CASE AudioReport
  <2>1. Receive("AUDIO_REPORT") /\ "AUDIO_REPORT" \in Kinds
    BY <1>7, <1>21, BitsKinds DEF AudioReport
  <2>2. QED
    BY <1>6, <1>21, <2>1, AudioHandles
<1>22. CASE MusicClose
  <2>1. Receive("MUSIC_CLOSE") /\ "MUSIC_CLOSE" \in Kinds
    BY <1>7, <1>22, BitsKinds DEF MusicClose
  <2>2. QED
    BY <1>6, <1>22, <2>1, CloseHandles
<1>23. ASSUME NEW k \in {"MUSIC_PROCESS", "MUSIC_ALBUM", "MUSIC_NAME", "MUSIC_AUTHOR"},
              MusicInfo(k)
       PROVE  IInv'
  <2>1. Receive(k) /\ k \in Kinds
    BY <1>7, <1>23, BitsKinds DEF MusicInfo
  <2>2. QED
    BY <1>6, <1>23, <2>1, InfoHandles
<1>24. ASSUME NEW k \in Gauges, Gauge(k) PROVE IInv'
  <2>1. Receive(k) /\ k \in Kinds
    BY <1>7, <1>24, BitsKinds DEF Gauge, Gauges
  <2>2. QED
    BY <1>6, <1>24, <2>1, GaugeHandles
<1>25. CASE MsgSend
  BY <1>1, <1>25, SendKeeps
<1>26. CASE SendReply
  BY <1>1, <1>26, ReplyKeeps
<1>27. CASE on_disconnect \/ on_connect
  <2>1. UNCHANGED <<mcu, wire, spare, signals, out, reply, view>>
    BY <1>27 DEF on_disconnect, on_connect, line
  <2>2. QED
    BY <1>1, <2>1, LinkKeeps
<1>28. CASE UNCHANGED vars
  <2>1. UNCHANGED <<mcu, wire, spare, signals, out, reply, view>>
    BY <1>28 DEF vars, line
  <2>2. QED
    BY <1>1, <2>1, LinkKeeps
<1>29. QED
  BY <1>1, <1>2, <1>3, <1>4, <1>5, <1>8, <1>10, <1>11, <1>12, <1>13, <1>14, <1>15,
     <1>16, <1>17, <1>18, <1>20, <1>21, <1>22, <1>23, <1>24, <1>25, <1>26, <1>27,
     <1>28 DEF Next

\* At rest the status is what the receiver was told and what the MCU has.
LEMMA RestKnown ==
  ASSUME IInv, Quiet, NEW w \in Watched, w \notin lost,
         w = "oillow" => IsPercent(mcu["FUEL"])
  PROVE  told[w] = Status(w) /\ (On(w) <=> Calls(w, mcu[Owner(w)]))
<1>1. Outstanding(w) /\ Settled(w)
  BY DEF IInv
<1>2. wire = <<>> /\ out = <<>>
  BY DEF Quiet
<1>3. Clean(out, w)
  BY <1>2, EmptyParts
<1>4. ~Reported(wire, Owner(w))
  <2>1. DOMAIN <<>> = {}
    BY EmptySeq
  <2>2. QED
    BY <1>2, <2>1 DEF Reported
<1>5. QED
  BY <1>1, <1>3, <1>4 DEF Outstanding, Settled

\* What the MCU's signals call for, warning by warning.
LEMMA InvKnown == IInv => WarningsKnown
<1>1. SUFFICES ASSUME IInv, Quiet
      PROVE  /\ \A w \in Warns \ {"oillow"} : Known(w, Flag(w, Warned(w)))
             /\ mcu["FUEL"] <= 100 => Known("oillow", Flag("oillow", Warned("oillow")))
             /\ Known("drive_belt", Flag("drive_belt", "driverBeltLight" \in mcu["ALARM"]))
             /\ Known("copilot_belt",
                      Flag("copilot_belt", "passengerBeltLight" \in mcu["ALARM"]))
             /\ Known("coolandtemperaturehigh",
                      Flag("coolandtemperaturehigh", mcu["COOLANT"] >= 1210))
             /\ Known("audio_belong2dhu", mcu["AUDIO_REPORT"])
  BY DEF WarningsKnown
<1>2. McuFit
  BY <1>1 DEF IInv
<1>3. ASSUME NEW w \in Warns \ {"oillow"}, w \notin lost PROVE told[w] = Flag(w, Warned(w))
  <2>1. told[w] = Status(w) /\ (On(w) <=> Calls(w, mcu[Owner(w)]))
    BY <1>1, <1>3, RestKnown DEF Watched
  <2>2. w \in {"parking", "pepsnotfindb", "pepsbatterylow", "WrongGear_P", "tiresystemfault"}
    BY <1>3 DEF Warns, Listed
  <2>3. Owner(w) \in BitKinds /\ \A k \in BitKinds : w \in Bits[k] <=> k = Owner(w)
    BY <2>2, WarnBits, BitsKinds DEF Owner
  <2>4. Warned(w) <=> w \in mcu[Owner(w)]
    BY <2>2, <2>3 DEF Warned
  <2>5. Calls(w, mcu[Owner(w)]) <=> w \in mcu[Owner(w)]
    BY <2>2 DEF Calls, Sounds
  <2>6. QED
    BY <2>1, <2>4, <2>5 DEF Status, Flag
<1>4. ASSUME mcu["FUEL"] <= 100, "oillow" \notin lost
      PROVE  told["oillow"] = Flag("oillow", Warned("oillow"))
  <2>1. "oillow" \in Watched /\ Owner("oillow") = "FUEL"
    BY DEF Watched, Warns, Listed, Owner
  <2>2. /\ told["oillow"] = Status("oillow")
        /\ On("oillow") <=> Calls("oillow", mcu["FUEL"])
    BY <1>1, <1>4, <2>1, RestKnown DEF IsPercent
  <2>3. Calls("oillow", mcu["FUEL"]) <=> mcu["FUEL"] < 25
    BY <1>2, FuelMarks DEF Calls, McuFit
  <2>4. QED
    BY <2>2, <2>3 DEF Status, Flag, Warned
<1>5. ASSUME "drive_belt" \notin lost
      PROVE  told["drive_belt"] = Flag("drive_belt", "driverBeltLight" \in mcu["ALARM"])
  <2>1. "drive_belt" \in Watched /\ Owner("drive_belt") = "ALARM"
    BY DEF Watched, Sounds, Owner
  <2>2. /\ told["drive_belt"] = Status("drive_belt")
        /\ On("drive_belt") <=> Calls("drive_belt", mcu["ALARM"])
    BY <1>1, <1>5, <2>1, RestKnown
  <2>3. QED
    BY <2>2 DEF Status, Flag, Calls, Sounds
<1>6. ASSUME "copilot_belt" \notin lost
      PROVE  told["copilot_belt"] = Flag("copilot_belt", "passengerBeltLight" \in mcu["ALARM"])
  <2>1. "copilot_belt" \in Watched /\ Owner("copilot_belt") = "ALARM"
    BY DEF Watched, Sounds, Owner
  <2>2. /\ told["copilot_belt"] = Status("copilot_belt")
        /\ On("copilot_belt") <=> Calls("copilot_belt", mcu["ALARM"])
    BY <1>1, <1>6, <2>1, RestKnown
  <2>3. QED
    BY <2>2 DEF Status, Flag, Calls, Sounds
<1>7. ASSUME "coolandtemperaturehigh" \notin lost
      PROVE  told["coolandtemperaturehigh"] =
               Flag("coolandtemperaturehigh", mcu["COOLANT"] >= 1210)
  <2>1. "coolandtemperaturehigh" \in Watched /\ Owner("coolandtemperaturehigh") = "COOLANT"
    BY DEF Watched, Sounds, Owner
  <2>2. /\ told["coolandtemperaturehigh"] = Status("coolandtemperaturehigh")
        /\ On("coolandtemperaturehigh") <=> Calls("coolandtemperaturehigh", mcu["COOLANT"])
    BY <1>1, <1>7, <2>1, RestKnown
  <2>3. Calls("coolandtemperaturehigh", mcu["COOLANT"]) <=> mcu["COOLANT"] >= 1210
    BY <1>2, CoolantMark DEF Calls, McuFit, Sounds
  <2>4. QED
    BY <2>2, <2>3 DEF Status, Flag
<1>8. ASSUME "audio_belong2dhu" \notin lost
      PROVE  told["audio_belong2dhu"] = mcu["AUDIO_REPORT"]
  <2>1. "audio_belong2dhu" \in Watched /\ Owner("audio_belong2dhu") = "AUDIO_REPORT"
    BY DEF Watched, Sounds, Owner
  <2>2. /\ told["audio_belong2dhu"] = Status("audio_belong2dhu")
        /\ On("audio_belong2dhu") <=> Calls("audio_belong2dhu", mcu["AUDIO_REPORT"])
    BY <1>1, <1>8, <2>1, RestKnown
  <2>3. Calls("audio_belong2dhu", mcu["AUDIO_REPORT"]) <=> mcu["AUDIO_REPORT"] # {}
    BY DEF Calls, Sounds
  <2>4. mcu["AUDIO_REPORT"] \in {{}, {"audio_belong2dhu"}}
    BY <1>2 DEF McuFit
  <2>5. QED
    BY <2>2, <2>3, <2>4 DEF Status, Flag
<1>9. QED
  BY <1>3, <1>4, <1>5, <1>6, <1>7, <1>8 DEF Known

\* At rest ViewService and AudioService know every warning and sound as the MCU
\* has its signals, but for messages that were dropped.
THEOREM WarningsCorrect == Spec => []WarningsKnown
<1>1. Spec => []IInv
  BY InitInv, NextInv, PTL DEF Spec
<1>2. QED
  BY <1>1, InvKnown, PTL

\* A message about a warning that is waiting has another status than the last
\* one that was heard.
LEMMA InvChanges ==
  IInv => \A w \in Warns : ~HeardTwice(w)
<1>1. SUFFICES ASSUME IInv, NEW w \in Warns, HeardTwice(w) PROVE FALSE
  OBVIOUS
<1>2. w \in Watched
  BY DEF Watched
<1>3. Outstanding(w) /\ SendFit
  BY <1>1, <1>2 DEF IInv
<1>4. /\ w \notin lost /\ out # <<>> /\ Head(out).key = w /\ Head(out).val = told[w]
      /\ ~Resends(w)
  BY <1>1 DEF HeardTwice
<1>5. /\ Clean(out, w) => Head(out).key # w
      /\ \A v : Once(out, w, v) => \/ Head(out).key = w /\ Head(out).val = v
                                   \/ Head(out).key # w
  BY <1>3, <1>4, TailParts DEF SendFit
<1>6. ~Clean(out, w) /\ Once(out, w, Status(w))
  BY <1>3, <1>4, <1>5 DEF Outstanding
<1>7. Head(out).val = Status(w)
  BY <1>4, <1>5, <1>6
<1>8. told[w] # Status(w)
  BY <1>1, <1>3, <1>4, <1>6 DEF Outstanding
<1>9. QED
  BY <1>4, <1>7, <1>8

\* A receiver that has missed no message about a warning never hears the same
\* status twice.
THEOREM ChangesCorrect == Spec => OnlyChanges
<1>1. IInv /\ [Next]_vars => [\A w \in Warns : ~HeardTwice(w)]_vars
  BY InvChanges
<1>2. Spec => []IInv
  BY InitInv, NextInv, PTL DEF Spec
<1>3. QED
  BY <1>1, <1>2, PTL DEF Spec, OnlyChanges

-----------------------------------------------------------------------------
(* Second part: what the HMI shows                                         *)

\* The last message of w in s has the value v.
Ends(s, w, v) == \E i \in DOMAIN s : /\ s[i].key = w /\ s[i].val = v
                                     /\ \A j \in DOMAIN s : j > i => s[j].key # w

LEMMA EndsNotClean == ASSUME NEW s, NEW w, NEW v, Ends(s, w, v) PROVE ~Clean(s, w)
BY DEF Ends, Clean

\* The only message of w is the last one.
LEMMA OnceEnds ==
  ASSUME NEW s, IsSeq(s), NEW w, NEW v, Once(s, w, v) PROVE Ends(s, w, v)
<1>1. PICK S : s \in Seq(S)
  BY DEF IsSeq
<1>2. PICK n \in Nat : DOMAIN s = 1..n
  BY <1>1
<1>3. PICK i \in 1..n : s[i].key = w /\ s[i].val = v /\ \A j \in 1..n : s[j].key = w => j = i
  BY <1>2 DEF Once
<1>4. \A j \in 1..n : j > i => s[j].key # w
  BY <1>3
<1>5. QED
  BY <1>2, <1>3, <1>4 DEF Ends

\* The last message of two parts is that of the second, or of the first when the
\* second has none.
LEMMA ConcatEnds ==
  ASSUME NEW a, NEW b, IsSeq(a), IsSeq(b)
  PROVE  /\ \A w, v : Ends(b, w, v) => Ends(a \o b, w, v)
         /\ \A w, v : Ends(a, w, v) /\ Clean(b, w) => Ends(a \o b, w, v)
<1>1. PICK S : a \in Seq(S)
  BY DEF IsSeq
<1>2. PICK T : b \in Seq(T)
  BY DEF IsSeq
<1>3. a \in Seq(S \cup T) /\ b \in Seq(S \cup T)
  <2>1. \A i \in 1..Len(a) : a[i] \in S \cup T
    BY <1>1
  <2>2. \A i \in 1..Len(b) : b[i] \in S \cup T
    BY <1>2
  <2>3. QED
    BY <1>1, <1>2, <2>1, <2>2
<1>4. PICK c : c = a \o b
  OBVIOUS
<1>5. /\ c \in Seq(S \cup T) /\ Len(c) = Len(a) + Len(b)
      /\ \A i \in 1..Len(a) + Len(b) : c[i] = IF i <= Len(a) THEN a[i] ELSE b[i - Len(a)]
  BY <1>3, <1>4, ConcatProperties
<1>6. PICK m, n : m = Len(a) /\ n = Len(b)
  OBVIOUS
<1>7. /\ m \in Nat /\ n \in Nat
      /\ DOMAIN a = 1..m /\ DOMAIN b = 1..n /\ DOMAIN c = 1..m + n
      /\ \A i \in 1..m + n : c[i] = IF i <= m THEN a[i] ELSE b[i - m]
  BY <1>3, <1>5, <1>6
<1>8. \A i \in 1..m : i \in 1..m + n /\ c[i] = a[i]
  BY <1>7
<1>9. \A i \in 1..n : m + i \in 1..m + n /\ c[m + i] = b[i]
  <2>1. TAKE i \in 1..n
  <2>2. m + i \in 1..m + n /\ ~(m + i <= m) /\ (m + i) - m = i
    BY <1>7
  <2>3. QED
    BY <1>7, <2>2
<1>10. \A i \in 1..m + n : i \in 1..m \/ (i - m \in 1..n /\ i = m + (i - m))
  BY <1>7
<1>11. ASSUME NEW w, NEW v, Ends(b, w, v) PROVE Ends(c, w, v)
  <2>1. PICK i \in 1..n : b[i].key = w /\ b[i].val = v /\ \A j \in 1..n : j > i => b[j].key # w
    BY <1>7, <1>11 DEF Ends
  <2>2. m + i \in 1..m + n /\ c[m + i].key = w /\ c[m + i].val = v
    BY <1>9, <2>1
  <2>3. ASSUME NEW j \in 1..m + n, j > m + i PROVE c[j].key # w
    <3>1. j \notin 1..m
      BY <1>7, <2>3
    <3>2. j - m \in 1..n /\ j = m + (j - m)
      BY <1>10, <3>1
    <3>3. j - m > i
      BY <1>7, <2>3
    <3>4. QED
      BY <1>9, <2>1, <3>2, <3>3
  <2>4. QED
    BY <1>7, <2>2, <2>3 DEF Ends
<1>12. ASSUME NEW w, NEW v, Ends(a, w, v), Clean(b, w) PROVE Ends(c, w, v)
  <2>1. PICK i \in 1..m : a[i].key = w /\ a[i].val = v /\ \A j \in 1..m : j > i => a[j].key # w
    BY <1>7, <1>12 DEF Ends
  <2>2. i \in 1..m + n /\ c[i].key = w /\ c[i].val = v
    BY <1>8, <2>1
  <2>3. ASSUME NEW j \in 1..m + n, j > i PROVE c[j].key # w
    <3>1. CASE j \in 1..m
      BY <1>8, <2>1, <2>3, <3>1
    <3>2. CASE j - m \in 1..n /\ j = m + (j - m)
      BY <1>7, <1>9, <1>12, <3>2 DEF Clean
    <3>3. QED
      BY <1>10, <3>1, <3>2
  <2>4. QED
    BY <1>7, <2>2, <2>3 DEF Ends
<1>13. QED
  BY <1>4, <1>11, <1>12

\* A message is sent: it was the last of its key, or the last is still waiting.
LEMMA TailEnds ==
  ASSUME NEW s, IsSeq(s), s # <<>>
  PROVE  /\ \A w, v : Ends(s, w, v) =>
              \/ Ends(Tail(s), w, v)
              \/ Clean(Tail(s), w) /\ Head(s).key = w /\ Head(s).val = v
         /\ \A w : Clean(Tail(s), w) /\ Head(s).key # w => Clean(s, w)
<1>1. PICK S : s \in Seq(S)
  BY DEF IsSeq
<1>2. PICK t : t = Tail(s)
  OBVIOUS
<1>3. t \in Seq(S) /\ Len(t) = Len(s) - 1 /\ \A i \in 1..Len(s) - 1 : t[i] = s[i + 1]
  BY <1>1, <1>2, HeadTailProperties
<1>4. PICK n : n = Len(s)
  OBVIOUS
<1>5. /\ n \in Nat \ {0} /\ DOMAIN s = 1..n /\ DOMAIN t = 1..n - 1
      /\ \A i \in 1..n - 1 : t[i] = s[i + 1]
      /\ Head(s) = s[1]
  BY <1>1, <1>3, <1>4, EmptySeq
<1>6. \A i \in 1..n : i # 1 => i - 1 \in 1..n - 1 /\ t[i - 1] = s[i]
  <2>1. TAKE i \in 1..n
  <2>2. i # 1 => i - 1 \in 1..n - 1 /\ (i - 1) + 1 = i
    BY <1>5
  <2>3. QED
    BY <1>5, <2>2
<1>7. \A i \in 1..n - 1 : i + 1 \in 1..n /\ i + 1 # 1
  BY <1>5
<1>8. ASSUME NEW w, Clean(t, w), s[1].key # w PROVE Clean(s, w)
  BY <1>5, <1>6, <1>8 DEF Clean
<1>9. ASSUME NEW w, NEW v, Ends(s, w, v)
      PROVE  Ends(t, w, v) \/ (Clean(t, w) /\ s[1].key = w /\ s[1].val = v)
  <2>1. PICK i \in 1..n : s[i].key = w /\ s[i].val = v /\ \A j \in 1..n : j > i => s[j].key # w
    BY <1>5, <1>9 DEF Ends
  <2>2. CASE i = 1
    <3>1. ASSUME NEW j \in 1..n - 1 PROVE t[j].key # w
      <4>1. j + 1 \in 1..n /\ j + 1 > i /\ t[j] = s[j + 1]
        BY <1>5, <1>7, <2>2
      <4>2. QED
        BY <2>1, <4>1
    <3>2. QED
      BY <1>5, <2>1, <2>2, <3>1 DEF Clean
  <2>3. CASE i # 1
    <3>1. i - 1 \in 1..n - 1 /\ t[i - 1].key = w /\ t[i - 1].val = v
      BY <1>6, <2>1, <2>3
    <3>2. ASSUME NEW j \in 1..n - 1, j > i - 1 PROVE t[j].key # w
      <4>1. j + 1 \in 1..n /\ j + 1 > i /\ t[j] = s[j + 1]
        BY <1>5, <1>7, <3>2
      <4>2. QED
        BY <2>1, <4>1
    <3>3. QED
      BY <1>5, <3>1, <3>2 DEF Ends
  <2>4. QED
    BY <2>2, <2>3
<1>10. QED
  BY <1>2, <1>5, <1>8, <1>9

-----------------------------------------------------------------------------
(* What the HMI shows *)

Displays == {"telltale", "turn", "fault"} \cup Tires
Silent == Displays \cup {"fuel"}

\* The stored value that is sent under the key d.
Value(d) == CASE d = "telltale" -> lamps
              [] d = "turn" -> turn
              [] d = "fault" -> faults
              [] OTHER -> {d} \cap tires

\* The HMI shows it, was told wrongly of nothing, or the last message waiting has it.
Shows(d) ==
  /\ Clean(out, d) /\ d \notin lost => told[d] = Value(d)
  /\ ~Clean(out, d) => Ends(out, d, Value(d))

Writers(l) == {k \in LampKinds : l \in Bits[k]}
TurnByte(v) == v \cup Flag("danger", v = {"left", "right"})

\* The stored signals are what the MCU has, but for reports on the line and for
\* the fuel before its first report.
LampFit(l) == \/ \E k \in Writers(l) : Reported(wire, k)
              \/ \E k \in Writers(l) : l \in lamps <=> l \in mcu[k]
TurnFit == Reported(wire, "CAR_LIGHT") \/ turn = TurnByte(mcu["CAR_LIGHT"])
TiresFit == Reported(wire, "TIRE_FAULT") \/ tires = mcu["TIRE_FAULT"]
ListFit(w) == \/ Reported(wire, Owner(w))
              \/ On(w) <=> Calls(w, mcu[Owner(w)])
              \/ w = "oillow" /\ "fuel" \in lost /\ Clean(out, "fuel")
              \/ w = "oillow" /\ ~IsPercent(mcu["FUEL"])

DInv == /\ \A d \in Displays : Shows(d)
        /\ \A l \in Lamps \ LaneLamps : LampFit(l)
        /\ TurnFit /\ TiresFit
        /\ faults = warns \cap Listed
        /\ \A w \in Listed : ListFit(w)
        /\ reply # NoReply => reply.key \in Music \cup {"musicStatus"}

\* What a handler of k makes of it.
Follows(d) == \/ Value(d)' = Value(d) /\ Clean(out', d)
              \/ Ends(out', d, Value(d)')
Stores(k) ==
  /\ \A l \in Lamps \ LaneLamps :
       l \in lamps' <=> IF k \in Writers(l) THEN l \in Received ELSE l \in lamps
  /\ turn' = IF k = "CAR_LIGHT" THEN TurnByte(Received) ELSE turn
  /\ tires' = IF k = "TIRE_FAULT" THEN Received ELSE tires
  /\ faults = warns \cap Listed => faults' = warns' \cap Listed
Displayed(k) ==
  /\ \A d \in Displays : Follows(d)
  /\ Stores(k)
  /\ k # "FUEL" => Clean(out', "fuel")

LEMMA DisplayKeys ==
  /\ Silent \subseteq Keys
  /\ \A k \in Music \cup {"musicStatus"} : k \notin Silent
  /\ \A k \in Gauges \cup Settings : k \notin Silent
  /\ \A k \in Watched : k \notin Silent
  /\ "coolant" \notin Silent /\ "tirePressures" \notin Silent /\ "turn sound" \notin Silent
<1>1. Tires = {"frontLeftTire", "frontRightTire", "rearLeftTire", "rearRightTire"}
  BY DEF Tires, Bits
<1>2. QED
  BY <1>1 DEF Silent, Displays, Keys, ToHmi, Segments, Music, Gauges, Settings, Watched,
              Warns, Listed, Sounds

LEMMA ValueKept ==
  ASSUME UNCHANGED <<lamps, turn, faults, tires>>, NEW d
  PROVE  Value(d)' = Value(d)
BY DEF Value

LEMMA NoWriter ==
  ASSUME NEW k, k \notin LampKinds, NEW l PROVE k \notin Writers(l)
BY DEF Writers

\* A handler that decides about nothing that is shown.
LEMMA StillDisplays ==
  ASSUME NEW k, k \notin LampKinds \cup {"CAR_LIGHT", "TIRE_FAULT"},
         UNCHANGED <<lamps, turn, faults, warns, tires>>,
         \A d \in Silent : Clean(out', d)
  PROVE  Displayed(k)
<1>1. \A d \in Displays : Follows(d)
  BY ValueKept DEF Follows, Silent
<1>2. Stores(k)
  BY NoWriter DEF Stores
<1>3. QED
  BY <1>1, <1>2 DEF Displayed, Silent

LEMMA SilentOne ==
  ASSUME NEW k, NEW v, k \notin Silent
  PROVE  \A d \in Silent : Clean(<<Msg(k, v)>>, d)
<1>1. \A d \in Silent : d # k
  OBVIOUS
<1>2. QED
  BY <1>1, OneClean

LEMMA SilentTwo ==
  ASSUME NEW a, NEW b, IsSeq(a), IsSeq(b),
         \A d \in Silent : Clean(a, d), \A d \in Silent : Clean(b, d)
  PROVE  \A d \in Silent : Clean(a \o b, d)
BY ConcatParts

LEMMA SilentEdge ==
  ASSUME NEW k, k \notin Silent, NEW old, NEW on
  PROVE  IsSeq(Edge(k, old, on)) /\ \A d \in Silent : Clean(Edge(k, old, on), d)
<1>1. \A d \in Silent : d # k
  OBVIOUS
<1>2. QED
  BY <1>1, EdgeParts

-----------------------------------------------------------------------------
(* The handlers that decide about nothing that is shown *)

LEMMA SetupDisplays ==
  ASSUME NEW k \in {"CFG_THEME", "CFG_LANG"}, NEW t \in Settings, Setup(k, t)
  PROVE  Displayed(k)
<1>1. out' = Edge(t, t \in setup, t \in Received)
  BY DEF Setup
<1>2. \A d \in Silent : Clean(out', d)
  BY <1>1, DisplayKeys, SilentEdge
<1>3. UNCHANGED <<lamps, turn, faults, warns, tires>>
  BY DEF Setup
<1>4. k \notin LampKinds \cup {"CAR_LIGHT", "TIRE_FAULT"}
  BY DEF LampKinds
<1>5. QED
  BY <1>2, <1>3, <1>4, StillDisplays

LEMMA CloseDisplays ==
  ASSUME MusicClose PROVE Displayed("MUSIC_CLOSE")
<1>1. out' = <<Msg("musicStatus", {})>>
  BY DEF MusicClose
<1>2. \A d \in Silent : Clean(out', d)
  BY <1>1, DisplayKeys, SilentOne
<1>3. UNCHANGED <<lamps, turn, faults, warns, tires>>
  BY DEF MusicClose
<1>4. "MUSIC_CLOSE" \notin LampKinds \cup {"CAR_LIGHT", "TIRE_FAULT"}
  BY DEF LampKinds
<1>5. QED
  BY <1>2, <1>3, <1>4, StillDisplays

LEMMA InfoDisplays ==
  ASSUME NEW k \in {"MUSIC_PROCESS", "MUSIC_ALBUM", "MUSIC_NAME", "MUSIC_AUTHOR"}, MusicInfo(k)
  PROVE  Displayed(k)
<1>1. PICK t : t = CHOOSE x \in Bits[k] : TRUE
  OBVIOUS
<1>2. /\ Bits["MUSIC_PROCESS"] = {"musicProcess"} /\ Bits["MUSIC_ALBUM"] = {"albumName"}
      /\ Bits["MUSIC_NAME"] = {"musicName"} /\ Bits["MUSIC_AUTHOR"] = {"authorName"}
  BY DEF Bits
<1>3. \E x \in Bits[k] : TRUE
  BY <1>2
<1>4. t \in Bits[k]
  BY <1>1, <1>3
<1>5. t \in Music
  BY <1>2, <1>4 DEF Music
<1>6. out' = <<Msg(t, Received)>>
  BY <1>1 DEF MusicInfo
<1>7. \A d \in Silent : Clean(out', d)
  BY <1>5, <1>6, DisplayKeys, SilentOne
<1>8. UNCHANGED <<lamps, turn, faults, warns, tires>>
  BY DEF MusicInfo
<1>9. k \notin LampKinds \cup {"CAR_LIGHT", "TIRE_FAULT"}
  BY DEF LampKinds
<1>10. QED
  BY <1>7, <1>8, <1>9, StillDisplays

LEMMA GaugeDisplays ==
  ASSUME NEW k \in Gauges, Gauge(k) PROVE Displayed(k)
<1>1. out' = <<Msg(k, Received)>>
  BY DEF Gauge
<1>2. \A d \in Silent : Clean(out', d)
  BY <1>1, DisplayKeys, SilentOne
<1>3. UNCHANGED <<lamps, turn, faults, warns, tires>>
  BY DEF Gauge, signals
<1>4. k \notin LampKinds \cup {"CAR_LIGHT", "TIRE_FAULT"}
  BY DEF LampKinds, Gauges
<1>5. QED
  BY <1>2, <1>3, <1>4, StillDisplays

LEMMA CoolantDisplays ==
  ASSUME Coolant PROVE Displayed("COOLANT")
<1>1. PICK k : k = "coolandtemperaturehigh"
  OBVIOUS
<1>2. PICK b : b = <<Msg("coolant", {CoolantSegment(Received)})>>
  OBVIOUS
<1>3. PICK a, m : /\ m = <<Msg(k, Flag(k, CoolantHigh(Received)))>>
                  /\ a = IF Received = coolant THEN <<>> ELSE m
  OBVIOUS
<1>4. out' = a \o b
  BY <1>1, <1>2, <1>3 DEF Coolant
<1>5. k \notin Silent
  BY <1>1, DisplayKeys DEF Watched, Sounds
<1>6. IsSeq(m) /\ \A d \in Silent : Clean(m, d)
  BY <1>3, <1>5, SilentOne, OneClean
<1>7. IsSeq(b) /\ \A d \in Silent : Clean(b, d)
  BY <1>2, DisplayKeys, SilentOne, OneClean
<1>8. IsSeq(a) /\ \A d \in Silent : Clean(a, d)
  BY <1>3, <1>6, EmptyParts
<1>9. \A d \in Silent : Clean(out', d)
  BY <1>4, <1>7, <1>8, SilentTwo
<1>10. UNCHANGED <<lamps, turn, faults, warns, tires>>
  BY DEF Coolant
<1>11. "COOLANT" \notin LampKinds \cup {"CAR_LIGHT", "TIRE_FAULT"}
  BY DEF LampKinds
<1>12. QED
  BY <1>9, <1>10, <1>11, StillDisplays

LEMMA AudioDisplays ==
  ASSUME AudioReport PROVE Displayed("AUDIO_REPORT")
<1>1. out' = Edge("audio_belong2dhu", belongs # {}, Received # {})
  BY DEF AudioReport
<1>2. "audio_belong2dhu" \notin Silent
  BY DisplayKeys DEF Watched, Sounds
<1>3. \A d \in Silent : Clean(out', d)
  BY <1>1, <1>2, SilentEdge
<1>4. UNCHANGED <<lamps, turn, faults, warns, tires>>
  BY DEF AudioReport
<1>5. "AUDIO_REPORT" \notin LampKinds \cup {"CAR_LIGHT", "TIRE_FAULT"}
  BY DEF LampKinds
<1>6. QED
  BY <1>3, <1>4, <1>5, StillDisplays

-----------------------------------------------------------------------------
(* The handlers of the lamps *)

\* One message ends with its value.
LEMMA OneEnds == ASSUME NEW k, NEW v PROVE Ends(<<Msg(k, v)>>, k, v)
<1>1. PICK s : s = <<Msg(k, v)>>
  OBVIOUS
<1>2. IsSeq(s) /\ Once(s, k, v)
  BY <1>1, OneClean
<1>3. QED
  BY <1>1, <1>2, OnceEnds

\* All the lamps are sent last; what is sent before is not shown.
LEMMA LampsFollow ==
  ASSUME NEW a, IsSeq(a), \A d \in Silent : Clean(a, d),
         out' = a \o <<Msg("telltale", lamps')>>,
         UNCHANGED <<turn, faults, tires>>
  PROVE  (\A d \in Displays : Follows(d)) /\ Clean(out', "fuel")
<1>1. PICK b : b = <<Msg("telltale", lamps')>>
  OBVIOUS
<1>2. IsSeq(b) /\ (\A d : d # "telltale" => Clean(b, d)) /\ Ends(b, "telltale", lamps')
  BY <1>1, OneClean, OneEnds
<1>3. out' = a \o b
  BY <1>1
<1>4. ASSUME NEW d \in Silent, d # "telltale" PROVE Clean(out', d)
  <2>1. Clean(a, d) /\ Clean(b, d)
    BY <1>2, <1>4
  <2>2. Clean(a \o b, d)
    BY <1>2, <2>1, ConcatParts
  <2>3. QED
    BY <1>3, <2>2
<1>5. Follows("telltale")
  <2>1. Ends(out', "telltale", lamps')
    BY <1>2, <1>3, ConcatEnds
  <2>2. QED
    BY <2>1 DEF Follows, Value
<1>6. ASSUME NEW d \in Displays, d # "telltale" PROVE Follows(d)
  <2>1. Value(d)' = Value(d)
    BY <1>6 DEF Value
  <2>2. QED
    BY <1>4, <1>6, <2>1 DEF Follows, Silent
<1>7. QED
  BY <1>4, <1>5, <1>6 DEF Silent

\* The same without anything before.
LEMMA LampsAlone ==
  ASSUME out' = <<Msg("telltale", lamps')>>, UNCHANGED <<turn, faults, tires>>
  PROVE  (\A d \in Displays : Follows(d)) /\ Clean(out', "fuel")
<1>1. PICK a : a = <<>>
  OBVIOUS
<1>2. IsSeq(a) /\ \A d \in Silent : Clean(a, d)
  BY <1>1, EmptyParts
<1>3. PICK b : b = <<Msg("telltale", lamps')>>
  OBVIOUS
<1>4. PICK S : b \in Seq(S)
  BY <1>3, OneClean DEF IsSeq
<1>5. out' = a \o b
  BY <1>1, <1>3, <1>4, ConcatEmptySeq
<1>6. QED
  BY <1>2, <1>3, <1>5, LampsFollow

LEMMA LampDisplays ==
  ASSUME NEW k \in {"FAULT", "EPB", "AIRBAG", "ALARM_TIRE", "OILLOW"}, LampMessage(k)
  PROVE  Displayed(k)
<1>1. k \in LampKinds /\ k \notin {"CAR_LIGHT", "TIRE_FAULT", "FUEL"}
  BY DEF LampKinds
<1>2. out' = <<Msg("telltale", lamps')>> /\ UNCHANGED <<turn, warns, faults, tires>>
  BY DEF LampMessage
<1>3. (\A d \in Displays : Follows(d)) /\ Clean(out', "fuel")
  BY <1>2, LampsAlone
<1>4. \A l : k \in Writers(l) <=> l \in Bits[k]
  BY <1>1 DEF Writers
<1>5. lamps' = SetBits(lamps, Bits[k], Received)
  BY DEF LampMessage
<1>6. Stores(k)
  BY <1>1, <1>2, <1>4, <1>5 DEF Stores, SetBits
<1>7. QED
  BY <1>3, <1>6 DEF Displayed

LEMMA LaneDisplays ==
  ASSUME LaneDepature, Received \subseteq LaneLamps
  PROVE  Displayed("LANE_DEPATURE")
<1>1. out' = <<Msg("telltale", lamps')>> /\ UNCHANGED <<turn, warns, faults, tires>>
  BY DEF LaneDepature
<1>2. (\A d \in Displays : Follows(d)) /\ Clean(out', "fuel")
  BY <1>1, LampsAlone
<1>3. \A l \in Lamps \ LaneLamps : "LANE_DEPATURE" \notin Writers(l)
  BY DEF Writers, LaneLamps
<1>4. \A l \in Lamps \ LaneLamps : l \in lamps' <=> l \in lamps
  BY DEF LaneDepature
<1>5. Stores("LANE_DEPATURE")
  BY <1>1, <1>3, <1>4 DEF Stores
<1>6. QED
  BY <1>2, <1>5 DEF Displayed

LEMMA AlarmDisplays ==
  ASSUME Alarm PROVE Displayed("ALARM")
<1>1. PICK a, b, c :
        /\ a = Edge("drive_belt", "driverBeltLight" \in lamps, "driverBeltLight" \in Received)
        /\ b = Edge("copilot_belt", "passengerBeltLight" \in lamps,
                    "passengerBeltLight" \in Received)
        /\ c = Edge("parking", "parking" \in warns, "parking" \in Received)
  OBVIOUS
<1>2. PICK x, y : x = a \o b /\ y = x \o c
  OBVIOUS
<1>3. "drive_belt" \notin Silent /\ "copilot_belt" \notin Silent /\ "parking" \notin Silent
  BY DisplayKeys DEF Watched, Sounds, Warns
<1>4. /\ IsSeq(a) /\ \A d \in Silent : Clean(a, d)
      /\ IsSeq(b) /\ \A d \in Silent : Clean(b, d)
      /\ IsSeq(c) /\ \A d \in Silent : Clean(c, d)
  BY <1>1, <1>3, SilentEdge
<1>5. IsSeq(x) /\ \A d \in Silent : Clean(x, d)
  BY <1>2, <1>4, ConcatParts
<1>6. IsSeq(y) /\ \A d \in Silent : Clean(y, d)
  BY <1>2, <1>4, <1>5, ConcatParts
<1>7. out' = y \o <<Msg("telltale", lamps')>> /\ UNCHANGED <<turn, faults, tires>>
  BY <1>1, <1>2 DEF Alarm
<1>8. (\A d \in Displays : Follows(d)) /\ Clean(out', "fuel")
  BY <1>6, <1>7, LampsFollow
<1>9. \A l \in Lamps : "ALARM" \in Writers(l) <=> l \in Bits["ALARM"] \ {"parking"}
  <2>1. "ALARM" \in LampKinds
    BY DEF LampKinds
  <2>2. "parking" \notin Lamps
    BY DEF Lamps
  <2>3. QED
    BY <2>1, <2>2 DEF Writers
<1>10. lamps' = SetBits(lamps, Bits["ALARM"] \ {"parking"}, Received)
  BY DEF Alarm
<1>11. \A l \in Lamps : l \in lamps' <=> IF "ALARM" \in Writers(l) THEN l \in Received
                                        ELSE l \in lamps
  BY <1>9, <1>10 DEF SetBits
<1>12. warns' \cap Listed = warns \cap Listed
  BY DEF Alarm, SetBits, Listed
<1>13. Stores("ALARM")
  BY <1>7, <1>11, <1>12 DEF Stores
<1>14. QED
  BY <1>8, <1>13 DEF Displayed

LEMMA CarDisplays ==
  ASSUME CarLight PROVE Displayed("CAR_LIGHT")
<1>1. PICK l : l = <<Msg("turn", turn')>>
  OBVIOUS
<1>2. PICK a, b : a = <<Msg("turn sound", {"turn_on"})>> /\ b = <<Msg("turn sound", {"turn_off"})>>
  OBVIOUS
<1>3. /\ IsSeq(a) /\ \A d \in Silent : Clean(a, d)
      /\ IsSeq(b) /\ \A d \in Silent : Clean(b, d)
  BY <1>2, DisplayKeys, SilentOne, OneClean
<1>4. IsSeq(<<>>) /\ \A d \in Silent : Clean(<<>>, d)
  BY EmptyParts
<1>5. turn' = TurnByte(Received)
  BY DEF CarLight, TurnByte
<1>6. \/ out' = a \o l \/ out' = b \o l \/ out' = <<>> \o l
  BY <1>1, <1>2 DEF CarLight
<1>7. PICK s : IsSeq(s) /\ (\A d \in Silent : Clean(s, d)) /\ out' = s \o l
  BY <1>3, <1>4, <1>6
<1>8. IsSeq(l) /\ (\A d : d # "turn" => Clean(l, d)) /\ Ends(l, "turn", turn')
  BY <1>1, OneClean, OneEnds
<1>9. UNCHANGED <<lamps, warns, faults, tires>>
  BY DEF CarLight
<1>10. Follows("turn")
  <2>1. Ends(out', "turn", turn')
    BY <1>7, <1>8, ConcatEnds
  <2>2. QED
    BY <2>1 DEF Follows, Value
<1>11. ASSUME NEW d \in Silent, d # "turn" PROVE Clean(out', d)
  BY <1>7, <1>8, <1>11, ConcatParts
<1>12. ASSUME NEW d \in Displays, d # "turn" PROVE Follows(d)
  <2>1. Value(d)' = Value(d)
    BY <1>9, <1>12 DEF Value
  <2>2. QED
    BY <1>11, <1>12, <2>1 DEF Follows, Silent
<1>13. \A l2 : "CAR_LIGHT" \notin Writers(l2)
  BY NoWriter DEF LampKinds
<1>14. Stores("CAR_LIGHT")
  BY <1>5, <1>9, <1>13 DEF Stores
<1>15. QED
  BY <1>10, <1>11, <1>12, <1>14 DEF Displayed, Silent

\* The status of one tire, when it changes.
LEMMA TireParts ==
  ASSUME NEW t, tires' = Received
  PROVE  LET e == Edge(t, t \in tires, t \in Received) IN
         /\ IsSeq(e) /\ \A d : d # t => Clean(e, d)
         /\ \/ {t} \cap tires' = {t} \cap tires /\ Clean(e, t)
            \/ Ends(e, t, {t} \cap tires')
<1>1. PICK old, on \in BOOLEAN : (old <=> t \in tires) /\ (on <=> t \in Received)
  OBVIOUS
<1>2. PICK e : e = Edge(t, old, on)
  OBVIOUS
<1>3. e = Edge(t, t \in tires, t \in Received)
  BY <1>1, <1>2
<1>4. /\ IsSeq(e) /\ \A d : d # t => Clean(e, d)
      /\ old = on => Clean(e, t)
      /\ old # on => Once(e, t, Flag(t, on))
  BY <1>2, EdgeParts
<1>5. Flag(t, on) = {t} \cap tires'
  BY <1>1 DEF Flag
<1>6. old = on => {t} \cap tires' = {t} \cap tires
  BY <1>1
<1>7. QED
  BY <1>3, <1>4, <1>5, <1>6, OnceEnds

LEMMA TireDisplays ==
  ASSUME TireFault PROVE Displayed("TIRE_FAULT")
<1>1. PICK a, b, c, e :
        /\ a = Edge("frontLeftTire", "frontLeftTire" \in tires, "frontLeftTire" \in Received)
        /\ b = Edge("frontRightTire", "frontRightTire" \in tires, "frontRightTire" \in Received)
        /\ c = Edge("rearLeftTire", "rearLeftTire" \in tires, "rearLeftTire" \in Received)
        /\ e = Edge("rearRightTire", "rearRightTire" \in tires, "rearRightTire" \in Received)
  OBVIOUS
<1>2. tires' = Received /\ UNCHANGED <<lamps, turn, warns, faults>>
  BY DEF TireFault
<1>3. /\ IsSeq(a) /\ \A d : d # "frontLeftTire" => Clean(a, d)
      /\ \/ {"frontLeftTire"} \cap tires' = {"frontLeftTire"} \cap tires /\ Clean(a, "frontLeftTire")
         \/ Ends(a, "frontLeftTire", {"frontLeftTire"} \cap tires')
  BY <1>1, <1>2, TireParts
<1>4. /\ IsSeq(b) /\ \A d : d # "frontRightTire" => Clean(b, d)
      /\ \/ {"frontRightTire"} \cap tires' = {"frontRightTire"} \cap tires /\ Clean(b, "frontRightTire")
         \/ Ends(b, "frontRightTire", {"frontRightTire"} \cap tires')
  BY <1>1, <1>2, TireParts
<1>5. /\ IsSeq(c) /\ \A d : d # "rearLeftTire" => Clean(c, d)
      /\ \/ {"rearLeftTire"} \cap tires' = {"rearLeftTire"} \cap tires /\ Clean(c, "rearLeftTire")
         \/ Ends(c, "rearLeftTire", {"rearLeftTire"} \cap tires')
  BY <1>1, <1>2, TireParts
<1>6. /\ IsSeq(e) /\ \A d : d # "rearRightTire" => Clean(e, d)
      /\ \/ {"rearRightTire"} \cap tires' = {"rearRightTire"} \cap tires /\ Clean(e, "rearRightTire")
         \/ Ends(e, "rearRightTire", {"rearRightTire"} \cap tires')
  BY <1>1, <1>2, TireParts
<1>7. PICK x, y, z : x = a \o b /\ y = x \o c /\ z = y \o e
  OBVIOUS
<1>8. out' = z
  BY <1>1, <1>7 DEF TireFault
<1>9. ASSUME NEW d
      PROVE  /\ Clean(a, d) /\ Clean(b, d) /\ Clean(c, d) /\ Clean(e, d) => Clean(z, d)
             /\ \A v : Ends(a, d, v) /\ Clean(b, d) /\ Clean(c, d) /\ Clean(e, d) => Ends(z, d, v)
             /\ \A v : Ends(b, d, v) /\ Clean(c, d) /\ Clean(e, d) => Ends(z, d, v)
             /\ \A v : Ends(c, d, v) /\ Clean(e, d) => Ends(z, d, v)
             /\ \A v : Ends(e, d, v) => Ends(z, d, v)
  <2>1. /\ IsSeq(x)
        /\ Clean(a, d) /\ Clean(b, d) => Clean(x, d)
        /\ \A v : Ends(a, d, v) /\ Clean(b, d) => Ends(x, d, v)
        /\ \A v : Ends(b, d, v) => Ends(x, d, v)
    BY <1>3, <1>4, <1>7, ConcatParts, ConcatEnds
  <2>2. /\ IsSeq(y)
        /\ Clean(x, d) /\ Clean(c, d) => Clean(y, d)
        /\ \A v : Ends(x, d, v) /\ Clean(c, d) => Ends(y, d, v)
        /\ \A v : Ends(c, d, v) => Ends(y, d, v)
    BY <1>5, <1>7, <2>1, ConcatParts, ConcatEnds
  <2>3. /\ Clean(y, d) /\ Clean(e, d) => Clean(z, d)
        /\ \A v : Ends(y, d, v) /\ Clean(e, d) => Ends(z, d, v)
        /\ \A v : Ends(e, d, v) => Ends(z, d, v)
    BY <1>6, <1>7, <2>2, ConcatParts, ConcatEnds
  <2>4. QED
    BY <2>1, <2>2, <2>3
<1>10. Tires = {"frontLeftTire", "frontRightTire", "rearLeftTire", "rearRightTire"}
  BY DEF Tires, Bits
<1>11. ASSUME NEW d \in Silent, d \notin Tires PROVE Clean(out', d)
  BY <1>3, <1>4, <1>5, <1>6, <1>8, <1>9, <1>10, <1>11
<1>12. ASSUME NEW d \in Displays, d \notin Tires PROVE Follows(d)
  <2>1. Value(d)' = Value(d)
    BY <1>2, <1>12 DEF Value, Displays
  <2>2. QED
    BY <1>11, <1>12, <2>1 DEF Follows, Silent
<1>13. ASSUME NEW d \in Tires PROVE Follows(d)
  <2>1. Value(d) = {d} \cap tires /\ Value(d)' = {d} \cap tires'
    BY <1>10 DEF Value
  <2>2. CASE d = "frontLeftTire"
    BY <1>3, <1>4, <1>5, <1>6, <1>8, <1>9, <2>1, <2>2 DEF Follows
  <2>3. CASE d = "frontRightTire"
    BY <1>3, <1>4, <1>5, <1>6, <1>8, <1>9, <2>1, <2>3 DEF Follows
  <2>4. CASE d = "rearLeftTire"
    BY <1>3, <1>4, <1>5, <1>6, <1>8, <1>9, <2>1, <2>4 DEF Follows
  <2>5. CASE d = "rearRightTire"
    BY <1>3, <1>4, <1>5, <1>6, <1>8, <1>9, <2>1, <2>5 DEF Follows
  <2>6. QED
    BY <1>10, <2>2, <2>3, <2>4, <2>5
<1>14. \A l : "TIRE_FAULT" \notin Writers(l)
  BY NoWriter DEF LampKinds
<1>15. Stores("TIRE_FAULT")
  BY <1>2, <1>14 DEF Stores
<1>16. "fuel" \in Silent /\ "fuel" \notin Tires
  BY <1>10 DEF Silent
<1>17. QED
  BY <1>11, <1>12, <1>13, <1>15, <1>16 DEF Displayed

-----------------------------------------------------------------------------
(* The handlers of the faults *)

\* A fault is listed as its warning is set.
LEMMA ListStores ==
  ASSUME NEW w \in Listed, NEW on \in BOOLEAN, NEW list,
         list = warns \cap Listed,
         NEW new, \A x : x \in new <=> IF x = w THEN on ELSE x \in warns
  PROVE  SetFault(w, on, list) = new \cap Listed
<1>1. CASE (w \in warns) = on
  BY <1>1 DEF SetFault
<1>2. CASE (w \in warns) # on
  BY <1>2 DEF SetFault, SetBits, Flag
<1>3. QED
  BY <1>1, <1>2

\* The list is sent behind the warning, when it changes or again.
LEMMA SendWarningLists ==
  ASSUME NEW w, NEW on, NEW list, w \notin Silent
  PROVE  /\ IsSeq(SendWarning(w, on, list))
         /\ \A d \in Silent : d # "fault" => Clean(SendWarning(w, on, list), d)
         /\ Ends(SendWarning(w, on, list), "fault", list)
<1>1. PICK m, f : m = Msg(w, Flag(w, on)) /\ f = Msg("fault", list)
  OBVIOUS
<1>2. PICK s : s = <<m, f>>
  OBVIOUS
<1>3. s \in Seq({m, f}) /\ DOMAIN s = {1, 2} /\ s[1] = m /\ s[2] = f
  BY <1>2
<1>4. m.key = w /\ f.key = "fault" /\ f.val = list
  BY <1>1 DEF Msg
<1>5. SendWarning(w, on, list) = s
  BY <1>1, <1>2 DEF SendWarning
<1>6. IsSeq(s)
  BY <1>3 DEF IsSeq
<1>7. \A d \in Silent : d # "fault" => Clean(s, d)
  BY <1>3, <1>4 DEF Clean
<1>8. Ends(s, "fault", list)
  BY <1>3, <1>4 DEF Ends
<1>9. QED
  BY <1>5, <1>6, <1>7, <1>8

LEMMA WarningLists ==
  ASSUME NEW w, NEW on, NEW list, w \notin Silent
  PROVE  /\ IsSeq(Warning(w, on, list))
         /\ \A d \in Silent : d # "fault" => Clean(Warning(w, on, list), d)
         /\ (w \in warns) = on => Clean(Warning(w, on, list), "fault")
         /\ (w \in warns) # on => Ends(Warning(w, on, list), "fault", list)
<1>1. CASE (w \in warns) = on
  <2>1. Warning(w, on, list) = <<>>
    BY <1>1 DEF Warning
  <2>2. QED
    BY <1>1, <2>1, EmptyParts
<1>2. CASE (w \in warns) # on
  <2>1. Warning(w, on, list) = SendWarning(w, on, list)
    BY <1>2 DEF Warning
  <2>2. QED
    BY <1>2, <2>1, SendWarningLists
<1>3. QED
  BY <1>1, <1>2

LEMMA ListedLoud == \A w \in Listed : w \notin Silent
BY DisplayKeys DEF Watched, Warns

\* A handler of one warning, behind a message that is not shown.
LEMMA OneDisplays ==
  ASSUME NEW k, k \notin LampKinds \cup {"CAR_LIGHT", "TIRE_FAULT"},
         NEW w \in Listed, NEW a, NEW b, NEW on \in BOOLEAN, IsSeq(a), IsSeq(b),
         \A d \in Displays : Clean(a, d), k # "FUEL" => Clean(a, "fuel"),
         \A d \in Silent : d # "fault" => Clean(b, d),
         (Clean(b, "fault") /\ faults' = faults) \/ Ends(b, "fault", faults'),
         out' = a \o b,
         warns' = SetBits(warns, {w}, Flag(w, on)),
         \/ faults' = SetFault(w, on, faults)
         \/ faults' = SetBits(faults, {w}, Flag(w, on)),
         UNCHANGED <<lamps, turn, tires>>
  PROVE  Displayed(k)
<1>1. ASSUME NEW d \in Silent, d # "fault", Clean(a, d) PROVE Clean(out', d)
  <2>1. Clean(a \o b, d)
    BY <1>1, ConcatParts
  <2>2. QED
    BY <2>1
<1>2. ASSUME NEW d \in Displays, d # "fault" PROVE Follows(d)
  <2>1. Value(d)' = Value(d)
    BY <1>2 DEF Value
  <2>2. d \in Silent
    BY DEF Silent
  <2>3. QED
    BY <1>1, <1>2, <2>1, <2>2 DEF Follows
<1>3. Follows("fault")
  <2>1. Value("fault") = faults /\ Value("fault")' = faults' /\ Clean(a, "fault")
    BY DEF Value, Displays
  <2>2. CASE Clean(b, "fault") /\ faults' = faults
    <3>1. Clean(a \o b, "fault")
      BY <2>1, <2>2, ConcatParts
    <3>2. QED
      BY <2>1, <2>2, <3>1 DEF Follows
  <2>3. CASE Ends(b, "fault", faults')
    <3>1. Ends(a \o b, "fault", faults')
      BY <2>3, ConcatEnds
    <3>2. QED
      BY <2>1, <3>1 DEF Follows
  <2>4. QED
    BY <2>2, <2>3
<1>4. faults = warns \cap Listed => faults' = warns' \cap Listed
  <2>1. \A x : x \in warns' <=> IF x = w THEN on ELSE x \in warns
    BY DEF SetBits, Flag
  <2>2. PICK new, list : new = warns' /\ list = faults
    OBVIOUS
  <2>3. \A x : x \in new <=> IF x = w THEN on ELSE x \in warns
    BY <2>1, <2>2
  <2>4. list = warns \cap Listed => SetFault(w, on, list) = new \cap Listed
    BY <2>3, ListStores
  <2>5. list = warns \cap Listed => SetBits(list, {w}, Flag(w, on)) = new \cap Listed
    BY <2>3 DEF SetBits, Flag
  <2>6. QED
    BY <2>2, <2>4, <2>5
<1>5. Stores(k)
  BY <1>4, NoWriter DEF Stores
<1>6. k # "FUEL" => Clean(out', "fuel")
  BY <1>1 DEF Silent
<1>7. IsSeq(out')
  BY ConcatParts
<1>8. QED
  BY <1>2, <1>3, <1>5, <1>6, <1>7 DEF Displayed

LEMMA WarningDisplays ==
  ASSUME NEW k, k \notin LampKinds \cup {"CAR_LIGHT", "TIRE_FAULT"},
         NEW w \in Listed, NEW a, NEW on \in BOOLEAN, IsSeq(a),
         \A d \in Displays : Clean(a, d), k # "FUEL" => Clean(a, "fuel"),
         out' = a \o Warning(w, on, faults'),
         warns' = SetBits(warns, {w}, Flag(w, on)), faults' = SetFault(w, on, faults),
         UNCHANGED <<lamps, turn, tires>>
  PROVE  Displayed(k)
<1>1. PICK b : b = Warning(w, on, faults')
  OBVIOUS
<1>2. /\ IsSeq(b)
      /\ \A d \in Silent : d # "fault" => Clean(b, d)
      /\ (w \in warns) = on => Clean(b, "fault")
      /\ (w \in warns) # on => Ends(b, "fault", faults')
  BY <1>1, ListedLoud, WarningLists
<1>3. (Clean(b, "fault") /\ faults' = faults) \/ Ends(b, "fault", faults')
  BY <1>2 DEF SetFault
<1>4. out' = a \o b
  BY <1>1
<1>5. QED
  BY <1>2, <1>3, <1>4, OneDisplays

LEMMA DtcDisplays ==
  ASSUME Dtc PROVE Displayed("DTC")
<1>1. PICK on \in BOOLEAN : on <=> "WrongGear_P" \in Received
  OBVIOUS
<1>2. PICK a, b : a = <<>> /\ b = Warning("WrongGear_P", on, faults')
  OBVIOUS
<1>3. "WrongGear_P" \in Listed
  BY DEF Listed
<1>4. PICK S : b \in Seq(S)
  BY <1>2, <1>3, ListedLoud, WarningLists DEF IsSeq
<1>5. out' = b
  BY <1>1, <1>2 DEF Dtc
<1>6. out' = a \o b
  BY <1>2, <1>4, <1>5, ConcatEmptySeq
<1>7. IsSeq(a) /\ \A d : Clean(a, d)
  BY <1>2, EmptyParts
<1>8. /\ warns' = SetBits(warns, {"WrongGear_P"}, Flag("WrongGear_P", on))
      /\ faults' = SetFault("WrongGear_P", on, faults)
      /\ UNCHANGED <<lamps, turn, tires>>
  BY <1>1 DEF Dtc, SetWarning
<1>9. "DTC" \notin LampKinds \cup {"CAR_LIGHT", "TIRE_FAULT"}
  BY DEF LampKinds
<1>10. QED
  BY <1>2, <1>3, <1>6, <1>7, <1>8, <1>9, WarningDisplays

LEMMA PressureDisplays ==
  ASSUME TirePressure PROVE Displayed("TIRE_PRESSURE")
<1> DEFINE w == "tiresystemfault"
<1>1. PICK on \in BOOLEAN : on <=> w \in Received
  OBVIOUS
<1>2. (w \in Received) = on
  BY <1>1
<1>3. PICK a : a = <<Msg("tirePressures", Received \cap {"tirePressures"})>>
  OBVIOUS
<1>4. IsSeq(a) /\ \A d \in Silent : Clean(a, d)
  BY <1>3, DisplayKeys, SilentOne, OneClean
<1>5. (\A d \in Displays : Clean(a, d)) /\ Clean(a, "fuel")
  BY <1>4 DEF Silent
<1>6. warns' = SetBits(warns, {w}, Flag(w, on)) /\ UNCHANGED <<lamps, turn, tires>>
  BY <1>2 DEF TirePressure
<1>7. "TIRE_PRESSURE" \notin LampKinds \cup {"CAR_LIGHT", "TIRE_FAULT"}
  BY DEF LampKinds
<1>8. w \in Listed /\ w \notin Silent
  BY ListedLoud DEF Listed
<1>9. CASE spare'
  <2>1. PICK b : b = SendWarning(w, on, faults')
    OBVIOUS
  <2>2. out' = a \o b /\ faults' = SetBits(faults, {w}, Flag(w, on))
    BY <1>2, <1>3, <1>9, <2>1 DEF TirePressure
  <2>3. /\ IsSeq(b) /\ Ends(b, "fault", faults')
        /\ \A d \in Silent : d # "fault" => Clean(b, d)
    BY <1>8, <2>1, SendWarningLists
  <2>4. QED
    BY <1>4, <1>5, <1>6, <1>7, <1>8, <2>2, <2>3, OneDisplays
<1>10. CASE ~spare'
  <2>1. out' = a \o Warning(w, on, faults') /\ faults' = SetFault(w, on, faults)
    BY <1>2, <1>3, <1>10 DEF TirePressure
  <2>2. QED
    BY <1>4, <1>5, <1>6, <1>7, <1>8, <2>1, WarningDisplays
<1>11. QED
  BY <1>9, <1>10

LEMMA FuelDisplays ==
  ASSUME Fuel PROVE Displayed("FUEL")
<1>1. PICK on \in BOOLEAN : on <=> OilLow(segment')
  OBVIOUS
<1>2. PICK a : a = <<Msg("fuel", {segment'})>>
  OBVIOUS
<1>3. out' = a \o Warning("oillow", on, faults')
  BY <1>1, <1>2 DEF Fuel, OilLow
<1>4. "fuel" \notin Displays
  BY DEF Displays, Tires, Bits
<1>5. IsSeq(a) /\ \A d \in Displays : Clean(a, d)
  <2>1. \A d \in Displays : d # "fuel"
    BY <1>4
  <2>2. QED
    BY <1>2, <2>1, OneClean
<1>6. /\ warns' = SetBits(warns, {"oillow"}, Flag("oillow", on))
      /\ faults' = SetFault("oillow", on, faults)
      /\ UNCHANGED <<lamps, turn, tires>>
  BY <1>1 DEF Fuel, SetWarning, OilLow
<1>7. "FUEL" \notin LampKinds \cup {"CAR_LIGHT", "TIRE_FAULT"}
  BY DEF LampKinds
<1>8. "oillow" \in Listed
  BY DEF Listed
<1>9. QED
  BY <1>3, <1>5, <1>6, <1>7, <1>8, WarningDisplays

\* The two warnings of the key, each with the list as it is by then.
LEMMA PepsDisplays ==
  ASSUME Peps PROVE Displayed("PEPS")
<1>1. PICK n, l \in BOOLEAN : /\ n <=> "pepsnotfindb" \in Received
                              /\ l <=> "pepsbatterylow" \in Received
  OBVIOUS
<1>2. PICK f, g : f = SetFault("pepsnotfindb", n, faults) /\ g = SetFault("pepsbatterylow", l, f)
  OBVIOUS
<1>3. /\ out' = Warning("pepsnotfindb", n, f) \o Warning("pepsbatterylow", l, g)
      /\ faults' = g
      /\ UNCHANGED <<lamps, turn, tires>>
  BY <1>1, <1>2 DEF Peps
<1>4. PICK a, b : a = Warning("pepsnotfindb", n, f) /\ b = Warning("pepsbatterylow", l, g)
  OBVIOUS
<1>5. "pepsnotfindb" \in Listed /\ "pepsbatterylow" \in Listed
  BY DEF Listed
<1>6. /\ IsSeq(a)
      /\ \A d \in Silent : d # "fault" => Clean(a, d)
      /\ ("pepsnotfindb" \in warns) = n => Clean(a, "fault")
      /\ ("pepsnotfindb" \in warns) # n => Ends(a, "fault", f)
  BY <1>4, <1>5, ListedLoud, WarningLists
<1>7. /\ IsSeq(b)
      /\ \A d \in Silent : d # "fault" => Clean(b, d)
      /\ ("pepsbatterylow" \in warns) = l => Clean(b, "fault")
      /\ ("pepsbatterylow" \in warns) # l => Ends(b, "fault", g)
  BY <1>4, <1>5, ListedLoud, WarningLists
<1>8. out' = a \o b
  BY <1>3, <1>4
<1>9. ASSUME NEW d \in Silent, d # "fault" PROVE Clean(out', d)
  <2>1. Clean(a \o b, d)
    BY <1>6, <1>7, <1>9, ConcatParts
  <2>2. QED
    BY <1>8, <2>1
<1>10. ASSUME NEW d \in Displays, d # "fault" PROVE Follows(d)
  <2>1. Value(d)' = Value(d)
    BY <1>3, <1>10 DEF Value
  <2>2. QED
    BY <1>9, <1>10, <2>1 DEF Follows, Silent
<1>11. Follows("fault")
  <2>1. Value("fault") = faults /\ Value("fault")' = g
    BY <1>3 DEF Value
  <2>2. CASE ("pepsbatterylow" \in warns) # l
    <3>1. Ends(a \o b, "fault", g)
      BY <1>6, <1>7, <2>2, ConcatEnds
    <3>2. QED
      BY <1>8, <2>1, <3>1 DEF Follows
  <2>3. CASE ("pepsbatterylow" \in warns) = l /\ ("pepsnotfindb" \in warns) # n
    <3>1. g = f
      BY <1>2, <2>3 DEF SetFault
    <3>2. Ends(a \o b, "fault", g)
      BY <1>6, <1>7, <2>3, <3>1, ConcatEnds
    <3>3. QED
      BY <1>8, <2>1, <3>2 DEF Follows
  <2>4. CASE ("pepsbatterylow" \in warns) = l /\ ("pepsnotfindb" \in warns) = n
    <3>1. g = faults
      BY <1>2, <2>4 DEF SetFault
    <3>2. Clean(a \o b, "fault")
      BY <1>6, <1>7, <2>4, ConcatParts
    <3>3. QED
      BY <1>8, <2>1, <3>1, <3>2 DEF Follows
  <2>5. QED
    BY <2>2, <2>3, <2>4
<1>12. faults = warns \cap Listed => faults' = warns' \cap Listed
  <2>1. \A x : x \in warns' <=> IF x = "pepsnotfindb" THEN n
                               ELSE IF x = "pepsbatterylow" THEN l ELSE x \in warns
    BY <1>1 DEF Peps, SetBits, Bits
  <2>2. ASSUME faults = warns \cap Listed
        PROVE  \A x : x \in f <=> x \in Listed /\ IF x = "pepsnotfindb" THEN n ELSE x \in warns
    <3>1. CASE ("pepsnotfindb" \in warns) = n
      BY <1>2, <2>2, <3>1 DEF SetFault
    <3>2. CASE ("pepsnotfindb" \in warns) # n
      BY <1>2, <1>5, <2>2, <3>2 DEF SetFault, SetBits, Flag
    <3>3. QED
      BY <3>1, <3>2
  <2>3. ASSUME faults = warns \cap Listed
        PROVE  \A x : x \in g <=> IF x = "pepsbatterylow" THEN l ELSE x \in f
    <3>1. CASE ("pepsbatterylow" \in warns) = l
      <4>1. g = f /\ ("pepsbatterylow" \in f <=> "pepsbatterylow" \in warns)
        BY <1>2, <1>5, <2>2, <2>3, <3>1 DEF SetFault
      <4>2. QED
        BY <3>1, <4>1
    <3>2. CASE ("pepsbatterylow" \in warns) # l
      BY <1>2, <3>2 DEF SetFault, SetBits, Flag
    <3>3. QED
      BY <3>1, <3>2
  <2>4. QED
    BY <1>3, <1>5, <2>1, <2>2, <2>3
<1>13. Stores("PEPS")
  BY <1>3, <1>12, NoWriter DEF Stores, LampKinds
<1>14. QED
  BY <1>9, <1>10, <1>11, <1>13 DEF Displayed, Silent

-----------------------------------------------------------------------------
(* The steps *)

\* What of the invariant depends on the stored signals and the MCU's.
Fits == /\ \A l \in Lamps \ LaneLamps : LampFit(l)
        /\ TurnFit /\ TiresFit
        /\ faults = warns \cap Listed
        /\ \A w \in Listed : ListFit(w)
ReplyFit == reply # NoReply => reply.key \in Music \cup {"musicStatus"}

LEMMA DInvParts == DInv <=> (\A d \in Displays : Shows(d)) /\ Fits /\ ReplyFit
BY DEF DInv, Fits, ReplyFit

LEMMA DisplayKept ==
  ASSUME UNCHANGED signals, NEW d PROVE Value(d)' = Value(d)
BY ValueKept DEF signals

LEMMA ListedWatched == Listed \subseteq Watched
BY DEF Watched, Warns

LEMMA WriterKinds == \A l : \A k \in Writers(l) : k \in Kinds
BY BitsKinds DEF Writers, LampKinds, Kinds

\* The line: what is reported anew may differ.
LEMMA FitsKept ==
  ASSUME Fits, UNCHANGED <<signals, out, lost>>,
         \A k \in Kinds : Reported(wire, k) => Reported(wire', k),
         \A k \in Kinds : Reported(wire', k) \/ mcu'[k] = mcu[k]
  PROVE  Fits'
<1>1. {"CAR_LIGHT", "TIRE_FAULT", "FUEL"} \subseteq Kinds
  BY BitsKinds DEF Kinds
<1>2. TurnFit' /\ TiresFit' /\ (faults = warns \cap Listed)'
  BY <1>1 DEF Fits, TurnFit, TiresFit, signals
<1>3. ASSUME NEW l \in Lamps \ LaneLamps PROVE LampFit(l)'
  <2>1. LampFit(l)
    BY DEF Fits
  <2>2. lamps' = lamps
    BY DEF signals
  <2>3. CASE \E k \in Writers(l) : Reported(wire, k)
    BY <2>3, WriterKinds DEF LampFit
  <2>4. CASE \E k \in Writers(l) : l \in lamps <=> l \in mcu[k]
    <3>1. PICK k \in Writers(l) : l \in lamps <=> l \in mcu[k]
      BY <2>4
    <3>2. Reported(wire', k) \/ mcu'[k] = mcu[k]
      BY <3>1, WriterKinds
    <3>3. QED
      BY <2>2, <3>1, <3>2 DEF LampFit
  <2>5. QED
    BY <2>1, <2>3, <2>4 DEF LampFit
<1>4. ASSUME NEW w \in Listed PROVE ListFit(w)'
  <2>1. ListFit(w) /\ Owner(w) \in Kinds
    BY OwnerKinds DEF Fits
  <2>2. On(w)' <=> On(w)
    BY StatusKept
  <2>3. w = "oillow" => Owner(w) = "FUEL"
    BY DEF Owner
  <2>4. Reported(wire', Owner(w)) \/ mcu'[Owner(w)] = mcu[Owner(w)]
    BY <2>1
  <2>5. CASE Reported(wire', Owner(w))
    BY <2>5 DEF ListFit
  <2>6. CASE ~Reported(wire', Owner(w))
    <3>1. ~Reported(wire, Owner(w)) /\ mcu'[Owner(w)] = mcu[Owner(w)]
      BY <2>1, <2>4, <2>6
    <3>2. w = "oillow" => mcu'["FUEL"] = mcu["FUEL"]
      BY <2>3, <3>1
    <3>3. QED
      BY <2>1, <2>2, <3>1, <3>2 DEF ListFit
  <2>7. QED
    BY <2>5, <2>6
<1>5. QED
  BY <1>2, <1>3, <1>4 DEF Fits

\* A signal changes or is reported again.
LEMMA LineShows ==
  ASSUME DInv, UNCHANGED <<signals, out, reply, view>>,
         \A k \in Kinds : Reported(wire, k) => Reported(wire', k),
         \A k \in Kinds : Reported(wire', k) \/ mcu'[k] = mcu[k]
  PROVE  DInv'
<1>1. (\A d \in Displays : Shows(d)) /\ Fits /\ ReplyFit
  BY DInvParts
<1>2. \A d \in Displays : Shows(d)'
  BY <1>1, DisplayKept DEF Shows, view
<1>3. Fits'
  BY <1>1, FitsKept DEF view
<1>4. ReplyFit'
  BY <1>1 DEF ReplyFit
<1>5. QED
  BY <1>2, <1>3, <1>4 DEF DInv, Fits, ReplyFit

LEMMA AppendShows ==
  ASSUME IInv, DInv, NEW k \in Kinds, NEW v, mcu' = [mcu EXCEPT ![k] = v],
         wire' = Append(wire, [kind |-> k, val |-> v]), UNCHANGED <<signals, out, reply, view>>
  PROVE  DInv'
<1>1. IsSeq(wire) /\ Current(wire, mcu) /\ AllFit(wire) /\ DOMAIN mcu = Kinds
  BY DEF IInv, LineFit, McuFit
<1>2. \A i \in DOMAIN wire : wire[i].kind \in DOMAIN mcu
  BY <1>1 DEF AllFit, Fit
<1>3. \A x : Reported(wire', x) <=> Reported(wire, x) \/ x = k
  BY <1>1, <1>2, AppendCurrent
<1>4. \A x \in Kinds : Reported(wire', x) \/ mcu'[x] = mcu[x]
  BY <1>1, <1>3
<1>5. QED
  BY <1>3, <1>4, LineShows

LEMMA ReportShows ==
  ASSUME IInv, DInv, NEW r \in DOMAIN Asked, RequestReport(r) PROVE DInv'
<1>1. PICK q, t : q = Asked[r] /\ t = [i \in DOMAIN q |-> Report(q[i])]
  OBVIOUS
<1>2. q \in Seq(Kinds)
  BY <1>1, AskedKinds
<1>3. DOMAIN t = DOMAIN q /\ \A i \in DOMAIN t : t[i].kind = q[i] /\ t[i].val = mcu[q[i]]
  BY <1>1 DEF Report
<1>4. IsSeq(t)
  <2>1. PICK n \in Nat : n = Len(q) /\ DOMAIN q = 1..n
    BY <1>2
  <2>2. PICK S : S = {Report(q[i]) : i \in DOMAIN q}
    OBVIOUS
  <2>3. t = [i \in 1..n |-> t[i]] /\ \A i \in 1..n : t[i] \in S
    BY <1>1, <2>1, <2>2
  <2>4. t \in Seq(S)
    BY <2>1, <2>3
  <2>5. QED
    BY <2>4 DEF IsSeq
<1>5. wire' = wire \o t /\ UNCHANGED <<mcu, signals, out, reply, view>>
  BY <1>1 DEF RequestReport, E02_AsynGet
<1>6. IsSeq(wire) /\ Current(wire, mcu)
  BY DEF IInv, LineFit
<1>7. \A x : Reported(wire', x) <=> Reported(wire, x) \/ Reported(t, x)
  <2>1. \A i \in DOMAIN t : t[i].val = mcu[t[i].kind]
    BY <1>3
  <2>2. \A i \in DOMAIN wire : ~Reported(t, wire[i].kind) => mcu[wire[i].kind] = mcu[wire[i].kind]
    OBVIOUS
  <2>3. QED
    BY <1>4, <1>5, <1>6, <2>1, <2>2, ConcatCurrent
<1>8. QED
  BY <1>5, <1>7, LineShows

\* A handler stores what was reported last, if it was the last report.
LEMMA HandlerFits ==
  ASSUME Fits, NEW k \in Kinds, NEW t, NEW v, out = <<>>, wire' = t, v = Received,
         UNCHANGED <<mcu, lost>>,
         \A x : Reported(wire, x) /\ x # k => Reported(t, x),
         ~Reported(t, k) => v = mcu[k],
         Handles(k), Displayed(k)
  PROVE  Fits'
<1>1. Stores(k)
  BY DEF Displayed
<1>2. TurnFit'
  <2>1. CASE k = "CAR_LIGHT"
    BY <1>1, <2>1 DEF Stores, TurnFit
  <2>2. CASE k # "CAR_LIGHT"
    BY <1>1, <2>2 DEF Stores, TurnFit, Fits
  <2>3. QED
    BY <2>1, <2>2
<1>3. TiresFit'
  <2>1. CASE k = "TIRE_FAULT"
    BY <1>1, <2>1 DEF Stores, TiresFit
  <2>2. CASE k # "TIRE_FAULT"
    BY <1>1, <2>2 DEF Stores, TiresFit, Fits
  <2>3. QED
    BY <2>1, <2>2
<1>4. (faults = warns \cap Listed)'
  BY <1>1 DEF Stores, Fits
<1>5. ASSUME NEW l \in Lamps \ LaneLamps PROVE LampFit(l)'
  <2>1. LampFit(l)
    BY DEF Fits
  <2>2. l \in lamps' <=> IF k \in Writers(l) THEN l \in v ELSE l \in lamps
    BY <1>1 DEF Stores
  <2>3. CASE k \in Writers(l)
    <3>1. CASE Reported(t, k)
      BY <2>3, <3>1 DEF LampFit
    <3>2. CASE ~Reported(t, k)
      <4>1. l \in lamps' <=> l \in mcu'[k]
        BY <2>2, <2>3, <3>2
      <4>2. QED
        BY <2>3, <4>1 DEF LampFit
    <3>3. QED
      BY <3>1, <3>2
  <2>4. CASE k \notin Writers(l)
    <3>1. l \in lamps' <=> l \in lamps
      BY <2>2, <2>4
    <3>2. \A x \in Writers(l) : Reported(wire, x) => Reported(wire', x)
      BY <2>4
    <3>3. QED
      BY <2>1, <3>1, <3>2 DEF LampFit
  <2>5. QED
    BY <2>3, <2>4
<1>6. ASSUME NEW w \in Listed PROVE ListFit(w)'
  <2>1. ListFit(w) /\ w \in Watched
    BY ListedWatched DEF Fits
  <2>2. w = "oillow" => Owner(w) = "FUEL"
    BY DEF Owner
  <2>3. CASE Owner(w) = k
    <3>1. Takes(w)
      BY <2>1, <2>3 DEF Handles
    <3>2. CASE Reported(t, k)
      BY <2>3, <3>2 DEF ListFit
    <3>3. CASE ~Reported(t, k)
      <4>1. Received = mcu[k]
        BY <3>3
      <4>2. w = "oillow" => k = "FUEL"
        BY <2>2, <2>3
      <4>3. QED
        BY <2>3, <3>1, <4>1, <4>2 DEF ListFit, Takes
    <3>4. QED
      BY <3>2, <3>3
  <2>4. CASE Owner(w) # k
    <3>1. On(w)' <=> On(w)
      BY <2>1, <2>4 DEF Handles, Spares
    <3>2. Reported(wire, Owner(w)) => Reported(wire', Owner(w))
      BY <2>4
    <3>3. w = "oillow" => Clean(out', "fuel")
      BY <2>2, <2>4 DEF Displayed
    <3>4. QED
      BY <2>1, <3>1, <3>2, <3>3 DEF ListFit
  <2>5. QED
    BY <2>3, <2>4
<1>7. QED
  BY <1>2, <1>3, <1>4, <1>5, <1>6 DEF Fits

LEMMA HandlerShows ==
  ASSUME IInv, DInv, NEW k \in Kinds, Receive(k), Handles(k), Displayed(k)
  PROVE  DInv'
<1>1. (\A d \in Displays : Shows(d)) /\ Fits /\ ReplyFit
  BY DInvParts
<1>2. PICK h, t : h = Head(wire) /\ t = Tail(wire)
  OBVIOUS
<1>3. /\ out = <<>> /\ wire # <<>> /\ h.kind = k /\ wire' = t
      /\ UNCHANGED <<mcu, reply, told, lost>>
  BY <1>2 DEF Receive, view
<1>4. /\ \A x : Reported(wire, x) /\ x # k => Reported(t, x)
      /\ ~Reported(t, k) => h.val = mcu[k]
  <2>1. IsSeq(wire) /\ Current(wire, mcu)
    BY DEF IInv, LineFit
  <2>2. QED
    BY <1>2, <1>3, <2>1, TailCurrent
<1>5. h.val = Received
  BY <1>2 DEF Received
<1>6. Fits'
  <2>1. PICK v : v = h.val
    OBVIOUS
  <2>2. v = Received /\ (~Reported(t, k) => v = mcu[k])
    BY <1>4, <1>5, <2>1
  <2>3. QED
    BY <1>1, <1>3, <1>4, <2>2, HandlerFits
<1>7. ASSUME NEW d \in Displays PROVE Shows(d)'
  <2>1. d \notin lost => told[d] = Value(d)
    BY <1>1, <1>3, EmptyParts DEF Shows
  <2>2. CASE Value(d)' = Value(d) /\ Clean(out', d)
    BY <1>3, <2>1, <2>2 DEF Shows
  <2>3. CASE Ends(out', d, Value(d)')
    <3>1. ~Clean(out', d)
      BY <2>3, EndsNotClean
    <3>2. QED
      BY <2>3, <3>1 DEF Shows
  <2>4. QED
    BY <2>2, <2>3 DEF Displayed, Follows
<1>8. ReplyFit'
  BY <1>1, <1>3 DEF ReplyFit
<1>9. QED
  BY <1>6, <1>7, <1>8 DEF DInv, Fits, ReplyFit

LEMMA SendShows ==
  ASSUME IInv, DInv, MsgSend PROVE DInv'
<1>1. (\A d \in Displays : Shows(d)) /\ Fits /\ ReplyFit
  BY DInvParts
<1>2. PICK h, t : h = Head(out) /\ t = Tail(out)
  OBVIOUS
<1>3. /\ out # <<>> /\ Send(h) /\ out' = t /\ UNCHANGED <<mcu, wire, signals, reply>>
      /\ IsSeq(out) /\ DOMAIN told = Keys
  BY <1>2 DEF MsgSend, line, IInv, SendFit
<1>4. /\ \A w : Clean(out, w) => h.key # w /\ Clean(t, w)
      /\ \A w, v : Ends(out, w, v) => \/ Ends(t, w, v)
                                      \/ Clean(t, w) /\ h.key = w /\ h.val = v
      /\ \A w : Clean(t, w) /\ h.key # w => Clean(out, w)
  BY <1>2, <1>3, TailParts, TailEnds
<1>5. /\ \A w \in Keys : w # h.key => told'[w] = told[w] /\ (w \in lost' <=> w \in lost)
      /\ h.key \in Keys /\ h.key \notin lost' => told'[h.key] = h.val
  BY <1>3, SendTells
<1>6. ASSUME NEW d \in Displays PROVE Shows(d)'
  <2>1. Shows(d) /\ Value(d)' = Value(d) /\ d \in Keys
    BY <1>1, <1>3, DisplayKept, DisplayKeys DEF Silent
  <2>2. CASE Clean(out, d)
    <3>1. d # h.key /\ Clean(t, d)
      BY <1>4, <2>2
    <3>2. told'[d] = told[d] /\ (d \in lost' <=> d \in lost)
      BY <1>5, <2>1, <3>1
    <3>3. QED
      BY <1>3, <2>1, <2>2, <3>1, <3>2 DEF Shows
  <2>3. CASE ~Clean(out, d)
    <3>1. Ends(out, d, Value(d))
      BY <2>1, <2>3 DEF Shows
    <3>2. CASE Ends(t, d, Value(d))
      <4>1. ~Clean(t, d)
        BY <3>2, EndsNotClean
      <4>2. QED
        BY <1>3, <2>1, <3>2, <4>1 DEF Shows
    <3>3. CASE Clean(t, d) /\ h.key = d /\ h.val = Value(d)
      <4>1. d \notin lost' => told'[d] = Value(d)
        BY <1>5, <2>1, <3>3
      <4>2. QED
        BY <1>3, <2>1, <3>3, <4>1 DEF Shows
    <3>4. QED
      BY <1>4, <3>1, <3>2, <3>3
  <2>4. QED
    BY <2>2, <2>3
<1>7. Fits'
  <2>1. TurnFit' /\ TiresFit' /\ (faults = warns \cap Listed)'
    BY <1>1, <1>3 DEF Fits, TurnFit, TiresFit, signals
  <2>2. ASSUME NEW l \in Lamps \ LaneLamps PROVE LampFit(l)'
    BY <1>1, <1>3 DEF Fits, LampFit, signals
  <2>3. ASSUME NEW w \in Listed PROVE ListFit(w)'
    <3>1. ListFit(w) /\ (On(w)' <=> On(w))
      BY <1>1, <1>3, StatusKept DEF Fits
    <3>2. "fuel" \in lost /\ Clean(out, "fuel") => "fuel" \in lost' /\ Clean(out', "fuel")
      <4>1. "fuel" \in Keys
        BY DisplayKeys DEF Silent
      <4>2. QED
        BY <1>3, <1>4, <1>5, <4>1
    <3>3. QED
      BY <1>3, <3>1, <3>2 DEF ListFit
  <2>4. QED
    BY <2>1, <2>2, <2>3 DEF Fits
<1>8. ReplyFit'
  BY <1>1, <1>3 DEF ReplyFit
<1>9. QED
  BY <1>6, <1>7, <1>8 DEF DInv, Fits, ReplyFit

\* A reply, the connection, or nothing.
LEMMA OthersShow ==
  ASSUME DInv, UNCHANGED <<mcu, wire, signals, out>>,
         \A d \in Silent : told'[d] = told[d] /\ (d \in lost' <=> d \in lost),
         reply' = reply \/ reply' = NoReply \/ reply'.key \in Music \cup {"musicStatus"}
  PROVE  DInv'
<1>1. (\A d \in Displays : Shows(d)) /\ Fits /\ ReplyFit
  BY DInvParts
<1>2. ASSUME NEW d \in Displays PROVE Shows(d)'
  <2>1. Shows(d) /\ Value(d)' = Value(d) /\ d \in Silent
    BY <1>1, DisplayKept DEF Silent
  <2>2. told'[d] = told[d] /\ (d \in lost' <=> d \in lost)
    BY <2>1
  <2>3. QED
    BY <2>1, <2>2 DEF Shows
<1>3. Fits'
  <2>1. TurnFit' /\ TiresFit' /\ (faults = warns \cap Listed)'
    BY <1>1 DEF Fits, TurnFit, TiresFit, signals
  <2>2. ASSUME NEW l \in Lamps \ LaneLamps PROVE LampFit(l)'
    BY <1>1 DEF Fits, LampFit, signals
  <2>3. ASSUME NEW w \in Listed PROVE ListFit(w)'
    <3>1. ListFit(w) /\ (On(w)' <=> On(w))
      BY <1>1, StatusKept DEF Fits
    <3>2. "fuel" \in lost' <=> "fuel" \in lost
      BY DEF Silent
    <3>3. QED
      BY <3>1, <3>2 DEF ListFit
  <2>4. QED
    BY <2>1, <2>2, <2>3 DEF Fits
<1>4. ReplyFit'
  BY <1>1 DEF ReplyFit
<1>5. QED
  BY <1>2, <1>3, <1>4 DEF DInv, Fits, ReplyFit

LEMMA ReplyShows ==
  ASSUME IInv, DInv, SendReply PROVE DInv'
<1>1. /\ reply # NoReply /\ Send(reply) /\ reply' = NoReply
      /\ UNCHANGED <<mcu, wire, signals, out>> /\ DOMAIN told = Keys
  BY DEF SendReply, line, IInv, SendFit
<1>2. reply.key \notin Silent
  BY <1>1, DisplayKeys DEF DInv
<1>3. \A w \in Keys : w # reply.key => told'[w] = told[w] /\ (w \in lost' <=> w \in lost)
  BY <1>1, SendTells
<1>4. \A d \in Silent : told'[d] = told[d] /\ (d \in lost' <=> d \in lost)
  BY <1>2, <1>3, DisplayKeys
<1>5. QED
  BY <1>1, <1>4, OthersShow

LEMMA MusicShows ==
  ASSUME DInv, NEW r \in DOMAIN MusicOf, RequestMusic(r) PROVE DInv'
<1>1. reply'.key = MusicOf[r]
  BY DEF RequestMusic, Msg
<1>2. MusicOf[r] \in Music \cup {"musicStatus"}
  BY DEF MusicOf, Music
<1>3. UNCHANGED <<mcu, wire, signals, out, view>>
  BY DEF RequestMusic
<1>4. QED
  BY <1>1, <1>2, <1>3, OthersShow DEF view


\* Nothing is lit and nothing waits; the fuel has not been told.
LEMMA InitDisplays == Init => DInv
<1>1. SUFFICES ASSUME Init PROVE DInv
  OBVIOUS
<1>2. /\ out = <<>> /\ reply = NoReply /\ "fuel" \in lost
      /\ lamps = {} /\ turn = {} /\ faults = {} /\ tires = {} /\ warns = {}
      /\ \A w \in Keys : told[w] = {}
      /\ \A k \in BitKinds : mcu[k] = {}
  <2>1. \A k \in BitKinds : k \in Kinds /\ k # "FUEL" /\ k # "COOLANT"
    BY BitsKinds DEF Kinds
  <2>2. QED
    BY <1>1, <2>1 DEF Init, NeverTold
<1>3. \A w : Clean(out, w)
  BY <1>2, EmptyParts
<1>4. ASSUME NEW d \in Displays PROVE Shows(d)
  <2>1. d \in Keys
    BY DisplayKeys DEF Silent
  <2>2. Value(d) = {}
    BY <1>2 DEF Value
  <2>3. QED
    BY <1>2, <1>3, <2>1, <2>2 DEF Shows
<1>5. ASSUME NEW l \in Lamps \ LaneLamps PROVE LampFit(l)
  <2>1. PICK k \in LampKinds : l \in Bits[k]
    BY DEF Lamps
  <2>2. k \in Writers(l) /\ k \in BitKinds
    BY <2>1, BitsKinds DEF Writers, LampKinds
  <2>3. QED
    BY <1>2, <2>2 DEF LampFit
<1>6. TurnFit /\ TiresFit
  <2>1. "CAR_LIGHT" \in BitKinds /\ "TIRE_FAULT" \in BitKinds
    BY BitsKinds
  <2>2. TurnByte({}) = {}
    BY DEF TurnByte, Flag
  <2>3. QED
    BY <1>2, <2>1, <2>2 DEF TurnFit, TiresFit
<1>7. ASSUME NEW w \in Listed PROVE ListFit(w)
  <2>1. CASE w = "oillow"
    BY <1>2, <1>3, <2>1 DEF ListFit
  <2>2. CASE w # "oillow"
    <3>1. w \in {"pepsnotfindb", "pepsbatterylow", "WrongGear_P", "tiresystemfault"}
      BY <2>2 DEF Listed
    <3>2. Owner(w) \in BitKinds
      BY <3>1, BitsKinds DEF Owner
    <3>3. ~On(w) /\ ~Calls(w, {})
      BY <1>2, <3>1 DEF On, Calls, Sounds
    <3>4. QED
      BY <1>2, <3>2, <3>3 DEF ListFit
  <2>3. QED
    BY <2>1, <2>2
<1>8. QED
  BY <1>2, <1>4, <1>5, <1>6, <1>7 DEF DInv

LEMMA NextDisplays == IInv /\ DInv /\ [Next]_vars => DInv'
<1>1. SUFFICES ASSUME IInv, DInv, [Next]_vars PROVE DInv'
  OBVIOUS
<1>2. ASSUME NEW k \in Kinds, NEW v \in Values[k], Change(k, v) PROVE DInv'
  <2>1. /\ mcu' = [mcu EXCEPT ![k] = v] /\ wire' = Append(wire, [kind |-> k, val |-> v])
        /\ UNCHANGED <<signals, out, reply, view>>
    BY <1>2 DEF Change
  <2>2. QED
    BY <1>1, <2>1, AppendShows
<1>3. ASSUME NEW r \in Requests \cap DOMAIN Asked, RequestReport(r) PROVE DInv'
  BY <1>1, <1>3, ReportShows
<1>4. ASSUME NEW r \in Requests \cap DOMAIN Cleaned, RequestClean(r) PROVE DInv'
  <2>1. PICK k : k = Cleaned[r]
    OBVIOUS
  <2>2. k \in Kinds
    BY <2>1, BitsKinds DEF Cleaned, Kinds
  <2>3. /\ mcu' = [mcu EXCEPT ![k] = {}] /\ wire' = Append(wire, [kind |-> k, val |-> {}])
        /\ UNCHANGED <<signals, out, reply, view>>
    BY <1>4, <2>1 DEF RequestClean
  <2>4. QED
    BY <1>1, <2>2, <2>3, AppendShows
<1>5. ASSUME NEW r \in Requests \cap DOMAIN MusicOf, RequestMusic(r) PROVE DInv'
  BY <1>1, <1>5, MusicShows
<1>6. ASSUME NEW k \in Kinds, Receive(k), Handles(k), Displayed(k) PROVE DInv'
  BY <1>1, <1>6, HandlerShows
<1>7. BitKinds \subseteq Kinds /\ {"FUEL", "COOLANT"} \subseteq Kinds
  BY DEF Kinds
<1>8. CASE CarLight
  <2>1. Receive("CAR_LIGHT") /\ "CAR_LIGHT" \in Kinds
    BY <1>7, <1>8, BitsKinds DEF CarLight
  <2>2. QED
    BY <1>6, <1>8, <2>1, CarHandles, CarDisplays
<1>9. ASSUME NEW k \in {"FAULT", "EPB", "AIRBAG", "ALARM_TIRE", "OILLOW"}, LampMessage(k)
      PROVE  DInv'
  <2>1. Receive(k) /\ k \in Kinds
    BY <1>7, <1>9, BitsKinds DEF LampMessage
  <2>2. QED
    BY <1>6, <1>9, <2>1, LampHandles, LampDisplays
<1>10. CASE Fault \/ Epb \/ Airbag \/ AlarmTire \/ OilLowLight
  BY <1>9, <1>10 DEF Fault, Epb, Airbag, AlarmTire, OilLowLight
<1>11. CASE Alarm
  <2>1. Receive("ALARM") /\ "ALARM" \in Kinds
    BY <1>7, <1>11, BitsKinds DEF Alarm
  <2>2. QED
    BY <1>6, <1>11, <2>1, AlarmHandles, AlarmDisplays
<1>12. CASE Peps
  <2>1. Receive("PEPS") /\ "PEPS" \in Kinds
    BY <1>7, <1>12, BitsKinds DEF Peps
  <2>2. QED
    BY <1>6, <1>12, <2>1, PepsHandles, PepsDisplays
<1>13. CASE LaneDepature
  <2>1. Receive("LANE_DEPATURE") /\ "LANE_DEPATURE" \in Kinds
    BY <1>7, <1>13, BitsKinds DEF LaneDepature
  <2>2. Fit(Head(wire))
    BY <1>1, <2>1, TailCurrent DEF IInv, LineFit, Receive
  <2>3. Received \subseteq LaneLamps
    BY <2>1, <2>2 DEF Fit, Receive, Received
  <2>4. QED
    BY <1>6, <1>13, <2>1, <2>3, LaneHandles, LaneDisplays
<1>14. CASE Dtc
  <2>1. Receive("DTC") /\ "DTC" \in Kinds
    BY <1>7, <1>14, BitsKinds DEF Dtc
  <2>2. QED
    BY <1>6, <1>14, <2>1, DtcHandles, DtcDisplays
<1>15. CASE Fuel
  <2>1. Receive("FUEL") /\ "FUEL" \in Kinds
    BY <1>7, <1>15 DEF Fuel
  <2>2. QED
    BY <1>6, <1>15, <2>1, FuelHandles, FuelDisplays
<1>16. CASE Coolant
  <2>1. Receive("COOLANT") /\ "COOLANT" \in Kinds
    BY <1>7, <1>16 DEF Coolant
  <2>2. QED
    BY <1>6, <1>16, <2>1, CoolantHandles, CoolantDisplays
<1>17. CASE TirePressure
  <2>1. Receive("TIRE_PRESSURE") /\ "TIRE_PRESSURE" \in Kinds
    BY <1>7, <1>17, BitsKinds DEF TirePressure
  <2>2. QED
    BY <1>6, <1>17, <2>1, TirePressureHandles, PressureDisplays
<1>18. CASE TireFault
  <2>1. Receive("TIRE_FAULT") /\ "TIRE_FAULT" \in Kinds
    BY <1>7, <1>18, BitsKinds DEF TireFault
  <2>2. QED
    BY <1>6, <1>18, <2>1, TireFaultHandles, TireDisplays
<1>19. ASSUME NEW k \in {"CFG_THEME", "CFG_LANG"}, NEW t \in Settings, Setup(k, t)
      PROVE  DInv'
  <2>1. Receive(k) /\ k \in Kinds
    BY <1>7, <1>19, BitsKinds DEF Setup
  <2>2. QED
    BY <1>6, <1>19, <2>1, SetupHandles, SetupDisplays
<1>20. CASE SetupTheme \/ SetupLanguage
  BY <1>19, <1>20 DEF SetupTheme, SetupLanguage, Settings
<1>21. CASE AudioReport
  <2>1. Receive("AUDIO_REPORT") /\ "AUDIO_REPORT" \in Kinds
    BY <1>7, <1>21, BitsKinds DEF AudioReport
  <2>2. QED
    BY <1>6, <1>21, <2>1, AudioHandles, AudioDisplays
<1>22. CASE MusicClose
  <2>1. Receive("MUSIC_CLOSE") /\ "MUSIC_CLOSE" \in Kinds
    BY <1>7, <1>22, BitsKinds DEF MusicClose
  <2>2. QED
    BY <1>6, <1>22, <2>1, CloseHandles, CloseDisplays
<1>23. ASSUME NEW k \in {"MUSIC_PROCESS", "MUSIC_ALBUM", "MUSIC_NAME", "MUSIC_AUTHOR"}, MusicInfo(k)
      PROVE  DInv'
  <2>1. Receive(k) /\ k \in Kinds
    BY <1>7, <1>23, BitsKinds DEF MusicInfo
  <2>2. QED
    BY <1>6, <1>23, <2>1, InfoHandles, InfoDisplays
<1>24. ASSUME NEW k \in Gauges, Gauge(k)
      PROVE  DInv'
  <2>1. Receive(k) /\ k \in Kinds
    BY <1>7, <1>24, BitsKinds DEF Gauge, Gauges
  <2>2. QED
    BY <1>6, <1>24, <2>1, GaugeHandles, GaugeDisplays
<1>25. CASE MsgSend
  BY <1>1, <1>25, SendShows
<1>26. CASE SendReply
  BY <1>1, <1>26, ReplyShows
<1>27. CASE on_disconnect \/ on_connect \/ UNCHANGED vars
  <2>1. UNCHANGED <<mcu, wire, signals, out, reply, view>>
    BY <1>27 DEF on_disconnect, on_connect, vars, line
  <2>2. QED
    BY <1>1, <2>1, OthersShow DEF view
<1>28. QED
  BY <1>1, <1>2, <1>3, <1>4, <1>5, <1>8, <1>10, <1>11, <1>12, <1>13, <1>14, <1>15,
     <1>16, <1>17, <1>18, <1>20, <1>21, <1>22, <1>23, <1>24, <1>25, <1>26, <1>27 DEF Next

-----------------------------------------------------------------------------
(* At rest *)

LEMMA NothingWaits ==
  ASSUME Quiet
  PROVE  (\A k : ~Reported(wire, k)) /\ (\A w : Clean(out, w)) /\ reply = NoReply
<1>1. wire = <<>> /\ out = <<>> /\ reply = NoReply
  BY DEF Quiet
<1>2. DOMAIN <<>> = {}
  BY EmptySeq
<1>3. \A k : ~Reported(wire, k)
  BY <1>1, <1>2 DEF Reported
<1>4. QED
  BY <1>1, <1>3, EmptyParts

LEMMA DisplaysLamps == DInv => LampsKnown
<1>1. SUFFICES ASSUME DInv, Quiet
      PROVE  /\ "telltale" \notin lost =>
                  \A l \in Lamps \ LaneLamps :
                    LET writers == {k \in LampKinds : l \in Bits[k]} IN
                    /\ l \in told["telltale"] => \E k \in writers : l \in mcu[k]
                    /\ (\A k \in writers : l \in mcu[k]) => l \in told["telltale"]
             /\ Known("turn", mcu["CAR_LIGHT"] \cup
                              Flag("danger", mcu["CAR_LIGHT"] = {"left", "right"}))
             /\ \A t \in Tires : Known(t, {t} \cap mcu["TIRE_FAULT"])
  BY DEF LampsKnown
<1>2. \A d \in Displays : d \notin lost => told[d] = Value(d)
  BY <1>1, NothingWaits DEF DInv, Shows
<1>3. ASSUME "telltale" \notin lost, NEW l \in Lamps \ LaneLamps
      PROVE  /\ l \in told["telltale"] => \E k \in Writers(l) : l \in mcu[k]
             /\ (\A k \in Writers(l) : l \in mcu[k]) => l \in told["telltale"]
  <2>1. told["telltale"] = lamps
    BY <1>2, <1>3, ValueKept DEF Displays, Value
  <2>2. \E k \in Writers(l) : l \in lamps <=> l \in mcu[k]
    BY <1>1, NothingWaits DEF DInv, LampFit
  <2>3. QED
    BY <2>1, <2>2
<1>4. Known("turn", mcu["CAR_LIGHT"] \cup
                    Flag("danger", mcu["CAR_LIGHT"] = {"left", "right"}))
  <2>1. turn = TurnByte(mcu["CAR_LIGHT"])
    BY <1>1, NothingWaits DEF DInv, TurnFit
  <2>2. Value("turn") = turn
    BY DEF Value
  <2>3. QED
    BY <1>2, <2>1, <2>2 DEF Known, TurnByte, Displays
<1>5. ASSUME NEW t \in Tires PROVE Known(t, {t} \cap mcu["TIRE_FAULT"])
  <2>1. tires = mcu["TIRE_FAULT"]
    BY <1>1, NothingWaits DEF DInv, TiresFit
  <2>2. t # "telltale" /\ t # "turn" /\ t # "fault"
    BY DEF Tires, Bits
  <2>3. Value(t) = {t} \cap tires
    BY <2>2 DEF Value
  <2>4. QED
    BY <1>2, <2>1, <2>3 DEF Known, Displays
<1>6. QED
  BY <1>3, <1>4, <1>5 DEF Writers

LEMMA DisplaysFaults == IInv /\ DInv => FaultsKnown
<1>1. SUFFICES ASSUME IInv, DInv, Quiet, "fault" \notin lost, mcu["FUEL"] <= 100,
                      "fuel" \notin lost
      PROVE  told["fault"] = {w \in Listed : Warned(w)}
  BY DEF FaultsKnown
<1>2. told["fault"] = warns \cap Listed
  <2>1. Shows("fault") /\ Value("fault") = faults
    BY <1>1 DEF DInv, Displays, Value
  <2>2. QED
    BY <1>1, <2>1, NothingWaits DEF DInv, Shows
<1>3. ASSUME NEW w \in Listed PROVE w \in warns <=> Warned(w)
  <2>1. w \in warns <=> Calls(w, mcu[Owner(w)])
    <3>1. ListFit(w)
      BY <1>1 DEF DInv
    <3>2. On(w) <=> w \in warns
      BY DEF On, Listed, Sounds
    <3>3. QED
      BY <1>1, <3>1, <3>2, NothingWaits DEF ListFit, IsPercent
  <2>2. CASE w = "oillow"
    <3>1. Calls(w, mcu["FUEL"]) <=> mcu["FUEL"] < 25
      BY <1>1, <2>2, FuelMarks DEF Calls, IInv, McuFit
    <3>2. QED
      BY <2>1, <2>2, <3>1 DEF Warned, Owner
  <2>3. CASE w # "oillow"
    <3>1. w \in {"pepsnotfindb", "pepsbatterylow", "WrongGear_P", "tiresystemfault"}
      BY <2>3 DEF Listed
    <3>2. Owner(w) \in BitKinds /\ \A k \in BitKinds : w \in Bits[k] <=> k = Owner(w)
      BY <3>1, WarnBits, BitsKinds DEF Owner
    <3>3. Warned(w) <=> w \in mcu[Owner(w)]
      BY <3>1, <3>2 DEF Warned
    <3>4. Calls(w, mcu[Owner(w)]) <=> w \in mcu[Owner(w)]
      BY <3>1 DEF Calls, Sounds
    <3>5. QED
      BY <2>1, <3>3, <3>4
  <2>4. QED
    BY <2>2, <2>3
<1>4. QED
  BY <1>2, <1>3

LEMMA AllDisplays == Spec => [](IInv /\ DInv)
BY InitInv, InitDisplays, NextInv, NextDisplays, PTL DEF Spec

\* At rest the HMI shows each lamp as the MCU has it, unless the last telltale
\* message was lost, and so the turn lamps and the faults of the tires.
THEOREM LampsCorrect == Spec => []LampsKnown
BY AllDisplays, DisplaysLamps, PTL

\* At rest the list of faults the HMI shows is that of the warnings the MCU's
\* signals call for, unless the last list was lost.
THEOREM FaultsCorrect == Spec => []FaultsKnown
BY AllDisplays, DisplaysFaults, PTL

-----------------------------------------------------------------------------
(* Type correctness *)

\* The values of a message of the MCU; a cleared value is empty.
Reportable(k) == IF k \in BitKinds THEN SUBSET Bits[k] ELSE Values[k]
Reports == {m \in [kind : Kinds, val : UNION {Reportable(k) : k \in Kinds}] :
              m.val \in Reportable(m.kind)}

McuTyped == DOMAIN mcu = Kinds /\ \A k \in Kinds : mcu[k] \in Reportable(k)
LineTyped == /\ wire \in Seq(Reports) /\ Len(wire) <= MaxWire
             /\ changes \in 0..MaxChanges /\ asked \in 0..MaxAsked
             /\ spare \in BOOLEAN
StoredTyped ==
  /\ lamps \subseteq Lamps /\ turn \subseteq {"left", "right", "danger"}
  /\ isTurnLightStart \in BOOLEAN
  /\ warns \subseteq Warns /\ faults \subseteq Listed
  /\ segment \in 0..8 /\ coolant \in Values["COOLANT"] \cup {0}
  /\ tires \subseteq Tires /\ setup \subseteq Settings
  /\ music \subseteq Music \cup {"musicStatus"} /\ belongs \subseteq Sounds
KeysOnly(s) == \A w : w \notin Keys => Clean(s, w)
SendTyped ==
  /\ IsSeq(out) /\ KeysOnly(out)
  /\ reply # NoReply => reply.key \in ToHmi
  /\ DOMAIN told = Keys /\ lost \subseteq Keys
LinkTyped == m_isConnected \in BOOLEAN /\ subscribed \in BOOLEAN /\ drops \in 0..MaxDrops

TInv == McuTyped /\ LineTyped /\ StoredTyped /\ SendTyped /\ LinkTyped

-----------------------------------------------------------------------------
(* Messages and reports *)

LEMMA BitsReported ==
  ASSUME NEW k \in BitKinds PROVE k \in Kinds /\ Reportable(k) = SUBSET Bits[k]
BY DEF Reportable, Kinds

LEMMA NumbersReported ==
  /\ "FUEL" \in Kinds /\ Reportable("FUEL") = Values["FUEL"]
  /\ "COOLANT" \in Kinds /\ Reportable("COOLANT") = Values["COOLANT"]
  /\ Values["FUEL"] \subseteq Int /\ Values["COOLANT"] \subseteq Int
<1>1. "FUEL" \notin BitKinds /\ "COOLANT" \notin BitKinds
  BY BitsKinds
<1>2. Values["FUEL"] \subseteq Int /\ Values["COOLANT"] \subseteq Int
  BY ValuesAssumption
<1>3. QED
  BY <1>1, <1>2 DEF Reportable, Kinds

LEMMA ValuesReported ==
  ASSUME NEW k \in Kinds, NEW v \in Values[k] PROVE v \in Reportable(k)
<1>1. CASE k \in BitKinds
  BY <1>1, ValuesAssumption DEF Reportable
<1>2. CASE k \notin BitKinds
  BY <1>2 DEF Reportable
<1>3. QED
  BY <1>1, <1>2

LEMMA ReportIs ==
  ASSUME NEW k \in Kinds, NEW v \in Reportable(k)
  PROVE  [kind |-> k, val |-> v] \in Reports
BY DEF Reports

\* One message, none, or two parts.
LEMMA OneKey == ASSUME NEW k \in Keys, NEW v PROVE KeysOnly(<<Msg(k, v)>>) /\ IsSeq(<<Msg(k, v)>>)
<1>1. PICK m : m = Msg(k, v)
  OBVIOUS
<1>2. m.key = k
  BY <1>1 DEF Msg
<1>3. KeysOnly(<<m>>) /\ IsSeq(<<m>>)
  BY <1>2, OneParts DEF KeysOnly
<1>4. QED
  BY <1>1, <1>3

LEMMA EdgeKeys ==
  ASSUME NEW k \in Keys, NEW old, NEW on PROVE KeysOnly(Edge(k, old, on)) /\ IsSeq(Edge(k, old, on))
BY EdgeParts DEF KeysOnly

LEMMA NoKeys == KeysOnly(<<>>) /\ IsSeq(<<>>)
BY EmptyParts DEF KeysOnly

LEMMA ConcatKeys ==
  ASSUME NEW a, NEW b, IsSeq(a), IsSeq(b), KeysOnly(a), KeysOnly(b)
  PROVE  KeysOnly(a \o b) /\ IsSeq(a \o b)
BY ConcatParts DEF KeysOnly

LEMMA WarningKeys ==
  ASSUME NEW k \in Listed, NEW on, NEW list
  PROVE  /\ KeysOnly(Warning(k, on, list)) /\ IsSeq(Warning(k, on, list))
         /\ KeysOnly(SendWarning(k, on, list)) /\ IsSeq(SendWarning(k, on, list))
<1>1. k # "fault" /\ k \in Keys /\ "fault" \in Keys
  BY DEF Listed, Keys, ToHmi, Dropped, Warns
<1>2. QED
  BY <1>1, WarningParts, SendWarningParts DEF KeysOnly

\* The segments of the fuel.
LEMMA SegmentRange == ASSUME NEW x \in Int PROVE FuelSegment(x) \in 0..8
<1>1. PICK M : M = {m \in {1, 13, 25, 37, 49, 61, 73, 85} : m <= x}
  OBVIOUS
<1>2. IsFiniteSet({1}) /\ Cardinality({1}) = 1
  BY FS_Singleton
<1>3. PICK A : A = {1, 13}
  OBVIOUS
<1>4. IsFiniteSet(A) /\ Cardinality(A) = 2
  <2>1. A = {1} \cup {13} /\ 13 \notin {1}
    BY <1>3
  <2>2. QED
    BY <1>2, <2>1, FS_AddElement
<1>5. PICK B : B = {1, 13, 25}
  OBVIOUS
<1>6. IsFiniteSet(B) /\ Cardinality(B) = 3
  <2>1. B = A \cup {25} /\ 25 \notin A
    BY <1>3, <1>5
  <2>2. QED
    BY <1>4, <2>1, FS_AddElement
<1>7. PICK C : C = {1, 13, 25, 37}
  OBVIOUS
<1>8. IsFiniteSet(C) /\ Cardinality(C) = 4
  <2>1. C = B \cup {37} /\ 37 \notin B
    BY <1>5, <1>7
  <2>2. QED
    BY <1>6, <2>1, FS_AddElement
<1>9. PICK D : D = {1, 13, 25, 37, 49}
  OBVIOUS
<1>10. IsFiniteSet(D) /\ Cardinality(D) = 5
  <2>1. D = C \cup {49} /\ 49 \notin C
    BY <1>7, <1>9
  <2>2. QED
    BY <1>8, <2>1, FS_AddElement
<1>11. PICK E : E = {1, 13, 25, 37, 49, 61}
  OBVIOUS
<1>12. IsFiniteSet(E) /\ Cardinality(E) = 6
  <2>1. E = D \cup {61} /\ 61 \notin D
    BY <1>9, <1>11
  <2>2. QED
    BY <1>10, <2>1, FS_AddElement
<1>13. PICK F : F = {1, 13, 25, 37, 49, 61, 73}
  OBVIOUS
<1>14. IsFiniteSet(F) /\ Cardinality(F) = 7
  <2>1. F = E \cup {73} /\ 73 \notin E
    BY <1>11, <1>13
  <2>2. QED
    BY <1>12, <2>1, FS_AddElement
<1>15. PICK G : G = {1, 13, 25, 37, 49, 61, 73, 85}
  OBVIOUS
<1>16. IsFiniteSet(G) /\ Cardinality(G) = 8
  <2>1. G = F \cup {85} /\ 85 \notin F
    BY <1>13, <1>15
  <2>2. QED
    BY <1>14, <2>1, FS_AddElement
<1>17. M \subseteq G
  BY <1>1, <1>15
<1>18. IsFiniteSet(M) /\ Cardinality(M) <= 8 /\ Cardinality(M) \in Nat
  BY <1>16, <1>17, FS_Subset, FS_CardinalityType
<1>19. QED
  BY <1>1, <1>18 DEF FuelSegment, Reached

-----------------------------------------------------------------------------
(* What a handler stores and sends *)

Types == StoredTyped' /\ IsSeq(out') /\ KeysOnly(out')

LEMMA CarTypes ==
  ASSUME StoredTyped, Received \subseteq Bits["CAR_LIGHT"], CarLight PROVE Types
<1>1. /\ turn' = Received \cup Flag("danger", Received = {"left", "right"})
      /\ isTurnLightStart' = TRUE \/ isTurnLightStart' = FALSE \/ UNCHANGED isTurnLightStart
      /\ UNCHANGED <<lamps, warns, faults, segment, coolant, tires, setup, music, belongs>>
  BY DEF CarLight
<1>2. turn' \subseteq {"left", "right", "danger"}
  BY <1>1 DEF Bits, Flag
<1>3. StoredTyped'
  BY <1>1, <1>2 DEF StoredTyped
<1>4. PICK l : l = <<Msg("turn", turn')>>
  OBVIOUS
<1>5. PICK a, b : a = <<Msg("turn sound", {"turn_on"})>> /\ b = <<Msg("turn sound", {"turn_off"})>>
  OBVIOUS
<1>6. out' = a \o l \/ out' = b \o l \/ out' = <<>> \o l
  BY <1>4, <1>5 DEF CarLight
<1>7. "turn" \in Keys /\ "turn sound" \in Keys
  BY DEF Keys, ToHmi, Dropped
<1>8. IsSeq(l) /\ KeysOnly(l) /\ IsSeq(a) /\ KeysOnly(a) /\ IsSeq(b) /\ KeysOnly(b)
  BY <1>4, <1>5, <1>7, OneKey
<1>9. PICK e : e = <<>>
  OBVIOUS
<1>10. IsSeq(e) /\ KeysOnly(e)
  BY <1>9, NoKeys
<1>11. /\ IsSeq(a \o l) /\ KeysOnly(a \o l) /\ IsSeq(b \o l) /\ KeysOnly(b \o l)
       /\ IsSeq(e \o l) /\ KeysOnly(e \o l)
  BY <1>8, <1>10, ConcatKeys
<1>12. QED
  BY <1>3, <1>6, <1>9, <1>11 DEF Types

\* The lamps of a message are lamps.
LEMMA LampBits ==
  ASSUME NEW k \in LampKinds PROVE k \in BitKinds /\ Bits[k] \ {"parking"} \subseteq Lamps
<1>1. k \in BitKinds
  BY BitsKinds DEF LampKinds
<1>2. QED
  BY <1>1 DEF Lamps

LEMMA LampTypes ==
  ASSUME NEW k \in {"FAULT", "EPB", "AIRBAG", "ALARM_TIRE", "OILLOW"},
         StoredTyped, LampMessage(k)
  PROVE  Types
<1>1. k \in LampKinds /\ "parking" \notin Bits[k]
  BY DEF LampKinds, Bits
<1>2. SetBits(lamps, Bits[k], Received) \subseteq Lamps
  BY <1>1, LampBits DEF SetBits, StoredTyped
<1>3. StoredTyped'
  BY <1>2 DEF StoredTyped, LampMessage
<1>4. out' = <<Msg("telltale", lamps')>> /\ "telltale" \in Keys
  BY DEF LampMessage, Keys, ToHmi
<1>5. QED
  BY <1>3, <1>4, OneKey DEF Types

LEMMA LaneTypes ==
  ASSUME StoredTyped, Received \subseteq Bits["LANE_DEPATURE"], LaneDepature PROVE Types
<1>1. "LANE_DEPATURE" \in LampKinds /\ "parking" \notin Bits["LANE_DEPATURE"]
  BY DEF LampKinds, Bits
<1>2. lamps' = lamps \ LaneLamps \/ lamps' = lamps \cup Received
  BY DEF LaneDepature
<1>3. lamps' \subseteq Lamps
  BY <1>1, <1>2, LampBits DEF StoredTyped
<1>4. StoredTyped'
  BY <1>3 DEF StoredTyped, LaneDepature
<1>5. out' = <<Msg("telltale", lamps')>> /\ "telltale" \in Keys
  BY DEF LaneDepature, Keys, ToHmi
<1>6. QED
  BY <1>4, <1>5, OneKey DEF Types

LEMMA AlarmTypes ==
  ASSUME StoredTyped, Alarm PROVE Types
<1>1. "ALARM" \in LampKinds
  BY DEF LampKinds
<1>2. SetBits(lamps, Bits["ALARM"] \ {"parking"}, Received) \subseteq Lamps
  BY <1>1, LampBits DEF SetBits, StoredTyped
<1>3. SetBits(warns, {"parking"}, Received) \subseteq Warns
  BY DEF SetBits, StoredTyped, Warns
<1>4. StoredTyped'
  BY <1>2, <1>3 DEF StoredTyped, Alarm
<1>5. PICK a, b, c, d :
        /\ a = Edge("drive_belt", "driverBeltLight" \in lamps, "driverBeltLight" \in Received)
        /\ b = Edge("copilot_belt", "passengerBeltLight" \in lamps,
                    "passengerBeltLight" \in Received)
        /\ c = Edge("parking", "parking" \in warns, "parking" \in Received)
        /\ d = <<Msg("telltale", lamps')>>
  OBVIOUS
<1>6. out' = a \o b \o c \o d
  BY <1>5 DEF Alarm
<1>7. {"drive_belt", "copilot_belt", "parking", "telltale"} \subseteq Keys
  BY DEF Keys, ToHmi, Dropped, Warns, Sounds
<1>8. /\ IsSeq(a) /\ KeysOnly(a) /\ IsSeq(b) /\ KeysOnly(b)
      /\ IsSeq(c) /\ KeysOnly(c) /\ IsSeq(d) /\ KeysOnly(d)
  BY <1>5, <1>7, EdgeKeys, OneKey
<1>9. PICK s : s = a \o b
  OBVIOUS
<1>10. PICK t : t = s \o c
  OBVIOUS
<1>11. IsSeq(s) /\ KeysOnly(s)
  BY <1>8, <1>9, ConcatKeys
<1>12. IsSeq(t) /\ KeysOnly(t)
  BY <1>8, <1>10, <1>11, ConcatKeys
<1>13. IsSeq(t \o d) /\ KeysOnly(t \o d)
  BY <1>8, <1>12, ConcatKeys
<1>14. QED
  BY <1>4, <1>6, <1>9, <1>10, <1>13 DEF Types


\* A warning of the list, set by a report.
LEMMA SetWarningTypes ==
  ASSUME StoredTyped, NEW w \in Listed, NEW on, SetWarning(w, on)
  PROVE  warns' \subseteq Warns /\ faults' \subseteq Listed
<1>1. warns' \subseteq Warns
  BY DEF SetWarning, SetBits, Flag, StoredTyped, Warns
<1>2. faults' = faults \/ faults' = SetBits(faults, {w}, Flag(w, on))
  BY DEF SetWarning, SetFault
<1>3. QED
  BY <1>1, <1>2 DEF SetBits, Flag, StoredTyped

LEMMA PepsTypes ==
  ASSUME StoredTyped, Received \subseteq Bits["PEPS"], Peps PROVE Types
<1>1. PICK n, l \in BOOLEAN : /\ n <=> "pepsnotfindb" \in Received
                              /\ l <=> "pepsbatterylow" \in Received
  OBVIOUS
<1>2. PICK f, g : f = SetFault("pepsnotfindb", n, faults) /\ g = SetFault("pepsbatterylow", l, f)
  OBVIOUS
<1>3. PICK a, b : a = Warning("pepsnotfindb", n, f) /\ b = Warning("pepsbatterylow", l, g)
  OBVIOUS
<1>4. ("pepsnotfindb" \in Received) = n /\ ("pepsbatterylow" \in Received) = l
  BY <1>1
<1>5. /\ warns' = SetBits(warns, Bits["PEPS"], Received) /\ faults' = g /\ out' = a \o b
      /\ UNCHANGED <<lamps, turn, isTurnLightStart, segment, coolant, tires, setup, music, belongs>>
  BY <1>2, <1>3, <1>4 DEF Peps
<1>6. {"pepsnotfindb", "pepsbatterylow"} \subseteq Listed
  BY DEF Listed
<1>7. warns' \subseteq Warns
  BY <1>5, <1>6 DEF SetBits, Bits, Warns, StoredTyped
<1>8. f \subseteq Listed
  BY <1>2, <1>6 DEF SetFault, SetBits, Flag, StoredTyped
<1>9. g \subseteq Listed
  BY <1>2, <1>6, <1>8 DEF SetFault, SetBits, Flag
<1>10. StoredTyped'
  BY <1>5, <1>7, <1>9 DEF StoredTyped
<1>11. IsSeq(a) /\ KeysOnly(a) /\ IsSeq(b) /\ KeysOnly(b)
  BY <1>3, <1>6, WarningKeys
<1>12. QED
  BY <1>5, <1>10, <1>11, ConcatKeys DEF Types

LEMMA DtcTypes ==
  ASSUME StoredTyped, Dtc PROVE Types
<1>1. PICK on \in BOOLEAN : on <=> "WrongGear_P" \in Received
  OBVIOUS
<1>2. ("WrongGear_P" \in Received) = on
  BY <1>1
<1>3. /\ SetWarning("WrongGear_P", on) /\ out' = Warning("WrongGear_P", on, faults')
      /\ UNCHANGED <<lamps, turn, isTurnLightStart, segment, coolant, tires, setup, music, belongs>>
  BY <1>2 DEF Dtc
<1>4. "WrongGear_P" \in Listed
  BY DEF Listed
<1>5. warns' \subseteq Warns /\ faults' \subseteq Listed
  BY <1>3, <1>4, SetWarningTypes
<1>6. StoredTyped'
  BY <1>3, <1>5 DEF StoredTyped
<1>7. QED
  BY <1>3, <1>4, <1>6, WarningKeys DEF Types

LEMMA PressureTypes ==
  ASSUME StoredTyped, TirePressure PROVE Types
<1> DEFINE w == "tiresystemfault"
<1>1. PICK on \in BOOLEAN : on <=> w \in Received
  OBVIOUS
<1>2. (w \in Received) = on
  BY <1>1
<1>3. PICK a : a = <<Msg("tirePressures", Received \cap {"tirePressures"})>>
  OBVIOUS
<1>4. PICK b : b = IF spare' THEN SendWarning(w, on, faults') ELSE Warning(w, on, faults')
  OBVIOUS
<1>5. /\ warns' = SetBits(warns, {w}, Flag(w, on)) /\ out' = a \o b
      /\ faults' = SetFault(w, on, faults) \/ faults' = SetBits(faults, {w}, Flag(w, on))
      /\ UNCHANGED <<lamps, turn, isTurnLightStart, segment, coolant, tires, setup, music, belongs>>
  BY <1>2, <1>3, <1>4 DEF TirePressure
<1>6. w \in Listed /\ "tirePressures" \in Keys
  BY DEF Listed, Keys, ToHmi
<1>7. warns' \subseteq Warns
  BY <1>5, <1>6 DEF SetBits, Flag, StoredTyped, Warns
<1>8. faults' \subseteq Listed
  BY <1>5, <1>6 DEF SetFault, SetBits, Flag, StoredTyped
<1>9. StoredTyped'
  BY <1>5, <1>7, <1>8 DEF StoredTyped
<1>10. IsSeq(a) /\ KeysOnly(a) /\ IsSeq(b) /\ KeysOnly(b)
  BY <1>3, <1>4, <1>6, OneKey, WarningKeys
<1>11. QED
  BY <1>5, <1>9, <1>10, ConcatKeys DEF Types

LEMMA FuelTypes ==
  ASSUME StoredTyped, Received \in Int, Fuel PROVE Types
<1>1. PICK on \in BOOLEAN : on <=> OilLow(segment')
  OBVIOUS
<1>2. OilLow(segment') = on
  BY <1>1 DEF OilLow
<1>3. PICK a, b : a = <<Msg("fuel", {segment'})>> /\ b = Warning("oillow", on, faults')
  OBVIOUS
<1>4. /\ segment' = FuelSegment(Received) \/ segment' = segment
      /\ SetWarning("oillow", on) /\ out' = a \o b
      /\ UNCHANGED <<lamps, turn, isTurnLightStart, coolant, tires, setup, music, belongs>>
  BY <1>2, <1>3 DEF Fuel
<1>5. "oillow" \in Listed /\ "fuel" \in Keys
  BY DEF Listed, Keys, ToHmi, Segments
<1>6. warns' \subseteq Warns /\ faults' \subseteq Listed
  BY <1>4, <1>5, SetWarningTypes
<1>7. segment' \in 0..8
  BY <1>4, SegmentRange DEF StoredTyped
<1>8. StoredTyped'
  BY <1>4, <1>6, <1>7 DEF StoredTyped
<1>9. IsSeq(a) /\ KeysOnly(a) /\ IsSeq(b) /\ KeysOnly(b)
  BY <1>3, <1>5, OneKey, WarningKeys
<1>10. QED
  BY <1>4, <1>8, <1>9, ConcatKeys DEF Types

LEMMA CoolantTypes ==
  ASSUME StoredTyped, Received \in Values["COOLANT"], Coolant PROVE Types
<1>1. StoredTyped'
  BY DEF StoredTyped, Coolant
<1>2. "coolant" \in Keys /\ "coolandtemperaturehigh" \in Keys
  BY DEF Keys, ToHmi, Segments, Dropped, Sounds
<1>3. PICK a, b, e :
        /\ a = <<Msg("coolandtemperaturehigh",
                     Flag("coolandtemperaturehigh", CoolantHigh(Received)))>>
        /\ b = <<Msg("coolant", {CoolantSegment(Received)})>>
        /\ e = <<>>
  OBVIOUS
<1>4. out' = a \o b \/ out' = e \o b
  BY <1>3 DEF Coolant
<1>5. IsSeq(a) /\ KeysOnly(a) /\ IsSeq(b) /\ KeysOnly(b) /\ IsSeq(e) /\ KeysOnly(e)
  BY <1>2, <1>3, OneKey, NoKeys
<1>6. QED
  BY <1>1, <1>4, <1>5, ConcatKeys DEF Types

LEMMA TireTypes ==
  ASSUME StoredTyped, Received \subseteq Bits["TIRE_FAULT"], TireFault PROVE Types
<1>1. StoredTyped'
  BY DEF StoredTyped, TireFault, Tires
<1>2. PICK a, b, c, d :
        /\ a = Edge("frontLeftTire", "frontLeftTire" \in tires, "frontLeftTire" \in Received)
        /\ b = Edge("frontRightTire", "frontRightTire" \in tires, "frontRightTire" \in Received)
        /\ c = Edge("rearLeftTire", "rearLeftTire" \in tires, "rearLeftTire" \in Received)
        /\ d = Edge("rearRightTire", "rearRightTire" \in tires, "rearRightTire" \in Received)
  OBVIOUS
<1>3. out' = a \o b \o c \o d
  BY <1>2 DEF TireFault
<1>4. {"frontLeftTire", "frontRightTire", "rearLeftTire", "rearRightTire"} \subseteq Keys
  BY DEF Keys, ToHmi, Tires, Bits
<1>5. /\ IsSeq(a) /\ KeysOnly(a) /\ IsSeq(b) /\ KeysOnly(b)
      /\ IsSeq(c) /\ KeysOnly(c) /\ IsSeq(d) /\ KeysOnly(d)
  BY <1>2, <1>4, EdgeKeys
<1>6. PICK s : s = a \o b
  OBVIOUS
<1>7. PICK t : t = s \o c
  OBVIOUS
<1>8. IsSeq(s) /\ KeysOnly(s)
  BY <1>5, <1>6, ConcatKeys
<1>9. IsSeq(t) /\ KeysOnly(t)
  BY <1>5, <1>7, <1>8, ConcatKeys
<1>10. IsSeq(t \o d) /\ KeysOnly(t \o d)
  BY <1>5, <1>9, ConcatKeys
<1>11. QED
  BY <1>1, <1>3, <1>6, <1>7, <1>10 DEF Types

LEMMA SetupTypes ==
  ASSUME StoredTyped, NEW k, NEW t \in Settings, Setup(k, t) PROVE Types
<1>1. SetBits(setup, {t}, Received) \subseteq Settings
  BY DEF SetBits, StoredTyped
<1>2. StoredTyped'
  BY <1>1 DEF StoredTyped, Setup
<1>3. t \in Keys
  BY DEF Keys, ToHmi
<1>4. out' = Edge(t, t \in setup, t \in Received)
  BY DEF Setup
<1>5. QED
  BY <1>2, <1>3, <1>4, EdgeKeys DEF Types

LEMMA AudioTypes ==
  ASSUME StoredTyped, Received \subseteq Bits["AUDIO_REPORT"], AudioReport PROVE Types
<1>1. StoredTyped'
  BY DEF StoredTyped, AudioReport, Bits, Sounds
<1>2. "audio_belong2dhu" \in Keys
  BY DEF Keys, Dropped, Sounds
<1>3. out' = Edge("audio_belong2dhu", belongs # {}, Received # {})
  BY DEF AudioReport
<1>4. QED
  BY <1>1, <1>2, <1>3, EdgeKeys DEF Types

LEMMA CloseTypes ==
  ASSUME StoredTyped, MusicClose PROVE Types
<1>1. StoredTyped'
  BY DEF StoredTyped, MusicClose
<1>2. out' = <<Msg("musicStatus", {})>> /\ "musicStatus" \in Keys
  BY DEF MusicClose, Keys, ToHmi
<1>3. QED
  BY <1>1, <1>2, OneKey DEF Types

LEMMA InfoTypes ==
  ASSUME StoredTyped,
         NEW k \in {"MUSIC_PROCESS", "MUSIC_ALBUM", "MUSIC_NAME", "MUSIC_AUTHOR"}, MusicInfo(k)
  PROVE  Types
<1>1. Bits[k] \subseteq Music /\ Bits[k] # {}
  BY DEF Bits, Music
<1>2. PICK t : t = CHOOSE x \in Bits[k] : TRUE
  OBVIOUS
<1>3. t \in Music
  BY <1>1, <1>2
<1>4. t \in Keys
  BY <1>3 DEF Keys, ToHmi
<1>5. music' = SetBits(music, Bits[k], Received) \cup Flag("musicStatus", k = "MUSIC_PROCESS")
  BY DEF MusicInfo
<1>6. music' \subseteq Music \cup {"musicStatus"}
  BY <1>1, <1>5 DEF SetBits, Flag, StoredTyped
<1>7. StoredTyped'
  BY <1>6 DEF StoredTyped, MusicInfo
<1>8. out' = <<Msg(t, Received)>>
  BY <1>2 DEF MusicInfo
<1>9. QED
  BY <1>4, <1>7, <1>8, OneKey DEF Types

LEMMA GaugeTypes ==
  ASSUME StoredTyped, NEW k \in Gauges, Gauge(k) PROVE Types
<1>1. StoredTyped'
  BY DEF StoredTyped, Gauge, signals
<1>2. out' = <<Msg(k, Received)>> /\ k \in Keys
  BY DEF Gauge, Keys, ToHmi
<1>3. QED
  BY <1>1, <1>2, OneKey DEF Types

-----------------------------------------------------------------------------
(* The steps *)

LEMMA HandlerTypes ==
  ASSUME TInv, NEW k \in Kinds, Receive(k), Types PROVE TInv'
<1>1. /\ wire # <<>> /\ wire' = Tail(wire)
      /\ UNCHANGED <<mcu, changes, asked, reply, link, view>>
  BY DEF Receive
<1>2. wire' \in Seq(Reports) /\ Len(wire') <= MaxWire
  BY <1>1, BoundAssumption DEF TInv, LineTyped
<1>3. LineTyped'
  <2>1. spare' \in BOOLEAN
    BY DEF Receive
  <2>2. QED
    BY <1>1, <1>2, <2>1 DEF TInv, LineTyped
<1>4. McuTyped' /\ LinkTyped'
  BY <1>1 DEF TInv, McuTyped, LinkTyped, link
<1>5. SendTyped'
  BY <1>1 DEF TInv, SendTyped, Types, view
<1>6. QED
  BY <1>3, <1>4, <1>5 DEF TInv, Types

\* What is received is a report of its kind.
LEMMA ReceivedTyped ==
  ASSUME TInv, NEW k, Receive(k) PROVE Received \in Reportable(k)
<1>1. wire \in Seq(Reports) /\ wire # <<>> /\ Head(wire).kind = k
  BY DEF TInv, LineTyped, Receive
<1>2. Head(wire) \in Reports
  BY <1>1
<1>3. QED
  BY <1>1, <1>2 DEF Reports, Received

LEMMA AppendTypes ==
  ASSUME TInv, NEW k \in Kinds, NEW v \in Reportable(k), Len(wire) < MaxWire,
         mcu' = [mcu EXCEPT ![k] = v], wire' = Append(wire, [kind |-> k, val |-> v])
  PROVE  McuTyped' /\ wire' \in Seq(Reports) /\ Len(wire') <= MaxWire
<1>1. McuTyped'
  BY DEF TInv, McuTyped
<1>2. wire \in Seq(Reports) /\ [kind |-> k, val |-> v] \in Reports
  BY ReportIs DEF TInv, LineTyped
<1>3. QED
  BY <1>1, <1>2, BoundAssumption

LEMMA StoredTypedKept == ASSUME StoredTyped, UNCHANGED signals PROVE StoredTyped'
BY DEF StoredTyped, signals

LEMMA ChangeTypes ==
  ASSUME TInv, NEW k \in Kinds, NEW v \in Values[k], Change(k, v) PROVE TInv'
<1>1. /\ changes < MaxChanges /\ Len(wire) < MaxWire
      /\ mcu' = [mcu EXCEPT ![k] = v] /\ wire' = Append(wire, [kind |-> k, val |-> v])
      /\ changes' = changes + 1
      /\ UNCHANGED <<asked, spare, signals, out, reply, link, view>>
  BY DEF Change
<1>2. McuTyped' /\ wire' \in Seq(Reports) /\ Len(wire') <= MaxWire
  BY <1>1, AppendTypes, ValuesReported
<1>3. changes' \in 0..MaxChanges
  BY <1>1, BoundAssumption DEF TInv, LineTyped
<1>4. LineTyped'
  BY <1>1, <1>2, <1>3 DEF TInv, LineTyped
<1>5. StoredTyped' /\ SendTyped' /\ LinkTyped'
  BY <1>1, StoredTypedKept DEF TInv, SendTyped, LinkTyped, link, view
<1>6. QED
  BY <1>2, <1>4, <1>5 DEF TInv

LEMMA CleanTypes ==
  ASSUME TInv, NEW r \in DOMAIN Cleaned, RequestClean(r) PROVE TInv'
<1>1. PICK k : k = Cleaned[r]
  OBVIOUS
<1>2. k \in Kinds /\ {} \in Reportable(k)
  BY <1>1, BitsKinds, BitsReported DEF Cleaned
<1>3. /\ asked < MaxAsked /\ asked' = asked + 1 /\ Len(wire) < MaxWire
      /\ mcu' = [mcu EXCEPT ![k] = {}] /\ wire' = Append(wire, [kind |-> k, val |-> {}])
      /\ UNCHANGED <<changes, spare, signals, out, reply, link, view>>
  BY <1>1 DEF RequestClean, Request
<1>4. McuTyped' /\ wire' \in Seq(Reports) /\ Len(wire') <= MaxWire
  BY <1>2, <1>3, AppendTypes
<1>5. asked' \in 0..MaxAsked
  BY <1>3, BoundAssumption DEF TInv, LineTyped
<1>6. LineTyped'
  BY <1>3, <1>4, <1>5 DEF TInv, LineTyped
<1>7. StoredTyped' /\ SendTyped' /\ LinkTyped'
  BY <1>3, StoredTypedKept DEF TInv, SendTyped, LinkTyped, link, view
<1>8. QED
  BY <1>4, <1>6, <1>7 DEF TInv

LEMMA ReportTypes ==
  ASSUME TInv, NEW r \in DOMAIN Asked, RequestReport(r) PROVE TInv'
<1>1. PICK q, t : q = Asked[r] /\ t = [i \in DOMAIN q |-> Report(q[i])]
  OBVIOUS
<1>2. q \in Seq(Kinds)
  BY <1>1, AskedKinds
<1>3. PICK n \in Nat : n = Len(q) /\ DOMAIN q = 1..n /\ \A i \in 1..n : q[i] \in Kinds
  BY <1>2
<1>4. \A i \in 1..n : t[i] \in Reports
  BY <1>1, <1>3, ReportIs DEF Report, TInv, McuTyped
<1>5. t \in Seq(Reports) /\ Len(t) = n
  <2>1. t = [i \in 1..n |-> t[i]]
    BY <1>1, <1>3
  <2>2. QED
    BY <1>4, <2>1
<1>6. /\ asked < MaxAsked /\ asked' = asked + 1 /\ Len(wire) + n <= MaxWire /\ wire' = wire \o t
      /\ UNCHANGED <<mcu, changes, spare, signals, out, reply, link, view>>
  BY <1>1, <1>3 DEF RequestReport, Request, E02_AsynGet
<1>7. wire' \in Seq(Reports) /\ Len(wire') <= MaxWire
  <2>1. wire \in Seq(Reports)
    BY DEF TInv, LineTyped
  <2>2. wire' \in Seq(Reports) /\ Len(wire') = Len(wire) + Len(t)
    BY <1>5, <1>6, <2>1, ConcatProperties
  <2>3. QED
    BY <1>5, <1>6, <2>2
<1>8. asked' \in 0..MaxAsked
  BY <1>6, BoundAssumption DEF TInv, LineTyped
<1>9. LineTyped'
  BY <1>6, <1>7, <1>8 DEF TInv, LineTyped
<1>10. McuTyped' /\ StoredTyped' /\ SendTyped' /\ LinkTyped'
  BY <1>6, StoredTypedKept DEF TInv, McuTyped, SendTyped, LinkTyped, link, view
<1>11. QED
  BY <1>9, <1>10 DEF TInv

LEMMA MusicTypes ==
  ASSUME TInv, NEW r \in DOMAIN MusicOf, RequestMusic(r) PROVE TInv'
<1>1. /\ asked < MaxAsked /\ asked' = asked + 1 /\ reply'.key = MusicOf[r]
      /\ UNCHANGED <<mcu, wire, changes, spare, signals, out, link, view>>
  BY DEF RequestMusic, Request, Msg
<1>2. MusicOf[r] \in ToHmi
  BY DEF MusicOf, ToHmi, Music
<1>3. asked' \in 0..MaxAsked
  BY <1>1, BoundAssumption DEF TInv, LineTyped
<1>4. LineTyped' /\ SendTyped'
  BY <1>1, <1>2, <1>3 DEF TInv, LineTyped, SendTyped, view
<1>5. McuTyped' /\ StoredTyped' /\ LinkTyped'
  BY <1>1, StoredTypedKept DEF TInv, McuTyped, LinkTyped, link
<1>6. QED
  BY <1>4, <1>5 DEF TInv

LEMMA SendTypes ==
  ASSUME TInv, NEW m, m.key \in Keys, Send(m)
  PROVE  DOMAIN told' = Keys /\ lost' \subseteq Keys
BY DEF Send, Hears, Misses, TInv, SendTyped

LEMMA MsgSendTypes ==
  ASSUME TInv, MsgSend PROVE TInv'
<1>1. PICK h, t : h = Head(out) /\ t = Tail(out)
  OBVIOUS
<1>2. /\ out # <<>> /\ Send(h) /\ out' = t /\ UNCHANGED <<line, signals, reply, link>>
      /\ IsSeq(out) /\ KeysOnly(out)
  BY <1>1 DEF MsgSend, TInv, SendTyped
<1>3. IsSeq(t) /\ \A w : Clean(out, w) => h.key # w /\ Clean(t, w)
  BY <1>1, <1>2, TailParts
<1>4. h.key \in Keys /\ KeysOnly(t)
  BY <1>2, <1>3 DEF KeysOnly
<1>5. SendTyped'
  BY <1>2, <1>3, <1>4, SendTypes DEF TInv, SendTyped
<1>6. McuTyped' /\ LineTyped' /\ StoredTyped' /\ LinkTyped'
  BY <1>2, StoredTypedKept DEF TInv, McuTyped, LineTyped, LinkTyped, line, link
<1>7. QED
  BY <1>5, <1>6 DEF TInv

LEMMA ReplyTypes ==
  ASSUME TInv, SendReply PROVE TInv'
<1>1. /\ reply # NoReply /\ Send(reply) /\ reply' = NoReply
      /\ UNCHANGED <<line, signals, out, link>>
  BY DEF SendReply
<1>2. reply.key \in Keys
  BY <1>1 DEF TInv, SendTyped, Keys
<1>3. SendTyped'
  BY <1>1, <1>2, SendTypes DEF TInv, SendTyped
<1>4. McuTyped' /\ LineTyped' /\ StoredTyped' /\ LinkTyped'
  BY <1>1, StoredTypedKept DEF TInv, McuTyped, LineTyped, LinkTyped, line, link
<1>5. QED
  BY <1>3, <1>4 DEF TInv

LEMMA LinkTypes ==
  ASSUME TInv, on_disconnect \/ on_connect \/ UNCHANGED vars PROVE TInv'
<1>1. UNCHANGED <<line, signals, out, reply, view>>
  BY DEF on_disconnect, on_connect, vars
<1>2. McuTyped' /\ LineTyped' /\ StoredTyped' /\ SendTyped'
  BY <1>1, StoredTypedKept DEF TInv, McuTyped, LineTyped, SendTyped, line, view
<1>3. LinkTyped'
  <2>1. LinkTyped /\ MaxDrops \in Nat
    BY BoundAssumption DEF TInv
  <2>2. CASE on_disconnect
    <3>1. drops < MaxDrops /\ drops' = drops + 1
      BY <2>2 DEF on_disconnect
    <3>2. m_isConnected' = FALSE /\ subscribed' = FALSE
      BY <2>2 DEF on_disconnect
    <3>3. drops' \in 0..MaxDrops
      BY <2>1, <3>1 DEF LinkTyped
    <3>4. QED
      BY <3>2, <3>3 DEF LinkTyped
  <2>3. CASE on_connect
    BY <2>1, <2>3 DEF LinkTyped, on_connect
  <2>4. CASE UNCHANGED vars
    BY <2>1, <2>4 DEF LinkTyped, vars, link
  <2>5. QED
    BY <2>2, <2>3, <2>4
<1>4. QED
  BY <1>2, <1>3 DEF TInv


LEMMA InitTypes == Init => TInv
<1>1. SUFFICES ASSUME Init PROVE TInv
  OBVIOUS
<1>2. PICK fuel \in Values["FUEL"], temperature \in Values["COOLANT"] :
        mcu = [k \in Kinds |-> CASE k = "FUEL" -> fuel [] k = "COOLANT" -> temperature
                                 [] OTHER -> {}]
  BY <1>1 DEF Init
<1>3. \A k \in BitKinds : k # "FUEL" /\ k # "COOLANT"
  BY BitsKinds
<1>4. McuTyped
  <2>1. DOMAIN mcu = Kinds
    BY <1>2
  <2>2. ASSUME NEW k \in BitKinds PROVE mcu[k] \in Reportable(k)
    <3>1. mcu[k] = {}
      BY <1>2, <1>3, BitsReported
    <3>2. QED
      BY <3>1, BitsReported
  <2>3. mcu["FUEL"] \in Reportable("FUEL") /\ mcu["COOLANT"] \in Reportable("COOLANT")
    BY <1>2, NumbersReported
  <2>4. QED
    BY <2>1, <2>2, <2>3 DEF McuTyped, Kinds
<1>5. LineTyped
  <2>1. wire = <<>> /\ changes = 0 /\ asked = 0
    BY <1>1 DEF Init
  <2>2. <<>> \in Seq(Reports) /\ Len(<<>>) = 0
    BY EmptySeq
  <2>3. spare \in BOOLEAN
    BY <1>1 DEF Init
  <2>4. QED
    BY <2>1, <2>2, <2>3, BoundAssumption DEF LineTyped
<1>6. StoredTyped
  <2>1. /\ lamps = {} /\ turn = {} /\ isTurnLightStart = FALSE
        /\ warns = {} /\ faults = {} /\ segment = 0 /\ coolant = 0
        /\ tires = {} /\ setup = {} /\ music = {} /\ belongs = {}
    BY <1>1 DEF Init
  <2>2. isTurnLightStart \in BOOLEAN
    BY <2>1
  <2>3. segment \in 0..8 /\ coolant \in Values["COOLANT"] \cup {0}
    BY <2>1
  <2>4. QED
    BY <2>1, <2>2, <2>3 DEF StoredTyped
<1>7. SendTyped
  <2>1. out = <<>> /\ reply = NoReply /\ DOMAIN told = Keys /\ lost = NeverTold
    BY <1>1 DEF Init
  <2>2. NeverTold \subseteq Keys
    BY DEF NeverTold, Keys, ToHmi, Segments, Dropped, Warns, Listed, Sounds
  <2>3. QED
    BY <2>1, <2>2, NoKeys DEF SendTyped
<1>8. LinkTyped
  BY <1>1, BoundAssumption DEF Init, LinkTyped
<1>9. QED
  BY <1>4, <1>5, <1>6, <1>7, <1>8 DEF TInv

LEMMA NextTypes == TInv /\ [Next]_vars => TInv'
<1>1. SUFFICES ASSUME TInv, [Next]_vars PROVE TInv'
  OBVIOUS
<1>2. ASSUME NEW k \in Kinds, NEW v \in Values[k], Change(k, v) PROVE TInv'
  BY <1>1, <1>2, ChangeTypes
<1>3. ASSUME NEW r \in Requests \cap DOMAIN Asked, RequestReport(r) PROVE TInv'
  BY <1>1, <1>3, ReportTypes
<1>4. ASSUME NEW r \in Requests \cap DOMAIN Cleaned, RequestClean(r) PROVE TInv'
  BY <1>1, <1>4, CleanTypes
<1>5. ASSUME NEW r \in Requests \cap DOMAIN MusicOf, RequestMusic(r) PROVE TInv'
  BY <1>1, <1>5, MusicTypes
<1>6. ASSUME NEW k \in Kinds, Receive(k), Types PROVE TInv'
  BY <1>1, <1>6, HandlerTypes
<1>7. ASSUME NEW k \in BitKinds, Receive(k) PROVE k \in Kinds /\ Received \subseteq Bits[k]
  BY <1>1, <1>7, ReceivedTyped, BitsReported
<1>8. StoredTyped
  BY <1>1 DEF TInv
<1>9. CASE CarLight
  <2>1. Receive("CAR_LIGHT") /\ "CAR_LIGHT" \in BitKinds
    BY <1>9, BitsKinds DEF CarLight
  <2>2. QED
    BY <1>6, <1>7, <1>8, <1>9, <2>1, CarTypes
<1>10. ASSUME NEW k \in {"FAULT", "EPB", "AIRBAG", "ALARM_TIRE", "OILLOW"}, LampMessage(k)
      PROVE  TInv'
  <2>1. Receive(k) /\ k \in BitKinds
    BY <1>10, BitsKinds DEF LampMessage
  <2>2. QED
    BY <1>6, <1>7, <1>8, <1>10, <2>1, LampTypes
<1>11. CASE Fault \/ Epb \/ Airbag \/ AlarmTire \/ OilLowLight
  BY <1>10, <1>11 DEF Fault, Epb, Airbag, AlarmTire, OilLowLight
<1>12. CASE Alarm
  <2>1. Receive("ALARM") /\ "ALARM" \in BitKinds
    BY <1>12, BitsKinds DEF Alarm
  <2>2. QED
    BY <1>6, <1>7, <1>8, <1>12, <2>1, AlarmTypes
<1>13. CASE Peps
  <2>1. Receive("PEPS") /\ "PEPS" \in BitKinds
    BY <1>13, BitsKinds DEF Peps
  <2>2. QED
    BY <1>6, <1>7, <1>8, <1>13, <2>1, PepsTypes
<1>14. CASE LaneDepature
  <2>1. Receive("LANE_DEPATURE") /\ "LANE_DEPATURE" \in BitKinds
    BY <1>14, BitsKinds DEF LaneDepature
  <2>2. QED
    BY <1>6, <1>7, <1>8, <1>14, <2>1, LaneTypes
<1>15. CASE Dtc
  <2>1. Receive("DTC") /\ "DTC" \in BitKinds
    BY <1>15, BitsKinds DEF Dtc
  <2>2. QED
    BY <1>6, <1>7, <1>8, <1>15, <2>1, DtcTypes
<1>16. CASE Fuel
  <2>1. Receive("FUEL")
    BY <1>16 DEF Fuel
  <2>2. "FUEL" \in Kinds /\ Received \in Values["FUEL"] /\ Received \in Int
    BY <1>1, <2>1, ReceivedTyped, NumbersReported
  <2>3. QED
    BY <1>6, <1>8, <1>16, <2>1, <2>2, FuelTypes
<1>17. CASE Coolant
  <2>1. Receive("COOLANT")
    BY <1>17 DEF Coolant
  <2>2. "COOLANT" \in Kinds /\ Received \in Values["COOLANT"] /\ Received \in Int
    BY <1>1, <2>1, ReceivedTyped, NumbersReported
  <2>3. QED
    BY <1>6, <1>8, <1>17, <2>1, <2>2, CoolantTypes
<1>18. CASE TirePressure
  <2>1. Receive("TIRE_PRESSURE") /\ "TIRE_PRESSURE" \in BitKinds
    BY <1>18, BitsKinds DEF TirePressure
  <2>2. QED
    BY <1>6, <1>7, <1>8, <1>18, <2>1, PressureTypes
<1>19. CASE TireFault
  <2>1. Receive("TIRE_FAULT") /\ "TIRE_FAULT" \in BitKinds
    BY <1>19, BitsKinds DEF TireFault
  <2>2. QED
    BY <1>6, <1>7, <1>8, <1>19, <2>1, TireTypes
<1>20. ASSUME NEW k \in {"CFG_THEME", "CFG_LANG"}, NEW t \in Settings, Setup(k, t)
      PROVE  TInv'
  <2>1. Receive(k) /\ k \in BitKinds
    BY <1>20, BitsKinds DEF Setup
  <2>2. QED
    BY <1>6, <1>7, <1>8, <1>20, <2>1, SetupTypes
<1>21. CASE SetupTheme \/ SetupLanguage
  BY <1>20, <1>21 DEF SetupTheme, SetupLanguage, Settings
<1>22. CASE AudioReport
  <2>1. Receive("AUDIO_REPORT") /\ "AUDIO_REPORT" \in BitKinds
    BY <1>22, BitsKinds DEF AudioReport
  <2>2. QED
    BY <1>6, <1>7, <1>8, <1>22, <2>1, AudioTypes
<1>23. CASE MusicClose
  <2>1. Receive("MUSIC_CLOSE") /\ "MUSIC_CLOSE" \in BitKinds
    BY <1>23, BitsKinds DEF MusicClose
  <2>2. QED
    BY <1>6, <1>7, <1>8, <1>23, <2>1, CloseTypes
<1>24. ASSUME NEW k \in {"MUSIC_PROCESS", "MUSIC_ALBUM", "MUSIC_NAME", "MUSIC_AUTHOR"}, MusicInfo(k)
      PROVE  TInv'
  <2>1. Receive(k) /\ k \in BitKinds
    BY <1>24, BitsKinds DEF MusicInfo
  <2>2. QED
    BY <1>6, <1>7, <1>8, <1>24, <2>1, InfoTypes
<1>25. ASSUME NEW k \in Gauges, Gauge(k)
      PROVE  TInv'
  <2>1. Receive(k) /\ k \in BitKinds
    BY <1>25, BitsKinds DEF Gauge, Gauges
  <2>2. QED
    BY <1>6, <1>7, <1>8, <1>25, <2>1, GaugeTypes
<1>26. CASE MsgSend
  BY <1>1, <1>26, MsgSendTypes
<1>27. CASE SendReply
  BY <1>1, <1>27, ReplyTypes
<1>28. CASE on_disconnect \/ on_connect \/ UNCHANGED vars
  BY <1>1, <1>28, LinkTypes
<1>29. QED
  BY <1>1, <1>2, <1>3, <1>4, <1>5, <1>9, <1>11, <1>12, <1>13, <1>14, <1>15, <1>16,
     <1>17, <1>18, <1>19, <1>21, <1>22, <1>23, <1>24, <1>25, <1>26, <1>27, <1>28 DEF Next

LEMMA TypesOK == TInv => TypeOK
<1>1. SUFFICES ASSUME TInv PROVE TypeOK
  OBVIOUS
<1>2. \A k \in BitKinds : mcu[k] \subseteq Bits[k]
  BY <1>1, BitsReported DEF TInv, McuTyped
<1>3. \A i \in DOMAIN wire : wire[i].kind \in Kinds
  <2>1. wire \in Seq(Reports)
    BY <1>1 DEF TInv, LineTyped
  <2>2. \A i \in DOMAIN wire : wire[i] \in Reports
    BY <2>1
  <2>3. QED
    BY <2>2 DEF Reports
<1>4. \A i \in DOMAIN out : out[i].key \in Keys
  BY <1>1 DEF TInv, SendTyped, KeysOnly, Clean
<1>5. QED
  BY <1>1, <1>2, <1>3, <1>4 DEF TInv, LineTyped, StoredTyped, SendTyped, LinkTyped, TypeOK

\* The variables have their types, for any reports the MCU may send: what is
\* stored are the bits of the reports and the segments of the gauges, and every
\* message has a key.
THEOREM TypeCorrect == Spec => []TypeOK
<1>1. Spec => []TInv
  BY InitTypes, NextTypes, PTL DEF Spec
<1>2. QED
  BY <1>1, TypesOK, PTL

=============================================================================
