------------------------ MODULE DatalinkWindowProofs ------------------------
(***************************************************************************)
(* Proofs about the sending window of DatalinkSocket: at most k I-frames   *)
(* are unacknowledged, and each of them is still queued under its number,  *)
(* for every modulus and window and whatever N(R) the peer sends.          *)
(*                                                                         *)
(* DatalinkSocketProofs shows what the helpers do to a socket's fields;    *)
(* here are the arithmetic modulo Mod and what each handler does to the    *)
(* numbering.                                                              *)
(***************************************************************************)
EXTENDS DatalinkSocketProofs

(* The frames sent last carry the numbers V(A) .. V(S) - 1.  A freed       *)
(* sk_send_head marks no position, so nothing may be outstanding then.     *)
Numbered(d) ==
  /\ d.head = Freed => Outstanding(d) = 0
  /\ Outstanding(d) <= SentLen(d)
  /\ \A j \in 0 .. Outstanding(d) - 1 :
       d.wq[SentLen(d) - Outstanding(d) + 1 + j].n_s = (d.v_a + j) % Mod

(* The invariant of a socket.  Outside multiple-frame operation the queue  *)
(* is purged and V(S), V(A) keep their values: only their distance holds.  *)
InWindow(d) ==
  /\ Outstanding(d) <= d.k
  /\ d.state \in Multiframe => Numbered(d)

-----------------------------------------------------------------------------
(* Arithmetic modulo Mod.                                                  *)

(* What a reduction takes off a number below three times the modulus.      *)
LEMMA ModReduces ==
  ASSUME NEW a \in Int
  PROVE  /\ 0 <= a /\ a < Mod => a % Mod = a
         /\ Mod <= a /\ a < Mod + Mod => a % Mod = a - Mod
         /\ Mod + Mod <= a /\ a < Mod + Mod + Mod => a % Mod = a - Mod - Mod
BY ModAssumption

(* The distance from b up to a.                                            *)
LEMMA Distance ==
  ASSUME NEW a \in SeqNos, NEW b \in SeqNos
  PROVE  /\ (a - b + Mod) % Mod = IF a >= b THEN a - b ELSE a - b + Mod
         /\ (a - b + Mod) % Mod \in SeqNos
<1>1. a - b + Mod \in Int /\ Mod \in Int
  BY SeqNoRange, ModAssumption
<1>2. /\ a \in Int /\ 0 <= a /\ a < Mod
      /\ b \in Int /\ 0 <= b /\ b < Mod
  BY SeqNoRange
<1>3. CASE a >= b
  <2> DEFINE x == a - b + Mod
  <2>1. x \in Int /\ Mod <= x /\ x < Mod + Mod /\ x - Mod = a - b
    BY <1>1, <1>2, <1>3
  <2> HIDE DEF x
  <2>2. x % Mod = x - Mod
    BY <2>1, ModReduces
  <2> QED BY <1>1, <1>2, <1>3, <2>1, <2>2 DEF SeqNos, x
<1>4. CASE a < b
  <2>1. 0 <= a - b + Mod /\ a - b + Mod < Mod
    BY <1>1, <1>2, <1>4
  <2>2. (a - b + Mod) % Mod = a - b + Mod
    BY <1>1, <2>1, ModReduces
  <2> QED BY <1>1, <1>2, <1>4, <2>1, <2>2 DEF SeqNos
<1> QED BY <1>2, <1>3, <1>4

(* The number that is j past b, counted from b or from a further on.       *)
LEMMA ResiduesAgree ==
  ASSUME NEW a \in SeqNos, NEW b \in SeqNos, NEW j \in Int,
         (a - b + Mod) % Mod <= j, j < Mod
  PROVE  (a + (j - ((a - b + Mod) % Mod))) % Mod = (b + j) % Mod
<1> DEFINE n == (a - b + Mod) % Mod
           x == a + (j - n)
           y == b + j
<1>1. /\ a \in Int /\ 0 <= a /\ a < Mod
      /\ b \in Int /\ 0 <= b /\ b < Mod /\ Mod \in Int
  BY SeqNoRange, ModAssumption
<1>2. n = (IF a >= b THEN a - b ELSE a - b + Mod) /\ n \in Int /\ n <= j
  BY Distance, SeqNoRange
<1> HIDE DEF n
<1>3. CASE a >= b
  <2>1. n = a - b
    BY <1>2, <1>3
  <2>2. x = y
    BY <1>1, <2>1
  <2> QED BY <2>2 DEF n
<1>4. CASE a < b
  <2>1. n = a - b + Mod
    BY <1>1, <1>2, <1>4
  <2>2. /\ x \in Int /\ y \in Int /\ x = y - Mod
        /\ 0 <= x /\ x < Mod /\ Mod <= y /\ y < Mod + Mod
    BY <1>1, <1>2, <2>1
  <2> HIDE DEF x, y
  <2>3. x % Mod = x /\ y % Mod = y - Mod
    BY <2>2, ModReduces
  <2> QED BY <2>2, <2>3 DEF x, y, n
<1> QED BY <1>1, <1>3, <1>4

(* Sending n more frames makes the distance n greater.                     *)
LEMMA DistanceGrows ==
  ASSUME NEW a \in SeqNos, NEW b \in SeqNos, NEW n \in Nat,
         ((a - b + Mod) % Mod) + n < Mod
  PROVE  (((a + n) % Mod) - b + Mod) % Mod = ((a - b + Mod) % Mod) + n
<1> DEFINE m == (a - b + Mod) % Mod
           c == (a + n) % Mod
<1>1. /\ a \in Int /\ 0 <= a /\ a < Mod
      /\ b \in Int /\ 0 <= b /\ b < Mod /\ Mod \in Int
  BY SeqNoRange, ModAssumption
<1>2. m = (IF a >= b THEN a - b ELSE a - b + Mod) /\ m \in Int /\ m + n < Mod
  BY Distance, SeqNoRange
<1>3. c \in SeqNos /\ c \in Int
  BY <1>1, ModRange, SeqNoRange
<1>4. (c - b + Mod) % Mod = IF c >= b THEN c - b ELSE c - b + Mod
  BY <1>3, Distance
<1>5. CASE a + n < Mod
  <2>1. c = a + n
    BY <1>1, <1>5, ModReduces
  <2> HIDE DEF c, m
  <2>2. (c - b + Mod) % Mod = m + n
    BY <1>1, <1>2, <1>4, <2>1
  <2> QED BY <2>2 DEF c, m
<1>6. CASE a + n >= Mod
  <2> DEFINE x == a + n
  <2>1. x \in Int /\ Mod <= x /\ x < Mod + Mod
    BY <1>1, <1>2, <1>6
  <2> HIDE DEF x
  <2>2. x % Mod = x - Mod
    BY <2>1, ModReduces
  <2>3a. c = x - Mod
    BY <2>2, Zenon DEF x
  <2> HIDE DEF c
  <2>3. c = (a + n) - Mod
    BY <2>3a, Zenon DEF x
  <2> HIDE DEF m
  <2>4. (c - b + Mod) % Mod = m + n
    BY <1>1, <1>2, <1>4, <1>6, <2>3
  <2> QED BY <2>4 DEF c, m
<1> QED BY <1>1, <1>5, <1>6

(* An N(R) between b and a splits the distance from b to a.                *)
LEMMA DistanceSplits ==
  ASSUME NEW a \in SeqNos, NEW b \in SeqNos, NEW c \in SeqNos,
         (c - b + Mod) % Mod <= (a - b + Mod) % Mod
  PROVE  (a - c + Mod) % Mod = ((a - b + Mod) % Mod) - ((c - b + Mod) % Mod)
<1> DEFINE m == (a - b + Mod) % Mod
           n == (c - b + Mod) % Mod
           r == (a - c + Mod) % Mod
<1>1. /\ a \in Int /\ 0 <= a /\ a < Mod
      /\ b \in Int /\ 0 <= b /\ b < Mod
      /\ c \in Int /\ 0 <= c /\ c < Mod /\ Mod \in Int
  BY SeqNoRange, ModAssumption
<1>2. /\ m = IF a >= b THEN a - b ELSE a - b + Mod
      /\ n = IF c >= b THEN c - b ELSE c - b + Mod
      /\ r = IF a >= c THEN a - c ELSE a - c + Mod
      /\ n <= m
  BY Distance
<1> HIDE DEF m, n, r
<1>3. r = m - n
  BY <1>1, <1>2
<1> QED BY <1>3 DEF m, n, r

(* The fields of a socket the arithmetic is about.                         *)
LEMMA NumberFields ==
  ASSUME NEW d \in Sockets
  PROVE  /\ d.v_s \in SeqNos /\ d.v_a \in SeqNos
         /\ d.v_s \in Int /\ 0 <= d.v_s /\ d.v_s < Mod
         /\ d.v_a \in Int /\ 0 <= d.v_a /\ d.v_a < Mod
         /\ d.k \in Int /\ 1 <= d.k /\ d.k < Mod /\ Mod \in Int
         /\ d.wq \in Seq(Queued) /\ Len(d.wq) \in Nat
         /\ d.head \in {Freed} \cup Nat
<1>1. d.v_s \in SeqNos /\ d.v_a \in SeqNos /\ d.k \in 1 .. Mod - 1
  BY DEF Sockets
<1>2. d.wq \in Seq(Queued) /\ Len(d.wq) \in Nat /\ d.head \in {Freed} \cup Nat
  BY DEF Sockets
<1> QED BY <1>1, <1>2, SeqNoRange, ModAssumption

(* How many I-frames are outstanding.                                      *)
LEMMA OutstandingIs ==
  ASSUME NEW d \in Sockets
  PROVE  /\ Outstanding(d) = IF d.v_s >= d.v_a THEN d.v_s - d.v_a
                             ELSE d.v_s - d.v_a + Mod
         /\ Outstanding(d) \in Nat /\ Outstanding(d) < Mod
<1>1. d.v_s \in SeqNos /\ d.v_a \in SeqNos
  BY NumberFields
<1>2. Outstanding(d) \in SeqNos
  BY <1>1, Distance DEF Outstanding
<1> QED BY <1>1, <1>2, Distance, SeqNoRange DEF Outstanding

(* The loop of lapd_run_i_queue is open for k less what is outstanding.    *)
LEMMA WindowRoomIs ==
  ASSUME NEW d \in Sockets, Outstanding(d) <= d.k
  PROVE  WindowRoom(d) = d.k - Outstanding(d)
<1> DEFINE a == d.v_a + d.k - d.v_s + Mod
<1>1. /\ d.v_s \in Int /\ 0 <= d.v_s /\ d.v_s < Mod
      /\ d.v_a \in Int /\ 0 <= d.v_a /\ d.v_a < Mod
      /\ d.k \in Int /\ 1 <= d.k /\ d.k < Mod /\ Mod \in Int
  BY NumberFields
<1>2. /\ Outstanding(d) = IF d.v_s >= d.v_a THEN d.v_s - d.v_a
                          ELSE d.v_s - d.v_a + Mod
      /\ Outstanding(d) \in Nat
  BY OutstandingIs
<1>3. CASE d.v_s >= d.v_a
  <2>1. Mod <= a /\ a < Mod + Mod /\ a \in Int
    BY <1>1, <1>2, <1>3
  <2>2. a % Mod = a - Mod
    BY <2>1, ModReduces
  <2> QED BY <1>1, <1>2, <1>3, <2>2 DEF WindowRoom
<1>4. CASE d.v_s < d.v_a
  <2>1. Mod + Mod <= a /\ a < Mod + Mod + Mod /\ a \in Int
    BY <1>1, <1>2, <1>4
  <2>2. a % Mod = a - Mod - Mod
    BY <2>1, ModReduces
  <2> QED BY <1>1, <1>2, <1>4, <2>2 DEF WindowRoom
<1> QED BY <1>1, <1>3, <1>4

(* With V(S) = V(A) there is nothing to number.                            *)
LEMMA NothingOutstanding ==
  ASSUME NEW d \in Sockets, HeadInQueue(d), d.v_s = d.v_a
  PROVE  InWindow(d)
<1>1. Outstanding(d) = 0
  BY OutstandingIs, NumberFields
<1>2. SentLen(d) >= 0
  BY NumberFields DEF SentLen, Freed
<1>3. \A j \in 0 .. Outstanding(d) - 1 : FALSE
  BY <1>1
<1> QED BY <1>1, <1>2, <1>3, NumberFields DEF InWindow, Numbered

(* The numbering depends on these fields only.                             *)
SameNumbers(d, e) == e.v_s = d.v_s /\ e.v_a = d.v_a /\ e.k = d.k

(* A step that keeps the numbers and, inside a link, the write queue keeps *)
(* the window.                                                             *)
LEMMA SameInWindow ==
  ASSUME NEW d, InWindow(d), NEW e, SameNumbers(d, e),
         \/ e.state \notin Multiframe
         \/ d.state \in Multiframe /\ e.wq = d.wq /\ e.head = d.head
  PROVE  InWindow(e)
BY DEF InWindow, Numbered, SameNumbers, Outstanding, SentLen
-----------------------------------------------------------------------------
(* The helpers that move V(S), V(A) or the queue.                          *)

(* lapd_run_i_queue numbers what it sends from V(S) on, and sends no more  *)
(* than the window holds.                                                  *)
LEMMA TransmitInWindow ==
  ASSUME NEW d \in Sockets, HeadInQueue(d), d.head > 0,
         d.state \in Multiframe, InWindow(d),
         NEW n \in Nat, n > 0, d.head + n <= Len(d.wq) + 1,
         Outstanding(d) + n <= d.k
  PROVE  InWindow(Transmit(d, n))
<1> DEFINE e == Transmit(d, n)
           ns(i) == (d.v_s + i - d.head) % Mod
           out == Outstanding(d)
<1>1. e \in Sockets /\ e.state = d.state /\ e.v_a = d.v_a
  BY TransmitType
<1>2a. e.v_s = (d.v_s + n) % Mod /\ e.k = d.k
  BY DEF Transmit, Sockets
<1>2. /\ e.head = IF d.head + n > Len(d.wq) THEN Null ELSE d.head + n
      /\ e.wq = [i \in 1 .. Len(d.wq) |->
                   IF i \in d.head .. d.head + n - 1
                   THEN [d.wq[i] EXCEPT !.n_s = ns(i)] ELSE d.wq[i]]
  BY DEF Transmit, Sockets
<1> HIDE DEF e
<1>3. /\ d.v_s \in Int /\ 0 <= d.v_s /\ d.v_s < Mod
      /\ d.v_a \in Int /\ 0 <= d.v_a /\ d.v_a < Mod
      /\ d.k \in Int /\ d.k < Mod /\ Mod \in Int
      /\ d.wq \in Seq(Queued) /\ Len(d.wq) \in Nat /\ d.head \in Nat
  BY NumberFields DEF Freed
<1>3a. d.v_s \in SeqNos /\ d.v_a \in SeqNos
  BY NumberFields
<1>4. /\ out = IF d.v_s >= d.v_a THEN d.v_s - d.v_a ELSE d.v_s - d.v_a + Mod
      /\ out \in Nat /\ out + n <= d.k
  BY OutstandingIs
<1>4a. /\ out <= SentLen(d)
       /\ \A j \in 0 .. out - 1 :
            d.wq[SentLen(d) - out + 1 + j].n_s = (d.v_a + j) % Mod
  BY DEF InWindow, Numbered
<1>4b. out \in Int /\ d.head \in Int /\ n \in Int /\ Len(d.wq) \in Int /\ 0 <= out
  BY <1>3, <1>4
<1> HIDE DEF out
<1>4c. out + n < Mod /\ Mod \in Int
  BY <1>3, <1>4, <1>4b
<1>5. Outstanding(e) = out + n
  <2>1. out + n < Mod /\ e.v_s = (d.v_s + n) % Mod
    BY <1>2a, <1>4c
  <2> QED BY <1>1, <1>3a, <2>1, DistanceGrows DEF out, Outstanding
<1>6a. e.head = (IF d.head + n > Len(d.wq) THEN 0 ELSE d.head + n)
       /\ Len(e.wq) = Len(d.wq)
  BY <1>2, <1>3 DEF Null
<1>6. SentLen(e) = d.head + n - 1
  <2>1. CASE d.head + n > Len(d.wq)
    <3>1. e.head = 0 /\ Len(e.wq) = Len(d.wq)
      BY <1>6a, <2>1
    <3>2. Len(d.wq) = d.head + n - 1
      BY <1>4b, <2>1
    <3> QED BY <3>1, <3>2 DEF SentLen
  <2>2. CASE d.head + n <= Len(d.wq)
    BY <1>4b, <1>6a, <2>2 DEF SentLen
  <2> QED BY <1>4b, <2>1, <2>2
<1>7. out <= d.head - 1 /\ SentLen(d) = d.head - 1
  BY <1>3, <1>4a DEF SentLen
<1>8. ASSUME NEW j \in 0 .. Outstanding(e) - 1
      PROVE  e.wq[SentLen(e) - Outstanding(e) + 1 + j].n_s = (e.v_a + j) % Mod
  <2> DEFINE i == d.head - out + j
  <2>0. j \in Int /\ 0 <= j /\ j < out + n
    BY <1>4b, <1>5
  <2>1a. SentLen(e) - Outstanding(e) + 1 + j = i /\ i = d.head - out + j /\ i \in Int
    BY <1>4b, <1>5, <1>6, <2>0
  <2>1b. i \in 1 .. Len(d.wq)
    BY <1>4b, <1>7, <2>0
  <2>1. /\ SentLen(e) - Outstanding(e) + 1 + j = i /\ i \in 1 .. Len(d.wq)
        /\ i = d.head - out + j /\ j \in Int /\ 0 <= j /\ j < out + n
        /\ i \in Int
    BY <2>0, <2>1a, <2>1b
  <2> HIDE DEF i
  <2>2. CASE j < out
    <3>1. d.wq[SentLen(d) - out + 1 + j].n_s = (d.v_a + j) % Mod
      BY <1>4, <1>4a, <2>1, <2>2
    <3>2. SentLen(d) - out + 1 + j = i /\ i < d.head
      BY <1>4b, <1>7, <2>1, <2>2
    <3>3. e.wq[i] = d.wq[i]
      BY <1>2, <1>3, <2>1, <3>2
    <3> QED BY <1>1, <2>1, <3>1, <3>2, <3>3
  <2>3. CASE j >= out
    <3>1. i \in d.head .. d.head + n - 1
      BY <1>4b, <2>1, <2>3
    <3>2. e.wq[i] = [d.wq[i] EXCEPT !.n_s = ns(i)]
      BY <1>2, <2>1, <3>1
    <3>3. d.wq[i] \in Queued
      BY <1>3, <2>1
    <3>4. e.wq[i].n_s = ns(i)
      BY <3>2, <3>3 DEF Queued
    <3>5. ns(i) = (d.v_a + j) % Mod
      <4>1. d.v_s + i - d.head = d.v_s + (j - out)
        BY <1>3, <1>4b, <2>1
      <4>2. j < Mod
        BY <1>4b, <1>4c, <2>0
      <4>3. (d.v_s + (j - out)) % Mod = (d.v_a + j) % Mod
        BY <1>3a, <2>1, <2>3, <4>2, ResiduesAgree DEF out, Outstanding
      <4> QED BY <4>1, <4>3
    <3> QED BY <1>1, <2>1, <3>4, <3>5
  <2> QED BY <1>4, <2>1, <2>2, <2>3
<1>9. e.head # Freed
  BY <1>2, <1>3 DEF Null, Freed
<1>10. Outstanding(e) <= e.k /\ Outstanding(e) <= SentLen(e)
  BY <1>2a, <1>3, <1>4, <1>5, <1>6, <1>7
<1> QED BY <1>8, <1>9, <1>10 DEF InWindow, Numbered, e

(* lapd_run_i_queue keeps the window.                                      *)
LEMMA RunIQueueInWindow ==
  ASSUME NEW d \in Sockets, HeadInQueue(d), InWindow(d)
  PROVE  InWindow(RunIQueue(d))
<1> DEFINE bad == [d EXCEPT !.oops = TRUE]
<1>1. bad.state = d.state /\ bad.wq = d.wq /\ bad.head = d.head /\ SameNumbers(d, bad)
  BY DEF Sockets, SameNumbers
<1> HIDE DEF bad
<1>2. InWindow(bad)
  BY <1>1, SameInWindow
<1>3. CASE RunIQueue(d) \in {d, bad}
  BY <1>2, <1>3
<1>4. CASE ~ (RunIQueue(d) \in {d, bad})
  <2>1. /\ d.state = LINK_ESTABLISHED /\ d.head # Null /\ d.head # Freed
        /\ WindowRoom(d) # 0 /\ RunIQueue(d) = Transmit(d, ToSend(d))
    BY <1>4 DEF RunIQueue, bad
  <2>2. /\ d.head \in Nat /\ d.head > 0
        /\ Len(d.wq) \in Nat /\ d.head <= Len(d.wq)
    BY <2>1, NumberFields DEF Null, HeadInQueue
  <2>3. WindowRoom(d) \in Nat /\ WindowRoom(d) > 0
    BY <2>1, WindowRoomType, SeqNoRange
  <2>4. /\ ToSend(d) \in Nat /\ ToSend(d) > 0 /\ ToSend(d) <= WindowRoom(d)
        /\ d.head + ToSend(d) <= Len(d.wq) + 1
    BY <2>2, <2>3 DEF ToSend
  <2>5. WindowRoom(d) = d.k - Outstanding(d)
    BY WindowRoomIs DEF InWindow
  <2>6. Outstanding(d) + ToSend(d) <= d.k
    BY <2>3, <2>4, <2>5, OutstandingIs, NumberFields
  <2>7. InWindow(Transmit(d, ToSend(d)))
    BY <2>1, <2>2, <2>4, <2>6, TransmitInWindow DEF Multiframe
  <2> QED BY <2>1, <2>7
<1> QED BY <1>3, <1>4

(* lapd_sock_queue_iframe adds behind what was sent.                       *)
LEMMA QueueIFrameInWindow ==
  ASSUME NEW d \in Sockets, HeadInQueue(d), InWindow(d), NEW x \in Data
  PROVE  InWindow(QueueIFrame(d, x))
<1> DEFINE e == QueueIFrame(d, x)
<1>1. e.state = d.state
  BY QueueIFrameType
<1>2. /\ SameNumbers(d, e)
      /\ e.wq = Append(d.wq, [data |-> x, n_s |-> 0])
      /\ e.head = IF d.head = Null THEN Len(d.wq) + 1 ELSE d.head
  BY DEF QueueIFrame, Sockets, SameNumbers
<1> HIDE DEF e
<1>3. /\ d.wq \in Seq(Queued) /\ Len(d.wq) \in Nat /\ d.head \in {Freed} \cup Nat
      /\ d.head <= Len(d.wq)
  BY NumberFields DEF HeadInQueue
<1>4. Outstanding(e) = Outstanding(d) /\ Outstanding(d) \in Nat
  BY <1>2, OutstandingIs DEF SameNumbers, Outstanding
<1>5. CASE d.head = Freed /\ d.state \in Multiframe
  <2>1. Outstanding(e) = 0
    BY <1>4, <1>5 DEF InWindow, Numbered
  <2>2. SentLen(e) \in Nat
    BY <1>2, <1>3, <1>5 DEF SentLen, Freed, Null
  <2>3. \A j \in 0 .. Outstanding(e) - 1 : FALSE
    BY <2>1
  <2> QED BY <1>2, <1>4, <2>1, <2>2, <2>3 DEF InWindow, Numbered, SameNumbers, e
<1>6. CASE d.head # Freed /\ d.state \in Multiframe
  <2>1. SentLen(e) = SentLen(d) /\ SentLen(d) \in Nat /\ SentLen(d) <= Len(d.wq)
        /\ e.head # Freed
    BY <1>2, <1>3, <1>6 DEF SentLen, Null, Freed
  <2>2. ASSUME NEW j \in 0 .. Outstanding(e) - 1
        PROVE  e.wq[SentLen(e) - Outstanding(e) + 1 + j].n_s = (e.v_a + j) % Mod
    <3> DEFINE i == SentLen(d) - Outstanding(d) + 1 + j
    <3>1. d.wq[i].n_s = (d.v_a + j) % Mod
      BY <1>4, <1>6 DEF InWindow, Numbered
    <3>2. i \in 1 .. Len(d.wq)
      BY <1>3, <1>4, <1>6, <2>1 DEF InWindow, Numbered
    <3>3. e.wq[i] = d.wq[i]
      BY <1>2, <1>3, <3>2, AppendProperties
    <3> QED BY <1>2, <1>4, <2>1, <3>1, <3>3 DEF SameNumbers
  <2> QED BY <1>2, <1>4, <1>6, <2>1, <2>2 DEF InWindow, Numbered, SameNumbers, e
<1>7. CASE d.state \notin Multiframe
  BY <1>1, <1>2, <1>7, SameInWindow DEF e
<1> QED BY <1>5, <1>6, <1>7

(* lapd_ack_frames unlinks up to the frame numbered N(R), which is among   *)
(* the outstanding ones if N(R) is valid: those after it stay.             *)
LEMMA AckInWindow ==
  ASSUME NEW d \in Sockets, HeadInQueue(d), d.state \in Multiframe,
         InWindow(d), NEW nr \in SeqNos, IsValidNR(d, nr)
  PROVE  InWindow(Ack(d, nr))
<1> DEFINE e == Ack(d, nr)
           limit == IF d.head > 0 THEN d.head - 1 ELSE Len(d.wq)
           stops == {i \in 0 .. limit : i = limit \/ d.wq[i + 1].n_s = nr}
           n == CHOOSE i \in stops : \A j \in stops : i <= j
           out == Outstanding(d)
           dist == (nr - d.v_a + Mod) % Mod
<1>1. /\ d.v_s \in SeqNos /\ d.v_a \in SeqNos /\ d.k \in Int /\ Mod \in Int
      /\ d.wq \in Seq(Queued) /\ Len(d.wq) \in Nat
      /\ d.head \in {Freed} \cup Nat /\ d.head <= Len(d.wq)
  BY NumberFields DEF HeadInQueue
<1>2. /\ out \in Int /\ 0 <= out /\ out < Mod /\ out <= d.k
      /\ dist \in Int /\ 0 <= dist /\ dist <= out
  BY <1>1, OutstandingIs, Distance, SeqNoRange DEF InWindow, IsValidNR, Outstanding
<1>3. /\ e \in Sockets /\ e.v_a = nr /\ e.v_s = d.v_s /\ e.state = d.state
  BY AckType
<1>4. CASE nr = d.v_a
  <2>1. e = [d EXCEPT !.v_a = nr]
    BY <1>4 DEF Ack, AckFrames
  <2>2. e = d
    BY <1>4, <2>1 DEF Sockets
  <2> QED BY <2>2
<1>5. CASE nr # d.v_a
  <2>1. dist > 0
    BY <1>1, <1>2, <1>5, DistanceZero
  <2>2. /\ d.head # Freed /\ out <= SentLen(d) /\ SentLen(d) = limit
        /\ limit \in Int /\ 0 <= limit /\ limit <= Len(d.wq)
    BY <1>1, <1>2, <2>1 DEF InWindow, Numbered, SentLen, Freed
  <2>3. \A j \in 0 .. out - 1 : d.wq[limit - out + 1 + j].n_s = (d.v_a + j) % Mod
    BY <2>2 DEF InWindow, Numbered
  <2> DEFINE g == limit - out + dist
  <2> HIDE DEF limit, out, dist
  <2>4. g \in 0 .. limit
    BY <1>2, <2>2
  <2>5. g \in stops
    <3>1. CASE dist = out
      BY <1>2, <2>2, <2>4, <3>1
    <3>2. CASE dist < out
      <4>1. dist \in 0 .. out - 1 /\ g + 1 = limit - out + 1 + dist
        BY <1>2, <2>2, <3>2
      <4>2. d.wq[g + 1].n_s = (d.v_a + dist) % Mod
        BY <2>3, <4>1
      <4>3. (nr + (dist - dist)) % Mod = (d.v_a + dist) % Mod
        BY <1>1, <1>2, ResiduesAgree DEF dist
      <4>4. nr + (dist - dist) = nr /\ nr % Mod = nr
        BY <1>2, SeqNoRange, ModSmall
      <4> QED BY <2>4, <4>2, <4>3, <4>4
    <3> QED BY <1>2, <3>1, <3>2
  <2>6. n \in stops /\ n <= g
    <3>1. stops \subseteq Nat
      BY <2>2
    <3>2. \E i \in stops : \A j \in stops : i <= j
      BY <2>5, <3>1, LeastExists
    <3> QED BY <2>5, <3>2
  <2>7. n \in Int /\ 0 <= n /\ n <= limit - out + dist
    BY <2>2, <2>6
  <2> HIDE DEF n
  <2> DEFINE w == SubSeq(d.wq, n + 1, Len(d.wq))
             h == IF d.head > 0 THEN d.head - n ELSE d.head
             a == [d EXCEPT !.wq = w, !.head = h]
  <2>8. e = [a EXCEPT !.v_a = nr]
    BY <1>5 DEF Ack, AckFrames, n, limit
  <2>9. e.wq = w /\ e.head = h /\ e.k = d.k
    BY <2>8 DEF Sockets
  <2> HIDE DEF e, w, h, a
  <2>10. n <= Len(d.wq)
    BY <1>1, <1>2, <2>2, <2>7
  <2>11. /\ Len(w) = Len(d.wq) - n
         /\ \A i \in 1 .. Len(d.wq) - n : w[i] = d.wq[n + i]
    <3>1. n + 1 \in 1 .. Len(d.wq) + 1
      BY <1>1, <2>7, <2>10
    <3>2. /\ Len(w) = IF n + 1 <= Len(d.wq) THEN Len(d.wq) - (n + 1) + 1 ELSE 0
          /\ \A i \in 1 .. Len(d.wq) - (n + 1) + 1 : w[i] = d.wq[(n + 1) + i - 1]
      BY <1>1, <3>1, SubSeqProperties DEF w
    <3> QED BY <1>1, <2>7, <2>10, <3>2
  <2>12. SentLen(e) = limit - n /\ e.head # Freed
    <3>1. CASE d.head > 0
      <4>1. limit = d.head - 1 /\ d.head \in Int /\ h = d.head - n /\ h > 0
        BY <1>1, <1>2, <2>7, <3>1 DEF limit, h, Freed
      <4> QED BY <2>7, <2>9, <4>1 DEF SentLen, Freed
    <3>2. CASE ~ (d.head > 0)
      <4>1. limit = Len(d.wq) /\ h = 0
        BY <1>1, <2>2, <3>2 DEF limit, h, Freed
      <4> QED BY <2>9, <2>11, <4>1 DEF SentLen, Freed
    <3> QED BY <3>1, <3>2
  <2>13. Outstanding(e) = out - dist
    BY <1>1, <1>2, <1>3, DistanceSplits DEF Outstanding, out, dist
  <2>14. ASSUME NEW j \in 0 .. Outstanding(e) - 1
         PROVE  e.wq[SentLen(e) - Outstanding(e) + 1 + j].n_s = (e.v_a + j) % Mod
    <3> DEFINE i == limit - out + dist - n + 1 + j
    <3>1. j \in Int /\ 0 <= j /\ j < out - dist
      BY <1>2, <2>13
    <3>2. /\ SentLen(e) - Outstanding(e) + 1 + j = i
          /\ n + i = limit - out + 1 + (dist + j)
      BY <1>2, <2>2, <2>7, <2>12, <2>13, <3>1
    <3>3. i \in 1 .. Len(d.wq) - n
      BY <1>1, <1>2, <2>2, <2>7, <3>1
    <3>4. dist + j \in 0 .. out - 1 /\ dist <= dist + j /\ dist + j < Mod
      BY <1>1, <1>2, <3>1
    <3> HIDE DEF i
    <3>5. e.wq[i] = d.wq[limit - out + 1 + (dist + j)]
      BY <2>9, <2>11, <3>2, <3>3
    <3>6. e.wq[i].n_s = (d.v_a + (dist + j)) % Mod
      BY <2>3, <3>4, <3>5
    <3>7. (nr + ((dist + j) - dist)) % Mod = (d.v_a + (dist + j)) % Mod
      BY <1>1, <1>2, <3>1, <3>4, ResiduesAgree DEF dist
    <3>8. (dist + j) - dist = j
      BY <1>2, <3>1
    <3> QED BY <1>3, <3>2, <3>6, <3>7, <3>8
  <2>15. Outstanding(e) <= SentLen(e) /\ Outstanding(e) <= e.k
    BY <1>1, <1>2, <2>2, <2>7, <2>9, <2>12, <2>13
  <2> QED BY <2>12, <2>14, <2>15 DEF InWindow, Numbered, e
<1> QED BY <1>4, <1>5

(* Going back to V(A), lapd_invoke_retransmission_procedure numbers the    *)
(* frames of the queue afresh from its front.                              *)
LEMMA InvokeRetransmissionInWindow ==
  ASSUME NEW d \in Sockets, HeadInQueue(d)
  PROVE  InWindow(InvokeRetransmission(d))
<1> DEFINE h == IF d.wq = << >> THEN d.head ELSE 1
           a == [d EXCEPT !.head = h, !.v_s = d.v_a]
<1>1. d.wq \in Seq(Queued) /\ d.head \in {Freed} \cup Nat /\ d.v_a \in SeqNos
  BY DEF Sockets
<1>2. h \in {Freed} \cup Nat /\ h <= Len(d.wq)
  BY <1>1 DEF HeadInQueue
<1> HIDE DEF h
<1>3. a \in Sockets
  BY <1>1, <1>2 DEF Sockets
<1>4. a.head = h /\ a.wq = d.wq /\ a.v_s = a.v_a
  BY DEF Sockets
<1>5. InvokeRetransmission(d) = RunIQueue(a)
  BY DEF InvokeRetransmission, h
<1> HIDE DEF a
<1>6. HeadInQueue(a)
  BY <1>2, <1>4 DEF HeadInQueue
<1> QED BY <1>3, <1>4, <1>5, <1>6, NothingOutstanding, RunIQueueInWindow

-----------------------------------------------------------------------------
(* The helpers that move none of them.                                     *)
USE DEF TEI_UNASSIGNED, AWAITING_TEI, ESTABLISH_AWAITING_TEI, TEI_ASSIGNED,
        AWAITING_ESTABLISH, AWAITING_RELEASE, LINK_ESTABLISHED,
        TIMER_RECOVERY, DlStates, Multiframe

(* The numbering is not touched by what leaves Same or SameLink true.      *)
LEMMA SameIsSameNumbers ==
  ASSUME NEW d, NEW e, Same(d, e) \/ SameLink(d, e)
  PROVE  SameNumbers(d, e) /\ e.wq = d.wq /\ e.head = d.head
BY DEF Same, SameLink, SameNumbers

(* A helper that changes none of the fields of Same keeps the window.      *)
LEMMA SameKeepsWindow ==
  ASSUME NEW d, InWindow(d), NEW e, Same(d, e)
  PROVE  InWindow(e)
BY SameIsSameNumbers DEF Same, InWindow, Numbered, SameNumbers, Outstanding, SentLen

(* lapd_discard_i_queue keeps V(S) and V(A).                               *)
LEMMA DiscardIQueueNumbers ==
  ASSUME NEW d \in Sockets
  PROVE  SameNumbers(d, DiscardIQueue(d)) /\ DiscardIQueue(d) \in Sockets
<1>1. DiscardIQueue(d).k = d.k
  BY DEF DiscardIQueue, Sockets
<1> QED BY <1>1, DiscardIQueueType DEF SameNumbers

(* So does lapd_establish_datalink_procedure: they are reset when the UA   *)
(* arrives.                                                                *)
LEMMA EstablishNumbers ==
  ASSUME NEW d \in Sockets, NEW l3 \in BOOLEAN
  PROVE  /\ SameNumbers(d, Establish(d, l3))
         /\ Establish(d, l3).state = AWAITING_ESTABLISH
<1> DEFINE c == ClearExceptionConditions(d)
           u == SendU(c, "SABME", TRUE)
           e == [u EXCEPT !.retrans_cnt = 0, !.T203 = FALSE, !.T200 = TRUE]
           g == [e EXCEPT !.layer_3_initiated = l3, !.state = AWAITING_ESTABLISH]
<1>1. c \in Sockets /\ Same(d, c)
  BY ClearExceptionType
<1>2. u \in Sockets /\ Same(c, u)
  BY <1>1, SendUType
<1> HIDE DEF c, u
<1>3a. e \in Sockets
  BY <1>2 DEF Sockets
<1>3b. SameNumbers(u, e)
  BY <1>2 DEF Sockets, SameNumbers
<1>3. e \in Sockets /\ SameNumbers(u, e)
  BY <1>3a, <1>3b
<1> HIDE DEF e
<1>4. SameNumbers(e, g) /\ g.state = AWAITING_ESTABLISH
  BY <1>3 DEF Sockets, SameNumbers
<1>5. g = Establish(d, l3)
  BY DEF g, e, u, c, Establish, EstablishDatalink
<1> HIDE DEF g
<1> QED BY <1>1, <1>2, <1>3, <1>4, <1>5 DEF Same, SameNumbers

(* A handler that goes, or stays, out of multiple-frame operation.         *)
LEMMA DownInWindow ==
  ASSUME NEW c, InWindow(c), NEW d \in Sockets, SameNumbers(c, d),
         d.state \notin Multiframe, NEW p \in DlPrimitives
  PROVE  InWindow(d) /\ InWindow(DlPrimitive(d, p))
<1>1. InWindow(d)
  BY SameInWindow
<1> QED BY <1>1, DlPrimitiveType, SameKeepsWindow

(* A handler that ends by sending a SABME.                                 *)
LEMMA EstablishInWindow ==
  ASSUME NEW c, InWindow(c), NEW d \in Sockets, SameNumbers(c, d),
         NEW l3 \in BOOLEAN
  PROVE  InWindow(Establish(d, l3))
<1>1. SameNumbers(c, Establish(d, l3)) /\ Establish(d, l3).state = AWAITING_ESTABLISH
  BY EstablishNumbers DEF SameNumbers
<1> QED BY <1>1, SameInWindow

-----------------------------------------------------------------------------
(* The handlers.                                                           *)

(* lapd_mdl_remove_request keeps the window.                               *)
LEMMA MdlRemoveRequestInWindow ==
  ASSUME NEW d \in Sockets, InWindow(d)
  PROVE  InWindow(MdlRemoveRequest(d))
<1> DEFINE i == DiscardIQueue(d)
           gone(e) == ChangeState(DiscardUiQueue(e), TEI_UNASSIGNED)
           a == gone(d)
           b == gone(i)
           a1 == [a EXCEPT !.T200 = FALSE]
           b1 == [b EXCEPT !.T200 = FALSE]
           b2 == [b EXCEPT !.T200 = FALSE, !.T203 = FALSE]
<1>1. i \in Sockets /\ SameNumbers(d, i)
  BY DiscardIQueueNumbers
<1>2. ASSUME NEW e \in Sockets
      PROVE  /\ gone(e) \in Sockets /\ SameNumbers(e, gone(e))
             /\ gone(e).state = TEI_UNASSIGNED
  <2>1. DiscardUiQueue(e) \in Sockets /\ Same(e, DiscardUiQueue(e))
    BY DiscardUiType
  <2> QED BY <2>1, ChangeStateType DEF Same, SameLink, SameNumbers
<1>3. /\ a \in Sockets /\ SameNumbers(d, a) /\ a.state = TEI_UNASSIGNED
      /\ b \in Sockets /\ SameNumbers(d, b) /\ b.state = TEI_UNASSIGNED
  BY <1>1, <1>2 DEF SameNumbers
<1> HIDE DEF gone, a, b, i
<1>4. /\ a1 \in Sockets /\ SameLink(a, a1) /\ a1.state = TEI_UNASSIGNED
      /\ b1 \in Sockets /\ SameLink(b, b1) /\ b1.state = TEI_UNASSIGNED
      /\ b2 \in Sockets /\ SameLink(b, b2) /\ b2.state = TEI_UNASSIGNED
  <2>1. a1 \in Sockets /\ SameLink(a, a1) /\ a1.state = TEI_UNASSIGNED
    BY <1>3, TimersType
  <2>2. b1 \in Sockets /\ SameLink(b, b1) /\ b1.state = TEI_UNASSIGNED
    BY <1>3, TimersType
  <2>3. b2 \in Sockets /\ SameLink(b, b2) /\ b2.state = TEI_UNASSIGNED
    BY <1>3, TimersType
  <2> QED BY <2>1, <2>2, <2>3
<1> HIDE DEF a1, b1, b2
<1>5. SameNumbers(d, a1) /\ SameNumbers(d, b1) /\ SameNumbers(d, b2)
  BY <1>3, <1>4 DEF SameLink, SameNumbers
<1>6. /\ InWindow(a) /\ InWindow(DlPrimitive(a1, "RELEASE_CONFIRM"))
      /\ InWindow(DlPrimitive(b1, "RELEASE_INDICATION"))
      /\ InWindow(DlPrimitive(b2, "RELEASE_INDICATION"))
  BY <1>3, <1>4, <1>5, DownInWindow DEF DlPrimitives
<1> QED BY <1>6 DEF MdlRemoveRequest, a, b, a1, b1, b2, gone, i

(* lapd_mdl_error_indication keeps the window.                             *)
LEMMA MdlErrorTeiInWindow ==
  ASSUME NEW d \in Sockets, InWindow(d)
  PROVE  InWindow(MdlErrorTei(d))
<1> DEFINE m == [d EXCEPT !.mdl = TRUE]
<1>1. Same(d, m)
  BY DEF Sockets, Same
<1> HIDE DEF m
<1> QED BY <1>1, SameKeepsWindow, MdlRemoveRequestInWindow DEF MdlErrorTei, m

(* The acknowledgement of state 7 keeps the window.                        *)
LEMMA AckEstablishedInWindow ==
  ASSUME NEW d \in Sockets, HeadInQueue(d), InWindow(d), NEW nr \in SeqNos,
         IsValidNR(d, nr), d.state = LINK_ESTABLISHED
  PROVE  InWindow(AckEstablished(d, nr))
<1> DEFINE a == Ack(d, nr)
           b == SuperviseIdle(a)
           c == [a EXCEPT !.T200 = TRUE]
<1>1. a \in Sockets /\ a.state = d.state /\ InWindow(a)
  BY AckType, AckInWindow
<1> HIDE DEF a
<1>2. b \in Sockets /\ SameLink(a, b) /\ b.state = a.state
  BY <1>1, SuperviseIdleType
<1>3. c \in Sockets /\ SameLink(a, c) /\ c.state = a.state
  BY <1>1, TimersType
<1> HIDE DEF b, c
<1>4. InWindow(b) /\ InWindow(c)
  BY <1>1, <1>2, <1>3, SameInWindow, SameIsSameNumbers
<1> QED BY <1>4 DEF AckEstablished, a, b, c

(* lapd_socket_handle_iframe keeps the window.                             *)
LEMMA HandleIFrameInWindow ==
  ASSUME NEW d, Base(d), InWindow(d), NEW f \in Frames
  PROVE  InWindow(HandleIFrame(d, f))
<1> DEFINE open == IF ~Full(d) /\ d.own_receiver_busy
                   THEN ClearOwnReceiverBusy(d) ELSE d
           took == TakeIFrame(open, f)
           full == SetOwnReceiverBusy(d)
<1>1. d \in Sockets /\ HeadInQueue(d) /\ Same(d, d) /\ f.nr \in SeqNos
  BY FrameFields DEF Base, Same
<1>2. open \in Sockets /\ Same(d, open) /\ full \in Sockets /\ Same(d, full)
  BY <1>1, OwnReceiverBusyType
<1> HIDE DEF open, full
<1>3. took \in Sockets /\ Same(open, took)
  BY <1>2, TakeIFrameType
<1> HIDE DEF took
<1>4. InWindow(open) /\ InWindow(full) /\ InWindow(took)
  BY <1>2, <1>3, SameKeepsWindow
<1>5. HeadInQueue(took) /\ took.state = d.state
  BY <1>1, <1>2, <1>3 DEF Same, HeadInQueue
<1>6. InWindow(NrErrorRecovery(took))
  BY <1>3, <1>4, EstablishInWindow DEF NrErrorRecovery, SameNumbers
<1>7. d.state \in Multiframe /\ IsValidNR(took, f.nr) => InWindow(Ack(took, f.nr))
  BY <1>1, <1>3, <1>4, <1>5, AckInWindow
<1>8. d.state = LINK_ESTABLISHED /\ IsValidNR(took, f.nr) =>
        InWindow(AckEstablished(took, f.nr))
  BY <1>1, <1>3, <1>4, <1>5, AckEstablishedInWindow
<1>9. HandleIFrame(d, f) =
        IF Full(d) THEN full
        ELSE IF d.state \notin Multiframe THEN open
        ELSE IF ~IsValidNR(took, f.nr) THEN NrErrorRecovery(took)
        ELSE IF d.state = TIMER_RECOVERY \/ took.peer_receiver_busy
             THEN Ack(took, f.nr)
        ELSE AckEstablished(took, f.nr)
  BY DEF HandleIFrame, open, took, full
<1> QED BY <1>4, <1>6, <1>7, <1>8, <1>9

(* The half that RR, RNR and REJ share keeps the window and the validity   *)
(* of N(R).                                                                *)
LEMMA SupervisoryInWindow ==
  ASSUME NEW d \in Sockets, HeadInQueue(d), InWindow(d), NEW f \in Frames
  PROVE  LET e == Supervisory(d, f) IN
         /\ e \in Sockets /\ HeadInQueue(e) /\ InWindow(e)
         /\ e.state = d.state /\ InWindow(NrErrorRecovery(e))
         /\ f.nr \in SeqNos /\ (IsValidNR(d, f.nr) => IsValidNR(e, f.nr))
<1> DEFINE e == Supervisory(d, f)
<1>1. e \in Sockets /\ Same(d, e)
  BY SupervisoryType
<1> HIDE DEF e
<1>2. InWindow(e) /\ HeadInQueue(e) /\ e.state = d.state
  BY <1>1, SameKeepsWindow DEF Same, HeadInQueue
<1>3. InWindow(NrErrorRecovery(e))
  BY <1>1, <1>2, EstablishInWindow DEF NrErrorRecovery, SameNumbers
<1>4. f.nr \in SeqNos /\ (IsValidNR(d, f.nr) => IsValidNR(e, f.nr))
  BY <1>1, FrameFields DEF Same, IsValidNR
<1> QED BY <1>1, <1>2, <1>3, <1>4 DEF e

(* The supervisory frames of state 8 keep the window.                      *)
LEMMA HandleRecoveryInWindow ==
  ASSUME NEW d \in Sockets, HeadInQueue(d), InWindow(d), NEW f \in Frames,
         d.state = TIMER_RECOVERY
  PROVE  InWindow(HandleRecovery(d, f))
<1> DEFINE s1 == Supervisory(d, f)
           acked == Ack(s1, f.nr)
           back == ChangeState(acked, LINK_ESTABLISHED)
           timed == [back EXCEPT !.T200 = TRUE]
           idle == SuperviseIdle(back)
<1>1. /\ s1 \in Sockets /\ HeadInQueue(s1) /\ InWindow(s1)
      /\ s1.state = d.state /\ InWindow(NrErrorRecovery(s1))
      /\ f.nr \in SeqNos /\ (IsValidNR(d, f.nr) => IsValidNR(s1, f.nr))
  BY SupervisoryInWindow
<1> HIDE DEF s1
<1>2. /\ acked \in Sockets /\ HeadInQueue(acked)
      /\ (IsValidNR(d, f.nr) => InWindow(acked))
  BY <1>1, AckType, AckInWindow
<1> HIDE DEF acked
<1>3. back \in Sockets /\ SameLink(acked, back)
  BY <1>2, ChangeStateType
<1> HIDE DEF back
<1>4. timed \in Sockets /\ SameLink(back, timed) /\ idle \in Sockets /\ SameLink(back, idle)
  BY <1>3, TimersType, SuperviseIdleType
<1> HIDE DEF timed, idle
<1>5. HeadInQueue(timed) /\ HeadInQueue(idle)
  BY <1>2, <1>3, <1>4 DEF SameLink, HeadInQueue
<1>6. InWindow(InvokeRetransmission(timed)) /\ InWindow(InvokeRetransmission(idle))
  BY <1>4, <1>5, InvokeRetransmissionInWindow
<1>7. HandleRecovery(d, f) =
        IF ~IsValidNR(d, f.nr) THEN NrErrorRecovery(s1)
        ELSE IF f.cmd \/ ~f.pf THEN acked
        ELSE IF f.type = "RNR" THEN InvokeRetransmission(timed)
        ELSE InvokeRetransmission(idle)
  BY DEF HandleRecovery, s1, acked, back, timed, idle
<1> QED BY <1>1, <1>2, <1>6, <1>7

(* lapd_socket_handle_sframe_rr, _rnr and _rej keep the window.            *)
LEMMA HandleSFrameInWindow ==
  ASSUME NEW d, Base(d), InWindow(d), NEW f \in Frames
  PROVE  /\ InWindow(HandleRR(d, f))
         /\ InWindow(HandleRNR(d, f))
         /\ InWindow(HandleREJ(d, f))
<1> DEFINE e == Supervisory(d, f)
           a == Ack(e, f.nr)
           i == SuperviseIdle(a)
           r == InvokeRetransmission(a)
           t == [r EXCEPT !.T200 = TRUE, !.T203 = FALSE]
<1>0. d \in Sockets /\ HeadInQueue(d)
  BY DEF Base
<1>1. /\ e \in Sockets /\ HeadInQueue(e) /\ InWindow(e)
      /\ e.state = d.state /\ InWindow(NrErrorRecovery(e)) /\ f.nr \in SeqNos
  BY <1>0, SupervisoryInWindow
<1> HIDE DEF e
<1>2. a \in Sockets /\ HeadInQueue(a) /\ a.state = e.state
  BY <1>1, AckType
<1> HIDE DEF a
<1>3. i \in Sockets /\ SameLink(a, i)
  BY <1>2, SuperviseIdleType
<1> HIDE DEF i
<1>4. HeadInQueue(i)
  BY <1>2, <1>3 DEF SameLink, HeadInQueue
<1>5. r \in Sockets /\ InWindow(r) /\ InWindow(InvokeRetransmission(i))
      /\ r.state = a.state
  BY <1>2, <1>3, <1>4, InvokeRetransmissionType, InvokeRetransmissionInWindow
<1> HIDE DEF r
<1>6. t \in Sockets /\ SameLink(r, t) /\ t.state = r.state
  BY <1>5, TimersType
<1>7. t = [r EXCEPT !.T203 = FALSE, !.T200 = TRUE]
  BY <1>5 DEF Sockets
<1> HIDE DEF t
<1>8. d.state = LINK_ESTABLISHED => InWindow(t)
  BY <1>1, <1>2, <1>5, <1>6, SameInWindow, SameIsSameNumbers
<1>9. d.state = LINK_ESTABLISHED /\ IsValidNR(e, f.nr) =>
        InWindow(AckEstablished(e, f.nr))
  BY <1>1, AckEstablishedInWindow
<1>10. d.state = TIMER_RECOVERY => InWindow(HandleRecovery(d, f))
  BY <1>0, HandleRecoveryInWindow
<1>11. InWindow(HandleRR(d, f))
  BY <1>1, <1>9, <1>10 DEF HandleRR, e
<1>12. InWindow(HandleRNR(d, f))
  BY <1>1, <1>7, <1>8, <1>10 DEF HandleRNR, e, r, a
<1>13. InWindow(HandleREJ(d, f))
  BY <1>1, <1>5, <1>10 DEF HandleREJ, e, i, a
<1> QED BY <1>11, <1>12, <1>13

(* After V(S), V(R) and V(A) are zeroed nothing is outstanding, whatever   *)
(* the queue and sk_send_head are (UA and SABME handlers).                 *)
LEMMA UpInWindow ==
  ASSUME NEW d \in Sockets, HeadInQueue(d), d.v_s = d.v_a, NEW p \in DlPrimitives
  PROVE  /\ InWindow(d)
         /\ InWindow(DlPrimitive(d, p))
         /\ InWindow(RunIQueue(DlPrimitive(d, p)))
         /\ InWindow(IndicateReset(d))
<1>1. InWindow(d)
  BY NothingOutstanding
<1>2. DlPrimitive(d, p) \in Sockets /\ Same(d, DlPrimitive(d, p))
  BY DlPrimitiveType
<1>3. HeadInQueue(DlPrimitive(d, p)) /\ InWindow(DlPrimitive(d, p))
  BY <1>1, <1>2, SameKeepsWindow DEF Same, HeadInQueue
<1> QED BY <1>1, <1>2, <1>3, RunIQueueInWindow, IndicateResetIdle

(* lapd_socket_handle_uframe_ua keeps the window.                          *)
LEMMA HandleUAInWindow ==
  ASSUME NEW d, Base(d), InWindow(d), NEW f \in Frames
  PROVE  InWindow(HandleUA(d, f))
<1> DEFINE i == SuperviseIdle(d)
           z == ResetSequence(i)
           up == ChangeState(z, LINK_ESTABLISHED)
           off == [d EXCEPT !.T200 = FALSE]
           down == ChangeState(off, TEI_ASSIGNED)
<1>1. d \in Sockets /\ HeadInQueue(d)
  BY DEF Base
<1>2. i \in Sockets /\ SameLink(d, i) /\ off \in Sockets /\ SameLink(d, off)
  BY <1>1, SuperviseIdleType, TimersType
<1> HIDE DEF i, off
<1>3. z \in Sockets /\ z.v_s = z.v_a /\ z.wq = i.wq /\ z.head = i.head
  BY <1>2, ResetSequenceType
<1> HIDE DEF z
<1>4. up \in Sockets /\ SameLink(z, up)
  BY <1>3, ChangeStateType
<1>5. down \in Sockets /\ SameLink(off, down) /\ down.state = TEI_ASSIGNED
  BY <1>2, ChangeStateType
<1> HIDE DEF up, down
<1>6. HeadInQueue(up) /\ up.v_s = up.v_a
  BY <1>1, <1>2, <1>3, <1>4 DEF SameLink, HeadInQueue
<1>7. "ESTABLISH_CONFIRM" \in DlPrimitives /\ "RELEASE_CONFIRM" \in DlPrimitives
  BY DEF DlPrimitives
<1>8. /\ InWindow(RunIQueue(DlPrimitive(up, "ESTABLISH_CONFIRM")))
      /\ InWindow(IndicateReset(up))
  BY <1>4, <1>6, <1>7, UpInWindow
<1>9. SameNumbers(d, down)
  BY <1>2, <1>5 DEF SameLink, SameNumbers
<1>10. InWindow(DlPrimitive(down, "RELEASE_CONFIRM"))
  BY <1>5, <1>7, <1>9, DownInWindow
<1>11. InWindow(MdlErrorTei(d))
  BY <1>1, MdlErrorTeiInWindow
<1> QED BY <1>8, <1>10, <1>11 DEF HandleUA, up, z, i, down, off

(* lapd_socket_handle_uframe_disc keeps the window.                        *)
LEMMA HandleDISCInWindow ==
  ASSUME NEW d, Base(d), InWindow(d), NEW f \in Frames
  PROVE  InWindow(HandleDISC(d, f))
<1> DEFINE q == DiscardIQueue(d)
           u == SendU(q, "UA", f.pf)
           down == ChangeState(u, TEI_ASSIGNED)
           off1 == [down EXCEPT !.T200 = FALSE]
           off2 == [down EXCEPT !.T200 = FALSE, !.T203 = FALSE]
<1>1. d \in Sockets /\ f.pf \in BOOLEAN
  BY FrameFields DEF Base
<1>2. q \in Sockets /\ SameNumbers(d, q)
  BY <1>1, DiscardIQueueNumbers
<1> HIDE DEF q
<1>3. u \in Sockets /\ Same(q, u)
  BY <1>1, <1>2, SendUType
<1> HIDE DEF u
<1>4. down \in Sockets /\ SameLink(u, down) /\ down.state = TEI_ASSIGNED
  BY <1>3, ChangeStateType
<1> HIDE DEF down
<1>5a. off1 \in Sockets /\ SameLink(down, off1) /\ off1.state = TEI_ASSIGNED
  BY <1>4, TimersType
<1>5b. off2 \in Sockets /\ SameLink(down, off2) /\ off2.state = TEI_ASSIGNED
  BY <1>4, TimersType
<1>5. /\ off1 \in Sockets /\ SameLink(down, off1) /\ off1.state = TEI_ASSIGNED
      /\ off2 \in Sockets /\ SameLink(down, off2) /\ off2.state = TEI_ASSIGNED
  BY <1>5a, <1>5b
<1> HIDE DEF off1, off2
<1>6. SameNumbers(d, off1) /\ SameNumbers(d, off2)
  BY <1>2, <1>3, <1>4, <1>5 DEF Same, SameLink, SameNumbers
<1>7. /\ InWindow(DlPrimitive(off1, "RELEASE_INDICATION"))
      /\ InWindow(DlPrimitive(off2, "RELEASE_INDICATION"))
  BY <1>5, <1>6, DownInWindow DEF DlPrimitives
<1>8. InWindow(SendU(d, "DM", f.pf)) /\ InWindow(SendU(d, "UA", f.pf))
  BY <1>1, SendUType, SameKeepsWindow
<1> QED BY <1>7, <1>8 DEF HandleDISC, q, u, down, off1, off2

(* lapd_socket_handle_uframe_dm keeps the window.                          *)
LEMMA HandleDMInWindow ==
  ASSUME NEW d, Base(d), InWindow(d), NEW f \in Frames
  PROVE  InWindow(HandleDM(d, f))
<1> DEFINE q == DiscardIQueue(d)
           down(e) == ChangeState([e EXCEPT !.T200 = FALSE], TEI_ASSIGNED)
<1>1. d \in Sockets
  BY DEF Base
<1>2. q \in Sockets /\ SameNumbers(d, q) /\ SameNumbers(d, d)
  BY <1>1, DiscardIQueueNumbers DEF SameNumbers
<1> HIDE DEF q
<1>3. ASSUME NEW e \in Sockets
      PROVE  /\ down(e) \in Sockets /\ SameNumbers(e, down(e))
             /\ down(e).state = TEI_ASSIGNED
  <2> DEFINE off == [e EXCEPT !.T200 = FALSE]
  <2>1. off \in Sockets /\ SameLink(e, off)
    BY TimersType
  <2> HIDE DEF off
  <2>2. /\ ChangeState(off, TEI_ASSIGNED) \in Sockets
        /\ SameLink(off, ChangeState(off, TEI_ASSIGNED))
        /\ ChangeState(off, TEI_ASSIGNED).state = TEI_ASSIGNED
    BY <2>1, ChangeStateType
  <2> QED BY <2>1, <2>2 DEF SameLink, SameNumbers, off
<1> HIDE DEF down
<1>4. /\ down(q) \in Sockets /\ SameNumbers(d, down(q)) /\ down(q).state = TEI_ASSIGNED
      /\ down(d) \in Sockets /\ SameNumbers(d, down(d)) /\ down(d).state = TEI_ASSIGNED
  BY <1>1, <1>2, <1>3 DEF SameNumbers
<1>5. /\ InWindow(DlPrimitive(down(q), "RELEASE_INDICATION"))
      /\ InWindow(DlPrimitive(down(d), "RELEASE_CONFIRM"))
  BY <1>4, DownInWindow DEF DlPrimitives
<1>6. InWindow(Establish(d, TRUE)) /\ InWindow(Establish(d, FALSE))
  BY <1>1, <1>2, EstablishInWindow
<1> QED BY <1>5, <1>6 DEF HandleDM, down, q

(* lapd_socket_handle_uframe_sabme keeps the window: a link that is up has *)
(* its numbers reset, and the queue is numbered from zero again.           *)
LEMMA HandleSABMEInWindow ==
  ASSUME NEW d, Base(d), InWindow(d), NEW f \in Frames
  PROVE  InWindow(HandleSABME(d, f))
<1> DEFINE c == ClearExceptionConditions(d)
           z == ResetSequence(c)
           g == [z EXCEPT !.T203 = TRUE, !.state = LINK_ESTABLISHED]
           up == SendU(g, "UA", f.pf)
           v == SendU(d, "UA", f.pf)
           w == ClearExceptionConditions(v)
           i == SuperviseIdle(w)
           reset == ResetSequence(i)
<1>1. d \in Sockets /\ HeadInQueue(d) /\ f.pf \in BOOLEAN
  BY FrameFields DEF Base
<1>2. c \in Sockets /\ Same(d, c)
  BY <1>1, ClearExceptionType
<1> HIDE DEF c
<1>3. z \in Sockets /\ z.v_s = z.v_a /\ z.wq = c.wq /\ z.head = c.head
  BY <1>2, ResetSequenceType
<1> HIDE DEF z
<1>4a. g \in Sockets
  BY <1>3 DEF Sockets
<1>4b. g.v_s = z.v_s /\ g.v_a = z.v_a /\ g.wq = z.wq /\ g.head = z.head
  BY <1>3 DEF Sockets
<1> HIDE DEF g
<1>5. up \in Sockets /\ Same(g, up) /\ v \in Sockets /\ Same(d, v)
  BY <1>1, <1>4a, SendUType
<1> HIDE DEF up, v
<1>6. HeadInQueue(up) /\ up.v_s = up.v_a
  BY <1>1, <1>2, <1>3, <1>4b, <1>5 DEF Same, HeadInQueue
<1>7. "ESTABLISH_INDICATION" \in DlPrimitives
  BY DEF DlPrimitives
<1>8. InWindow(DlPrimitive(up, "ESTABLISH_INDICATION"))
  BY <1>5, <1>6, <1>7, UpInWindow
<1>9. w \in Sockets /\ Same(v, w)
  BY <1>5, ClearExceptionType
<1> HIDE DEF w
<1>10. i \in Sockets /\ SameLink(w, i)
  BY <1>9, SuperviseIdleType
<1> HIDE DEF i
<1>11. /\ reset \in Sockets /\ reset.v_s = reset.v_a
       /\ reset.wq = i.wq /\ reset.head = i.head
  BY <1>10, ResetSequenceType
<1> HIDE DEF reset
<1>12. HeadInQueue(reset)
  BY <1>1, <1>5, <1>9, <1>10, <1>11 DEF Same, SameLink, HeadInQueue
<1>13. InWindow(IndicateReset(reset))
  BY <1>7, <1>11, <1>12, UpInWindow
<1>14. InWindow(SendU(d, "DM", f.pf)) /\ InWindow(v)
  BY <1>1, <1>5, SendUType, SameKeepsWindow
<1> QED BY <1>8, <1>13, <1>14 DEF HandleSABME, up, g, z, c, reset, i, w, v

(* lapd_dlc_recv: every frame keeps the window.                            *)
LEMMA DlcRecvInWindow ==
  ASSUME NEW d, Base(d), InWindow(d), NEW f \in Frames
  PROVE  InWindow(DlcRecv(d, f))
<1>1. d \in Sockets /\ f.data \in Data \cup {NoData} /\ SameNumbers(d, d)
  BY FrameFields DEF Base, SameNumbers
<1>2. InWindow(HandleFRMR(d, f)) /\ InWindow(FrameReject(d))
  BY <1>1, EstablishInWindow DEF HandleFRMR, FrameReject
<1>3. InWindow(DataIndication(d, "UNIT_DATA", f.data))
  BY <1>1, DataIndicationType, SameKeepsWindow
<1> QED BY <1>2, <1>3, HandleIFrameInWindow, HandleSFrameInWindow,
        HandleSABMEInWindow, HandleDMInWindow, HandleDISCInWindow,
        HandleUAInWindow DEF DlcRecv

(* lapd_mdl_assign_request and lapd_mdl_error_response keep the window.    *)
LEMMA MdlInWindow ==
  ASSUME NEW d \in Sockets, InWindow(d)
  PROVE  InWindow(MdlAssignRequest(d)) /\ InWindow(MdlErrorResponse(d))
<1> DEFINE a == ChangeState(d, TEI_ASSIGNED)
           q == DiscardUiQueue(d)
           e == ChangeState(q, TEI_UNASSIGNED)
<1>1. a \in Sockets /\ SameLink(d, a) /\ a.state = TEI_ASSIGNED
  BY ChangeStateType
<1>2. q \in Sockets /\ Same(d, q)
  BY DiscardUiType
<1> HIDE DEF a, q
<1>3. e \in Sockets /\ SameLink(q, e) /\ e.state = TEI_UNASSIGNED
  BY <1>2, ChangeStateType
<1> HIDE DEF e
<1>4. SameNumbers(d, a) /\ SameNumbers(d, e) /\ SameNumbers(d, d)
  BY <1>1, <1>2, <1>3 DEF Same, SameLink, SameNumbers
<1>5. InWindow(a) /\ InWindow(e) /\ InWindow(DlPrimitive(e, "RELEASE_INDICATION"))
  BY <1>1, <1>3, <1>4, DownInWindow DEF DlPrimitives
<1>6. InWindow(Establish(d, TRUE))
  BY <1>4, EstablishInWindow
<1>7. InWindow(MdlAssignRequest(d))
  BY <1>5, <1>6 DEF MdlAssignRequest, a
<1>8. InWindow(MdlErrorResponse(d))
  BY <1>5 DEF MdlErrorResponse, e, q
<1> QED BY <1>7, <1>8

(* lapd_persistent_deactivation keeps the window.                          *)
LEMMA PersistentDeactivationInWindow ==
  ASSUME NEW d \in Sockets, InWindow(d)
  PROVE  InWindow(PersistentDeactivation(d))
<1> DEFINE idle(e) == ChangeState(DiscardUiQueue([e EXCEPT !.T200 = FALSE]),
                                  TEI_ASSIGNED)
           q == DiscardIQueue(d)
           a == idle(d)
           b == idle(q)
           b2 == [b EXCEPT !.T203 = FALSE]
           ui == DiscardUiQueue(d)
<1>1. ASSUME NEW e \in Sockets
      PROVE  /\ idle(e) \in Sockets /\ SameNumbers(e, idle(e))
             /\ idle(e).state = TEI_ASSIGNED
  <2> DEFINE off == [e EXCEPT !.T200 = FALSE]
             u == DiscardUiQueue(off)
  <2>1. off \in Sockets /\ SameLink(e, off)
    BY TimersType
  <2> HIDE DEF off
  <2>2. u \in Sockets /\ Same(off, u)
    BY <2>1, DiscardUiType
  <2> HIDE DEF u
  <2>3. /\ ChangeState(u, TEI_ASSIGNED) \in Sockets
        /\ SameLink(u, ChangeState(u, TEI_ASSIGNED))
        /\ ChangeState(u, TEI_ASSIGNED).state = TEI_ASSIGNED
    BY <2>2, ChangeStateType
  <2> QED BY <2>1, <2>2, <2>3 DEF Same, SameLink, SameNumbers, off, u
<1>2. q \in Sockets /\ SameNumbers(d, q)
  BY DiscardIQueueNumbers
<1>3. /\ a \in Sockets /\ SameNumbers(d, a) /\ a.state = TEI_ASSIGNED
      /\ b \in Sockets /\ SameNumbers(d, b) /\ b.state = TEI_ASSIGNED
  BY <1>1, <1>2 DEF SameNumbers
<1> HIDE DEF idle, a, b, q
<1>4. b2 \in Sockets /\ SameLink(b, b2) /\ b2.state = TEI_ASSIGNED
  BY <1>3, TimersType
<1> HIDE DEF b2
<1>5. SameNumbers(d, b2)
  BY <1>3, <1>4 DEF SameLink, SameNumbers
<1>6. /\ InWindow(DlPrimitive(a, "RELEASE_CONFIRM"))
      /\ InWindow(DlPrimitive(b, "RELEASE_INDICATION"))
      /\ InWindow(DlPrimitive(b2, "RELEASE_INDICATION"))
  BY <1>3, <1>4, <1>5, DownInWindow DEF DlPrimitives
<1>7. InWindow(ui)
  BY DiscardUiType, SameKeepsWindow
<1> QED BY <1>6, <1>7, MdlInWindow
        DEF PersistentDeactivation, a, b, b2, ui, idle, q

(* lapd_dl_establish_request and lapd_dl_release_request keep the window.  *)
LEMMA DlRequestInWindow ==
  ASSUME NEW d \in Sockets, InWindow(d)
  PROVE  InWindow(DlEstablishRequest(d)) /\ InWindow(DlReleaseRequest(d))
<1> DEFINE a == ChangeState(d, ESTABLISH_AWAITING_TEI)
           q == DiscardIQueue(d)
           u == SendU(q, "DISC", TRUE)
           t == IF d.state = LINK_ESTABLISHED THEN FALSE ELSE u.T203
           e == [u EXCEPT !.retrans_cnt = 0, !.T200 = TRUE,
                          !.T203 = t, !.state = AWAITING_RELEASE]
<1>1. a \in Sockets /\ SameLink(d, a) /\ a.state = ESTABLISH_AWAITING_TEI
  BY ChangeStateType
<1>2. q \in Sockets /\ SameNumbers(d, q) /\ SameNumbers(d, d)
  BY DiscardIQueueNumbers DEF SameNumbers
<1> HIDE DEF a, q
<1>3. InWindow(a) /\ InWindow(Establish(d, TRUE)) /\ InWindow(Establish(q, TRUE))
  BY <1>1, <1>2, EstablishInWindow, SameInWindow DEF SameLink, SameNumbers
<1>4. u \in Sockets /\ Same(q, u)
  BY <1>2, SendUType
<1> HIDE DEF u, t
<1>5. SameNumbers(u, e) /\ e.state = AWAITING_RELEASE
  BY <1>4 DEF Sockets, SameNumbers
<1> HIDE DEF e
<1>6. SameNumbers(d, e)
  BY <1>2, <1>4, <1>5 DEF Same, SameNumbers
<1>7. InWindow(e)
  BY <1>5, <1>6, SameInWindow
<1>8. InWindow(DlPrimitive(d, "RELEASE_CONFIRM"))
  BY DlPrimitiveType, SameKeepsWindow DEF DlPrimitives
<1>9. InWindow(DlEstablishRequest(d))
  BY <1>3 DEF DlEstablishRequest, a, q
<1>10. InWindow(DlReleaseRequest(d))
  BY <1>7, <1>8 DEF DlReleaseRequest, e, t, u, q
<1> QED BY <1>9, <1>10

(* lapd_dl_data_request keeps the window.                                  *)
LEMMA DlDataRequestInWindow ==
  ASSUME NEW d \in Sockets, HeadInQueue(d), InWindow(d), NEW x \in Data
  PROVE  InWindow(DlDataRequest(d, x))
<1>1. QueueIFrame(d, x) \in Sockets /\ HeadInQueue(QueueIFrame(d, x))
  BY QueueIFrameType
<1>2. InWindow(QueueIFrame(d, x))
  BY QueueIFrameInWindow
<1>3. InWindow(RunIQueue(QueueIFrame(d, x)))
  BY <1>1, <1>2, RunIQueueInWindow
<1> QED BY <1>2, <1>3 DEF DlDataRequest

(* lapd_dl_unit_data_request keeps the window.                             *)
LEMMA DlUnitDataRequestInWindow ==
  ASSUME NEW d \in Sockets, InWindow(d), NEW x \in Data
  PROVE  InWindow(DlUnitDataRequest(d, x))
<1> DEFINE w == Append(d.uq, x)
           q == [d EXCEPT !.uq = w]
           e == ChangeState(q, AWAITING_TEI)
           r == RunUiQueue(q)
<1>1. d.uq \in Seq(Data)
  BY DEF Sockets
<1>2. w \in Seq(Data)
  BY <1>1
<1> HIDE DEF w
<1>3. q \in Sockets
  BY <1>2 DEF Sockets
<1>4. Same(d, q)
  BY DEF Sockets, Same
<1> HIDE DEF q
<1>5. r \in Sockets /\ Same(q, r)
  BY <1>3, RunUiQueueType
<1>6. e \in Sockets /\ SameLink(q, e) /\ e.state = AWAITING_TEI
  BY <1>3, ChangeStateType
<1> HIDE DEF r, e
<1>7. InWindow(q) /\ InWindow(r)
  BY <1>4, <1>5, SameKeepsWindow
<1>8. InWindow(e)
  BY <1>6, <1>7, SameInWindow, SameIsSameNumbers
<1> QED BY <1>7, <1>8 DEF DlUnitDataRequest, e, r, q, w

(* lapd_release keeps the window.                                          *)
LEMMA ReleaseInWindow ==
  ASSUME NEW d \in Sockets, InWindow(d)
  PROVE  InWindow(Release(d))
<1> DEFINE a == [d EXCEPT !.sk = "CLOSING"]
           b == [d EXCEPT !.sk = "CLOSED", !.hashed = FALSE]
<1>1. a \in Sockets
  BY DEF Sockets
<1>2. /\ SameNumbers(d, a) /\ a.state = d.state /\ a.wq = d.wq /\ a.head = d.head
      /\ SameNumbers(d, b) /\ b.state = d.state /\ b.wq = d.wq /\ b.head = d.head
  BY DEF Sockets, SameNumbers
<1> HIDE DEF a, b
<1>3. InWindow(a) /\ InWindow(b)
  BY <1>2, SameInWindow
<1>4. InWindow(DlReleaseRequest(a))
  BY <1>1, <1>3, DlRequestInWindow
<1> QED BY <1>3, <1>4 DEF Release, a, b

(* lapd_timer_T200 keeps the window: recovery starts with what is          *)
(* outstanding still outstanding.                                          *)
LEMMA TimerT200InWindow ==
  ASSUME NEW d, Base(d), InWindow(d)
  PROVE  InWindow(TimerT200(d))
<1> DEFINE e == [d EXCEPT !.T200 = FALSE]
           q == DiscardIQueue(e)
           c == ChangeState(q, TEI_ASSIGNED)
           m == MdlErrorTei(c)
           g == ChangeState(e, TEI_ASSIGNED)
           p == DlPrimitive(g, "RELEASE_CONFIRM")
           n == TransmitEnquiry(e)
           n1 == [n EXCEPT !.retrans_cnt = 1, !.state = TIMER_RECOVERY]
           n2 == [n EXCEPT !.retrans_cnt = @ + 1]
<1>0. d \in Sockets /\ d.retrans_cnt <= N200
  BY DEF Base
<1>1. e \in Sockets /\ SameLink(d, e) /\ e.state = d.state
  BY <1>0, TimersType
<1> HIDE DEF e
<1>2. InWindow(e) /\ SameNumbers(e, e)
  BY <1>1, SameInWindow, SameIsSameNumbers DEF SameNumbers
<1>3. "RELEASE_INDICATION" \in DlPrimitives /\ "RELEASE_CONFIRM" \in DlPrimitives
  BY DEF DlPrimitives
<1>4. InWindow(Establish(e, FALSE))
  BY <1>1, <1>2, EstablishInWindow
<1>5. InWindow(DlPrimitive(m, "RELEASE_INDICATION"))
  <2>1. q \in Sockets /\ SameNumbers(e, q)
    BY <1>1, DiscardIQueueNumbers
  <2>2. q.wq = << >> /\ HeadInQueue(q) /\ q.retrans_cnt = e.retrans_cnt
    BY <1>1, DiscardIQueueType
  <2> HIDE DEF q
  <2>3. c \in Sockets /\ SameLink(q, c) /\ c.state = TEI_ASSIGNED
    BY <2>1, ChangeStateType
  <2> HIDE DEF c
  <2>4. InWindow(c)
    BY <1>2, <2>1, <2>3, SameInWindow DEF SameLink, SameNumbers
  <2>5. InWindow(m)
    BY <2>3, <2>4, MdlErrorTeiInWindow
  <2>6. Base(c)
    BY <1>0, <1>1, <2>2, <2>3 DEF SameLink, Base, HeadInQueue, HoldsNoData
  <2>7. m \in Sockets
    BY <2>6, MdlErrorTeiKeeps DEF Keeps, Base
  <2> HIDE DEF m
  <2> QED BY <1>3, <2>5, <2>7, DlPrimitiveType, SameKeepsWindow
<1>6. InWindow(MdlErrorTei(p))
  <2>1. g \in Sockets /\ SameLink(e, g) /\ g.state = TEI_ASSIGNED
    BY <1>1, ChangeStateType
  <2> HIDE DEF g
  <2>2. InWindow(p) /\ p \in Sockets
    BY <1>2, <1>3, <2>1, DownInWindow, SameIsSameNumbers, DlPrimitiveType
  <2> HIDE DEF p
  <2> QED BY <2>2, MdlErrorTeiInWindow
<1>7. ASSUME NEW f \in {"SABME", "DISC"}
      PROVE  InWindow(Repeat(e, f))
  <2> DEFINE u == SendU(e, f, TRUE)
             a == [u EXCEPT !.retrans_cnt = @ + 1, !.T200 = TRUE]
  <2>1. u \in Sockets /\ Same(e, u)
    BY <1>1, SendUType
  <2> HIDE DEF u
  <2>2. /\ SameNumbers(u, a) /\ a.state = u.state
        /\ a.wq = u.wq /\ a.head = u.head
    BY <2>1 DEF Sockets, SameNumbers
  <2> HIDE DEF a
  <2>3. InWindow(a)
    BY <1>2, <2>1, <2>2, SameKeepsWindow, SameInWindow
  <2> QED BY <2>3 DEF Repeat, a, u
<1>8. n \in Sockets /\ SameLink(e, n) /\ n.state = e.state
  BY <1>1, TransmitEnquiryType
<1> HIDE DEF n
<1>9. /\ SameNumbers(n, n1) /\ n1.wq = n.wq /\ n1.head = n.head
      /\ SameNumbers(n, n2) /\ n2.wq = n.wq /\ n2.head = n.head
      /\ n2.state = n.state
  BY <1>8 DEF Sockets, SameNumbers
<1> HIDE DEF n1, n2
<1>10. InWindow(n)
  BY <1>2, <1>8, SameInWindow, SameIsSameNumbers
<1>11. (d.state \in Multiframe => InWindow(n1)) /\ InWindow(n2)
  BY <1>1, <1>8, <1>9, <1>10, SameInWindow
<1> QED BY <1>2, <1>4, <1>5, <1>6, <1>7, <1>11
        DEF TimerT200, m, c, q, p, g, n1, n2, n, e

(* lapd_timer_T203, whether or not it finds the socket owned, and          *)
(* lapd_unhash_timer keep the window.                                      *)
LEMMA OtherTimersInWindow ==
  ASSUME NEW d \in Sockets, InWindow(d)
  PROVE  /\ InWindow(TimerT203(d))
         /\ InWindow(TimerT203Owned(d))
         /\ InWindow(UnhashTimer(d))
<1> DEFINE e == [d EXCEPT !.T203 = FALSE]
           n == TransmitEnquiry(e)
           a == [n EXCEPT !.retrans_cnt = 0, !.state = TIMER_RECOVERY]
<1>1. e \in Sockets /\ SameLink(d, e) /\ e.state = d.state
  BY TimersType
<1> HIDE DEF e
<1>2. n \in Sockets /\ SameLink(e, n) /\ n.state = e.state
  BY <1>1, TransmitEnquiryType
<1> HIDE DEF n
<1>3. SameNumbers(n, a) /\ a.wq = n.wq /\ a.head = n.head
  BY <1>2 DEF Sockets, SameNumbers
<1> HIDE DEF a
<1>4. InWindow(e) /\ InWindow(n)
  BY <1>1, <1>2, SameInWindow, SameIsSameNumbers
<1>5. d.state = LINK_ESTABLISHED => InWindow(a)
  BY <1>1, <1>2, <1>3, <1>4, SameInWindow
<1>6. InWindow(TimerT203(d))
  BY <1>4, <1>5 DEF TimerT203, a, n, e
<1> DEFINE g == TimerT203Owned(d)
           h == UnhashTimer(d)
<1>7. SameNumbers(d, g) /\ g.state = d.state /\ g.wq = d.wq /\ g.head = d.head
  BY DEF TimerT203Owned, Sockets, SameNumbers
<1>8. SameNumbers(d, h) /\ h.state = d.state /\ h.wq = d.wq /\ h.head = d.head
  BY DEF UnhashTimer, Sockets, SameNumbers
<1> HIDE DEF g, h
<1>9. InWindow(g)
  BY <1>7, SameInWindow
<1>10. InWindow(h)
  BY <1>8, SameInWindow
<1> QED BY <1>6, <1>9, <1>10 DEF g, h

-----------------------------------------------------------------------------
(* The specification.                                                      *)

(* The frames leave the socket at the end of a step.                       *)
LEMMA StepInWindow ==
  ASSUME NEW d \in Sockets, InWindow(d), Step(d)
  PROVE  InWindow(s')
<1> DEFINE e == [d EXCEPT !.tx = << >>]
<1>1. << >> \in Seq(Frames)
  OBVIOUS
<1>2. Same(d, e)
  BY <1>1, TxType
<1>3. s' = e
  BY DEF Step
<1> HIDE DEF e
<1> QED BY <1>2, <1>3, SameKeepsWindow

(* A frame handled from the backlog keeps the window.                      *)
LEMMA RecvBacklogInWindow ==
  ASSUME IInv, InWindow(s), NEW f \in PeerFrames, NEW late, RecvBacklog(f, late)
  PROVE  InWindow(s')
<1> DEFINE t2 == s.T200 /\ late # "T200"
           t3 == s.T203 /\ late # "T203"
           o == [s EXCEPT !.owned = TRUE, !.T200 = t2, !.T203 = t3]
           e == DlcRecv(o, f)
           t4 == e.T200 \/ late # "none"
           g == [e EXCEPT !.owned = FALSE, !.T200 = t4]
<1>1. s \in Sockets /\ f \in Frames
  BY PeerFramesAreFrames DEF IInv, Base
<1>2. t2 \in BOOLEAN /\ t3 \in BOOLEAN
  OBVIOUS
<1> HIDE DEF t2, t3
<1>3a. o \in Sockets
  BY <1>1, <1>2 DEF Sockets
<1>3b. /\ SameNumbers(s, o) /\ o.state = s.state /\ o.wq = s.wq /\ o.head = s.head
       /\ o.retrans_cnt = s.retrans_cnt
  BY <1>1 DEF Sockets, SameNumbers
<1> HIDE DEF o
<1>4. Base(o) /\ InWindow(o)
  BY <1>3a, <1>3b, SameInWindow DEF IInv, Base, HeadInQueue, HoldsNoData
<1>5. e \in Sockets /\ InWindow(e)
  BY <1>1, <1>4, DlcRecvKeeps, DlcRecvInWindow DEF Keeps, Base
<1> HIDE DEF e
<1>6. t4 \in BOOLEAN
  BY <1>5
<1>7. Step(g)
  BY DEF RecvBacklog, g, t4, e, o, t2, t3
<1> HIDE DEF t4
<1>8a. g \in Sockets
  BY <1>5, <1>6 DEF Sockets
<1>8b. SameNumbers(e, g) /\ g.state = e.state /\ g.wq = e.wq /\ g.head = e.head
  BY <1>5 DEF Sockets, SameNumbers
<1> HIDE DEF g
<1>9. InWindow(g)
  BY <1>5, <1>8b, SameInWindow
<1> QED BY <1>7, <1>8a, <1>9, StepInWindow

(* Every step keeps the window.                                            *)
LEMMA NextInWindow ==
  ASSUME IInv, InWindow(s), [Next]_s
  PROVE  InWindow(s')
<1>0. Base(s) /\ s \in Sockets /\ HeadInQueue(s)
  BY DEF IInv, Base
<1>1. ASSUME NEW f \in PeerFrames, RecvFrame(f) PROVE InWindow(s')
  <2>1. DlcRecv(s, f) \in Sockets /\ InWindow(DlcRecv(s, f))
    BY <1>0, PeerFramesAreFrames, DlcRecvKeeps, DlcRecvInWindow DEF Keeps, Base
  <2> QED BY <1>1, <2>1, StepInWindow DEF RecvFrame
<1>2. ASSUME NEW f \in PeerFrames, NEW late, RecvBacklog(f, late)
      PROVE  InWindow(s')
  BY <1>2, RecvBacklogInWindow
<1>3. CASE BacklogMdl
  <2> DEFINE m == MdlErrorTei(s)
             e == [m EXCEPT !.mdl = FALSE]
  <2>1. m \in Sockets /\ InWindow(m)
    BY <1>0, MdlErrorTeiKeeps, MdlErrorTeiInWindow DEF Keeps, Base
  <2> HIDE DEF m
  <2>2a. e \in Sockets
    BY <2>1 DEF Sockets
  <2>2b. Same(m, e)
    BY <2>1 DEF Sockets, Same
  <2>3. Step(e)
    BY <1>3 DEF BacklogMdl, e, m
  <2> HIDE DEF e
  <2> QED BY <2>1, <2>2a, <2>2b, <2>3, SameKeepsWindow, StepInWindow
<1>4. CASE Connect
  <2>1. DlEstablishRequest(s) \in Sockets /\ InWindow(DlEstablishRequest(s))
    BY <1>0, DlEstablishRequestKeeps, DlRequestInWindow DEF Keeps, Base
  <2> QED BY <1>4, <2>1, StepInWindow DEF Connect
<1>5. CASE Shutdown
  <2>1. DlReleaseRequest(s) \in Sockets /\ InWindow(DlReleaseRequest(s))
    BY <1>0, DlReleaseRequestKeeps, DlRequestInWindow DEF Keeps, Base
  <2> QED BY <1>5, <2>1, StepInWindow DEF Shutdown
<1>6. CASE RecvMsg
  <2> DEFINE r == Tail(s.rx)
             e == [s EXCEPT !.rx = r]
  <2>1. s.rx \in Seq(Received) /\ s.rx # << >>
    BY <1>0, <1>6 DEF Sockets, RecvMsg
  <2>2. r \in Seq(Received)
    BY <2>1
  <2>3. Step(e)
    BY <1>6 DEF RecvMsg
  <2> HIDE DEF r
  <2>4. e \in Sockets /\ Same(s, e)
    BY <1>0, <2>2, RxType
  <2> HIDE DEF e
  <2> QED BY <2>3, <2>4, SameKeepsWindow, StepInWindow
<1>7. CASE Close
  <2>1. Release(s) \in Sockets /\ InWindow(Release(s))
    BY <1>0, ReleaseKeeps, ReleaseInWindow DEF Keeps, Base
  <2> QED BY <1>7, <2>1, StepInWindow DEF Close
<1>8. ASSUME NEW x \in Data, SendMsg(x) PROVE InWindow(s')
  <2>1. DlDataRequest(s, x) \in Sockets /\ InWindow(DlDataRequest(s, x))
    BY <1>0, DlDataRequestKeeps, DlDataRequestInWindow DEF Keeps, Base
  <2> QED BY <1>8, <2>1, StepInWindow DEF SendMsg
<1>9. ASSUME NEW x \in Data, SendMsgOob(x) PROVE InWindow(s')
  <2>1. DlUnitDataRequest(s, x) \in Sockets /\ InWindow(DlUnitDataRequest(s, x))
    BY <1>0, DlUnitDataRequestKeeps, DlUnitDataRequestInWindow DEF Keeps, Base
  <2> QED BY <1>9, <2>1, StepInWindow DEF SendMsgOob
<1>10. CASE MdlAssign
  <2>1. MdlAssignRequest(s) \in Sockets /\ InWindow(MdlAssignRequest(s))
    BY <1>0, MdlAssignRequestKeeps, MdlInWindow DEF Keeps, Base
  <2> QED BY <1>10, <2>1, StepInWindow DEF MdlAssign
<1>11. CASE MdlError
  <2>1. MdlErrorResponse(s) \in Sockets /\ InWindow(MdlErrorResponse(s))
    BY <1>0, MdlErrorResponseKeeps, MdlInWindow DEF Keeps, Base
  <2> QED BY <1>11, <2>1, StepInWindow DEF MdlError
<1>12. CASE MdlRemove
  <2>1. MdlRemoveRequest(s) \in Sockets /\ InWindow(MdlRemoveRequest(s))
    BY <1>0, MdlRemoveRequestKeeps, MdlRemoveRequestInWindow DEF Keeps, Base
  <2> QED BY <1>12, <2>1, StepInWindow DEF MdlRemove
<1>13. CASE Deactivate
  <2>1. PersistentDeactivation(s) \in Sockets /\ InWindow(PersistentDeactivation(s))
    BY <1>0, PersistentDeactivationKeeps, PersistentDeactivationInWindow
       DEF Keeps, Base
  <2> QED BY <1>13, <2>1, StepInWindow DEF Deactivate
<1>14. CASE T200
  <2>1. TimerT200(s) \in Sockets /\ InWindow(TimerT200(s))
    BY <1>0, TimerT200Keeps, TimerT200InWindow DEF Keeps, Base
  <2> QED BY <1>14, <2>1, StepInWindow DEF T200
<1>15. CASE T203 \/ T203Owned \/ Unhash
  <2>1. /\ TimerT203(s) \in Sockets /\ InWindow(TimerT203(s))
        /\ TimerT203Owned(s) \in Sockets /\ InWindow(TimerT203Owned(s))
        /\ UnhashTimer(s) \in Sockets /\ InWindow(UnhashTimer(s))
    BY <1>0, TimerT203Keeps, TimerT203OwnedKeeps, UnhashTimerKeeps,
       OtherTimersInWindow DEF Keeps, Base
  <2> QED BY <1>15, <2>1, StepInWindow DEF T203, T203Owned, Unhash
<1>16. CASE UNCHANGED s
  BY <1>16
<1> QED BY <1>1, <1>2, <1>3, <1>4, <1>5, <1>6, <1>7, <1>8, <1>9, <1>10,
        <1>11, <1>12, <1>13, <1>14, <1>15, <1>16 DEF Next

(* The inductive invariant: what DatalinkSocketProofs shows of the socket, *)
(* and its window.                                                         *)
WindowInv == IInv /\ InWindow(s)

(* Every reachable state of the socket satisfies it.                       *)
LEMMA WindowInvariant ==
  Spec => []WindowInv
<1>1. Init => WindowInv
  <2> SUFFICES ASSUME Init PROVE WindowInv
    OBVIOUS
  <2>1. IInv
    BY InitInvariant
  <2>2. s \in Sockets /\ HeadInQueue(s)
    BY <2>1 DEF IInv, Base
  <2>3. s.v_s = s.v_a
    BY DEF Init, InitSocket
  <2> QED BY <2>1, <2>2, <2>3, NothingOutstanding DEF WindowInv
<1>2. WindowInv /\ [Next]_s => WindowInv'
  <2> SUFFICES ASSUME WindowInv, [Next]_s PROVE WindowInv'
    OBVIOUS
  <2>1. IInv' /\ InWindow(s')
    BY NextInvariant, NextInWindow DEF WindowInv
  <2> QED BY <2>1 DEF WindowInv, InWindow, Numbered, Outstanding, SentLen
<1> QED BY <1>1, <1>2, PTL DEF Spec

(* At most k I-frames are unacknowledged: no N(R), however wrong, makes    *)
(* lapd_is_valid_nr and lapd_run_i_queue disagree about the window.        *)
THEOREM WindowIsRespected ==
  Spec => []WindowRespected
<1>1. WindowInv => WindowRespected
  BY DEF WindowInv, InWindow, WindowRespected
<1> QED BY <1>1, WindowInvariant, PTL

(* Every unacknowledged I-frame is still in sk_write_queue under its       *)
(* number, so that a REJ or the end of timer recovery can send it again:   *)
(* no acknowledgement, reset, release or new frame drops or renumbers one. *)
THEOREM SentFramesAreKept ==
  Spec => []Retransmittable
<1>1. WindowInv => Retransmittable
  BY DEF WindowInv, InWindow, Numbered, Retransmittable
<1> QED BY <1>1, WindowInvariant, PTL
=============================================================================
