------------------------ MODULE DatalinkSocketProofs ------------------------
(***************************************************************************)
(* Proofs about DatalinkSocket, for every modulus, window, N200, receive   *)
(* buffer and set of data, and whatever the peer sends.                    *)
(*                                                                         *)
(* The handlers are compositions of a few helpers.  Each helper has one    *)
(* lemma: it maps sockets to sockets, and says what becomes of the fields  *)
(* the invariant is about.  Each handler then has one lemma, which uses    *)
(* its helpers by their lemmas and not by their definitions.               *)
(***************************************************************************)
EXTENDS DatalinkSocket, WellFoundedInduction, SequenceTheorems, TLAPS

(* The fields the invariant is about; most helpers leave them all alone.   *)
Same(d, e) ==
  /\ e.state = d.state
  /\ e.T200 = d.T200 /\ e.T203 = d.T203
  /\ e.v_s = d.v_s /\ e.v_a = d.v_a
  /\ e.retrans_cnt = d.retrans_cnt
  /\ e.wq = d.wq /\ e.head = d.head
  /\ e.te = d.te /\ e.owned = d.owned /\ e.sk = d.sk /\ e.k = d.k

(* Same, but for the timers and the state.                                 *)
SameLink(d, e) ==
  /\ e.v_s = d.v_s /\ e.v_a = d.v_a
  /\ e.retrans_cnt = d.retrans_cnt
  /\ e.wq = d.wq /\ e.head = d.head
  /\ e.te = d.te /\ e.owned = d.owned /\ e.sk = d.sk /\ e.k = d.k

HeadInQueue(d) == d.head <= Len(d.wq)

(* The inductive invariant of a socket is Base and IsSupervised.  They are *)
(* apart because a frame handled from the backlog may find its timer       *)
(* already expired: Base survives that, and the timer is set after it.     *)
Base(d) ==
  /\ d \in Sockets
  /\ HeadInQueue(d)
  /\ d.retrans_cnt <= N200
  /\ HoldsNoData(d)

(* What every handler does to the invariant.                               *)
Keeps(d, e) ==
  /\ Base(e)
  /\ IsSupervised(d) => IsSupervised(e)
  /\ e.owned = d.owned

-----------------------------------------------------------------------------
(* Sequence numbers.                                                       *)

(* A number reduced by the modulus is a sequence number.                   *)
LEMMA ModRange ==
  ASSUME NEW a \in Int
  PROVE  a % Mod \in SeqNos
BY ModAssumption DEF SeqNos

(* A sequence number lies below the modulus.                               *)
LEMMA SeqNoRange ==
  ASSUME NEW a \in SeqNos
  PROVE  a \in Int /\ 0 <= a /\ a < Mod
BY ModAssumption DEF SeqNos

(* Reducing a sequence number leaves it alone.                             *)
LEMMA ModSmall ==
  ASSUME NEW a \in SeqNos
  PROVE  a % Mod = a
BY ModAssumption DEF SeqNos

(* A valid N(R) when nothing is outstanding is V(A) itself.                *)
LEMMA DistanceZero ==
  ASSUME NEW a \in SeqNos, NEW b \in SeqNos,
         (a - b + Mod) % Mod <= 0
  PROVE  a = b
<1>1. CASE a > b
  <2>1. a - b \in SeqNos /\ a - b > 0
    BY <1>1, ModAssumption DEF SeqNos
  <2>2. (a - b + Mod) % Mod = a - b
    BY <2>1, ModAssumption, SeqNoRange DEF SeqNos
  <2> QED BY <2>1, <2>2, ModAssumption DEF SeqNos
<1>2. CASE a < b
  <2>1. a - b + Mod \in SeqNos /\ a - b + Mod > 0
    BY <1>2, ModAssumption DEF SeqNos
  <2>2. (a - b + Mod) % Mod = a - b + Mod
    BY <2>1, ModSmall
  <2> QED BY <2>1, <2>2, ModAssumption DEF SeqNos
<1> QED BY <1>1, <1>2, SeqNoRange

(* A nonempty set of naturals has a least element.                         *)
LEMMA LeastExists ==
  ASSUME NEW T, T \subseteq Nat, T # {}
  PROVE  \E i \in T : \A j \in T : i <= j
<1>1. PICK i \in T : \A j \in T : ~ (<< j, i >> \in OpToRel(<, Nat))
  BY NatLessThanWellFounded, WFMin
<1>2. ASSUME NEW j \in T
      PROVE  i <= j
  <2>1. << j, i >> \in Nat \X Nat /\ i \in Nat /\ j \in Nat
    OBVIOUS
  <2>2. ~ (j < i)
    BY <1>1, <2>1, Zenon DEF OpToRel
  <2> QED BY <2>1, <2>2
<1> QED BY <1>2

-----------------------------------------------------------------------------
(* Helpers that change none of these fields.                               *)

(* A socket with other frames to send is a socket, the same but for them   *)
(* (lapd_ph_data_request).                                                 *)
LEMMA TxType ==
  ASSUME NEW d \in Sockets, NEW x \in Seq(Frames)
  PROVE  [d EXCEPT !.tx = x] \in Sockets /\ Same(d, [d EXCEPT !.tx = x])
BY DEF Sockets, Same

(* A socket with another receive queue is a socket, the same but for it    *)
(* (lapd_recvmsg, lapd_dl_primitive).                                      *)
LEMMA RxType ==
  ASSUME NEW d \in Sockets, NEW x \in Seq(Received)
  PROVE  [d EXCEPT !.rx = x] \in Sockets /\ Same(d, [d EXCEPT !.rx = x])
BY DEF Sockets, Same

(* lapd_ph_data_request changes nothing the invariant is about.            *)
LEMMA SendType ==
  ASSUME NEW d \in Sockets, NEW f \in Frames
  PROVE  Send(d, f) \in Sockets /\ Same(d, Send(d, f))
<1>1. d.tx \in Seq(Frames)
  BY DEF Sockets
<1>2. Append(d.tx, f) \in Seq(Frames)
  BY <1>1
<1> QED BY <1>2, TxType DEF Send

(* Neither does lapd_send_sframe.                                          *)
LEMMA SendSType ==
  ASSUME NEW d \in Sockets, NEW f \in {"RR", "RNR", "REJ"},
         NEW cmd \in BOOLEAN, NEW pf \in BOOLEAN
  PROVE  SendS(d, f, cmd, pf) \in Sockets /\ Same(d, SendS(d, f, cmd, pf))
<1>1. d.v_r \in SeqNos
  BY DEF Sockets
<1>2. SFrame(f, cmd, pf, d.v_r) \in Frames
  BY <1>1, ModAssumption DEF SFrame, Frames, FrameTypes, SeqNos
<1> QED BY <1>2, SendType DEF SendS

(* Neither does lapd_send_uframe.                                          *)
LEMMA SendUType ==
  ASSUME NEW d \in Sockets, NEW f \in {"SABME", "DISC", "UA", "DM"},
         NEW pf \in BOOLEAN
  PROVE  SendU(d, f, pf) \in Sockets /\ Same(d, SendU(d, f, pf))
<1>1. UFrame(f, pf) \in Frames
  BY ModAssumption DEF UFrame, Frames, FrameTypes, SeqNos
<1> QED BY <1>1, SendType DEF SendU

(* Neither do lapd_dl_data_indication and lapd_dl_unit_data_indication.    *)
LEMMA DataIndicationType ==
  ASSUME NEW d \in Sockets,
         NEW kind \in DlPrimitives \cup {"DATA", "UNIT_DATA"},
         NEW x \in Data \cup {NoData}
  PROVE  /\ DataIndication(d, kind, x) \in Sockets
         /\ Same(d, DataIndication(d, kind, x))
<1>1. d.rx \in Seq(Received)
  BY DEF Sockets
<1>2. [kind |-> kind, data |-> x] \in Received
  BY DEF Received
<1>3. Append(d.rx, [kind |-> kind, data |-> x]) \in Seq(Received)
  BY <1>1, <1>2
<1> QED BY <1>3, RxType DEF DataIndication

(* Neither does lapd_dl_primitive, whether it queues the primitive or      *)
(* schedules the unhash.                                                   *)
LEMMA DlPrimitiveType ==
  ASSUME NEW d \in Sockets, NEW p \in DlPrimitives
  PROVE  DlPrimitive(d, p) \in Sockets /\ Same(d, DlPrimitive(d, p))
<1>1. [d EXCEPT !.unhash = TRUE] \in Sockets /\ Same(d, [d EXCEPT !.unhash = TRUE])
  BY DEF Sockets, Same
<1>2. /\ DataIndication(d, p, NoData) \in Sockets
      /\ Same(d, DataIndication(d, p, NoData))
  BY DataIndicationType
<1> QED BY <1>1, <1>2 DEF DlPrimitive, DataIndication

(* lapd_clear_exception_conditions_procedure changes only the busy and     *)
(* reject flags.                                                           *)
LEMMA ClearExceptionType ==
  ASSUME NEW d \in Sockets
  PROVE  /\ ClearExceptionConditions(d) \in Sockets
         /\ Same(d, ClearExceptionConditions(d))
BY DEF ClearExceptionConditions, Sockets, Same

(* lapd_discard_ui_queue empties u_queue only.                             *)
LEMMA DiscardUiType ==
  ASSUME NEW d \in Sockets
  PROVE  DiscardUiQueue(d) \in Sockets /\ Same(d, DiscardUiQueue(d))
<1>1. << >> \in Seq(Data)
  OBVIOUS
<1> QED BY <1>1 DEF DiscardUiQueue, Sockets, Same

(* The answer to a poll is a supervisory frame                             *)
(* (lapd_enquiry_response_procedure).                                      *)
LEMMA BusyOrReadyType ==
  ASSUME NEW d \in Sockets
  PROVE  BusyOrReady(d) \in {"RR", "RNR", "REJ"}
BY DEF BusyOrReady

(* lapd_enquiry_response_procedure only sends.                             *)
LEMMA EnquiryResponseType ==
  ASSUME NEW d \in Sockets
  PROVE  EnquiryResponse(d) \in Sockets /\ Same(d, EnquiryResponse(d))
BY SendSType, BusyOrReadyType DEF EnquiryResponse

(* Setting own_receiver_busy changes nothing else.                         *)
LEMMA OwnBusyType ==
  ASSUME NEW d \in Sockets, NEW b \in BOOLEAN
  PROVE  /\ [d EXCEPT !.own_receiver_busy = b] \in Sockets
         /\ Same(d, [d EXCEPT !.own_receiver_busy = b])
BY DEF Sockets, Same

(* Entering and leaving the busy condition (lapd_set_own_receiver_busy,    *)
(* lapd_clear_own_receiver_busy) keep timers, sequence numbers sent and    *)
(* queue.                                                                  *)
LEMMA OwnReceiverBusyType ==
  ASSUME NEW d \in Sockets
  PROVE  /\ SetOwnReceiverBusy(d) \in Sockets
         /\ Same(d, SetOwnReceiverBusy(d))
         /\ ClearOwnReceiverBusy(d) \in Sockets
         /\ Same(d, ClearOwnReceiverBusy(d))
<1> DEFINE busy  == [d EXCEPT !.own_receiver_busy = TRUE]
           ready == [d EXCEPT !.own_receiver_busy = FALSE]
<1>1. busy \in Sockets /\ Same(d, busy) /\ ready \in Sockets /\ Same(d, ready)
  BY OwnBusyType
<1>2. /\ SendS(busy, "RNR", FALSE, FALSE) \in Sockets
      /\ Same(busy, SendS(busy, "RNR", FALSE, FALSE))
      /\ SendS(ready, "RR", FALSE, FALSE) \in Sockets
      /\ Same(ready, SendS(ready, "RR", FALSE, FALSE))
  BY <1>1, SendSType
<1> HIDE DEF busy, ready
<1>3. /\ Same(d, SendS(busy, "RNR", FALSE, FALSE))
      /\ Same(d, SendS(ready, "RR", FALSE, FALSE))
  BY <1>1, <1>2 DEF Same
<1>4. Same(d, d)
  BY DEF Same
<1> QED BY <1>2, <1>3, <1>4 DEF SetOwnReceiverBusy, ClearOwnReceiverBusy, busy, ready

(* Delivering or rejecting an I-frame touches the receiving side only (the *)
(* N(S) half of lapd_socket_handle_iframe).                                *)
LEMMA TakeIFrameType ==
  ASSUME NEW d \in Sockets, NEW f \in Frames
  PROVE  TakeIFrame(d, f) \in Sockets /\ Same(d, TakeIFrame(d, f))
<1> DEFINE next == [d EXCEPT !.v_r = (@ + 1) % Mod, !.reject_exception = FALSE]
           taken == DataIndication(next, "DATA", f.data)
           rejected == [d EXCEPT !.reject_exception = TRUE]
<1>0. f.pf \in BOOLEAN /\ f.data \in Data \cup {NoData}
  BY DEF Frames
<1>a. (d.v_r + 1) % Mod \in SeqNos
  <2>1. d.v_r \in SeqNos
    BY DEF Sockets
  <2> QED BY <2>1, SeqNoRange, ModRange
<1>1. next \in Sockets /\ Same(d, next)
  BY <1>a DEF Sockets, Same
<1>2. taken \in Sockets /\ Same(next, taken)
  BY <1>0, <1>1, DataIndicationType
<1>3. rejected \in Sockets /\ Same(d, rejected)
  BY DEF Sockets, Same
<1> HIDE DEF next, taken, rejected
<1>4. /\ SendS(taken, "RR", FALSE, f.pf) \in Sockets
      /\ Same(taken, SendS(taken, "RR", FALSE, f.pf))
  BY <1>0, <1>2, SendSType
<1>5. /\ SendS(rejected, "REJ", FALSE, f.pf) \in Sockets
      /\ Same(rejected, SendS(rejected, "REJ", FALSE, f.pf))
  BY <1>0, <1>3, SendSType
<1>6. SendS(d, "RR", FALSE, TRUE) \in Sockets /\ Same(d, SendS(d, "RR", FALSE, TRUE))
  BY SendSType
<1>7. /\ Same(d, SendS(taken, "RR", FALSE, f.pf))
      /\ Same(d, SendS(rejected, "REJ", FALSE, f.pf))
      /\ Same(d, d)
  BY <1>1, <1>2, <1>3, <1>4, <1>5 DEF Same
<1> QED BY <1>4, <1>5, <1>6, <1>7 DEF TakeIFrame, taken, next, rejected

(* Noting the peer's condition and answering its poll change none of the   *)
(* fields of Same (the first half of the RR, RNR and REJ handlers).        *)
LEMMA SupervisoryType ==
  ASSUME NEW d \in Sockets, NEW f \in Frames
  PROVE  Supervisory(d, f) \in Sockets /\ Same(d, Supervisory(d, f))
<1> DEFINE e == [d EXCEPT !.peer_receiver_busy = (f.type = "RNR")]
<1>1. e \in Sockets /\ Same(d, e)
  BY DEF Sockets, Same
<1> HIDE DEF e
<1>2. EnquiryResponse(e) \in Sockets /\ Same(e, EnquiryResponse(e))
  BY <1>1, EnquiryResponseType
<1>3. Same(d, EnquiryResponse(e))
  BY <1>1, <1>2 DEF Same
<1> QED BY <1>1, <1>2, <1>3 DEF Supervisory, e

-----------------------------------------------------------------------------
(* Helpers that change some of these fields.                               *)

(* Starting or stopping a timer changes that timer only (lapd_start_timer, *)
(* lapd_stop_timer).                                                       *)
LEMMA TimersType ==
  ASSUME NEW d \in Sockets, NEW a \in BOOLEAN, NEW b \in BOOLEAN
  PROVE  LET e1 == [d EXCEPT !.T200 = a]
             e2 == [d EXCEPT !.T203 = a]
             e3 == [d EXCEPT !.T200 = a, !.T203 = b]
         IN /\ e1 \in Sockets /\ SameLink(d, e1) /\ e1.state = d.state
            /\ e1.T200 = a /\ e1.T203 = d.T203
            /\ e2 \in Sockets /\ SameLink(d, e2) /\ e2.state = d.state
            /\ e2.T200 = d.T200 /\ e2.T203 = a
            /\ e3 \in Sockets /\ SameLink(d, e3) /\ e3.state = d.state
            /\ e3.T200 = a /\ e3.T203 = b
<1>1. /\ [d EXCEPT !.T200 = a] \in Sockets
      /\ [d EXCEPT !.T203 = a] \in Sockets
      /\ [d EXCEPT !.T200 = a, !.T203 = b] \in Sockets
  BY DEF Sockets
<1> QED BY <1>1 DEF Sockets, SameLink

(* lapd_change_state changes the state only.                               *)
LEMMA ChangeStateType ==
  ASSUME NEW d \in Sockets, NEW st \in DlStates
  PROVE  LET e == ChangeState(d, st) IN
         /\ e \in Sockets /\ SameLink(d, e) /\ e.state = st
         /\ e.T200 = d.T200 /\ e.T203 = d.T203
<1>1. ChangeState(d, st) \in Sockets
  BY DEF ChangeState, Sockets
<1> QED BY <1>1 DEF ChangeState, Sockets, SameLink

(* After lapd_establish_datalink_procedure a SABME is outstanding under    *)
(* T200 with a fresh retransmission counter, and the write queue is what   *)
(* it was.                                                                 *)
LEMMA EstablishType ==
  ASSUME NEW d \in Sockets, NEW l3 \in BOOLEAN
  PROVE  LET e == Establish(d, l3) IN
         /\ e \in Sockets
         /\ e.state = AWAITING_ESTABLISH /\ e.T200 /\ e.retrans_cnt = 0
         /\ e.wq = d.wq /\ e.head = d.head /\ e.owned = d.owned
<1> DEFINE c == ClearExceptionConditions(d)
           u == SendU(c, "SABME", TRUE)
<1>1. c \in Sockets /\ Same(d, c)
  BY ClearExceptionType
<1>2. u \in Sockets /\ Same(c, u)
  BY <1>1, SendUType
<1>3. u \in Sockets /\ Same(d, u)
  BY <1>1, <1>2 DEF Same
<1> DEFINE e == [u EXCEPT !.retrans_cnt = 0, !.T203 = FALSE, !.T200 = TRUE]
           g == [e EXCEPT !.layer_3_initiated = l3, !.state = AWAITING_ESTABLISH]
<1> HIDE DEF c, u
<1>4. AWAITING_ESTABLISH \in DlStates /\ l3 \in BOOLEAN
  BY DEF DlStates
<1>5a. e \in Sockets
  BY <1>3 DEF Sockets
<1>5b. /\ e.T200 /\ e.retrans_cnt = 0
       /\ e.wq = u.wq /\ e.head = u.head /\ e.owned = u.owned
  BY <1>3 DEF Sockets
<1> HIDE DEF e
<1>5. /\ e \in Sockets /\ e.T200 /\ e.retrans_cnt = 0
      /\ e.wq = d.wq /\ e.head = d.head /\ e.owned = d.owned
  BY <1>3, <1>5a, <1>5b DEF Same
<1>6a. g \in Sockets
  BY ONLY <1>4, <1>5a, ZenonT(30) DEF Sockets
<1>6b. /\ g.state = AWAITING_ESTABLISH /\ g.T200 = e.T200
       /\ g.retrans_cnt = e.retrans_cnt
       /\ g.wq = e.wq /\ g.head = e.head /\ g.owned = e.owned
  BY <1>5 DEF Sockets
<1>6. /\ g \in Sockets /\ g.state = AWAITING_ESTABLISH
      /\ g.T200 /\ g.retrans_cnt = 0
      /\ g.wq = d.wq /\ g.head = d.head /\ g.owned = d.owned
  BY <1>5, <1>6a, <1>6b
<1>7. g = Establish(d, l3)
  BY DEF g, e, u, c, Establish, EstablishDatalink
<1> HIDE DEF g
<1> QED BY <1>6, <1>7

(* lapd_transmit_enquiry_procedure leaves T200 running.                    *)
LEMMA TransmitEnquiryType ==
  ASSUME NEW d \in Sockets
  PROVE  LET e == TransmitEnquiry(d) IN
         /\ e \in Sockets /\ SameLink(d, e) /\ e.state = d.state
         /\ e.T200 /\ e.T203 = d.T203
<1> DEFINE u == SendS(d, BusyOrReady(d), TRUE, TRUE)
<1>1. u \in Sockets /\ Same(d, u)
  BY SendSType, BusyOrReadyType
<1> HIDE DEF u
<1>2. TransmitEnquiry(d) = [u EXCEPT !.T200 = TRUE]
  BY DEF TransmitEnquiry, u
<1> DEFINE e == [u EXCEPT !.T200 = TRUE]
<1>3. /\ e \in Sockets /\ SameLink(u, e) /\ e.state = u.state
      /\ e.T200 = TRUE /\ e.T203 = u.T203
  BY <1>1, TimersType
<1> HIDE DEF e
<1>4. e = TransmitEnquiry(d)
  BY <1>2 DEF e
<1> QED BY <1>1, <1>3, <1>4 DEF Same, SameLink

(* lapd_discard_i_queue empties the write queue; whatever sk_send_head     *)
(* becomes, it is no position beyond the queue's end.                      *)
LEMMA DiscardIQueueType ==
  ASSUME NEW d \in Sockets
  PROVE  LET e == DiscardIQueue(d) IN
         /\ e \in Sockets
         /\ e.wq = << >> /\ HeadInQueue(e)
         /\ e.state = d.state /\ e.T200 = d.T200 /\ e.T203 = d.T203
         /\ e.v_s = d.v_s /\ e.v_a = d.v_a
         /\ e.retrans_cnt = d.retrans_cnt /\ e.owned = d.owned
<1> DEFINE h == IF d.head = Null THEN Null ELSE Freed
           e == [d EXCEPT !.wq = << >>, !.head = h]
<1>1. << >> \in Seq(Queued) /\ Len(<< >>) = 0
  OBVIOUS
<1>2. h \in {Freed} \cup Nat /\ h <= 0
  BY DEF Null, Freed
<1>3. e = DiscardIQueue(d)
  BY DEF DiscardIQueue
<1> HIDE DEF h
<1>4. e \in Sockets
  BY <1>1, <1>2 DEF Sockets
<1>5. /\ e.wq = << >> /\ e.head = h
      /\ e.state = d.state /\ e.T200 = d.T200 /\ e.T203 = d.T203
      /\ e.v_s = d.v_s /\ e.v_a = d.v_a
      /\ e.retrans_cnt = d.retrans_cnt /\ e.owned = d.owned
  BY DEF Sockets
<1> HIDE DEF e
<1> QED BY <1>1, <1>2, <1>3, <1>4, <1>5 DEF HeadInQueue

(* lapd_ack_frames unlinks a prefix that stops before sk_send_head.        *)
LEMMA AckType ==
  ASSUME NEW d \in Sockets, NEW nr \in SeqNos, HeadInQueue(d)
  PROVE  LET e == Ack(d, nr) IN
         /\ e \in Sockets /\ HeadInQueue(e)
         /\ e.v_a = nr
         /\ e.state = d.state /\ e.T200 = d.T200 /\ e.T203 = d.T203
         /\ e.v_s = d.v_s
         /\ e.retrans_cnt = d.retrans_cnt /\ e.owned = d.owned
<1> DEFINE limit == IF d.head > 0 THEN d.head - 1 ELSE Len(d.wq)
           stops == {i \in 0 .. limit : i = limit \/ d.wq[i + 1].n_s = nr}
           n == CHOOSE i \in stops : \A j \in stops : i <= j
           w == SubSeq(d.wq, n + 1, Len(d.wq))
           h == IF d.head > 0 THEN d.head - n ELSE d.head
           a == [d EXCEPT !.wq = w, !.head = h]
<1>1. d.wq \in Seq(Queued) /\ d.head \in {Freed} \cup Nat /\ Len(d.wq) \in Nat
  BY DEF Sockets
<1>2. limit \in Nat /\ limit <= Len(d.wq) /\ (d.head > 0 => limit < d.head)
  BY <1>1 DEF HeadInQueue, Freed
<1>3. n \in Nat /\ n <= limit
  <2>1. stops \subseteq Nat /\ limit \in stops
    BY <1>2
  <2>2. \E i \in stops : \A j \in stops : i <= j
    BY <2>1, LeastExists
  <2>3. n \in stops
    BY <2>2
  <2> HIDE DEF n, limit, stops
  <2>4. n \in 0 .. limit
    BY <2>3 DEF stops
  <2> QED BY <1>2, <2>4
<1> HIDE DEF n
<1>4. w \in Seq(Queued) /\ Len(w) = Len(d.wq) - n
  BY <1>1, <1>2, <1>3, SubSeqProperties
<1>5. h \in {Freed} \cup Nat /\ h <= Len(w)
  BY <1>1, <1>2, <1>3, <1>4 DEF HeadInQueue, Freed
<1> HIDE DEF w, h
<1>6. a \in Sockets
  BY <1>4, <1>5 DEF Sockets
<1>7. /\ a.wq = w /\ a.head = h /\ a.state = d.state
      /\ a.T200 = d.T200 /\ a.T203 = d.T203 /\ a.v_s = d.v_s
      /\ a.retrans_cnt = d.retrans_cnt /\ a.owned = d.owned
  BY DEF Sockets
<1>8. HeadInQueue(a)
  BY <1>5, <1>7 DEF HeadInQueue
<1>9. AckFrames(d, nr) \in {a, d}
  BY DEF AckFrames, a, w, h, n
<1> HIDE DEF a
<1> DEFINE b == AckFrames(d, nr)
<1>10. /\ b \in Sockets /\ HeadInQueue(b)
       /\ b.state = d.state /\ b.T200 = d.T200 /\ b.T203 = d.T203
       /\ b.v_s = d.v_s
       /\ b.retrans_cnt = d.retrans_cnt /\ b.owned = d.owned
  BY <1>6, <1>7, <1>8, <1>9
<1> HIDE DEF b
<1> DEFINE e == [b EXCEPT !.v_a = nr]
<1>11. e \in Sockets
  BY <1>10 DEF Sockets
<1>12. /\ e.v_a = nr /\ e.wq = b.wq /\ e.head = b.head /\ e.state = b.state
       /\ e.T200 = b.T200 /\ e.T203 = b.T203 /\ e.v_s = b.v_s
       /\ e.retrans_cnt = b.retrans_cnt /\ e.owned = b.owned
  BY <1>10 DEF Sockets
<1>13. e = Ack(d, nr)
  BY DEF Ack, b
<1> HIDE DEF e
<1> QED BY <1>10, <1>11, <1>12, <1>13 DEF HeadInQueue

(* lapd_run_i_queue: whatever it sends, it leaves T200 running for.        *)
LEMMA TransmitType ==
  ASSUME NEW d \in Sockets, HeadInQueue(d), d.head > 0,
         NEW n \in Nat, n > 0, d.head + n <= Len(d.wq) + 1
  PROVE  LET e == Transmit(d, n) IN
         /\ e \in Sockets /\ HeadInQueue(e) /\ e.T200
         /\ e.state = d.state /\ e.v_a = d.v_a
         /\ e.retrans_cnt = d.retrans_cnt /\ e.owned = d.owned
<1> DEFINE ns(i) == (d.v_s + i - d.head) % Mod
           q(i) == IF i \in d.head .. d.head + n - 1
                   THEN [d.wq[i] EXCEPT !.n_s = ns(i)] ELSE d.wq[i]
           w == [i \in 1 .. Len(d.wq) |-> q(i)]
           fs == [j \in 1 .. n |->
                    IFrame(ns(d.head + j - 1), d.v_r, d.wq[d.head + j - 1].data)]
           h == IF d.head + n > Len(d.wq) THEN Null ELSE d.head + n
           e == [d EXCEPT !.wq = w, !.tx = @ \o fs, !.v_s = (@ + n) % Mod,
                          !.head = h,
                          !.T203 = IF n > 0 /\ ~d.T200 THEN FALSE ELSE @,
                          !.T200 = IF n > 0 THEN TRUE ELSE @]
<1>1. /\ d.wq \in Seq(Queued) /\ d.head \in Nat /\ Len(d.wq) \in Nat
      /\ d.v_s \in SeqNos /\ d.v_r \in SeqNos /\ d.tx \in Seq(Frames)
      /\ d.T203 \in BOOLEAN
  BY DEF Sockets, Freed
<1>2. ASSUME NEW i \in Int PROVE ns(i) \in SeqNos
  <2>1. d.v_s + i - d.head \in Int
    BY <1>1, SeqNoRange
  <2> QED BY <2>1, ModRange
<1>3. (d.v_s + n) % Mod \in SeqNos
  BY <1>1, SeqNoRange, ModRange
<1> HIDE DEF ns
<1>4. w \in Seq(Queued) /\ Len(w) = Len(d.wq)
  <2>1. ASSUME NEW i \in 1 .. Len(d.wq) PROVE q(i) \in Queued
    <3>1. d.wq[i] \in Queued /\ ns(i) \in SeqNos
      BY <1>1, <1>2
    <3>2. [d.wq[i] EXCEPT !.n_s = ns(i)] \in Queued
      BY <3>1 DEF Queued
    <3> QED BY <3>1, <3>2
  <2> HIDE DEF q
  <2> QED BY <1>1, <2>1
<1>5. fs \in Seq(Frames)
  <2>1. ASSUME NEW j \in 1 .. n PROVE fs[j] \in Frames
    <3>1. d.wq[d.head + j - 1] \in Queued
      BY <1>1
    <3>2. ns(d.head + j - 1) \in SeqNos
      BY <1>1, <1>2
    <3> QED BY <1>1, <3>1, <3>2 DEF IFrame, Frames, FrameTypes, Queued
  <2> QED BY <2>1
<1>6. h \in Nat /\ h <= Len(w)
  BY <1>1, <1>4 DEF Null
<1> HIDE DEF w, fs, h
<1>7. d.tx \o fs \in Seq(Frames)
  BY <1>1, <1>5
<1>8. e \in Sockets
  <2> DEFINE t == d.tx \o fs
             v == (d.v_s + n) % Mod
             t3 == IF n > 0 /\ ~d.T200 THEN FALSE ELSE d.T203
             t2 == IF n > 0 THEN TRUE ELSE d.T200
             r == [d EXCEPT !.wq = w, !.tx = t, !.v_s = v, !.head = h,
                            !.T203 = t3, !.T200 = t2]
  <2>1. /\ d \in Sockets /\ w \in Seq(Queued) /\ t \in Seq(Frames)
        /\ v \in SeqNos /\ h \in {Freed} \cup Nat
        /\ t3 \in BOOLEAN /\ t2 \in BOOLEAN
    BY <1>1, <1>3, <1>4, <1>6, <1>7
  <2> HIDE DEF t, v, t3, t2
  <2>2. r \in Sockets
    BY ONLY <2>1, ZenonT(30) DEF Sockets
  <2> QED BY <2>2 DEF t, v, t3, t2
<1>9. /\ e.wq = w /\ e.head = h /\ e.T200 = TRUE /\ e.state = d.state
      /\ e.v_a = d.v_a /\ e.retrans_cnt = d.retrans_cnt /\ e.owned = d.owned
  BY DEF Sockets
<1>10. e = Transmit(d, n)
  BY DEF Transmit, w, fs, h, ns, q
<1> HIDE DEF e
<1> QED BY <1>6, <1>8, <1>9, <1>10 DEF HeadInQueue

(* The room left in the window is a sequence number (the loop condition of *)
(* lapd_run_i_queue).                                                      *)
LEMMA WindowRoomType ==
  ASSUME NEW d \in Sockets
  PROVE  WindowRoom(d) \in SeqNos
<1>1. d.v_s \in SeqNos /\ d.v_a \in SeqNos /\ d.k \in Int
  BY ModAssumption DEF Sockets
<1>2. d.v_a + d.k - d.v_s + Mod \in Int
  BY <1>1, SeqNoRange, ModAssumption
<1> QED BY <1>2, ModRange DEF WindowRoom

(* lapd_run_i_queue either changes nothing of note or leaves T200 running, *)
(* and keeps sk_send_head inside the write queue.                          *)
LEMMA RunIQueueType ==
  ASSUME NEW d \in Sockets, HeadInQueue(d)
  PROVE  LET e == RunIQueue(d) IN
         /\ e \in Sockets /\ HeadInQueue(e)
         /\ e.state = d.state /\ e.v_a = d.v_a
         /\ e.retrans_cnt = d.retrans_cnt /\ e.owned = d.owned
         /\ Same(d, e) \/ (d.state = LINK_ESTABLISHED /\ e.T200)
<1> DEFINE bad == [d EXCEPT !.oops = TRUE]
<1>1. bad \in Sockets
  BY DEF Sockets
<1>2. Same(d, bad) /\ Same(d, d)
  BY DEF Sockets, Same
<1>3. HeadInQueue(bad)
  BY <1>2 DEF Same, HeadInQueue
<1> HIDE DEF bad
<1>4. CASE RunIQueue(d) \in {d, bad}
  BY <1>1, <1>2, <1>3, <1>4 DEF Same
<1>5. CASE ~ (RunIQueue(d) \in {d, bad})
  <2>1. /\ d.state = LINK_ESTABLISHED /\ d.head # Null /\ d.head # Freed
        /\ WindowRoom(d) # 0 /\ RunIQueue(d) = Transmit(d, ToSend(d))
    BY <1>5 DEF RunIQueue, bad
  <2>2. /\ d.head \in Nat /\ d.head > 0
        /\ Len(d.wq) \in Nat /\ d.head <= Len(d.wq)
    BY <2>1 DEF Sockets, Null, HeadInQueue
  <2>3. WindowRoom(d) \in Nat /\ WindowRoom(d) > 0
    BY <2>1, WindowRoomType, SeqNoRange
  <2>4. ToSend(d) \in Nat /\ ToSend(d) > 0 /\ d.head + ToSend(d) <= Len(d.wq) + 1
    BY <2>2, <2>3 DEF ToSend
  <2> QED BY <2>1, <2>2, <2>4, TransmitType
<1> QED BY <1>4, <1>5

(* It goes back to V(A); in state 7 it sends again at once.                *)
LEMMA InvokeRetransmissionType ==
  ASSUME NEW d \in Sockets, HeadInQueue(d)
  PROVE  LET e == InvokeRetransmission(d) IN
         /\ e \in Sockets /\ HeadInQueue(e)
         /\ e.state = d.state /\ e.v_a = d.v_a
         /\ e.retrans_cnt = d.retrans_cnt /\ e.owned = d.owned
         /\ \/ e.T200
            \/ e.T200 = d.T200 /\ e.T203 = d.T203 /\ e.v_s = e.v_a
<1> DEFINE h == IF d.wq = << >> THEN d.head ELSE 1
           a == [d EXCEPT !.head = h, !.v_s = d.v_a]
<1>1. d.wq \in Seq(Queued) /\ d.head \in {Freed} \cup Nat /\ d.v_a \in SeqNos
  BY DEF Sockets
<1>2. h \in {Freed} \cup Nat /\ h <= Len(d.wq)
  BY <1>1 DEF HeadInQueue
<1> HIDE DEF h
<1>3. a \in Sockets
  BY <1>1, <1>2 DEF Sockets
<1>4. /\ a.head = h /\ a.wq = d.wq /\ a.v_s = a.v_a /\ a.v_a = d.v_a
      /\ a.state = d.state /\ a.T200 = d.T200 /\ a.T203 = d.T203
      /\ a.retrans_cnt = d.retrans_cnt /\ a.owned = d.owned
  BY DEF Sockets
<1>5. InvokeRetransmission(d) = RunIQueue(a)
  BY DEF InvokeRetransmission, h
<1> HIDE DEF a
<1>6. HeadInQueue(a)
  BY <1>2, <1>4 DEF HeadInQueue
<1> QED BY <1>3, <1>4, <1>5, <1>6, RunIQueueType DEF Same

(* Stopping T200 and starting T203 changes the timers only.                *)
LEMMA SuperviseIdleType ==
  ASSUME NEW d \in Sockets
  PROVE  LET e == SuperviseIdle(d) IN
         /\ e \in Sockets /\ SameLink(d, e) /\ e.state = d.state
         /\ e.T200 = FALSE /\ e.T203 = TRUE
BY TimersType DEF SuperviseIdle

(* After V(S), V(R) and V(A) are zeroed nothing is outstanding (UA and     *)
(* SABME handlers).                                                        *)
LEMMA ResetSequenceType ==
  ASSUME NEW d \in Sockets
  PROVE  LET e == ResetSequence(d) IN
         /\ e \in Sockets /\ e.v_s = e.v_a
         /\ e.state = d.state /\ e.T200 = d.T200 /\ e.T203 = d.T203
         /\ e.retrans_cnt = d.retrans_cnt /\ e.owned = d.owned
         /\ e.wq = d.wq /\ e.head = d.head
<1>1. 0 \in SeqNos
  BY ModAssumption DEF SeqNos
<1>2. ResetSequence(d) \in Sockets
  BY <1>1 DEF ResetSequence, Sockets
<1> QED BY <1>2 DEF ResetSequence, Sockets

(* lapd_sock_queue_iframe keeps sk_send_head inside the write queue, and   *)
(* leaves timers, state and counters alone.                                *)
LEMMA QueueIFrameType ==
  ASSUME NEW d \in Sockets, HeadInQueue(d), NEW x \in Data
  PROVE  LET e == QueueIFrame(d, x) IN
         /\ e \in Sockets /\ HeadInQueue(e)
         /\ e.state = d.state /\ e.T200 = d.T200 /\ e.T203 = d.T203
         /\ e.v_s = d.v_s /\ e.v_a = d.v_a
         /\ e.retrans_cnt = d.retrans_cnt /\ e.owned = d.owned
<1> DEFINE w == Append(d.wq, [data |-> x, n_s |-> 0])
           h == IF d.head = Null THEN Len(d.wq) + 1 ELSE d.head
           e == [d EXCEPT !.wq = w, !.head = h]
<1>1. d.wq \in Seq(Queued) /\ d.head \in {Freed} \cup Nat /\ Len(d.wq) \in Nat
  BY DEF Sockets
<1>2. [data |-> x, n_s |-> 0] \in Queued
  BY ModAssumption DEF Queued, SeqNos
<1>3. w \in Seq(Queued) /\ Len(w) = Len(d.wq) + 1
  BY <1>1, <1>2, AppendProperties
<1>4. h \in {Freed} \cup Nat /\ h <= Len(w)
  BY <1>1, <1>3 DEF HeadInQueue, Freed, Null
<1>5. e = QueueIFrame(d, x)
  BY DEF QueueIFrame
<1> HIDE DEF w, h
<1>6. e \in Sockets
  BY <1>3, <1>4 DEF Sockets
<1>7. /\ e.wq = w /\ e.head = h
      /\ e.state = d.state /\ e.T200 = d.T200 /\ e.T203 = d.T203
      /\ e.v_s = d.v_s /\ e.v_a = d.v_a
      /\ e.retrans_cnt = d.retrans_cnt /\ e.owned = d.owned
  BY DEF Sockets
<1> HIDE DEF e
<1> QED BY <1>4, <1>5, <1>6, <1>7 DEF HeadInQueue

-----------------------------------------------------------------------------
(* From here on the names of the states stand for themselves.              *)
USE DEF TEI_UNASSIGNED, AWAITING_TEI, ESTABLISH_AWAITING_TEI, TEI_ASSIGNED,
        AWAITING_ESTABLISH, AWAITING_RELEASE, LINK_ESTABLISHED,
        TIMER_RECOVERY, DlStates, Multiframe

(* What changes none of the fields of Same keeps the invariant.            *)
LEMMA SameKeeps ==
  ASSUME NEW d, Base(d), NEW e \in Sockets, Same(d, e)
  PROVE  Keeps(d, e)
BY DEF Keeps, Base, Same, HeadInQueue, IsSupervised, HoldsNoData

(* Every handler that ends by sending a SABME keeps the invariant,         *)
(* whatever went before.                                                   *)
LEMMA EstablishKeeps ==
  ASSUME NEW c, NEW d \in Sockets, HeadInQueue(d), d.owned = c.owned,
         NEW l3 \in BOOLEAN
  PROVE  Keeps(c, Establish(d, l3))
<1> DEFINE e == Establish(d, l3)
<1>1. /\ e \in Sockets
      /\ e.state = AWAITING_ESTABLISH /\ e.T200 /\ e.retrans_cnt = 0
      /\ e.wq = d.wq /\ e.head = d.head /\ e.owned = d.owned
  BY EstablishType
<1> HIDE DEF e
<1>2. Base(e) /\ IsSupervised(e)
  BY <1>1, N200Assumption DEF Base, HeadInQueue, IsSupervised, HoldsNoData
<1> QED BY <1>1, <1>2 DEF Keeps, e

(* Going to a state in which nothing is awaited, with an empty queue.      *)
LEMMA IdleKeeps ==
  ASSUME NEW c, NEW d \in Sockets, d.wq = << >>, HeadInQueue(d),
         d.retrans_cnt <= N200, d.owned = c.owned,
         d.state \in {TEI_UNASSIGNED, AWAITING_TEI, ESTABLISH_AWAITING_TEI,
                      TEI_ASSIGNED},
         NEW p \in DlPrimitives
  PROVE  Keeps(c, d) /\ Keeps(c, DlPrimitive(d, p))
<1>1. Keeps(c, d)
  BY DEF Keeps, Base, IsSupervised, HoldsNoData
<1>2. DlPrimitive(d, p) \in Sockets /\ Same(d, DlPrimitive(d, p))
  BY DlPrimitiveType
<1>3. Keeps(d, DlPrimitive(d, p))
  BY <1>1, <1>2, SameKeeps DEF Keeps
<1> QED BY <1>1, <1>3 DEF Keeps

(* lapd_mdl_remove_request.                                                *)
LEMMA MdlRemoveRequestKeeps ==
  ASSUME NEW d, Base(d)
  PROVE  Keeps(d, MdlRemoveRequest(d))
<1> DEFINE i == DiscardIQueue(d)
           gone(e) == ChangeState(DiscardUiQueue(e), TEI_UNASSIGNED)
<1>1. d \in Sockets /\ HeadInQueue(d) /\ d.retrans_cnt <= N200 /\ Same(d, d)
  BY DEF Base, Same
<1>2. ASSUME NEW e \in Sockets
      PROVE  /\ gone(e) \in Sockets /\ SameLink(e, gone(e))
             /\ gone(e).state = TEI_UNASSIGNED
  <2>1. DiscardUiQueue(e) \in Sockets /\ Same(e, DiscardUiQueue(e))
    BY DiscardUiType
  <2> QED BY <2>1, ChangeStateType DEF Same, SameLink
<1>3. /\ i \in Sockets /\ i.wq = << >> /\ HeadInQueue(i)
      /\ i.retrans_cnt = d.retrans_cnt /\ i.owned = d.owned
  BY <1>1, DiscardIQueueType
<1> DEFINE a == gone(d)
           b == gone(i)
           a1 == [a EXCEPT !.T200 = FALSE]
           b1 == [b EXCEPT !.T200 = FALSE]
           b2 == [b EXCEPT !.T200 = FALSE, !.T203 = FALSE]
<1>4. /\ a \in Sockets /\ SameLink(d, a) /\ a.state = TEI_UNASSIGNED
      /\ b \in Sockets /\ SameLink(i, b) /\ b.state = TEI_UNASSIGNED
  BY <1>1, <1>2, <1>3
<1> HIDE DEF gone, a, b, i
<1>5. /\ a1 \in Sockets /\ SameLink(a, a1) /\ a1.state = TEI_UNASSIGNED
      /\ b1 \in Sockets /\ SameLink(b, b1) /\ b1.state = TEI_UNASSIGNED
      /\ b2 \in Sockets /\ SameLink(b, b2) /\ b2.state = TEI_UNASSIGNED
  BY <1>4, TimersType
<1> HIDE DEF a1, b1, b2
<1>6. /\ Keeps(d, DlPrimitive(b1, "RELEASE_INDICATION"))
      /\ Keeps(d, DlPrimitive(b2, "RELEASE_INDICATION"))
  BY <1>1, <1>3, <1>4, <1>5, IdleKeeps DEF SameLink, HeadInQueue, DlPrimitives
<1>7. d.state \in {TEI_ASSIGNED, AWAITING_RELEASE} =>
        Keeps(d, a) /\ Keeps(d, DlPrimitive(a1, "RELEASE_CONFIRM"))
  BY <1>1, <1>4, <1>5, IdleKeeps
     DEF SameLink, HeadInQueue, DlPrimitives, Base, HoldsNoData
<1>8. Keeps(d, d)
  BY <1>1, SameKeeps
<1> QED BY <1>6, <1>7, <1>8 DEF MdlRemoveRequest, a, b, a1, b1, b2, gone, i

(* lapd_mdl_error_indication keeps the invariant, at once or deferred to   *)
(* the backlog.                                                            *)
LEMMA MdlErrorTeiKeeps ==
  ASSUME NEW d, Base(d)
  PROVE  Keeps(d, MdlErrorTei(d))
<1> DEFINE m == [d EXCEPT !.mdl = TRUE]
<1>1. d \in Sockets /\ Same(d, d)
  BY DEF Base, Same
<1>2. m \in Sockets /\ Same(d, m)
  BY <1>1 DEF Sockets, Same
<1> HIDE DEF m
<1>3. Keeps(d, d) /\ Keeps(d, m)
  BY <1>1, <1>2, SameKeeps
<1> QED BY <1>3, MdlRemoveRequestKeeps DEF MdlErrorTei, m

-----------------------------------------------------------------------------
(* I-frames and supervisory frames.                                        *)

(* The types of the fields of a frame.                                     *)
LEMMA FrameFields ==
  ASSUME NEW f \in Frames
  PROVE  /\ f.pf \in BOOLEAN /\ f.cmd \in BOOLEAN
         /\ f.nr \in SeqNos /\ f.ns \in SeqNos
         /\ f.data \in Data \cup {NoData}
BY DEF Frames

(* Acknowledging leaves the link supervised: a valid N(R) when nothing is  *)
(* outstanding acknowledges nothing.                                       *)
LEMMA AckKeeps ==
  ASSUME NEW d, Base(d), NEW nr \in SeqNos, IsValidNR(d, nr),
         d.state \in Multiframe
  PROVE  Keeps(d, Ack(d, nr))
<1> DEFINE e == Ack(d, nr)
<1>1. d \in Sockets /\ HeadInQueue(d)
  BY DEF Base
<1>2. /\ e \in Sockets /\ HeadInQueue(e)
      /\ e.v_a = nr
      /\ e.state = d.state /\ e.T200 = d.T200 /\ e.T203 = d.T203
      /\ e.v_s = d.v_s
      /\ e.retrans_cnt = d.retrans_cnt /\ e.owned = d.owned
  BY <1>1, AckType
<1>3. d.v_s = d.v_a => nr = d.v_a
  <2> SUFFICES ASSUME d.v_s = d.v_a PROVE nr = d.v_a
    OBVIOUS
  <2>1. d.v_a \in SeqNos
    BY <1>1 DEF Sockets
  <2>2. d.v_a - d.v_a + Mod = Mod /\ Mod % Mod = 0
    BY <2>1, SeqNoRange, ModAssumption
  <2>3. (nr - d.v_a + Mod) % Mod <= 0
    BY <2>2 DEF IsValidNR
  <2> QED BY <2>1, <2>3, DistanceZero
<1> HIDE DEF e
<1>4. IsSupervised(d) => IsSupervised(e)
  BY <1>2, <1>3 DEF IsSupervised
<1>5. Base(e)
  BY <1>2 DEF Base, HoldsNoData
<1> QED BY <1>2, <1>4, <1>5 DEF Keeps, e

(* The acknowledgement in state 7 stops T200 only when nothing is          *)
(* outstanding (second half of lapd_socket_handle_iframe and of the RR     *)
(* handler).                                                               *)
LEMMA AckEstablishedKeeps ==
  ASSUME NEW d, Base(d), NEW nr \in SeqNos, d.state = LINK_ESTABLISHED
  PROVE  Keeps(d, AckEstablished(d, nr))
<1> DEFINE a == Ack(d, nr)
           b == SuperviseIdle(a)
           c == [a EXCEPT !.T200 = TRUE]
<1>1. d \in Sockets /\ HeadInQueue(d) /\ d.retrans_cnt <= N200 /\ Same(d, d)
  BY DEF Base, Same
<1>2. /\ a \in Sockets /\ HeadInQueue(a) /\ a.v_a = nr
      /\ a.state = d.state /\ a.v_s = d.v_s
      /\ a.retrans_cnt = d.retrans_cnt /\ a.owned = d.owned
  BY <1>1, AckType
<1> HIDE DEF a
<1>3. /\ b \in Sockets /\ SameLink(a, b) /\ b.state = a.state
      /\ b.T200 = FALSE /\ b.T203 = TRUE
  BY <1>2, SuperviseIdleType
<1>4. /\ c \in Sockets /\ SameLink(a, c) /\ c.state = a.state /\ c.T200 = TRUE
  BY <1>2, TimersType
<1> HIDE DEF b, c
<1>5. nr = d.v_s => Keeps(d, b)
  BY <1>1, <1>2, <1>3
     DEF Keeps, Base, SameLink, HeadInQueue, IsSupervised, HoldsNoData
<1>6. Keeps(d, c)
  BY <1>1, <1>2, <1>4
     DEF Keeps, Base, SameLink, HeadInQueue, IsSupervised, HoldsNoData
<1>7. Keeps(d, d)
  BY <1>1, SameKeeps
<1> QED BY <1>5, <1>6, <1>7 DEF AckEstablished, a, b, c

(* Keeping the invariant composes.                                         *)
LEMMA KeepsTransitive ==
  ASSUME NEW c, NEW d, NEW e, Keeps(c, d), Keeps(d, e)
  PROVE  Keeps(c, e)
BY DEF Keeps

(* lapd_socket_handle_iframe keeps the invariant.                          *)
LEMMA HandleIFrameKeeps ==
  ASSUME NEW d, Base(d), NEW f \in Frames
  PROVE  Keeps(d, HandleIFrame(d, f))
<1> DEFINE open == IF ~Full(d) /\ d.own_receiver_busy
                   THEN ClearOwnReceiverBusy(d) ELSE d
           took == TakeIFrame(open, f)
           full == SetOwnReceiverBusy(d)
<1>1. d \in Sockets /\ Same(d, d) /\ f.nr \in SeqNos
  BY FrameFields DEF Base, Same
<1>2. open \in Sockets /\ Same(d, open) /\ full \in Sockets /\ Same(d, full)
  BY <1>1, OwnReceiverBusyType
<1> HIDE DEF open, full
<1>3. took \in Sockets /\ Same(open, took)
  BY <1>2, TakeIFrameType
<1> HIDE DEF took
<1>4. Keeps(d, open) /\ Keeps(d, full)
  BY <1>1, <1>2, SameKeeps
<1>5. Keeps(open, took)
  BY <1>3, <1>4, SameKeeps DEF Keeps
<1>6. Keeps(d, took) /\ Base(took) /\ took.state = d.state
  BY <1>2, <1>3, <1>4, <1>5, KeepsTransitive DEF Keeps, Same
<1>7. Keeps(took, NrErrorRecovery(took))
  BY <1>6, EstablishKeeps DEF NrErrorRecovery, Base
<1>8. d.state \in Multiframe /\ IsValidNR(took, f.nr) => Keeps(took, Ack(took, f.nr))
  BY <1>1, <1>6, AckKeeps
<1>9. d.state = LINK_ESTABLISHED => Keeps(took, AckEstablished(took, f.nr))
  BY <1>1, <1>6, AckEstablishedKeeps
<1>10. HandleIFrame(d, f) =
         IF Full(d) THEN full
         ELSE IF d.state \notin Multiframe THEN open
         ELSE IF ~IsValidNR(took, f.nr) THEN NrErrorRecovery(took)
         ELSE IF d.state = TIMER_RECOVERY \/ took.peer_receiver_busy
              THEN Ack(took, f.nr)
         ELSE AckEstablished(took, f.nr)
  BY DEF HandleIFrame, open, took, full
<1>11. Keeps(took, HandleIFrame(d, f)) => Keeps(d, HandleIFrame(d, f))
  BY <1>6, KeepsTransitive
<1> QED BY <1>4, <1>7, <1>8, <1>9, <1>10, <1>11

(* Retransmission in state 7: from a socket that T203 supervises, or with  *)
(* T200 started before or after it.                                        *)
LEMMA RetransmissionKeeps ==
  ASSUME NEW c, NEW d \in Sockets, HeadInQueue(d), d.retrans_cnt <= N200,
         d.owned = c.owned, d.state = LINK_ESTABLISHED
  PROVE  LET e == InvokeRetransmission(d) IN
         /\ d.T200 \/ d.T203 => Keeps(c, e)
         /\ Keeps(c, [e EXCEPT !.T203 = FALSE, !.T200 = TRUE])
<1> DEFINE e == InvokeRetransmission(d)
           g == [e EXCEPT !.T200 = TRUE, !.T203 = FALSE]
<1>1. /\ e \in Sockets /\ HeadInQueue(e)
      /\ e.state = d.state /\ e.v_a = d.v_a
      /\ e.retrans_cnt = d.retrans_cnt /\ e.owned = d.owned
      /\ \/ e.T200
         \/ e.T200 = d.T200 /\ e.T203 = d.T203 /\ e.v_s = e.v_a
  BY InvokeRetransmissionType
<1> HIDE DEF e
<1>2. d.T200 \/ d.T203 => Keeps(c, e)
  BY <1>1 DEF Keeps, Base, IsSupervised, HoldsNoData
<1>3. /\ g \in Sockets /\ SameLink(e, g) /\ g.state = e.state /\ g.T200 = TRUE
  BY <1>1, TimersType
<1>4. g = [e EXCEPT !.T203 = FALSE, !.T200 = TRUE]
  BY <1>1 DEF Sockets
<1> HIDE DEF g
<1>5. Keeps(c, g)
  BY <1>1, <1>3 DEF Keeps, Base, SameLink, HeadInQueue, IsSupervised, HoldsNoData
<1> QED BY <1>2, <1>4, <1>5 DEF e

(* lapd_handle_sframe_rr, _rnr and _rej in state 8.                        *)
LEMMA HandleRecoveryKeeps ==
  ASSUME NEW d, Base(d), NEW f \in Frames, d.state = TIMER_RECOVERY
  PROVE  Keeps(d, HandleRecovery(d, f))
<1> DEFINE s1 == Supervisory(d, f)
           acked == Ack(s1, f.nr)
           back == ChangeState(acked, LINK_ESTABLISHED)
           timed == [back EXCEPT !.T200 = TRUE]
           idle == SuperviseIdle(back)
<1>1. d \in Sockets /\ HeadInQueue(d) /\ d.retrans_cnt <= N200 /\ f.nr \in SeqNos
  BY FrameFields DEF Base
<1>2. s1 \in Sockets /\ Same(d, s1)
  BY <1>1, SupervisoryType
<1> HIDE DEF s1
<1>3. HeadInQueue(s1) /\ s1.retrans_cnt <= N200 /\ s1.state = TIMER_RECOVERY
      /\ s1.owned = d.owned
  BY <1>1, <1>2 DEF Same, HeadInQueue
<1>4. Keeps(d, NrErrorRecovery(s1))
  BY <1>2, <1>3, EstablishKeeps DEF NrErrorRecovery
<1>5. /\ acked \in Sockets /\ HeadInQueue(acked) /\ acked.state = s1.state
      /\ acked.retrans_cnt = s1.retrans_cnt /\ acked.owned = s1.owned
  BY <1>1, <1>2, <1>3, AckType
<1> HIDE DEF acked
<1>6. Keeps(d, acked)
  BY <1>3, <1>5 DEF Keeps, Base, IsSupervised, HoldsNoData
<1>7. back \in Sockets /\ SameLink(acked, back) /\ back.state = LINK_ESTABLISHED
  BY <1>5, ChangeStateType
<1> HIDE DEF back
<1>8. /\ timed \in Sockets /\ SameLink(back, timed)
      /\ timed.state = back.state /\ timed.T200 = TRUE
  BY <1>7, TimersType
<1>9. /\ idle \in Sockets /\ SameLink(back, idle)
      /\ idle.state = back.state /\ idle.T203 = TRUE
  BY <1>7, SuperviseIdleType
<1> HIDE DEF timed, idle
<1>10. Keeps(d, InvokeRetransmission(timed))
  <2>1. /\ HeadInQueue(timed) /\ timed.retrans_cnt <= N200
        /\ timed.owned = d.owned /\ timed.state = LINK_ESTABLISHED
    BY <1>3, <1>5, <1>7, <1>8 DEF SameLink, HeadInQueue
  <2> QED BY <1>8, <2>1, RetransmissionKeeps
<1>11. Keeps(d, InvokeRetransmission(idle))
  <2>1. /\ HeadInQueue(idle) /\ idle.retrans_cnt <= N200
        /\ idle.owned = d.owned /\ idle.state = LINK_ESTABLISHED
    BY <1>3, <1>5, <1>7, <1>9 DEF SameLink, HeadInQueue
  <2> QED BY <1>9, <2>1, RetransmissionKeeps
<1>12. HandleRecovery(d, f) \in
         {NrErrorRecovery(s1), acked,
          InvokeRetransmission(timed), InvokeRetransmission(idle)}
  BY DEF HandleRecovery, s1, acked, back, timed, idle
<1> QED BY <1>4, <1>6, <1>10, <1>11, <1>12

(* The half that RR, RNR and REJ share keeps the invariant.                *)
LEMMA SupervisoryKeeps ==
  ASSUME NEW d, Base(d), NEW f \in Frames
  PROVE  /\ Keeps(d, Supervisory(d, f)) /\ Base(Supervisory(d, f))
         /\ Supervisory(d, f).state = d.state
         /\ Keeps(d, NrErrorRecovery(Supervisory(d, f)))
<1> DEFINE e == Supervisory(d, f)
<1>1. e \in Sockets /\ Same(d, e)
  BY SupervisoryType DEF Base
<1> HIDE DEF e
<1>2. Keeps(d, e) /\ Base(e) /\ e.state = d.state /\ e.owned = d.owned
  BY <1>1, SameKeeps DEF Keeps, Same
<1>3. Keeps(d, NrErrorRecovery(e))
  BY <1>2, EstablishKeeps DEF NrErrorRecovery, Base
<1> QED BY <1>2, <1>3 DEF e

(* A handler that ignores its event keeps the invariant.                   *)
LEMMA BaseKeeps ==
  ASSUME NEW d, Base(d)
  PROVE  Keeps(d, d)
BY DEF Keeps

(* lapd_socket_handle_sframe_rr keeps the invariant.                       *)
LEMMA HandleRRKeeps ==
  ASSUME NEW d, Base(d), NEW f \in Frames
  PROVE  Keeps(d, HandleRR(d, f))
<1> DEFINE e == Supervisory(d, f)
<1>1. f.nr \in SeqNos
  BY FrameFields
<1>2. /\ Keeps(d, e) /\ Base(e) /\ e.state = d.state
      /\ Keeps(d, NrErrorRecovery(e))
  BY SupervisoryKeeps
<1> HIDE DEF e
<1>3. d.state = LINK_ESTABLISHED => Keeps(d, AckEstablished(e, f.nr))
  BY <1>1, <1>2, AckEstablishedKeeps, KeepsTransitive
<1>4. d.state = TIMER_RECOVERY => Keeps(d, HandleRecovery(d, f))
  BY HandleRecoveryKeeps
<1> QED BY <1>2, <1>3, <1>4, BaseKeeps DEF HandleRR, e

(* lapd_socket_handle_sframe_rnr keeps the invariant.                      *)
LEMMA HandleRNRKeeps ==
  ASSUME NEW d, Base(d), NEW f \in Frames
  PROVE  Keeps(d, HandleRNR(d, f))
<1> DEFINE e == Supervisory(d, f)
           a == Ack(e, f.nr)
           g == [InvokeRetransmission(a) EXCEPT !.T203 = FALSE, !.T200 = TRUE]
<1>1. f.nr \in SeqNos
  BY FrameFields
<1>2. /\ Keeps(d, e) /\ Base(e) /\ e.state = d.state
      /\ Keeps(d, NrErrorRecovery(e))
  BY SupervisoryKeeps
<1> HIDE DEF e
<1>3. /\ a \in Sockets /\ HeadInQueue(a) /\ a.state = e.state
      /\ a.retrans_cnt = e.retrans_cnt /\ a.owned = e.owned
  BY <1>1, <1>2, AckType DEF Base
<1> HIDE DEF a
<1>4. a.retrans_cnt <= N200 /\ a.owned = d.owned
  BY <1>2, <1>3 DEF Keeps, Base
<1>5. d.state = LINK_ESTABLISHED => Keeps(d, g)
  BY <1>2, <1>3, <1>4, RetransmissionKeeps
<1> HIDE DEF g
<1>6. d.state = TIMER_RECOVERY => Keeps(d, HandleRecovery(d, f))
  BY HandleRecoveryKeeps
<1> QED BY <1>2, <1>5, <1>6, BaseKeeps DEF HandleRNR, e, a, g

(* lapd_socket_handle_sframe_rej keeps the invariant.                      *)
LEMMA HandleREJKeeps ==
  ASSUME NEW d, Base(d), NEW f \in Frames
  PROVE  Keeps(d, HandleREJ(d, f))
<1> DEFINE e == Supervisory(d, f)
           a == Ack(e, f.nr)
           g == SuperviseIdle(a)
<1>1. f.nr \in SeqNos
  BY FrameFields
<1>2. /\ Keeps(d, e) /\ Base(e) /\ e.state = d.state
      /\ Keeps(d, NrErrorRecovery(e))
  BY SupervisoryKeeps
<1> HIDE DEF e
<1>3. /\ a \in Sockets /\ HeadInQueue(a) /\ a.state = e.state
      /\ a.retrans_cnt = e.retrans_cnt /\ a.owned = e.owned
  BY <1>1, <1>2, AckType DEF Base
<1> HIDE DEF a
<1>4. /\ g \in Sockets /\ SameLink(a, g) /\ g.state = a.state /\ g.T203 = TRUE
  BY <1>3, SuperviseIdleType
<1> HIDE DEF g
<1>5. /\ HeadInQueue(g) /\ g.retrans_cnt <= N200 /\ g.owned = d.owned
  BY <1>2, <1>3, <1>4 DEF Keeps, Base, SameLink, HeadInQueue
<1>6. d.state = LINK_ESTABLISHED => Keeps(d, InvokeRetransmission(g))
  BY <1>2, <1>3, <1>4, <1>5, RetransmissionKeeps
<1>7. d.state = TIMER_RECOVERY => Keeps(d, HandleRecovery(d, f))
  BY HandleRecoveryKeeps
<1> QED BY <1>2, <1>6, <1>7, BaseKeeps DEF HandleREJ, e, a, g

-----------------------------------------------------------------------------
(* Unnumbered frames.                                                      *)

(* A link that has just come up, or was just reset: nothing is             *)
(* outstanding and T203 runs.                                              *)
LEMMA UpKeeps ==
  ASSUME NEW c, NEW d \in Sockets, HeadInQueue(d), d.retrans_cnt <= N200,
         d.owned = c.owned, d.state \in Multiframe, d.T203, d.v_s = d.v_a,
         NEW p \in DlPrimitives
  PROVE  /\ Keeps(c, d)
         /\ Keeps(c, DlPrimitive(d, p))
         /\ Keeps(c, RunIQueue(DlPrimitive(d, p)))
<1> DEFINE e == DlPrimitive(d, p)
           r == RunIQueue(e)
<1>1. Keeps(c, d) /\ Base(d)
  BY DEF Keeps, Base, IsSupervised, HoldsNoData
<1>2. e \in Sockets /\ Same(d, e)
  BY DlPrimitiveType
<1> HIDE DEF e
<1>3. Keeps(c, e)
  BY <1>1, <1>2, SameKeeps, KeepsTransitive
<1>4. /\ r \in Sockets /\ HeadInQueue(r)
      /\ r.state = e.state /\ r.v_a = e.v_a
      /\ r.retrans_cnt = e.retrans_cnt /\ r.owned = e.owned
      /\ Same(e, r) \/ (e.state = LINK_ESTABLISHED /\ r.T200)
  BY <1>2, <1>3, RunIQueueType DEF Keeps, Base
<1> HIDE DEF r
<1>5. Keeps(c, r)
  BY <1>2, <1>4 DEF Same, Keeps, Base, IsSupervised, HoldsNoData
<1> QED BY <1>1, <1>3, <1>5 DEF e, r

(* With V(S) = V(A) nothing is discarded or indicated: the branch that the *)
(* UA and SABME handlers never take.                                       *)
LEMMA IndicateResetIdle ==
  ASSUME NEW d, d.v_s = d.v_a
  PROVE  IndicateReset(d) = d
BY DEF IndicateReset

(* lapd_socket_handle_uframe_ua keeps the invariant.                       *)
LEMMA HandleUAKeeps ==
  ASSUME NEW d, Base(d), NEW f \in Frames
  PROVE  Keeps(d, HandleUA(d, f))
<1> DEFINE i == SuperviseIdle(d)
           z == ResetSequence(i)
           up == ChangeState(z, LINK_ESTABLISHED)
           off == [d EXCEPT !.T200 = FALSE]
           down == ChangeState(off, TEI_ASSIGNED)
<1>1. d \in Sockets /\ HeadInQueue(d) /\ d.retrans_cnt <= N200
  BY DEF Base
<1>2. i \in Sockets /\ SameLink(d, i) /\ i.T203 = TRUE
  BY <1>1, SuperviseIdleType
<1>3. off \in Sockets /\ SameLink(d, off)
  BY <1>1, TimersType
<1> HIDE DEF i, off
<1>4. /\ z \in Sockets /\ z.v_s = z.v_a /\ z.T203 = i.T203
      /\ z.retrans_cnt = i.retrans_cnt /\ z.owned = i.owned
      /\ z.wq = i.wq /\ z.head = i.head
  BY <1>2, ResetSequenceType
<1> HIDE DEF z
<1>5. /\ up \in Sockets /\ SameLink(z, up) /\ up.state = LINK_ESTABLISHED
      /\ up.T203 = z.T203
  BY <1>4, ChangeStateType
<1>6. down \in Sockets /\ SameLink(off, down) /\ down.state = TEI_ASSIGNED
  BY <1>3, ChangeStateType
<1> HIDE DEF up, down
<1>7. /\ HeadInQueue(up) /\ up.retrans_cnt <= N200 /\ up.owned = d.owned
      /\ up.T203 /\ up.v_s = up.v_a
  BY <1>1, <1>2, <1>4, <1>5 DEF SameLink, HeadInQueue
<1>8. "ESTABLISH_CONFIRM" \in DlPrimitives /\ "RELEASE_CONFIRM" \in DlPrimitives
  BY DEF DlPrimitives
<1>9. Keeps(d, up) /\ Keeps(d, RunIQueue(DlPrimitive(up, "ESTABLISH_CONFIRM")))
  BY <1>5, <1>7, <1>8, UpKeeps
<1>10. IndicateReset(up) = up
  BY <1>7, IndicateResetIdle
<1>11. d.state = AWAITING_RELEASE => Keeps(d, DlPrimitive(down, "RELEASE_CONFIRM"))
  <2>1. /\ HeadInQueue(down) /\ down.retrans_cnt <= N200 /\ down.owned = d.owned
        /\ down.wq = d.wq
    BY <1>1, <1>3, <1>6 DEF SameLink, HeadInQueue
  <2>2. d.state = AWAITING_RELEASE => d.wq = << >>
    BY DEF Base, HoldsNoData
  <2> QED BY <1>6, <1>8, <2>1, <2>2, IdleKeeps
<1> QED BY <1>9, <1>10, <1>11, MdlErrorTeiKeeps, BaseKeeps
        DEF HandleUA, up, z, i, down, off

(* lapd_socket_handle_uframe_disc keeps the invariant.                     *)
LEMMA HandleDISCKeeps ==
  ASSUME NEW d, Base(d), NEW f \in Frames
  PROVE  Keeps(d, HandleDISC(d, f))
<1> DEFINE q == DiscardIQueue(d)
           u == SendU(q, "UA", f.pf)
           down == ChangeState(u, TEI_ASSIGNED)
           off1 == [down EXCEPT !.T200 = FALSE]
           off2 == [down EXCEPT !.T200 = FALSE, !.T203 = FALSE]
<1>1. d \in Sockets /\ d.retrans_cnt <= N200 /\ f.pf \in BOOLEAN
  BY FrameFields DEF Base
<1>2. /\ q \in Sockets /\ q.wq = << >> /\ HeadInQueue(q)
      /\ q.retrans_cnt = d.retrans_cnt /\ q.owned = d.owned
  BY <1>1, DiscardIQueueType
<1> HIDE DEF q
<1>3. u \in Sockets /\ Same(q, u)
  BY <1>1, <1>2, SendUType
<1> HIDE DEF u
<1>4. down \in Sockets /\ SameLink(u, down) /\ down.state = TEI_ASSIGNED
  BY <1>3, ChangeStateType
<1> HIDE DEF down
<1>5a. off1 \in Sockets /\ SameLink(down, off1) /\ off1.state = TEI_ASSIGNED
  BY <1>4, TimersType
<1>5b. off2 \in Sockets /\ SameLink(down, off2) /\ off2.state = TEI_ASSIGNED
  BY <1>4, TimersType
<1>5. /\ off1 \in Sockets /\ SameLink(down, off1) /\ off1.state = TEI_ASSIGNED
      /\ off2 \in Sockets /\ SameLink(down, off2) /\ off2.state = TEI_ASSIGNED
  BY <1>5a, <1>5b
<1> HIDE DEF off1, off2
<1>6. /\ off1.wq = << >> /\ HeadInQueue(off1)
      /\ off1.retrans_cnt <= N200 /\ off1.owned = d.owned
      /\ off2.wq = << >> /\ HeadInQueue(off2)
      /\ off2.retrans_cnt <= N200 /\ off2.owned = d.owned
  BY <1>1, <1>2, <1>3, <1>4, <1>5 DEF Same, SameLink, HeadInQueue
<1>7. "RELEASE_INDICATION" \in DlPrimitives
  BY DEF DlPrimitives
<1>8. /\ Keeps(d, DlPrimitive(off1, "RELEASE_INDICATION"))
      /\ Keeps(d, DlPrimitive(off2, "RELEASE_INDICATION"))
  BY <1>5, <1>6, <1>7, IdleKeeps
<1>9. Keeps(d, SendU(d, "DM", f.pf)) /\ Keeps(d, SendU(d, "UA", f.pf))
  BY <1>1, SendUType, SameKeeps
<1> QED BY <1>8, <1>9, BaseKeeps DEF HandleDISC, q, u, down, off1, off2

(* lapd_socket_handle_uframe_dm keeps the invariant.                       *)
LEMMA HandleDMKeeps ==
  ASSUME NEW d, Base(d), NEW f \in Frames
  PROVE  Keeps(d, HandleDM(d, f))
<1> DEFINE q == DiscardIQueue(d)
           down(e) == ChangeState([e EXCEPT !.T200 = FALSE], TEI_ASSIGNED)
<1>1. d \in Sockets /\ HeadInQueue(d) /\ d.retrans_cnt <= N200
  BY DEF Base
<1>2. /\ q \in Sockets /\ q.wq = << >> /\ HeadInQueue(q)
      /\ q.retrans_cnt = d.retrans_cnt /\ q.owned = d.owned
  BY <1>1, DiscardIQueueType
<1> HIDE DEF q
<1>3. ASSUME NEW e \in Sockets
      PROVE  /\ down(e) \in Sockets /\ SameLink(e, down(e))
             /\ down(e).state = TEI_ASSIGNED
  <2> DEFINE off == [e EXCEPT !.T200 = FALSE]
  <2>1. off \in Sockets /\ SameLink(e, off)
    BY TimersType
  <2> HIDE DEF off
  <2>2. /\ ChangeState(off, TEI_ASSIGNED) \in Sockets
        /\ SameLink(off, ChangeState(off, TEI_ASSIGNED))
        /\ ChangeState(off, TEI_ASSIGNED).state = TEI_ASSIGNED
    BY <2>1, ChangeStateType
  <2> QED BY <2>1, <2>2 DEF SameLink, off
<1> HIDE DEF down
<1>4. "RELEASE_INDICATION" \in DlPrimitives /\ "RELEASE_CONFIRM" \in DlPrimitives
  BY DEF DlPrimitives
<1>5. Keeps(d, DlPrimitive(down(q), "RELEASE_INDICATION"))
  <2>1. /\ down(q).wq = << >> /\ HeadInQueue(down(q))
        /\ down(q).retrans_cnt <= N200 /\ down(q).owned = d.owned
    BY <1>1, <1>2, <1>3 DEF SameLink, HeadInQueue
  <2> QED BY <1>2, <1>3, <1>4, <2>1, IdleKeeps
<1>6. d.state = AWAITING_RELEASE => Keeps(d, DlPrimitive(down(d), "RELEASE_CONFIRM"))
  <2>1. /\ down(d).wq = d.wq /\ HeadInQueue(down(d))
        /\ down(d).retrans_cnt <= N200 /\ down(d).owned = d.owned
    BY <1>1, <1>3 DEF SameLink, HeadInQueue
  <2>2. d.state = AWAITING_RELEASE => d.wq = << >>
    BY DEF Base, HoldsNoData
  <2> QED BY <1>1, <1>3, <1>4, <2>1, <2>2, IdleKeeps
<1>7. Keeps(d, Establish(d, TRUE)) /\ Keeps(d, Establish(d, FALSE))
  BY <1>1, EstablishKeeps
<1> QED BY <1>5, <1>6, <1>7, BaseKeeps DEF HandleDM, down, q

(* lapd_socket_handle_uframe_sabme keeps the invariant.                    *)
LEMMA HandleSABMEKeeps ==
  ASSUME NEW d, Base(d), NEW f \in Frames
  PROVE  Keeps(d, HandleSABME(d, f))
<1> DEFINE c == ClearExceptionConditions(d)
           z == ResetSequence(c)
           g == [z EXCEPT !.T203 = TRUE, !.state = LINK_ESTABLISHED]
           up == SendU(g, "UA", f.pf)
           v == SendU(d, "UA", f.pf)
           w == ClearExceptionConditions(v)
           i == SuperviseIdle(w)
           reset == ResetSequence(i)
<1>1. /\ d \in Sockets /\ HeadInQueue(d) /\ d.retrans_cnt <= N200
      /\ f.pf \in BOOLEAN
  BY FrameFields DEF Base
<1>2. c \in Sockets /\ Same(d, c)
  BY <1>1, ClearExceptionType
<1> HIDE DEF c
<1>3. /\ z \in Sockets /\ z.v_s = z.v_a
      /\ z.retrans_cnt = c.retrans_cnt /\ z.owned = c.owned
      /\ z.wq = c.wq /\ z.head = c.head
  BY <1>2, ResetSequenceType
<1> HIDE DEF z
<1>4a. g \in Sockets
  BY <1>3 DEF Sockets
<1>4b. /\ g.v_s = z.v_s /\ g.v_a = z.v_a /\ g.T203 = TRUE
       /\ g.state = LINK_ESTABLISHED
       /\ g.retrans_cnt = z.retrans_cnt /\ g.owned = z.owned
       /\ g.wq = z.wq /\ g.head = z.head
  BY <1>3 DEF Sockets
<1> HIDE DEF g
<1>5. up \in Sockets /\ Same(g, up) /\ v \in Sockets /\ Same(d, v)
  BY <1>1, <1>4a, SendUType
<1> HIDE DEF up, v
<1>6. /\ HeadInQueue(up) /\ up.retrans_cnt <= N200 /\ up.owned = d.owned
      /\ up.state \in Multiframe /\ up.T203 /\ up.v_s = up.v_a
  BY <1>1, <1>2, <1>3, <1>4b, <1>5 DEF Same, HeadInQueue
<1>7. "ESTABLISH_INDICATION" \in DlPrimitives
  BY DEF DlPrimitives
<1>8. Keeps(d, DlPrimitive(up, "ESTABLISH_INDICATION"))
  BY <1>5, <1>6, <1>7, UpKeeps
<1>9. w \in Sockets /\ Same(v, w)
  BY <1>5, ClearExceptionType
<1> HIDE DEF w
<1>10. /\ i \in Sockets /\ SameLink(w, i) /\ i.state = w.state /\ i.T203 = TRUE
  BY <1>9, SuperviseIdleType
<1> HIDE DEF i
<1>11. /\ reset \in Sockets /\ reset.v_s = reset.v_a
       /\ reset.state = i.state /\ reset.T203 = i.T203
       /\ reset.retrans_cnt = i.retrans_cnt /\ reset.owned = i.owned
       /\ reset.wq = i.wq /\ reset.head = i.head
  BY <1>10, ResetSequenceType
<1> HIDE DEF reset
<1>12. /\ HeadInQueue(reset) /\ reset.retrans_cnt <= N200
       /\ reset.owned = d.owned /\ reset.state = d.state
  BY <1>1, <1>5, <1>9, <1>10, <1>11 DEF Same, SameLink, HeadInQueue
<1>13. d.state \in Multiframe => Keeps(d, IndicateReset(reset))
  BY <1>7, <1>10, <1>11, <1>12, UpKeeps, IndicateResetIdle
<1>14. Keeps(d, SendU(d, "DM", f.pf)) /\ Keeps(d, v)
  BY <1>1, <1>5, SendUType, SameKeeps
<1> QED BY <1>8, <1>13, <1>14, BaseKeeps
        DEF HandleSABME, up, g, z, c, reset, i, w, v

(* lapd_dlc_recv: every frame keeps the invariant.                         *)
LEMMA DlcRecvKeeps ==
  ASSUME NEW d, Base(d), NEW f \in Frames
  PROVE  Keeps(d, DlcRecv(d, f))
<1>1. d \in Sockets /\ HeadInQueue(d) /\ f.data \in Data \cup {NoData}
  BY FrameFields DEF Base
<1>2. Keeps(d, Establish(d, FALSE))
  BY <1>1, EstablishKeeps
<1>3. Keeps(d, HandleFRMR(d, f)) /\ Keeps(d, FrameReject(d))
  BY <1>2, BaseKeeps DEF HandleFRMR, FrameReject
<1>4. Keeps(d, DataIndication(d, "UNIT_DATA", f.data))
  BY <1>1, DataIndicationType, SameKeeps
<1> QED BY <1>3, <1>4, BaseKeeps, HandleIFrameKeeps, HandleRRKeeps,
        HandleRNRKeeps, HandleREJKeeps, HandleSABMEKeeps, HandleDMKeeps,
        HandleDISCKeeps, HandleUAKeeps DEF DlcRecv

-----------------------------------------------------------------------------
(* Layer management, layer 1 and the user.                                 *)

(* lapd_mdl_assign_request keeps the invariant.                            *)
LEMMA MdlAssignRequestKeeps ==
  ASSUME NEW d, Base(d)
  PROVE  Keeps(d, MdlAssignRequest(d))
<1> DEFINE e == ChangeState(d, TEI_ASSIGNED)
<1>1. d \in Sockets /\ HeadInQueue(d) /\ d.retrans_cnt <= N200
  BY DEF Base
<1>2. e \in Sockets /\ SameLink(d, e) /\ e.state = TEI_ASSIGNED
  BY <1>1, ChangeStateType
<1> HIDE DEF e
<1>3. d.state \in {TEI_UNASSIGNED, AWAITING_TEI} => Keeps(d, e)
  BY <1>1, <1>2, IdleKeeps
     DEF SameLink, HeadInQueue, Base, HoldsNoData, DlPrimitives
<1>4. Keeps(d, Establish(d, TRUE))
  BY <1>1, EstablishKeeps
<1> QED BY <1>3, <1>4, BaseKeeps DEF MdlAssignRequest, e

(* lapd_mdl_error_response keeps the invariant.                            *)
LEMMA MdlErrorResponseKeeps ==
  ASSUME NEW d, Base(d)
  PROVE  Keeps(d, MdlErrorResponse(d))
<1> DEFINE q == DiscardUiQueue(d)
           e == ChangeState(q, TEI_UNASSIGNED)
<1>1. d \in Sockets /\ HeadInQueue(d) /\ d.retrans_cnt <= N200
  BY DEF Base
<1>2. q \in Sockets /\ Same(d, q)
  BY <1>1, DiscardUiType
<1> HIDE DEF q
<1>3. e \in Sockets /\ SameLink(q, e) /\ e.state = TEI_UNASSIGNED
  BY <1>2, ChangeStateType
<1> HIDE DEF e
<1>4. d.state \in {AWAITING_TEI, ESTABLISH_AWAITING_TEI} =>
        Keeps(d, e) /\ Keeps(d, DlPrimitive(e, "RELEASE_INDICATION"))
  BY <1>1, <1>2, <1>3, IdleKeeps
     DEF Same, SameLink, HeadInQueue, Base, HoldsNoData, DlPrimitives
<1> QED BY <1>4, BaseKeeps DEF MdlErrorResponse, e, q

(* lapd_persistent_deactivation.                                           *)
LEMMA PersistentDeactivationKeeps ==
  ASSUME NEW d, Base(d)
  PROVE  Keeps(d, PersistentDeactivation(d))
<1> DEFINE idle(e) == ChangeState(DiscardUiQueue([e EXCEPT !.T200 = FALSE]),
                                  TEI_ASSIGNED)
           q == DiscardIQueue(d)
           a == idle(d)
           b == idle(q)
           b2 == [b EXCEPT !.T203 = FALSE]
           ui == DiscardUiQueue(d)
<1>1. d \in Sockets /\ HeadInQueue(d) /\ d.retrans_cnt <= N200
  BY DEF Base
<1>2. ASSUME NEW e \in Sockets
      PROVE  /\ idle(e) \in Sockets /\ SameLink(e, idle(e))
             /\ idle(e).state = TEI_ASSIGNED
  <2> DEFINE off == [e EXCEPT !.T200 = FALSE]
  <2>1. off \in Sockets /\ SameLink(e, off)
    BY TimersType
  <2> HIDE DEF off
  <2>2. DiscardUiQueue(off) \in Sockets /\ Same(off, DiscardUiQueue(off))
    BY <2>1, DiscardUiType
  <2>3. /\ ChangeState(DiscardUiQueue(off), TEI_ASSIGNED) \in Sockets
        /\ SameLink(DiscardUiQueue(off),
                    ChangeState(DiscardUiQueue(off), TEI_ASSIGNED))
        /\ ChangeState(DiscardUiQueue(off), TEI_ASSIGNED).state = TEI_ASSIGNED
    BY <2>2, ChangeStateType
  <2> QED BY <2>1, <2>2, <2>3 DEF Same, SameLink, off
<1>3. /\ q \in Sockets /\ q.wq = << >> /\ HeadInQueue(q)
      /\ q.retrans_cnt = d.retrans_cnt /\ q.owned = d.owned
  BY <1>1, DiscardIQueueType
<1>4. /\ a \in Sockets /\ SameLink(d, a) /\ a.state = TEI_ASSIGNED
      /\ b \in Sockets /\ SameLink(q, b) /\ b.state = TEI_ASSIGNED
  BY <1>1, <1>2, <1>3
<1> HIDE DEF idle, a, b, q
<1>5. b2 \in Sockets /\ SameLink(b, b2) /\ b2.state = TEI_ASSIGNED
  BY <1>4, TimersType
<1> HIDE DEF b2
<1>6. /\ Keeps(d, DlPrimitive(b, "RELEASE_INDICATION"))
      /\ Keeps(d, DlPrimitive(b2, "RELEASE_INDICATION"))
  BY <1>1, <1>3, <1>4, <1>5, IdleKeeps DEF SameLink, HeadInQueue, DlPrimitives
<1>7. d.state = AWAITING_RELEASE => Keeps(d, DlPrimitive(a, "RELEASE_CONFIRM"))
  BY <1>1, <1>4, IdleKeeps
     DEF SameLink, HeadInQueue, DlPrimitives, Base, HoldsNoData
<1>8. Keeps(d, ui)
  BY <1>1, DiscardUiType, SameKeeps
<1> QED BY <1>6, <1>7, <1>8, BaseKeeps, MdlErrorResponseKeeps
        DEF PersistentDeactivation, a, b, b2, ui, idle, q

(* lapd_dl_establish_request keeps the invariant.                          *)
LEMMA DlEstablishRequestKeeps ==
  ASSUME NEW d, Base(d)
  PROVE  Keeps(d, DlEstablishRequest(d))
<1> DEFINE e == ChangeState(d, ESTABLISH_AWAITING_TEI)
           q == DiscardIQueue(d)
<1>1. d \in Sockets /\ HeadInQueue(d) /\ d.retrans_cnt <= N200
  BY DEF Base
<1>2. e \in Sockets /\ SameLink(d, e) /\ e.state = ESTABLISH_AWAITING_TEI
  BY <1>1, ChangeStateType
<1>3. q \in Sockets /\ HeadInQueue(q) /\ q.owned = d.owned
  BY <1>1, DiscardIQueueType
<1> HIDE DEF e, q
<1>4. d.state \in {TEI_UNASSIGNED, AWAITING_TEI} => Keeps(d, e)
  BY <1>1, <1>2, IdleKeeps
     DEF SameLink, HeadInQueue, Base, HoldsNoData, DlPrimitives
<1>5. Keeps(d, Establish(d, TRUE)) /\ Keeps(d, Establish(q, TRUE))
  BY <1>1, <1>3, EstablishKeeps
<1> QED BY <1>4, <1>5, BaseKeeps DEF DlEstablishRequest, e, q

(* lapd_dl_release_request; T200 supervises the DISC.                      *)
LEMMA DlReleaseRequestKeeps ==
  ASSUME NEW d, Base(d)
  PROVE  Keeps(d, DlReleaseRequest(d))
<1> DEFINE q == DiscardIQueue(d)
           u == SendU(q, "DISC", TRUE)
           t == IF d.state = LINK_ESTABLISHED THEN FALSE ELSE u.T203
           e == [u EXCEPT !.retrans_cnt = 0, !.T200 = TRUE,
                          !.T203 = t, !.state = AWAITING_RELEASE]
<1>1. d \in Sockets
  BY DEF Base
<1>2. q \in Sockets /\ q.wq = << >> /\ HeadInQueue(q) /\ q.owned = d.owned
  BY <1>1, DiscardIQueueType
<1> HIDE DEF q
<1>3. u \in Sockets /\ Same(q, u)
  BY <1>2, SendUType
<1> HIDE DEF u
<1>4. t \in BOOLEAN
  BY <1>3 DEF Sockets
<1> HIDE DEF t
<1>5a. e \in Sockets
  BY <1>3, <1>4 DEF Sockets
<1>5b. /\ e.retrans_cnt = 0 /\ e.T200 = TRUE /\ e.state = AWAITING_RELEASE
       /\ e.wq = u.wq /\ e.head = u.head /\ e.owned = u.owned
  BY <1>3 DEF Sockets
<1> HIDE DEF e
<1>6. Keeps(d, e)
  BY <1>2, <1>3, <1>5a, <1>5b, N200Assumption
     DEF Same, Keeps, Base, HeadInQueue, IsSupervised, HoldsNoData
<1>7. Keeps(d, DlPrimitive(d, "RELEASE_CONFIRM"))
  BY <1>1, DlPrimitiveType, SameKeeps DEF DlPrimitives
<1> QED BY <1>6, <1>7, BaseKeeps DEF DlReleaseRequest, e, t, u, q

(* lapd_dl_data_request: the frame is queued, and sent if the link is up   *)
(* and the window open.                                                    *)
LEMMA DlDataRequestKeeps ==
  ASSUME NEW d, Base(d), NEW x \in Data
  PROVE  Keeps(d, DlDataRequest(d, x))
<1> DEFINE q == QueueIFrame(d, x)
           r == RunIQueue(q)
<1>1. d \in Sockets /\ HeadInQueue(d) /\ d.retrans_cnt <= N200
  BY DEF Base
<1>2. /\ q \in Sockets /\ HeadInQueue(q)
      /\ q.state = d.state /\ q.T200 = d.T200 /\ q.T203 = d.T203
      /\ q.v_s = d.v_s /\ q.v_a = d.v_a
      /\ q.retrans_cnt = d.retrans_cnt /\ q.owned = d.owned
  BY <1>1, QueueIFrameType
<1> HIDE DEF q
<1>3. d.state \in {AWAITING_ESTABLISH} \cup Multiframe => Keeps(d, q)
  BY <1>1, <1>2 DEF Keeps, Base, IsSupervised, HoldsNoData
<1>4. /\ r \in Sockets /\ HeadInQueue(r)
      /\ r.state = q.state /\ r.v_a = q.v_a
      /\ r.retrans_cnt = q.retrans_cnt /\ r.owned = q.owned
      /\ Same(q, r) \/ (q.state = LINK_ESTABLISHED /\ r.T200)
  BY <1>2, RunIQueueType
<1> HIDE DEF r
<1>5. d.state = LINK_ESTABLISHED => Keeps(d, r)
  BY <1>1, <1>2, <1>4 DEF Same, Keeps, Base, IsSupervised, HoldsNoData
<1> QED BY <1>3, <1>5, BaseKeeps DEF DlDataRequest, q, r

(* A UI frame is a frame (lapd_sock_queue_uframe).                         *)
LEMMA UIFrameType ==
  ASSUME NEW x \in Data
  PROVE  UIFrame(x) \in Frames
<1>1. UFrame("UI", FALSE) \in Frames
  BY ModAssumption DEF UFrame, Frames, FrameTypes, SeqNos
<1> QED BY <1>1 DEF UIFrame, Frames

(* lapd_run_ui_queue sends and empties u_queue only.                       *)
LEMMA RunUiQueueType ==
  ASSUME NEW d \in Sockets
  PROVE  RunUiQueue(d) \in Sockets /\ Same(d, RunUiQueue(d))
<1> DEFINE u == [i \in 1 .. Len(d.uq) |-> UIFrame(d.uq[i])]
           t == d.tx \o u
           e == [d EXCEPT !.tx = t, !.uq = << >>]
<1>1. d.uq \in Seq(Data) /\ d.tx \in Seq(Frames) /\ Len(d.uq) \in Nat
  BY DEF Sockets
<1>2. ASSUME NEW i \in 1 .. Len(d.uq)
      PROVE  UIFrame(d.uq[i]) \in Frames
  <2>1. d.uq[i] \in Data
    BY <1>1
  <2> QED BY <2>1, UIFrameType
<1>3. u \in Seq(Frames)
  BY <1>1, <1>2, IsASeq
<1>4. t \in Seq(Frames)
  BY <1>1, <1>3, ConcatProperties
<1>5. << >> \in Seq(Data)
  OBVIOUS
<1>6. RunUiQueue(d) = e
  BY DEF RunUiQueue
<1> HIDE DEF t
<1>7. e \in Sockets
  BY <1>4, <1>5 DEF Sockets
<1>8. Same(d, e)
  BY DEF Sockets, Same
<1> QED BY <1>6, <1>7, <1>8

(* lapd_dl_unit_data_request keeps the invariant.                          *)
LEMMA DlUnitDataRequestKeeps ==
  ASSUME NEW d, Base(d), NEW x \in Data
  PROVE  Keeps(d, DlUnitDataRequest(d, x))
<1> DEFINE w == Append(d.uq, x)
           q == [d EXCEPT !.uq = w]
           e == ChangeState(q, AWAITING_TEI)
           r == RunUiQueue(q)
<1>1. d \in Sockets /\ HeadInQueue(d) /\ d.retrans_cnt <= N200
  BY DEF Base
<1>2. w \in Seq(Data)
  <2>1. d.uq \in Seq(Data)
    BY <1>1 DEF Sockets
  <2> QED BY <2>1
<1> HIDE DEF w
<1>3a. q \in Sockets
  BY <1>1, <1>2 DEF Sockets
<1>3b. Same(d, q)
  BY <1>1 DEF Sockets, Same
<1>3. Keeps(d, q)
  BY <1>3a, <1>3b, SameKeeps
<1> HIDE DEF q
<1>4. r \in Sockets /\ Same(q, r)
  BY <1>3a, RunUiQueueType
<1>5. e \in Sockets /\ SameLink(q, e) /\ e.state = AWAITING_TEI
  BY <1>3a, ChangeStateType
<1> HIDE DEF r, e
<1>6. Keeps(d, r)
  BY <1>3, <1>4, SameKeeps, KeepsTransitive DEF Keeps
<1>7. d.state = TEI_UNASSIGNED => Keeps(d, e)
  BY <1>1, <1>3b, <1>5, IdleKeeps
     DEF Same, SameLink, HeadInQueue, Base, HoldsNoData, DlPrimitives
<1> QED BY <1>3, <1>6, <1>7 DEF DlUnitDataRequest, e, r, q, w

(* lapd_release.                                                           *)
LEMMA ReleaseKeeps ==
  ASSUME NEW d, Base(d)
  PROVE  Keeps(d, Release(d))
<1> DEFINE a == [d EXCEPT !.sk = "CLOSING"]
           b == [d EXCEPT !.sk = "CLOSED", !.hashed = FALSE]
<1>1. d \in Sockets
  BY DEF Base
<1>2. a \in Sockets /\ b \in Sockets
  BY <1>1 DEF Sockets
<1>3. \A e \in {a, b} :
        /\ SameLink([d EXCEPT !.sk = e.sk], e) /\ e.state = d.state
        /\ e.T200 = d.T200 /\ e.T203 = d.T203
  BY <1>1 DEF Sockets, SameLink
<1>4. \A e \in {a, b} : e.wq = d.wq /\ e.head = d.head /\ e.v_s = d.v_s
        /\ e.v_a = d.v_a /\ e.retrans_cnt = d.retrans_cnt /\ e.owned = d.owned
  BY <1>1 DEF Sockets
<1> HIDE DEF a, b
<1>5. Keeps(d, a) /\ Keeps(d, b)
  BY <1>2, <1>3, <1>4 DEF Keeps, Base, HeadInQueue, IsSupervised, HoldsNoData
<1>6. Keeps(d, DlReleaseRequest(a))
  BY <1>5, DlReleaseRequestKeeps, KeepsTransitive DEF Keeps
<1> QED BY <1>5, <1>6 DEF Release, a, b

-----------------------------------------------------------------------------
(* Timers.                                                                 *)

(* lapd_timer_T200 keeps the invariant: it stops at N200 or starts again.  *)
LEMMA TimerT200Keeps ==
  ASSUME NEW d, Base(d)
  PROVE  Keeps(d, TimerT200(d))
<1> DEFINE e == [d EXCEPT !.T200 = FALSE]
           q == DiscardIQueue(e)
           c == ChangeState(q, TEI_ASSIGNED)
           m == MdlErrorTei(c)
           g == ChangeState(e, TEI_ASSIGNED)
           p == DlPrimitive(g, "RELEASE_CONFIRM")
           n == TransmitEnquiry(e)
<1>1. d \in Sockets /\ HeadInQueue(d) /\ d.retrans_cnt <= N200
  BY DEF Base
<1>2. e \in Sockets /\ SameLink(d, e) /\ e.state = d.state /\ e.T203 = d.T203
  BY <1>1, TimersType
<1> HIDE DEF e
<1>3. HeadInQueue(e) /\ e.retrans_cnt = d.retrans_cnt /\ e.owned = d.owned
  BY <1>1, <1>2 DEF SameLink, HeadInQueue
<1>4. "RELEASE_INDICATION" \in DlPrimitives /\ "RELEASE_CONFIRM" \in DlPrimitives
  BY DEF DlPrimitives
<1>5. Keeps(d, Establish(e, FALSE))
  BY <1>2, <1>3, EstablishKeeps
<1>6. Keeps(d, DlPrimitive(m, "RELEASE_INDICATION"))
  <2>1. /\ q \in Sockets /\ q.wq = << >> /\ HeadInQueue(q)
        /\ q.retrans_cnt = e.retrans_cnt /\ q.owned = e.owned
    BY <1>2, DiscardIQueueType
  <2> HIDE DEF q
  <2>2. c \in Sockets /\ SameLink(q, c) /\ c.state = TEI_ASSIGNED
    BY <2>1, ChangeStateType
  <2> HIDE DEF c
  <2>3. Keeps(d, c) /\ Base(c)
    BY <1>1, <1>3, <1>4, <2>1, <2>2, IdleKeeps DEF SameLink, HeadInQueue, Keeps
  <2>4. Keeps(c, m) /\ Base(m)
    BY <2>3, MdlErrorTeiKeeps DEF Keeps
  <2> HIDE DEF m
  <2>5. Keeps(m, DlPrimitive(m, "RELEASE_INDICATION"))
    BY <1>4, <2>4, DlPrimitiveType, SameKeeps DEF Base
  <2> QED BY <2>3, <2>4, <2>5, KeepsTransitive
<1>7. d.state = AWAITING_RELEASE => Keeps(d, MdlErrorTei(p))
  <2> SUFFICES ASSUME d.state = AWAITING_RELEASE
               PROVE  Keeps(d, MdlErrorTei(p))
    OBVIOUS
  <2>1. d.wq = << >>
    BY DEF Base, HoldsNoData
  <2>2. g \in Sockets /\ SameLink(e, g) /\ g.state = TEI_ASSIGNED
    BY <1>2, ChangeStateType
  <2> HIDE DEF g
  <2>3. Keeps(d, p)
    BY <1>1, <1>2, <1>3, <1>4, <2>1, <2>2, IdleKeeps DEF SameLink, HeadInQueue
  <2> HIDE DEF p
  <2> QED BY <2>3, MdlErrorTeiKeeps, KeepsTransitive DEF Keeps
<1>8. ASSUME NEW f \in {"SABME", "DISC"}, d.retrans_cnt # N200,
             d.state \in {AWAITING_ESTABLISH, AWAITING_RELEASE}
      PROVE  Keeps(d, Repeat(e, f))
  <2> DEFINE u == SendU(e, f, TRUE)
             r == u.retrans_cnt + 1
             a == [u EXCEPT !.retrans_cnt = r, !.T200 = TRUE]
  <2>1. u \in Sockets /\ Same(e, u)
    BY <1>2, SendUType
  <2> HIDE DEF u
  <2>0. r \in Nat
    BY <2>1 DEF Sockets
  <2> HIDE DEF r
  <2>2. a \in Sockets
    BY <2>0, <2>1 DEF Sockets
  <2>3. /\ a.retrans_cnt = r /\ a.T200 = TRUE
        /\ a.state = u.state /\ a.wq = u.wq /\ a.head = u.head
        /\ a.owned = u.owned
    BY <2>1 DEF Sockets
  <2> HIDE DEF a
  <2>4. a.retrans_cnt <= N200
    <3>1. d.retrans_cnt \in Nat
      BY <1>1 DEF Sockets
    <3> QED BY <1>1, <1>3, <1>8, <2>1, <2>3, <3>1, N200Assumption DEF Same, r
  <2>5. Keeps(d, a)
    BY <1>2, <1>3, <1>8, <2>1, <2>2, <2>3, <2>4
       DEF Same, SameLink, Keeps, Base, HeadInQueue, IsSupervised, HoldsNoData
  <2> QED BY <2>5 DEF Repeat, a, r, u
<1>9. /\ n \in Sockets /\ SameLink(e, n) /\ n.state = e.state /\ n.T200
  BY <1>2, TransmitEnquiryType
<1> HIDE DEF n
<1>10. d.state = LINK_ESTABLISHED =>
         Keeps(d, [n EXCEPT !.retrans_cnt = 1, !.state = TIMER_RECOVERY])
  <2> DEFINE a == [n EXCEPT !.retrans_cnt = 1, !.state = TIMER_RECOVERY]
  <2>1. a \in Sockets
    BY <1>9 DEF Sockets
  <2>2. /\ a.retrans_cnt = 1 /\ a.state = TIMER_RECOVERY
        /\ a.wq = n.wq /\ a.head = n.head /\ a.owned = n.owned
    BY <1>9 DEF Sockets
  <2> HIDE DEF a
  <2>3. Keeps(d, a)
    BY <1>2, <1>3, <1>9, <2>1, <2>2, N200Assumption
       DEF SameLink, Keeps, Base, HeadInQueue, IsSupervised, HoldsNoData
  <2> QED BY <2>3 DEF a
<1>11. d.state = TIMER_RECOVERY /\ d.retrans_cnt # N200 =>
         Keeps(d, [n EXCEPT !.retrans_cnt = @ + 1])
  <2> SUFFICES ASSUME d.state = TIMER_RECOVERY, d.retrans_cnt # N200
               PROVE  Keeps(d, [n EXCEPT !.retrans_cnt = @ + 1])
    OBVIOUS
  <2> DEFINE r == n.retrans_cnt + 1
             a == [n EXCEPT !.retrans_cnt = r]
  <2>0. r \in Nat
    BY <1>9 DEF Sockets
  <2> HIDE DEF r
  <2>1. a \in Sockets
    BY <1>9, <2>0 DEF Sockets
  <2>2. /\ a.retrans_cnt = r /\ a.state = n.state
        /\ a.wq = n.wq /\ a.head = n.head /\ a.owned = n.owned
    BY <1>9 DEF Sockets
  <2> HIDE DEF a
  <2>3. a.retrans_cnt <= N200
    <3>1. d.retrans_cnt \in Nat
      BY <1>1 DEF Sockets
    <3> QED BY <1>1, <1>3, <1>9, <2>2, <3>1, N200Assumption DEF SameLink, r
  <2>4. Keeps(d, a)
    BY <1>2, <1>3, <1>9, <2>1, <2>2, <2>3
       DEF SameLink, Keeps, Base, HeadInQueue, IsSupervised, HoldsNoData
  <2> QED BY <2>4 DEF a, r
<1>12. d.state \notin {AWAITING_ESTABLISH, AWAITING_RELEASE, LINK_ESTABLISHED,
                       TIMER_RECOVERY} => Keeps(d, e)
  BY <1>1, <1>2, <1>3
     DEF SameLink, Keeps, Base, HeadInQueue, IsSupervised, HoldsNoData
<1> QED BY <1>5, <1>6, <1>7, <1>8, <1>10, <1>11, <1>12
        DEF TimerT200, Exhausted, m, c, q, p, g, n, e

(* lapd_timer_T203 keeps the invariant: the enquiry runs under T200.       *)
LEMMA TimerT203Keeps ==
  ASSUME NEW d, Base(d)
  PROVE  Keeps(d, TimerT203(d))
<1> DEFINE e == [d EXCEPT !.T203 = FALSE]
           n == TransmitEnquiry(e)
           a == [n EXCEPT !.retrans_cnt = 0, !.state = TIMER_RECOVERY]
<1>1. d \in Sockets /\ HeadInQueue(d) /\ d.retrans_cnt <= N200
  BY DEF Base
<1>2. e \in Sockets /\ SameLink(d, e) /\ e.state = d.state /\ e.T200 = d.T200
  BY <1>1, TimersType
<1> HIDE DEF e
<1>3. n \in Sockets /\ SameLink(e, n)
  BY <1>2, TransmitEnquiryType
<1> HIDE DEF n
<1>4a. a \in Sockets
  BY <1>3 DEF Sockets
<1>4b. /\ a.retrans_cnt = 0 /\ a.state = TIMER_RECOVERY
       /\ a.wq = n.wq /\ a.head = n.head /\ a.owned = n.owned
  BY <1>3 DEF Sockets
<1> HIDE DEF a
<1>5. Keeps(d, a)
  BY <1>1, <1>2, <1>3, <1>4a, <1>4b, N200Assumption
     DEF SameLink, Keeps, Base, HeadInQueue, IsSupervised, HoldsNoData
<1>6. d.state # LINK_ESTABLISHED => Keeps(d, e)
  BY <1>1, <1>2
     DEF SameLink, Keeps, Base, HeadInQueue, IsSupervised, HoldsNoData
<1> QED BY <1>5, <1>6 DEF TimerT203, a, n, e

(* So does the T203 that finds the socket owned, since T200 takes its      *)
(* place.                                                                  *)
LEMMA TimerT203OwnedKeeps ==
  ASSUME NEW d, Base(d)
  PROVE  Keeps(d, TimerT203Owned(d))
<1> DEFINE e == [d EXCEPT !.T200 = TRUE, !.T203 = FALSE]
<1>1. d \in Sockets /\ HeadInQueue(d) /\ d.retrans_cnt <= N200
  BY DEF Base
<1>2. e \in Sockets /\ SameLink(d, e) /\ e.state = d.state /\ e.T200 = TRUE
  BY <1>1, TimersType
<1>3. e = TimerT203Owned(d)
  BY <1>1 DEF TimerT203Owned, Sockets
<1> HIDE DEF e
<1>4. Keeps(d, e)
  BY <1>1, <1>2
     DEF SameLink, Keeps, Base, HeadInQueue, IsSupervised, HoldsNoData
<1> QED BY <1>3, <1>4

(* lapd_unhash_timer keeps the invariant.                                  *)
LEMMA UnhashTimerKeeps ==
  ASSUME NEW d, Base(d)
  PROVE  Keeps(d, UnhashTimer(d))
<1>1. d \in Sockets
  BY DEF Base
<1>2. UnhashTimer(d) \in Sockets
  BY <1>1 DEF UnhashTimer, Sockets
<1>3. Same(d, UnhashTimer(d))
  BY <1>1 DEF UnhashTimer, Sockets, Same
<1> QED BY <1>2, <1>3, SameKeeps

-----------------------------------------------------------------------------
(* The specification.                                                      *)

(* The inductive invariant.                                                *)
IInv == Base(s) /\ IsSupervised(s) /\ s.tx = << >> /\ ~s.owned

(* The socket that lapd_bind or lapd_new_sock leaves satisfies it.         *)
LEMMA InitInvariant ==
  Init => IInv
<1> SUFFICES ASSUME Init PROVE IInv
  OBVIOUS
<1>1. s = InitSocket(Te, K)
  BY DEF Init
<1>2. /\ << >> \in Seq(Queued) /\ << >> \in Seq(Data)
      /\ << >> \in Seq(Received) /\ << >> \in Seq(Frames)
      /\ Len(<< >>) = 0
  OBVIOUS
<1>3. 0 \in SeqNos /\ 0 \in Nat /\ 0 <= N200
  BY ModAssumption, N200Assumption DEF SeqNos
<1>4. s \in Sockets
  BY <1>1, <1>2, <1>3, TeAssumption, KAssumption DEF InitSocket, Sockets, Null
<1>5. /\ s.state \in {TEI_UNASSIGNED, TEI_ASSIGNED}
      /\ s.head = 0 /\ s.wq = << >> /\ s.retrans_cnt = 0
      /\ s.tx = << >> /\ s.owned = FALSE
  BY <1>1 DEF InitSocket, Null
<1> QED BY <1>2, <1>3, <1>4, <1>5
        DEF IInv, Base, HeadInQueue, IsSupervised, HoldsNoData

(* The frames leave the socket at the end of a step.                       *)
LEMMA StepInvariant ==
  ASSUME NEW d, Base(d), IsSupervised(d), ~d.owned, Step(d)
  PROVE  IInv'
<1> DEFINE e == [d EXCEPT !.tx = << >>]
<1>1. << >> \in Seq(Frames) /\ d \in Sockets
  BY DEF Base
<1>2. e \in Sockets /\ Same(d, e)
  BY <1>1, TxType
<1>3. e.tx = << >>
  BY <1>1 DEF Sockets
<1> HIDE DEF e
<1>4. Base(e) /\ IsSupervised(e) /\ ~e.owned
  BY <1>2, SameKeeps DEF Keeps
<1>5. s' = e
  BY DEF Step, e
<1> QED BY <1>3, <1>4, <1>5 DEF IInv, Base, IsSupervised, HeadInQueue, HoldsNoData

(* A step by a handler that keeps the invariant of a socket keeps IInv.    *)
LEMMA KeepsInvariant ==
  ASSUME IInv, NEW d, Keeps(s, d), Step(d)
  PROVE  IInv'
<1>1. Base(d) /\ IsSupervised(d) /\ ~d.owned
  BY DEF IInv, Keeps
<1> QED BY <1>1, StepInvariant

(* What the peer may send are frames.                                      *)
LEMMA PeerFramesAreFrames ==
  ASSUME NEW f \in PeerFrames
  PROVE  f \in Frames
<1>0. 0 \in SeqNos
  BY ModAssumption DEF SeqNos
<1>1. ASSUME NEW ns \in SeqNos, NEW nr \in SeqNos, NEW x \in Data,
             NEW pf \in BOOLEAN
      PROVE  [IFrame(ns, nr, x) EXCEPT !.pf = pf] \in Frames
  <2>1. IFrame(ns, nr, x) \in Frames
    BY DEF IFrame, Frames, FrameTypes
  <2> QED BY <2>1 DEF Frames
<1>2. ASSUME NEW t \in {"RR", "RNR", "REJ"}, NEW cmd \in BOOLEAN,
             NEW pf \in BOOLEAN, NEW nr \in SeqNos
      PROVE  SFrame(t, cmd, pf, nr) \in Frames
  BY <1>0 DEF SFrame, Frames, FrameTypes
<1>3. ASSUME NEW t \in FrameTypes, NEW pf \in BOOLEAN
      PROVE  UFrame(t, pf) \in Frames
  BY <1>0 DEF UFrame, Frames
<1>4. f \in PeerIFrames => f \in Frames
  BY <1>1 DEF PeerIFrames
<1>5. f \in PeerSFrames => f \in Frames
  BY <1>2 DEF PeerSFrames
<1>6. f \in PeerUFrames => f \in Frames
  BY <1>3 DEF PeerUFrames, FrameTypes
<1>7. f \in PeerOthers => f \in Frames
  BY <1>3 DEF PeerOthers, FrameTypes
<1>8. f \in PeerUiFrames => f \in Frames
  BY UIFrameType DEF PeerUiFrames
<1> QED BY <1>4, <1>5, <1>6, <1>7, <1>8 DEF PeerFrames

(* A frame handled from the backlog, with a timer that expires before it:  *)
(* the handler keeps Base, and T200 is set again after it.                 *)
LEMMA RecvBacklogInvariant ==
  ASSUME IInv, NEW f \in PeerFrames, NEW late, RecvBacklog(f, late)
  PROVE  IInv'
<1> DEFINE t2 == s.T200 /\ late # "T200"
           t3 == s.T203 /\ late # "T203"
           o == [s EXCEPT !.owned = TRUE, !.T200 = t2, !.T203 = t3]
           e == DlcRecv(o, f)
           t4 == e.T200 \/ late # "none"
           g == [e EXCEPT !.owned = FALSE, !.T200 = t4]
<1>1. s \in Sockets /\ f \in Frames
  BY PeerFramesAreFrames DEF IInv, Base
<1>2. t2 \in BOOLEAN /\ t3 \in BOOLEAN
  OBVIOUS
<1>3. late = "none" => t2 = s.T200 /\ t3 = s.T203
  BY <1>1 DEF Sockets
<1> HIDE DEF t2, t3
<1>4a. o \in Sockets
  BY <1>1, <1>2 DEF Sockets
<1>4b. /\ o.T200 = t2 /\ o.T203 = t3 /\ o.state = s.state
       /\ o.v_s = s.v_s /\ o.v_a = s.v_a /\ o.retrans_cnt = s.retrans_cnt
       /\ o.wq = s.wq /\ o.head = s.head
  BY <1>1 DEF Sockets
<1> HIDE DEF o
<1>5. Base(o)
  BY <1>4a, <1>4b DEF IInv, Base, HeadInQueue, HoldsNoData
<1>6. late = "none" => IsSupervised(o)
  BY <1>3, <1>4b DEF IInv, IsSupervised
<1>7. Base(e) /\ (late = "none" => IsSupervised(e))
  BY <1>1, <1>5, <1>6, DlcRecvKeeps DEF Keeps
<1> HIDE DEF e
<1>8. e \in Sockets /\ t4 \in BOOLEAN
  BY <1>7 DEF Base
<1>9. (late = "none" => t4 = e.T200) /\ (late # "none" => t4 = TRUE)
  BY <1>8 DEF Sockets
<1> HIDE DEF t4
<1>10a. g \in Sockets
  BY <1>8 DEF Sockets
<1>10b. /\ g.T200 = t4 /\ g.T203 = e.T203 /\ g.state = e.state
        /\ g.v_s = e.v_s /\ g.v_a = e.v_a /\ g.retrans_cnt = e.retrans_cnt
        /\ g.wq = e.wq /\ g.head = e.head /\ g.owned = FALSE
  BY <1>8 DEF Sockets
<1>11. Step(g)
  BY DEF RecvBacklog, g, t4, e, o, t2, t3
<1> HIDE DEF g
<1>12. Base(g)
  BY <1>7, <1>10a, <1>10b DEF Base, HeadInQueue, HoldsNoData
<1>13. IsSupervised(g)
  BY <1>7, <1>9, <1>10b DEF IsSupervised
<1> QED BY <1>10b, <1>11, <1>12, <1>13, StepInvariant

(* Every step keeps the invariant.                                         *)
LEMMA NextInvariant ==
  IInv /\ [Next]_s => IInv'
<1> SUFFICES ASSUME IInv, [Next]_s PROVE IInv'
  OBVIOUS
<1>0. Base(s) /\ s \in Sockets
  BY DEF IInv, Base
<1>1. ASSUME NEW f \in PeerFrames, RecvFrame(f) PROVE IInv'
  BY <1>0, <1>1, PeerFramesAreFrames, DlcRecvKeeps, KeepsInvariant DEF RecvFrame
<1>2. ASSUME NEW f \in PeerFrames, NEW late, RecvBacklog(f, late) PROVE IInv'
  BY <1>2, RecvBacklogInvariant
<1>3. CASE BacklogMdl
  <2> DEFINE m == MdlErrorTei(s)
             e == [m EXCEPT !.mdl = FALSE]
  <2>1. Keeps(s, m) /\ m \in Sockets
    BY <1>0, MdlErrorTeiKeeps DEF Keeps, Base
  <2> HIDE DEF m
  <2>2a. e \in Sockets
    BY <2>1 DEF Sockets
  <2>2b. Same(m, e)
    BY <2>1 DEF Sockets, Same
  <2>3. Step(e)
    BY <1>3 DEF BacklogMdl, e, m
  <2> HIDE DEF e
  <2>4. Keeps(m, e)
    BY <2>1, <2>2a, <2>2b, SameKeeps DEF Keeps
  <2> QED BY <2>1, <2>3, <2>4, KeepsTransitive, KeepsInvariant
<1>4. CASE Connect
  BY <1>0, <1>4, DlEstablishRequestKeeps, KeepsInvariant DEF Connect
<1>5. CASE Shutdown
  BY <1>0, <1>5, DlReleaseRequestKeeps, KeepsInvariant DEF Shutdown
<1>6. CASE RecvMsg
  <2> DEFINE r == Tail(s.rx)
             e == [s EXCEPT !.rx = r]
  <2>1. s.rx \in Seq(Received) /\ s.rx # << >>
    BY <1>0, <1>6 DEF Sockets, RecvMsg
  <2>2. r \in Seq(Received)
    BY <2>1
  <2>3. Step(e)
    BY <1>6 DEF RecvMsg
  <2> HIDE DEF r
  <2>4. e \in Sockets /\ Same(s, e)
    BY <1>0, <2>2, RxType
  <2> HIDE DEF e
  <2> QED BY <1>0, <2>3, <2>4, SameKeeps, KeepsInvariant
<1>7. CASE Close
  BY <1>0, <1>7, ReleaseKeeps, KeepsInvariant DEF Close
<1>8. ASSUME NEW x \in Data, SendMsg(x) PROVE IInv'
  BY <1>0, <1>8, DlDataRequestKeeps, KeepsInvariant DEF SendMsg
<1>9. ASSUME NEW x \in Data, SendMsgOob(x) PROVE IInv'
  BY <1>0, <1>9, DlUnitDataRequestKeeps, KeepsInvariant DEF SendMsgOob
<1>10. CASE MdlAssign
  BY <1>0, <1>10, MdlAssignRequestKeeps, KeepsInvariant DEF MdlAssign
<1>11. CASE MdlError
  BY <1>0, <1>11, MdlErrorResponseKeeps, KeepsInvariant DEF MdlError
<1>12. CASE MdlRemove
  BY <1>0, <1>12, MdlRemoveRequestKeeps, KeepsInvariant DEF MdlRemove
<1>13. CASE Deactivate
  BY <1>0, <1>13, PersistentDeactivationKeeps, KeepsInvariant DEF Deactivate
<1>14. CASE T200
  BY <1>0, <1>14, TimerT200Keeps, KeepsInvariant DEF T200
<1>15. CASE T203
  BY <1>0, <1>15, TimerT203Keeps, KeepsInvariant DEF T203
<1>16. CASE T203Owned
  BY <1>0, <1>16, TimerT203OwnedKeeps, KeepsInvariant DEF T203Owned
<1>17. CASE Unhash
  BY <1>0, <1>17, UnhashTimerKeeps, KeepsInvariant DEF Unhash
<1>18. CASE UNCHANGED s
  BY <1>18 DEF IInv, Base, HeadInQueue, HoldsNoData, IsSupervised
<1> QED BY <1>1, <1>2, <1>3, <1>4, <1>5, <1>6, <1>7, <1>8, <1>9, <1>10,
        <1>11, <1>12, <1>13, <1>14, <1>15, <1>16, <1>17, <1>18 DEF Next

(* IInv holds in every reachable state.                                    *)
LEMMA Invariant ==
  Spec => []IInv
BY InitInvariant, NextInvariant, PTL DEF Spec

(* Every handler of datalink.c keeps every field of the socket in its      *)
(* type, and sk_send_head inside the write queue, for every modulus,       *)
(* window, N200 and receive buffer, and whatever the peer sends.           *)
THEOREM TypeCorrect ==
  Spec => []TypeOK
<1>1. IInv => TypeOK
  BY DEF IInv, Base, HeadInQueue, TypeOK
<1> QED BY <1>1, Invariant, PTL

(* A socket that waits for its peer always has the timer that will wake    *)
(* it: no frame, system call, primitive or timer, from softirq or from the *)
(* backlog, stops the last one.                                            *)
THEOREM AlwaysSupervised ==
  Spec => []Supervised
<1>1. IInv => Supervised
  BY DEF IInv, Supervised
<1> QED BY <1>1, Invariant, PTL

(* The retransmission counter never passes N200, so that the test for      *)
(* equality in lapd_timer_T200 ends every series of retransmissions.       *)
THEOREM RetransmissionsBounded ==
  Spec => []RetransBounded
<1>1. IInv => RetransBounded
  BY DEF IInv, Base, RetransBounded
<1> QED BY <1>1, Invariant, PTL

(* No I-frame of a released link is left to be sent on the next one.       *)
THEOREM NoDataSurvivesRelease ==
  Spec => []NoDataOutsideLink
<1>1. IInv => NoDataOutsideLink
  BY DEF IInv, Base, NoDataOutsideLink
<1> QED BY <1>1, Invariant, PTL
=============================================================================
