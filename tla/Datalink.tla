------------------------------ MODULE Datalink ------------------------------
(***************************************************************************)
(* The point-to-point data-link procedures of modules/lapd/datalink.c.     *)
(*                                                                         *)
(* A socket (struct lapd_sock) is a record and each C function is an       *)
(* operator from the socket before the call to the socket after it; the    *)
(* frames a call hands to lapd_ph_data_request are appended to d.tx and    *)
(* what it queues for the user to d.rx.  The module has no variables:      *)
(* DatalinkSocket drives one socket with every event, DatalinkLink joins   *)
(* two of them by a wire.                                                  *)
(*                                                                         *)
(* Left out: acknowledge_pending (assigned, never read), the letter of an  *)
(* MDL-ERROR-INDICATION once its effect is known, N201, failed             *)
(* allocations, and logging.                                               *)
(***************************************************************************)
EXTENDS Integers, Sequences

CONSTANTS
    Mod,        \* sequence number modulus: 128
    N200,       \* lapd_sap.N200, retransmissions of a command
    RcvBuf,     \* sk_rcvbuf, in queued items
    Data,       \* what the user may send
    NoData      \* the payload of a frame that carries none

ASSUME ModAssumption    == Mod \in Nat /\ Mod >= 2
ASSUME N200Assumption   == N200 \in Nat \ {0}
ASSUME RcvBufAssumption == RcvBuf \in Nat \ {0}
ASSUME DataAssumption   == NoData \notin Data

(* enum lapd_datalink_state; LAPD_DLS_NULL and _LISTENING never reach the  *)
(* procedures below.                                                       *)
TEI_UNASSIGNED         == "1_TEI_UNASSIGNED"
AWAITING_TEI           == "2_AWAITING_TEI"
ESTABLISH_AWAITING_TEI == "3_ESTABLISH_AWAITING_TEI"
TEI_ASSIGNED           == "4_TEI_ASSIGNED"
AWAITING_ESTABLISH     == "5_AWAITING_ESTABLISH"
AWAITING_RELEASE       == "6_AWAITING_RELEASE"
LINK_ESTABLISHED       == "7_LINK_CONNECTION_ESTABLISHED"
TIMER_RECOVERY         == "8_TIMER_RECOVERY"

DlStates == {TEI_UNASSIGNED, AWAITING_TEI, ESTABLISH_AWAITING_TEI,
             TEI_ASSIGNED, AWAITING_ESTABLISH, AWAITING_RELEASE,
             LINK_ESTABLISHED, TIMER_RECOVERY}
Multiframe == {LINK_ESTABLISHED, TIMER_RECOVERY}

SeqNos == 0 .. Mod - 1

(* Frames.  "BAD" is one whose length makes lapd_frame_reject answer it.   *)
FrameTypes == {"I", "RR", "RNR", "REJ", "SABME", "DISC", "UA", "DM",
               "FRMR", "UI", "XID", "BAD"}
Frames == [type : FrameTypes, cmd : BOOLEAN, pf : BOOLEAN,
           ns : SeqNos, nr : SeqNos, data : Data \cup {NoData}]

IFrame(ns, nr, data) == [type |-> "I", cmd |-> TRUE, pf |-> FALSE,
                         ns |-> ns, nr |-> nr, data |-> data]
SFrame(f, cmd, pf, nr) == [type |-> f, cmd |-> cmd, pf |-> pf,
                           ns |-> 0, nr |-> nr, data |-> NoData]
UFrame(f, pf) == [type |-> f, cmd |-> f \in {"SABME", "DISC", "UI"},
                  pf |-> pf, ns |-> 0, nr |-> 0, data |-> NoData]

(* What lapd_recvmsg finds in sk_receive_queue.                            *)
DlPrimitives == {"ESTABLISH_INDICATION", "ESTABLISH_CONFIRM",
                 "RELEASE_INDICATION", "RELEASE_CONFIRM"}
Received == [kind : DlPrimitives \cup {"DATA", "UNIT_DATA"},
             data : Data \cup {NoData}]

(* A buffer of sk_write_queue.                                             *)
Queued == [data : Data, n_s : SeqNos]

(* sk_send_head: NULL, the position of a buffer of sk_write_queue, or the  *)
(* address of a buffer that skb_queue_purge has freed.                     *)
Null  == 0
Freed == -1

Sockets ==
  [te : BOOLEAN,                          \* interface role: TE or NT
   sk : {"NORMAL", "CLOSING", "CLOSED"},  \* sk_state
   hashed : BOOLEAN,                      \* in lapd_hash
   state : DlStates,
   k : 1 .. Mod - 1,                      \* sap->k
   v_s : SeqNos, v_r : SeqNos, v_a : SeqNos,
   retrans_cnt : Nat,
   T200 : BOOLEAN, T203 : BOOLEAN,        \* timers pending
   unhash : BOOLEAN,                      \* sk_timer pending
   peer_receiver_busy : BOOLEAN, own_receiver_busy : BOOLEAN,
   reject_exception : BOOLEAN, layer_3_initiated : BOOLEAN,
   wq : Seq(Queued),                      \* sk_write_queue
   head : {Freed} \cup Nat,               \* sk_send_head
   uq : Seq(Data),                        \* u_queue
   rx : Seq(Received),                    \* sk_receive_queue
   tx : Seq(Frames),                      \* handed to layer 1
   owned : BOOLEAN,                       \* handled from the backlog
   mdl : BOOLEAN,                         \* an MDL error is backlogged
   oops : BOOLEAN]                        \* a freed buffer was used

(* lapd_datalink_state_init, and what lapd_bind or lapd_new_sock add.      *)
InitSocket(te, k) ==
  [te |-> te, sk |-> "NORMAL", hashed |-> TRUE,
   state |-> IF te THEN TEI_UNASSIGNED ELSE TEI_ASSIGNED, k |-> k,
   v_s |-> 0, v_r |-> 0, v_a |-> 0, retrans_cnt |-> 0,
   T200 |-> FALSE, T203 |-> FALSE, unhash |-> FALSE,
   peer_receiver_busy |-> FALSE, own_receiver_busy |-> FALSE,
   reject_exception |-> FALSE, layer_3_initiated |-> FALSE,
   wq |-> << >>, head |-> Null, uq |-> << >>, rx |-> << >>, tx |-> << >>,
   owned |-> FALSE, mdl |-> FALSE, oops |-> FALSE]

-----------------------------------------------------------------------------
(* Output, timers and the receive queue.                                   *)

Send(d, f) == [d EXCEPT !.tx = Append(@, f)]

(* Mutant: N(R) is one more than V(R).                                     *)
SendSNext(d, f, cmd, pf) == Send(d, SFrame(f, cmd, pf, (d.v_r + 1) % Mod))

(* lapd_send_sframe and lapd_send_uframe.                                  *)
SendS(d, f, cmd, pf) == Send(d, SFrame(f, cmd, pf, d.v_r))
SendU(d, f, pf) == Send(d, UFrame(f, pf))

ChangeState(d, s) == [d EXCEPT !.state = s]

(* sk_stop_timer(T200), sk_reset_timer(T203): the idle supervision.        *)
SuperviseIdle(d) == [d EXCEPT !.T200 = FALSE, !.T203 = TRUE]

(* Mutant: a closing socket's confirm is queued like any other.            *)
DlPrimitiveQueued(d, p) ==
  [d EXCEPT !.rx = Append(@, [kind |-> p, data |-> NoData])]

(* lapd_dl_primitive: the confirm a closing socket gets is not queued, it  *)
(* schedules the unhash.                                                   *)
DlPrimitive(d, p) ==
  IF d.sk = "CLOSING" /\ p = "RELEASE_CONFIRM"
  THEN [d EXCEPT !.unhash = TRUE]
  ELSE [d EXCEPT !.rx = Append(@, [kind |-> p, data |-> NoData])]

DataIndication(d, kind, data) ==
  [d EXCEPT !.rx = Append(@, [kind |-> kind, data |-> data])]

(* Mutant: the queue is not purged.                                        *)
DiscardNothing(d) == d

(* skb_queue_purge frees the buffers; sk_send_head keeps its value.        *)
DiscardIQueue(d) ==
  [d EXCEPT !.wq = << >>, !.head = IF @ = Null THEN Null ELSE Freed]
DiscardUiQueue(d) == [d EXCEPT !.uq = << >>]

-----------------------------------------------------------------------------
(* Procedures shared by the handlers.                                      *)

ClearExceptionConditions(d) ==
  [d EXCEPT !.own_receiver_busy = FALSE, !.peer_receiver_busy = FALSE,
            !.reject_exception = FALSE]

EstablishDatalink(d) ==
  [SendU(ClearExceptionConditions(d), "SABME", TRUE) EXCEPT
      !.retrans_cnt = 0, !.T203 = FALSE, !.T200 = TRUE]

(* The three ways a caller of EstablishDatalink goes on.                   *)
Establish(d, l3) ==
  [EstablishDatalink(d) EXCEPT !.layer_3_initiated = l3,
                               !.state = AWAITING_ESTABLISH]

BusyOrReady(d) == IF d.own_receiver_busy THEN "RNR" ELSE "RR"

TransmitEnquiry(d) ==
  [SendS(d, BusyOrReady(d), TRUE, TRUE) EXCEPT !.T200 = TRUE]

EnquiryResponse(d) == SendS(d, BusyOrReady(d), FALSE, TRUE)

(* lapd_mdl_remove_request: the TEI is gone.                               *)
MdlRemoveRequest(d) ==
  LET gone(e) == ChangeState(DiscardUiQueue(e), TEI_UNASSIGNED) IN
  CASE d.state = TEI_ASSIGNED -> gone(d)
    [] d.state \in {AWAITING_ESTABLISH, TIMER_RECOVERY} ->
         DlPrimitive([gone(DiscardIQueue(d)) EXCEPT !.T200 = FALSE],
                     "RELEASE_INDICATION")
    [] d.state = AWAITING_RELEASE ->
         DlPrimitive([gone(d) EXCEPT !.T200 = FALSE], "RELEASE_CONFIRM")
    [] d.state = LINK_ESTABLISHED ->
         DlPrimitive([gone(DiscardIQueue(d)) EXCEPT !.T200 = FALSE,
                                                    !.T203 = FALSE],
                     "RELEASE_INDICATION")
    [] OTHER -> d

(* lapd_mdl_primitive(MDL_ERROR_INDICATION) for the letters C, D, G and H: *)
(* a TE gives up its TEI, at once or, when the frame is handled from the   *)
(* backlog, after it.  An NT starts a TEI check, which touches no socket.  *)
MdlErrorTei(d) ==
  IF ~d.te \/ ~d.hashed THEN d
  ELSE IF d.owned THEN [d EXCEPT !.mdl = TRUE]
  ELSE MdlRemoveRequest(d)

(* Mutant: N(R) one past V(S) is accepted.                                 *)
IsValidNROneMore(d, nr) ==
  (nr - d.v_a + Mod) % Mod <= ((d.v_s - d.v_a + Mod) % Mod) + 1

(* lapd_is_valid_nr: V(A) <= N(R) <= V(S), modulo.                         *)
IsValidNR(d, nr) ==
  (nr - d.v_a + Mod) % Mod <= (d.v_s - d.v_a + Mod) % Mod

(* lapd_run_i_queue: send from sk_send_head while the window is open.      *)
WindowRoom(d) == (d.v_a + d.k - d.v_s + Mod) % Mod
ToSend(d) ==
  LET queued == Len(d.wq) - d.head + 1 IN
  IF WindowRoom(d) < queued THEN WindowRoom(d) ELSE queued

Transmit(d, n) ==
  LET ns(i) == (d.v_s + i - d.head) % Mod IN
  [d EXCEPT
    !.wq = [i \in 1 .. Len(d.wq) |->
              IF i \in d.head .. d.head + n - 1
              THEN [d.wq[i] EXCEPT !.n_s = ns(i)] ELSE d.wq[i]],
    !.tx = @ \o [j \in 1 .. n |->
                   IFrame(ns(d.head + j - 1), d.v_r,
                          d.wq[d.head + j - 1].data)],
    !.v_s = (@ + n) % Mod,
    !.head = IF d.head + n > Len(d.wq) THEN Null ELSE d.head + n,
    !.T203 = IF n > 0 /\ ~d.T200 THEN FALSE ELSE @,
    !.T200 = IF n > 0 THEN TRUE ELSE @]

RunIQueue(d) ==
  IF \/ d.state # LINK_ESTABLISHED
     \/ d.peer_receiver_busy
     \/ d.head = Null
     \/ WindowRoom(d) = 0
  THEN d
  ELSE IF d.head = Freed THEN [d EXCEPT !.oops = TRUE]
  ELSE Transmit(d, ToSend(d))

(* Mutant: nothing is retransmitted.                                       *)
RetransmitNothing(d) == d

InvokeRetransmission(d) ==
  RunIQueue([d EXCEPT !.head = IF d.wq = << >> THEN @ ELSE 1,
                      !.v_s = d.v_a])

(* Mutant: N(S) is not compared with N(R), all that was sent is unlinked.  *)
AckAllSent(d, nr) ==
  LET n == IF d.head > 0 THEN d.head - 1 ELSE Len(d.wq) IN
  [d EXCEPT !.wq = SubSeq(@, n + 1, Len(@)),
            !.head = IF @ > 0 THEN @ - n ELSE @]

(* lapd_ack_frames: unlink from the front of the write queue up to the     *)
(* frame N(S) = nr or to sk_send_head.                                     *)
AckFrames(d, nr) ==
  LET limit == IF d.head > 0 THEN d.head - 1 ELSE Len(d.wq)
      stops == {i \in 0 .. limit : i = limit \/ d.wq[i + 1].n_s = nr}
      n == CHOOSE i \in stops : \A j \in stops : i <= j
  IN IF nr = d.v_a THEN d
     ELSE [d EXCEPT !.wq = SubSeq(@, n + 1, Len(@)),
                    !.head = IF @ > 0 THEN @ - n ELSE @]

Ack(d, nr) == [AckFrames(d, nr) EXCEPT !.v_a = nr]

(* lapd_nr_error_recovery_procedure and the change to state 5 beside it.   *)
NrErrorRecovery(d) == Establish(d, FALSE)

(* lapd_frame_reject.                                                      *)
FrameReject(d) ==
  IF d.state \in Multiframe THEN Establish(d, FALSE) ELSE d

-----------------------------------------------------------------------------
(* I-frames.                                                               *)

Full(d) == Len(d.rx) >= RcvBuf

(* Mutant: V(R) counts the frame that found the queue full.                *)
SetBusyCounting(d) ==
  IF d.state \in Multiframe /\ ~d.own_receiver_busy
  THEN SendS([d EXCEPT !.own_receiver_busy = TRUE, !.v_r = (@ + 1) % Mod],
             "RNR", FALSE, FALSE)
  ELSE d

SetOwnReceiverBusy(d) ==
  IF d.state \in Multiframe /\ ~d.own_receiver_busy
  THEN SendS([d EXCEPT !.own_receiver_busy = TRUE], "RNR", FALSE, FALSE)
  ELSE d

ClearOwnReceiverBusy(d) ==
  IF d.state \in Multiframe /\ d.own_receiver_busy
  THEN SendS([d EXCEPT !.own_receiver_busy = FALSE], "RR", FALSE, FALSE)
  ELSE d

(* Mutant: V(R) does not wrap.                                             *)
TakeIFrameNoWrap(d, f) ==
  IF f.ns = d.v_r
  THEN SendS(DataIndication([d EXCEPT !.v_r = @ + 1], "DATA", f.data),
             "RR", FALSE, f.pf)
  ELSE d

(* The N(S) half: deliver, or reject once.  The source also answers RNR in *)
(* the busy condition, but a busy receiver has left it or returned before. *)
TakeIFrame(d, f) ==
  IF f.ns = d.v_r
  THEN SendS(DataIndication([d EXCEPT !.v_r = (@ + 1) % Mod,
                                      !.reject_exception = FALSE],
                            "DATA", f.data),
             "RR", FALSE, f.pf)
  ELSE IF ~d.reject_exception
  THEN SendS([d EXCEPT !.reject_exception = TRUE], "REJ", FALSE, f.pf)
  ELSE IF f.pf THEN SendS(d, "RR", FALSE, TRUE)
  ELSE d

(* An acknowledgement in state 7 moves the timers with it.                 *)
AckEstablished(d, nr) ==
  IF nr = d.v_s THEN SuperviseIdle(Ack(d, nr))
  ELSE IF nr # d.v_a THEN [Ack(d, nr) EXCEPT !.T200 = TRUE]
  ELSE d

HandleIFrame(d, f) ==
  LET open == IF ~Full(d) /\ d.own_receiver_busy
              THEN ClearOwnReceiverBusy(d) ELSE d
      took == TakeIFrame(open, f)
  IN IF Full(d) THEN SetOwnReceiverBusy(d)
     ELSE IF d.state \notin Multiframe THEN open
     ELSE IF ~IsValidNR(took, f.nr) THEN NrErrorRecovery(took)
     ELSE IF d.state = TIMER_RECOVERY \/ took.peer_receiver_busy
          THEN Ack(took, f.nr)
     ELSE AckEstablished(took, f.nr)

-----------------------------------------------------------------------------
(* Supervisory frames.                                                     *)

(* The part RR, RNR and REJ share: note the peer's condition and answer a  *)
(* poll.                                                                   *)
Supervisory(d, f) ==
  LET e == [d EXCEPT !.peer_receiver_busy = (f.type = "RNR")]
  IN IF f.cmd /\ f.pf THEN EnquiryResponse(e) ELSE e

(* State 8 is left only by a response with the F bit.                      *)
HandleRecovery(d, f) ==
  LET acked == Ack(Supervisory(d, f), f.nr)
      back  == ChangeState(acked, LINK_ESTABLISHED)
  IN IF ~IsValidNR(d, f.nr) THEN NrErrorRecovery(Supervisory(d, f))
     ELSE IF f.cmd \/ ~f.pf THEN acked
     ELSE IF f.type = "RNR"
          THEN InvokeRetransmission([back EXCEPT !.T200 = TRUE])
     ELSE InvokeRetransmission(SuperviseIdle(back))

HandleRR(d, f) ==
  LET e == Supervisory(d, f) IN
  CASE d.state = LINK_ESTABLISHED ->
         IF IsValidNR(e, f.nr) THEN AckEstablished(e, f.nr)
         ELSE NrErrorRecovery(e)
    [] d.state = TIMER_RECOVERY -> HandleRecovery(d, f)
    [] OTHER -> d

HandleRNR(d, f) ==
  LET e == Supervisory(d, f) IN
  CASE d.state = LINK_ESTABLISHED ->
         IF IsValidNR(e, f.nr)
         THEN [InvokeRetransmission(Ack(e, f.nr)) EXCEPT
                  !.T203 = FALSE, !.T200 = TRUE]
         ELSE NrErrorRecovery(e)
    [] d.state = TIMER_RECOVERY -> HandleRecovery(d, f)
    [] OTHER -> d

HandleREJ(d, f) ==
  LET e == Supervisory(d, f) IN
  CASE d.state = LINK_ESTABLISHED ->
         IF IsValidNR(e, f.nr)
         THEN InvokeRetransmission(SuperviseIdle(Ack(e, f.nr)))
         ELSE NrErrorRecovery(e)
    [] d.state = TIMER_RECOVERY -> HandleRecovery(d, f)
    [] OTHER -> d

-----------------------------------------------------------------------------
(* Unnumbered frames.                                                      *)

ResetSequence(d) == [d EXCEPT !.v_s = 0, !.v_r = 0, !.v_a = 0]

(* The source tests V(S) # V(A) after it has zeroed both, so the branch    *)
(* that discards the queue and tells the user is never taken.              *)
IndicateReset(d) ==
  IF d.v_s # d.v_a
  THEN DlPrimitive(DiscardIQueue(d), "ESTABLISH_INDICATION")
  ELSE d

HandleUA(d, f) ==
  LET up == ChangeState(ResetSequence(SuperviseIdle(d)), LINK_ESTABLISHED) IN
  CASE d.state \in {TEI_ASSIGNED} \cup Multiframe -> MdlErrorTei(d)
    [] d.state \in {AWAITING_ESTABLISH, AWAITING_RELEASE} /\ ~f.pf ->
         MdlErrorTei(d)
    [] d.state = AWAITING_ESTABLISH /\ f.pf ->
         IF d.layer_3_initiated
         THEN RunIQueue(DlPrimitive(up, "ESTABLISH_CONFIRM"))
         ELSE IndicateReset(up)
    [] d.state = AWAITING_RELEASE /\ f.pf ->
         DlPrimitive(ChangeState([d EXCEPT !.T200 = FALSE], TEI_ASSIGNED),
                     "RELEASE_CONFIRM")
    [] OTHER -> d

HandleDISC(d, f) ==
  LET down == ChangeState(SendU(DiscardIQueue(d), "UA", f.pf), TEI_ASSIGNED) IN
  CASE d.state \in {TEI_ASSIGNED, AWAITING_ESTABLISH} -> SendU(d, "DM", f.pf)
    [] d.state = AWAITING_RELEASE -> SendU(d, "UA", f.pf)
    [] d.state = LINK_ESTABLISHED ->
         DlPrimitive([down EXCEPT !.T200 = FALSE, !.T203 = FALSE],
                     "RELEASE_INDICATION")
    [] d.state = TIMER_RECOVERY ->
         DlPrimitive([down EXCEPT !.T200 = FALSE], "RELEASE_INDICATION")
    [] OTHER -> d

HandleFRMR(d, f) == Establish(d, FALSE)

HandleDM(d, f) ==
  LET down(e) == ChangeState([e EXCEPT !.T200 = FALSE], TEI_ASSIGNED) IN
  CASE d.state = TEI_ASSIGNED /\ ~f.pf /\ d.sk = "NORMAL" ->
         Establish(d, TRUE)
    [] d.state = AWAITING_ESTABLISH /\ f.pf ->
         DlPrimitive(down(DiscardIQueue(d)), "RELEASE_INDICATION")
    [] d.state = AWAITING_RELEASE /\ f.pf ->
         DlPrimitive(down(d), "RELEASE_CONFIRM")
    [] d.state \in Multiframe /\ ~f.pf -> Establish(d, FALSE)
    [] OTHER -> d

HandleSABME(d, f) ==
  CASE d.state = TEI_ASSIGNED ->
         IF d.sk = "NORMAL"
         THEN DlPrimitive(
                SendU([ResetSequence(ClearExceptionConditions(d)) EXCEPT
                         !.T203 = TRUE, !.state = LINK_ESTABLISHED],
                      "UA", f.pf),
                "ESTABLISH_INDICATION")
         ELSE SendU(d, "DM", f.pf)
    [] d.state = AWAITING_ESTABLISH -> SendU(d, "UA", f.pf)
    [] d.state = AWAITING_RELEASE -> SendU(d, "DM", f.pf)
    [] d.state \in Multiframe ->     \* state 8 stays state 8
         IndicateReset(ResetSequence(SuperviseIdle(
           ClearExceptionConditions(SendU(d, "UA", f.pf)))))
    [] OTHER -> d

(* lapd_dlc_recv for a frame.                                              *)
DlcRecv(d, f) ==
  CASE f.type = "I"     -> HandleIFrame(d, f)
    [] f.type = "RR"    -> HandleRR(d, f)
    [] f.type = "RNR"   -> HandleRNR(d, f)
    [] f.type = "REJ"   -> HandleREJ(d, f)
    [] f.type = "SABME" -> HandleSABME(d, f)
    [] f.type = "DM"    -> HandleDM(d, f)
    [] f.type = "UI"    -> DataIndication(d, "UNIT_DATA", f.data)
    [] f.type = "DISC"  -> HandleDISC(d, f)
    [] f.type = "UA"    -> HandleUA(d, f)
    [] f.type = "FRMR"  -> HandleFRMR(d, f)
    [] f.type = "BAD"   -> FrameReject(d)
    [] OTHER            -> d

-----------------------------------------------------------------------------
(* Primitives from layer management.                                       *)

MdlAssignRequest(d) ==
  CASE d.state \in {TEI_UNASSIGNED, AWAITING_TEI} -> ChangeState(d, TEI_ASSIGNED)
    [] d.state = ESTABLISH_AWAITING_TEI -> Establish(d, TRUE)
    [] OTHER -> d

MdlErrorResponse(d) ==
  CASE d.state = AWAITING_TEI -> ChangeState(DiscardUiQueue(d), TEI_UNASSIGNED)
    [] d.state = ESTABLISH_AWAITING_TEI ->
         DlPrimitive(ChangeState(DiscardUiQueue(d), TEI_UNASSIGNED),
                     "RELEASE_INDICATION")
    [] OTHER -> d

PersistentDeactivation(d) ==
  LET idle(e) == ChangeState(DiscardUiQueue([e EXCEPT !.T200 = FALSE]),
                             TEI_ASSIGNED) IN
  CASE d.state \in {AWAITING_TEI, ESTABLISH_AWAITING_TEI} -> MdlErrorResponse(d)
    [] d.state = TEI_ASSIGNED -> DiscardUiQueue(d)
    [] d.state \in {AWAITING_ESTABLISH, TIMER_RECOVERY} ->
         DlPrimitive(idle(DiscardIQueue(d)), "RELEASE_INDICATION")
    [] d.state = AWAITING_RELEASE -> DlPrimitive(idle(d), "RELEASE_CONFIRM")
    [] d.state = LINK_ESTABLISHED ->
         DlPrimitive([idle(DiscardIQueue(d)) EXCEPT !.T203 = FALSE],
                     "RELEASE_INDICATION")
    [] OTHER -> d

-----------------------------------------------------------------------------
(* Requests from the user.                                                 *)

DlEstablishRequest(d) ==
  CASE d.state \in {TEI_UNASSIGNED, AWAITING_TEI} ->
         ChangeState(d, ESTABLISH_AWAITING_TEI)
    [] d.state = TEI_ASSIGNED -> Establish(d, TRUE)
    [] d.state \in {AWAITING_ESTABLISH} \cup Multiframe ->
         Establish(DiscardIQueue(d), TRUE)
    [] OTHER -> d

DlReleaseRequest(d) ==
  CASE d.state = TEI_ASSIGNED -> DlPrimitive(d, "RELEASE_CONFIRM")
    [] d.state \in Multiframe ->
         [SendU(DiscardIQueue(d), "DISC", TRUE) EXCEPT
            !.retrans_cnt = 0, !.T200 = TRUE,
            !.T203 = IF d.state = LINK_ESTABLISHED THEN FALSE ELSE @,
            !.state = AWAITING_RELEASE]
    [] OTHER -> d

(* lapd_sock_queue_iframe; N(S) is written when the frame is sent.         *)
QueueIFrame(d, data) ==
  [d EXCEPT !.wq = Append(@, [data |-> data, n_s |-> 0]),
            !.head = IF @ = Null THEN Len(d.wq) + 1 ELSE @]

DlDataRequest(d, data) ==
  CASE d.state = AWAITING_ESTABLISH /\ d.layer_3_initiated ->
         QueueIFrame(d, data)
    [] d.state = LINK_ESTABLISHED -> RunIQueue(QueueIFrame(d, data))
    [] d.state = TIMER_RECOVERY -> QueueIFrame(d, data)
    [] OTHER -> d

UIFrame(data) == [UFrame("UI", FALSE) EXCEPT !.data = data]

RunUiQueue(d) ==
  [d EXCEPT !.tx = @ \o [i \in 1 .. Len(d.uq) |-> UIFrame(d.uq[i])],
            !.uq = << >>]

DlUnitDataRequest(d, data) ==
  LET queued == [d EXCEPT !.uq = Append(@, data)] IN
  CASE d.state = TEI_UNASSIGNED -> ChangeState(queued, AWAITING_TEI)
    [] d.state \in {AWAITING_TEI, ESTABLISH_AWAITING_TEI} -> queued
    [] OTHER -> RunUiQueue(queued)

(* lapd_release: bring the link down first, or leave the hash at once.     *)
Release(d) ==
  IF d.state \in Multiframe
  THEN DlReleaseRequest([d EXCEPT !.sk = "CLOSING"])
  ELSE [d EXCEPT !.sk = "CLOSED", !.hashed = FALSE]

-----------------------------------------------------------------------------
(* Timers; the expired timer is no longer pending.                         *)

(* Mutants: one retransmission too many; retransmissions are not counted.  *)
ExhaustedLate(d) == d.retrans_cnt > N200
RepeatUncounted(d, f) == [SendU(d, f, TRUE) EXCEPT !.T200 = TRUE]

Exhausted(d) == d.retrans_cnt = N200
Repeat(d, f) ==
  [SendU(d, f, TRUE) EXCEPT !.retrans_cnt = @ + 1, !.T200 = TRUE]

TimerT200(d) ==
  LET e == [d EXCEPT !.T200 = FALSE] IN
  CASE d.state = AWAITING_ESTABLISH ->
         IF Exhausted(d)
         THEN DlPrimitive(
                MdlErrorTei(ChangeState(DiscardIQueue(e), TEI_ASSIGNED)),
                "RELEASE_INDICATION")
         ELSE Repeat(e, "SABME")
    [] d.state = AWAITING_RELEASE ->
         IF Exhausted(d)
         THEN MdlErrorTei(DlPrimitive(ChangeState(e, TEI_ASSIGNED),
                                      "RELEASE_CONFIRM"))
         ELSE Repeat(e, "DISC")
    [] d.state = LINK_ESTABLISHED ->
         [TransmitEnquiry(e) EXCEPT !.retrans_cnt = 1,
                                    !.state = TIMER_RECOVERY]
    [] d.state = TIMER_RECOVERY ->
         IF Exhausted(d) THEN Establish(e, FALSE)
         ELSE [TransmitEnquiry(e) EXCEPT !.retrans_cnt = @ + 1]
    [] OTHER -> e

TimerT203(d) ==
  LET e == [d EXCEPT !.T203 = FALSE] IN
  IF d.state = LINK_ESTABLISHED
  THEN [TransmitEnquiry(e) EXCEPT !.retrans_cnt = 0,
                                  !.state = TIMER_RECOVERY]
  ELSE e

(* Mutant: an owned socket is not tried again.                             *)
TimerT203Dropped(d) == [d EXCEPT !.T203 = FALSE]

(* T203 expires while a system call owns the socket: "Try again later",    *)
(* with the other timer.                                                   *)
TimerT203Owned(d) == [d EXCEPT !.T203 = FALSE, !.T200 = TRUE]

UnhashTimer(d) == [d EXCEPT !.unhash = FALSE, !.hashed = FALSE]
=============================================================================
