--------------------------- MODULE DatalinkSocket ---------------------------
(***************************************************************************)
(* One LAPD socket against everything that can happen to it: any frame     *)
(* from the peer, correct or not, every system call, every primitive of    *)
(* layer management and every timer.  Frames arrive in softirq context or, *)
(* while a system call owns the socket, from the backlog.                  *)
(***************************************************************************)
EXTENDS Datalink

CONSTANTS
    Te,         \* TRUE for a TE interface, FALSE for NT
    K,          \* sap->k
    MaxWq,      \* bound: frames in sk_write_queue
    MaxUq,      \* bound: frames in u_queue
    MaxRx       \* bound: items in sk_receive_queue

ASSUME TeAssumption == Te \in BOOLEAN
ASSUME KAssumption  == K \in 1 .. Mod - 1
ASSUME BoundsAssumption == MaxWq \in Nat /\ MaxUq \in Nat /\ MaxRx \in Nat

VARIABLE s      \* the socket

Init == s = InitSocket(Te, K)

(* A step is one handler; what it sent leaves the socket.  After the use   *)
(* of a freed buffer nothing more is said.  A closed socket is out of the  *)
(* hash and needs no bound.                                                *)
Step(d) ==
  /\ ~s.oops
  /\ Len(d.rx) <= MaxRx \/ s.sk = "CLOSED"
  /\ s' = [d EXCEPT !.tx = << >>]

(* The frames a peer can put on the wire.                                  *)
PeerIFrames == {[IFrame(ns, nr, x) EXCEPT !.pf = pf] :
                  ns \in SeqNos, nr \in SeqNos, x \in Data, pf \in BOOLEAN}
PeerSFrames == {SFrame(f, cmd, pf, nr) : f \in {"RR", "RNR", "REJ"},
                  cmd \in BOOLEAN, pf \in BOOLEAN, nr \in SeqNos}
PeerUFrames == {UFrame(f, pf) : f \in {"SABME", "DISC", "UA", "DM"},
                  pf \in BOOLEAN}
PeerOthers == {UFrame(f, FALSE) : f \in {"FRMR", "XID", "BAD"}}
PeerUiFrames == {UIFrame(x) : x \in Data}
PeerFrames ==
  PeerIFrames \cup PeerSFrames \cup PeerUFrames \cup PeerOthers
  \cup PeerUiFrames
Routed == s.hashed /\ (s.te => s.sk = "NORMAL")

-----------------------------------------------------------------------------
RecvFrame(f) == Routed /\ Step(DlcRecv(s, f))

(* lapd_backlog_rcv, on release_sock: an MDL error it raises is deferred,  *)
(* and a timer that expires meanwhile finds the socket owned and re-arms   *)
(* T200, whichever timer it was.  (Without a late timer the backlog of an  *)
(* NT is no different from RecvFrame.)                                     *)
RecvBacklog(f, late) ==
  /\ Routed /\ (late = "none" => s.te)
  /\ late \in {"none"} \cup {t \in {"T200", "T203"} : s[t]}
  /\ LET e == DlcRecv([s EXCEPT !.owned = TRUE,
                                !.T200 = @ /\ late # "T200",
                                !.T203 = @ /\ late # "T203"], f)
     IN Step([e EXCEPT !.owned = FALSE, !.T200 = @ \/ late # "none"])

BacklogMdl == s.mdl /\ Step([MdlErrorTei(s) EXCEPT !.mdl = FALSE])

(* System calls.                                                           *)
User == s.sk = "NORMAL"
Connect == User /\ Step(DlEstablishRequest(s))
Shutdown == User /\ Step(DlReleaseRequest(s))
SendMsg(x) == User /\ Len(s.wq) < MaxWq /\ Step(DlDataRequest(s, x))
SendMsgOob(x) == User /\ Len(s.uq) < MaxUq /\ Step(DlUnitDataRequest(s, x))
RecvMsg == User /\ s.rx # << >> /\ Step([s EXCEPT !.rx = Tail(@)])
Close == User /\ Step(Release(s))

(* Layer management: TEI assignment, its failure and its removal; and the  *)
(* persistent deactivation of layer 1.                                     *)
MdlAssign == s.te /\ s.hashed /\ Step(MdlAssignRequest(s))
MdlError == s.te /\ s.hashed /\ Step(MdlErrorResponse(s))
MdlRemove == s.te /\ s.hashed /\ Step(MdlRemoveRequest(s))
Deactivate == /\ s.hashed /\ s.sk = "NORMAL"
              /\ Step(PersistentDeactivation(s))

(* Timers.  T200 finding the socket owned re-arms itself: no change.       *)
T200 == s.T200 /\ Step(TimerT200(s))
T203 == s.T203 /\ Step(TimerT203(s))
T203Owned == s.T203 /\ User /\ Step(TimerT203Owned(s))
Unhash == s.unhash /\ Step(UnhashTimer(s))

Next ==
  \/ \E f \in PeerFrames : RecvFrame(f)
  \/ \E f \in PeerFrames, late \in {"none", "T200", "T203"} : RecvBacklog(f, late)
  \/ BacklogMdl
  \/ Connect \/ Shutdown \/ RecvMsg \/ Close
  \/ \E x \in Data : SendMsg(x) \/ SendMsgOob(x)
  \/ MdlAssign \/ MdlError \/ MdlRemove \/ Deactivate
  \/ T200 \/ T203 \/ T203Owned \/ Unhash

Spec == Init /\ [][Next]_s

(* T200 counts jiffies whatever else happens: the bound on rx may disable  *)
(* its step for a while, and a system call that owns the socket only       *)
(* delays it by 20 ms.                                                     *)
FairSpec == Spec /\ SF_s(T200) /\ WF_s(RecvMsg)

-----------------------------------------------------------------------------
(* Every field of the socket keeps its type; sk_send_head, when it is a    *)
(* position, is one of the write queue.                                    *)
TypeOK ==
  /\ s \in Sockets
  /\ s.head <= Len(s.wq)
  /\ s.tx = << >> /\ ~s.owned

(* A socket that waits for the peer has a timer that will wake it: T200    *)
(* while a SABME or a DISC is unanswered or I-frames are unacknowledged,   *)
(* T200 or T203 while the link is up.  (State 8 is not in the list: a      *)
(* SABME received there leaves the socket in it without T200.)             *)
IsSupervised(d) ==
  /\ d.state \in {AWAITING_ESTABLISH, AWAITING_RELEASE} => d.T200
  /\ d.state = LINK_ESTABLISHED => d.T200 \/ d.T203
  /\ d.state = LINK_ESTABLISHED /\ d.v_s # d.v_a => d.T200
Supervised == IsSupervised(s)

(* The retransmission counter never passes N200: lapd_timer_T200 stops at  *)
(* equality, so a counter beyond it would retransmit for ever.             *)
RetransBounded == s.retrans_cnt <= N200

(* At most k I-frames are unacknowledged, whatever N(R) the peer sends.    *)
Outstanding(d) == (d.v_s - d.v_a + Mod) % Mod
WindowRespected == Outstanding(s) <= s.k

(* No I-frame survives a release: the queue is empty whenever there is no  *)
(* link and none is being established.                                     *)
HoldsNoData(d) ==
  d.state \notin {AWAITING_ESTABLISH} \cup Multiframe => d.wq = << >>
NoDataOutsideLink == HoldsNoData(s)

(* Every unacknowledged sequence number can be retransmitted: the frames   *)
(* sent last are still queued, in order, under the numbers V(A)..V(S)-1.   *)
SentLen(d) == IF d.head > 0 THEN d.head - 1 ELSE Len(d.wq)
Retransmittable ==
  s.state \in Multiframe /\ ~s.oops =>
    /\ Outstanding(s) <= SentLen(s)
    /\ \A j \in 0 .. Outstanding(s) - 1 :
         s.wq[SentLen(s) - Outstanding(s) + 1 + j].n_s = (s.v_a + j) % Mod

(* A release ends, whatever the peer answers and whether it answers: the   *)
(* socket leaves state 6.                                                  *)
ReleaseEnds == s.state = AWAITING_RELEASE ~> s.state # AWAITING_RELEASE
=============================================================================
