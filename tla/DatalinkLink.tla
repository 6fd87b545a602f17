---------------------------- MODULE DatalinkLink ----------------------------
(***************************************************************************)
(* Two sockets of module Datalink, one on the NT and one on the TE end of  *)
(* a D channel.  The frames an end has sent wait in its tx until they are  *)
(* received or lost, in order; the TE's TEI is already assigned.           *)
(***************************************************************************)
EXTENDS Datalink, FiniteSets

CONSTANTS
    K,          \* sap->k at both ends
    Load,       \* Load[e]: how many frames the user of end e sends
    MaxConnect, \* bound: connect() calls in all
    Readers,    \* the ends whose user reads the socket
    Closers,    \* the ends whose user may close the socket
    MaxLoss,    \* bound: frames lost in all
    WireCap     \* bound: nothing new starts with this many frames in flight

Ends == {"NT", "TE"}
Peer(e) == IF e = "NT" THEN "TE" ELSE "NT"

ASSUME LinkAssumption ==
  /\ K \in 1 .. Mod - 1
  /\ Load \in [Ends -> Nat]
  /\ Data = 1 .. (Load["NT"] + Load["TE"])
  /\ MaxConnect \in Nat /\ MaxLoss \in Nat /\ WireCap \in Nat \ {0}
  /\ Readers \subseteq Ends /\ Closers \subseteq Ends

VARIABLES
    s,          \* s[e]: the socket of end e
    sent,       \* sent[e]: frames the user of e has handed to the socket
    got,        \* got[e]: data delivered to the receive queue of e
    broken,     \* the link was reset or released after it came up
    busied,     \* history: an end was busy
    connects, losses

vars == << s, sent, got, broken, busied, connects, losses >>

Init ==
  /\ s = [e \in Ends |-> [InitSocket(e = "TE", K) EXCEPT !.state = TEI_ASSIGNED]]
  /\ sent = [e \in Ends |-> 0]
  /\ got = [e \in Ends |-> << >>]
  /\ broken = FALSE /\ busied = FALSE
  /\ connects = 0 /\ losses = 0

(* The data a step from d to d2 adds to the receive queue.                 *)
Delivered(d, d2) ==
  IF Len(d2.rx) > Len(d.rx) /\ d2.rx[Len(d2.rx)].kind = "DATA"
  THEN << d2.rx[Len(d2.rx)].data >> ELSE << >>

(* The step from d to d2 releases the link, or starts to re-establish it;  *)
(* a SABME that finds it in use resets it without leaving the state.       *)
Breaks(d, d2) == d.state \in Multiframe /\ (d2.state \notin Multiframe \/ d2.oops)
Resets(d, f) == /\ f.type = "SABME" /\ d.state \in Multiframe
                /\ << d.v_s, d.v_r, d.v_a >> # << 0, 0, 0 >>

(* End e goes from s[e] to d2.                                             *)
Moves(e, d2) ==
  /\ ~s[e].oops
  /\ busied' = (busied \/ d2.own_receiver_busy)
  /\ got' = [got EXCEPT ![e] = @ \o Delivered(s[e], d2)]

Does(e, d2) ==
  /\ Moves(e, d2)
  /\ s' = [s EXCEPT ![e] = d2]
  /\ broken' = (broken \/ Breaks(s[e], d2))

(* The line is faster than T200 and T203: a new exchange starts only when  *)
(* few frames are still in flight.                                         *)
MayStart == Len(s["NT"].tx) + Len(s["TE"].tx) < WireCap

-----------------------------------------------------------------------------
(* lapd_ph_data_indication: the NT finds any hashed socket and answers for *)
(* a socket that is gone; the TE finds none that is closing.               *)
SocketlessReply(d, f) ==
  IF f.type \in {"SABME", "DISC"} THEN SendU(d, "DM", f.pf) ELSE d

PhDataIndication(d, f) ==
  IF d.te
  THEN IF d.hashed /\ d.sk = "NORMAL" THEN DlcRecv(d, f) ELSE d
  ELSE IF d.hashed THEN DlcRecv(d, f) ELSE SocketlessReply(d, f)

Receive(e) ==
  LET p == Peer(e)
      f == Head(s[p].tx)
      d2 == PhDataIndication(s[e], f)
  IN /\ s[p].tx # << >>
     /\ Moves(e, d2)
     /\ s' = [s EXCEPT ![e] = d2, ![p].tx = Tail(@)]
     /\ broken' = (broken \/ Breaks(s[e], d2) \/ Resets(s[e], f))
     /\ UNCHANGED << sent, connects, losses >>

Lose(e) ==
  /\ s[e].tx # << >> /\ losses < MaxLoss
  /\ losses' = losses + 1
  /\ s' = [s EXCEPT ![e].tx = Tail(@)]
  /\ UNCHANGED << sent, got, broken, busied, connects >>

Connect(e) ==
  /\ s[e].sk = "NORMAL" /\ MayStart /\ connects < MaxConnect
  /\ connects' = connects + 1
  /\ Does(e, DlEstablishRequest(s[e]))
  /\ UNCHANGED << sent, losses >>

(* Only data that lapd_dl_data_request queues counts as sent.              *)
SendMsg(e) ==
  LET x == sent[e] + 1 + (IF e = "TE" THEN Load["NT"] ELSE 0)
      d2 == DlDataRequest(s[e], x)
  IN /\ s[e].sk = "NORMAL" /\ MayStart /\ sent[e] < Load[e]
     /\ s[e].state \in Multiframe
     /\ sent' = [sent EXCEPT ![e] = @ + 1]
     /\ Does(e, d2)
     /\ UNCHANGED << connects, losses >>

RecvMsg(e) ==
  /\ e \in Readers /\ s[e].sk = "NORMAL" /\ s[e].rx # << >>
  /\ Does(e, [s[e] EXCEPT !.rx = Tail(@)])
  /\ UNCHANGED << sent, connects, losses >>

Close(e) ==
  /\ e \in Closers /\ s[e].sk = "NORMAL" /\ MayStart
  /\ Does(e, Release(s[e]))
  /\ UNCHANGED << sent, connects, losses >>

T200(e) ==
  /\ s[e].T200 /\ MayStart
  /\ Does(e, TimerT200(s[e]))
  /\ UNCHANGED << sent, connects, losses >>

T203(e) ==
  /\ s[e].T203 /\ MayStart
  /\ Does(e, TimerT203(s[e]))
  /\ UNCHANGED << sent, connects, losses >>

Unhash(e) ==
  /\ s[e].unhash
  /\ Does(e, UnhashTimer(s[e]))
  /\ UNCHANGED << sent, connects, losses >>

Next == \E e \in Ends :
  \/ Receive(e) \/ Lose(e) \/ Connect(e) \/ SendMsg(e) \/ RecvMsg(e)
  \/ Close(e) \/ T200(e) \/ T203(e) \/ Unhash(e)

Spec == Init /\ [][Next]_vars

(* Frames on the wire arrive, users read and timers expire.  A pending     *)
(* timer counts jiffies whatever the wire does: MayStart, which bounds the *)
(* model, may close and open again meanwhile, hence strong fairness.       *)
Fairness == \A e \in Ends :
  /\ WF_vars(Receive(e)) /\ WF_vars(RecvMsg(e)) /\ WF_vars(Unhash(e))
  /\ SF_vars(T200(e)) /\ SF_vars(T203(e))

FairSpec == Spec /\ Fairness

-----------------------------------------------------------------------------
(* The sockets, and what is counted beside them, keep their types.         *)
TypeOK ==
  /\ s \in [Ends -> Sockets]
  /\ sent \in [Ends -> Nat] /\ got \in [Ends -> Seq(Data)]
  /\ broken \in BOOLEAN /\ busied \in BOOLEAN

(* Each direction implements DataTransfer: until the link is reset or      *)
(* released the receiving user sees the frames in the order they were      *)
(* sent, each once, whatever is lost and whichever timers race the         *)
(* answers.  The TE's frames are numbered after the NT's.                  *)
ToNT == INSTANCE DataTransfer WITH
  accepted <- sent["TE"], broken <- broken,
  got <- [i \in 1 .. Len(got["NT"]) |-> got["NT"][i] - Load["NT"]]
ToTE == INSTANCE DataTransfer WITH
  accepted <- sent["NT"], broken <- broken, got <- got["TE"]
InOrderToNT == ToNT!Spec
InOrderToTE == ToTE!Spec

(* Between two correct ends an N(R) is never out of sequence until the     *)
(* link is reset or an end was busy: an RNR makes the sender go back and   *)
(* forget what it has sent.                                                *)
NoSequenceError ==
  \A e \in Ends : ~broken /\ ~busied /\ s[e].state \in Multiframe /\ s[Peer(e)].tx # << >> =>
    LET f == Head(s[Peer(e)].tx) IN
    f.type \in {"I", "RR", "RNR", "REJ"} => IsValidNR(s[e], f.nr)

(* An end that a SABME found in state 8 is left there without T200.        *)
Wedged == \E e \in Ends : s[e].state = TIMER_RECOVERY /\ ~s[e].T200

(* Accepted data gets through: what the user of one end has sent is        *)
(* delivered at the other end unless the link is reset, released or        *)
(* wedged, whichever frame on the way is lost.                             *)
EventuallyDelivered ==
  \A e \in Ends : \A n \in 1 .. Load[e] :
    sent[e] = n ~> Len(got[Peer(e)]) >= n \/ broken \/ Wedged

(* A closing socket does not linger: with the answer to its DISC lost or   *)
(* not even routed to it, it leaves the hash (unless an end has used a     *)
(* freed buffer, after which nothing is said).                             *)
EventuallyUnhashed == \A e \in Ends :
  s[e].sk = "CLOSING" ~> ~s[e].hashed \/ \E p \in Ends : s[p].oops

(* Both directions at once: the pair of ends is two DataTransfer services, *)
(* over one link whose break ends both.                                    *)
InOrder == InOrderToTE /\ InOrderToNT
=============================================================================
