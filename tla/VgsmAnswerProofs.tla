-------------------------- MODULE VgsmAnswerProofs --------------------------
(***************************************************************************)
(* Proof that an answer means that the module ran the request              *)
(* (AnswerMeansRun of VgsmComm): for any number of requests, any           *)
(* retransmissions, flushes of the tty and closes, and a module that may   *)
(* sit at a prompt for a request given up long ago.                        *)
(*                                                                         *)
(* The argument follows the line.  Once the echo of the current request r  *)
(* is on its way back, either the module has r in hand, so that the next   *)
(* final line is r's, or it took the command for text at the prompt of     *)
(* another one; then it says nothing final until it is sent an end of file *)
(* or an escape, and none is on its way, because whatever was written      *)
(* after the command of r is r's, and r has seen no prompt of its own.     *)
(***************************************************************************)
EXTENDS VgsmCommProofs

PreEcho == {"AWAITING_ECHO", "AWAITING_ECHO_READING_URC"}
PostEcho == {"READING_RESPONSE", "AWAITING_SMS_ECHO", "AWAITING_SMS_ECHO_1A"}
Ends == {"eof", "esc"}      \* what makes the module leave its prompt

(* x is neither one of u, the requests not made yet, nor in the queue.     *)
Known(c, u, x) == x \notin u /\ \A i \in 1..Len(c.requests_queue) : c.requests_queue[i] # x

(* A request is queued once, and nothing on the line is of a request that  *)
(* was not sent yet.                                                       *)
Fresh(c, u) ==
    /\ \A i \in 1..Len(c.requests_queue) : c.requests_queue[i] \notin u
    /\ \A i, j \in 1..Len(c.requests_queue) :
           c.requests_queue[i] = c.requests_queue[j] => i = j
    /\ c.current_req # None => Known(c, u, c.current_req)
    /\ \A i \in 1..Len(c.tx) : Known(c, u, c.tx[i].of)
    /\ \A i \in 1..Len(c.rx) : c.rx[i].k = "echo" => Known(c, u, c.rx[i].of)

(* The echo of the current request comes before place j of rx.             *)
After(c, j) ==
    \/ c.state \in PostEcho
    \/ /\ c.state \in PreEcho
       /\ \E i \in 1..Len(c.rx) : i < j /\ c.rx[i] = Line("echo", c.current_req)

(* What makes the module leave its prompt was written for r if it comes    *)
(* after a command of r, and only if the module, m, had r in hand.         *)
OnItsWay(c, m) ==
    LET r == c.current_req
    IN  /\ m.of # r => \A j \in 1..Len(c.tx) : c.tx[j].k \in Ends => c.tx[j].of # r
        /\ \A i, j \in 1..Len(c.tx) :
               i < j /\ c.tx[i] = Line("cmd", r) /\ c.tx[j].k \in Ends => c.tx[j].of = r

(* The module has r in hand, or is at a prompt that nothing will end.      *)
InGoodHands(c, m) ==
    \/ m.of = c.current_req
    \/ /\ m.mode = "prompt" /\ c.state \in PreEcho \cup {"READING_RESPONSE"}
       /\ \A j \in 1..Len(c.tx) : c.tx[j].k \notin Ends

Follows(c, m) ==
    /\ After(c, Len(c.rx) + 1) => InGoodHands(c, m)
    /\ \A j \in 1..Len(c.rx) : After(c, j) =>
           c.rx[j].k # "final" /\ (m.of # c.current_req => c.rx[j].k # "prompt")

(* The invariant of the link, c, of the requests not made yet, u, of the   *)
(* module, m, and of what it has run, e.                                   *)
Tame(c, u, m, e) ==
    /\ Fresh(c, u)
    /\ c.current_req # None /\ c.current_req \notin e => OnItsWay(c, m) /\ Follows(c, m)
    /\ \A r \in Reqs : c.req[r].err = "answered" => r \in e

NotMade == {r \in Reqs : caller[r] = "none"}
AnswerInv == IInv /\ Tame(comm, NotMade, module, ended)

----------------------------------------------------------------------------
(* Parts of a sequence.                                                    *)

(* p is what is left of q without its first n members, or a prefix of it.  *)
Part(p, q, n) ==
    /\ n \in Nat /\ Len(p) \in Nat /\ Len(q) \in Nat /\ Len(p) + n <= Len(q)
    /\ \A i \in 1..Len(p) : i + n \in 1..Len(q) /\ p[i] = q[i + n]

(* Everything, all but the first, a prefix and nothing are parts.          *)
LEMMA PartIs ==
    ASSUME NEW S, NEW q \in Seq(S)
    PROVE  /\ Part(q, q, 0)
           /\ Part(<<>>, q, 0)
           /\ q # <<>> => Part(Tail(q), q, 1)
           /\ \A n \in 0..Len(q) : Part(SubSeq(q, 1, n), q, 0)
<1>1. Len(q) \in Nat /\ Len(<<>>) = 0
  OBVIOUS
<1>2. Part(q, q, 0) /\ Part(<<>>, q, 0)
  BY <1>1 DEF Part
<1>3. ASSUME q # <<>> PROVE Part(Tail(q), q, 1)
  <2>1. /\ Len(Tail(q)) = Len(q) - 1 /\ Len(q) >= 1
        /\ \A i \in 1..Len(q) - 1 : Tail(q)[i] = q[i + 1]
    BY <1>3, HeadTailProperties
  <2> DEFINE p == Tail(q)
  <2> HIDE DEF p
  <2>2. Len(p) = Len(q) - 1 /\ \A i \in 1..Len(p) : p[i] = q[i + 1]
    BY <2>1 DEF p
  <2> QED
    BY <1>1, <2>1, <2>2 DEF Part, p
<1>4. ASSUME NEW n \in 0..Len(q) PROVE Part(SubSeq(q, 1, n), q, 0)
  <2>1. n \in Nat /\ \A i \in 1..n : q[i] \in S
    BY <1>1
  <2>2. Len(SubSeq(q, 1, n)) = n /\ \A i \in 1..n : SubSeq(q, 1, n)[i] = q[i]
    BY <1>1, <2>1, SubSeqProperties
  <2> DEFINE p == SubSeq(q, 1, n)
  <2> HIDE DEF p
  <2>3. Len(p) = n /\ \A i \in 1..n : p[i] = q[i]
    BY <2>2 DEF p
  <2> QED
    BY <1>1, <2>1, <2>3 DEF Part, p
<1> QED
  BY <1>2, <1>3, <1>4

(* A part of a part is a part.                                             *)
LEMMA PartOfPart ==
    ASSUME NEW p, NEW q, NEW t, NEW m, NEW n, Part(p, q, m), Part(q, t, n)
    PROVE  Part(p, t, m + n)
<1>1. /\ m \in Nat /\ n \in Nat /\ m + n \in Nat
      /\ Len(p) \in Nat /\ Len(q) \in Nat /\ Len(t) \in Nat
      /\ Len(p) + m <= Len(q) /\ Len(q) + n <= Len(t)
  BY DEF Part
<1>2. ASSUME NEW i \in 1..Len(p)
      PROVE  i + (m + n) \in 1..Len(t) /\ p[i] = t[i + (m + n)]
  <2>1. i + m \in 1..Len(q) /\ p[i] = q[i + m]
    BY DEF Part
  <2>2. (i + m) + n \in 1..Len(t) /\ q[i + m] = t[(i + m) + n]
    BY <2>1 DEF Part
  <2>3. (i + m) + n = i + (m + n)
    BY <1>1
  <2> QED
    BY <2>1, <2>2, <2>3
<1> QED
  BY <1>1, <1>2 DEF Part

(* What was written last, and what was there before.                       *)
LEMMA AppendIs ==
    ASSUME NEW S, NEW q \in Seq(S), NEW x
    PROVE  /\ Len(Append(q, x)) = Len(q) + 1 /\ Len(q) \in Nat
           /\ \A i \in 1..Len(q) + 1 :
                  Append(q, x)[i] = IF i \in 1..Len(q) THEN q[i] ELSE x
BY AppendProperties

----------------------------------------------------------------------------
(* Nothing on the line is of a request that was not sent.                  *)

(* The name of the recovery command is no request's.                       *)
LEMMA RecoveryKnown ==
    ASSUME NEW c \in Comms, NEW u \in SUBSET Reqs
    PROVE  Known(c, u, Recovery)
<1>1. Recovery \notin Reqs
  BY NamesAssumption
<1>2. \A i \in 1..Len(c.requests_queue) : c.requests_queue[i] \in Reqs
  BY DEF Comms
<1> QED
  BY <1>1, <1>2 DEF Known

(* A step that sends nothing of a new request.                             *)
LEMMA FreshKept ==
    ASSUME NEW b, NEW c, NEW u, Fresh(b, u),
           c.requests_queue = b.requests_queue,
           c.current_req \in {None, b.current_req},
           \A i \in 1..Len(c.tx) : Known(b, u, c.tx[i].of),
           \A i \in 1..Len(c.rx) : c.rx[i].k = "echo" => Known(b, u, c.rx[i].of)
    PROVE  Fresh(c, u)
<1>1. \A x : Known(b, u, x) => Known(c, u, x)
  BY DEF Known
<1> QED
  BY <1>1 DEF Fresh

(* The lines of a part are known, and so is one more.                      *)
LEMMA PartsKnown ==
    ASSUME NEW b, NEW u, Fresh(b, u), NEW p, NEW n
    PROVE  /\ Part(p, b.tx, n) => \A i \in 1..Len(p) : Known(b, u, p[i].of)
           /\ Part(p, b.rx, n) =>
                 \A i \in 1..Len(p) : p[i].k = "echo" => Known(b, u, p[i].of)
BY DEF Fresh, Part

----------------------------------------------------------------------------
(* The lines on their way to the module.                                   *)

(* Some of them are taken, or discarded by tcflush.                        *)
LEMMA LessOnItsWay ==
    ASSUME NEW b, NEW c, NEW m, NEW n, OnItsWay(b, m),
           c.current_req = b.current_req, Part(c.tx, b.tx, n)
    PROVE  OnItsWay(c, m)
<1> DEFINE r == c.current_req
<1>1. ASSUME m.of # r, NEW j \in 1..Len(c.tx), c.tx[j].k \in Ends
      PROVE  c.tx[j].of # r
  <2>1. j + n \in 1..Len(b.tx) /\ c.tx[j] = b.tx[j + n]
    BY DEF Part
  <2> QED
    BY <1>1, <2>1 DEF OnItsWay
<1>2. ASSUME NEW i \in 1..Len(c.tx), NEW j \in 1..Len(c.tx), i < j,
             c.tx[i] = Line("cmd", r), c.tx[j].k \in Ends
      PROVE  c.tx[j].of = r
  <2>1. /\ i + n \in 1..Len(b.tx) /\ c.tx[i] = b.tx[i + n]
        /\ j + n \in 1..Len(b.tx) /\ c.tx[j] = b.tx[j + n]
        /\ n \in Nat
    BY DEF Part
  <2>2. i + n < j + n
    BY <1>2, <2>1
  <2> QED
    BY <1>2, <2>1, <2>2 DEF OnItsWay
<1> QED
  BY <1>1, <1>2 DEF OnItsWay

(* One more is written: what ends a prompt only for the current request,   *)
(* which the module has in hand.                                           *)
LEMMA MoreOnItsWay ==
    ASSUME NEW b, NEW c, NEW m, NEW x, OnItsWay(b, m),
           c.current_req = b.current_req, Len(b.tx) \in Nat,
           Len(c.tx) = Len(b.tx) + 1,
           \A i \in 1..Len(b.tx) + 1 :
               c.tx[i] = IF i \in 1..Len(b.tx) THEN b.tx[i] ELSE x,
           x.k \in Ends => x.of = c.current_req /\ m.of = c.current_req
    PROVE  OnItsWay(c, m)
<1> DEFINE r == c.current_req
<1>1. ASSUME m.of # r, NEW j \in 1..Len(c.tx), c.tx[j].k \in Ends
      PROVE  c.tx[j].of # r
  <2>1. j \in 1..Len(b.tx) + 1
    OBVIOUS
  <2>2. CASE j \in 1..Len(b.tx)
    BY <1>1, <2>1, <2>2 DEF OnItsWay
  <2>3. CASE j \notin 1..Len(b.tx)
    BY <1>1, <2>1, <2>3
  <2> QED
    BY <2>2, <2>3
<1>2. ASSUME NEW i \in 1..Len(c.tx), NEW j \in 1..Len(c.tx), i < j,
             c.tx[i] = Line("cmd", r), c.tx[j].k \in Ends
      PROVE  c.tx[j].of = r
  <2>1. i \in 1..Len(b.tx) /\ j \in 1..Len(b.tx) + 1
    BY <1>2
  <2>2. CASE j \in 1..Len(b.tx)
    <3>1. c.tx[i] = b.tx[i] /\ c.tx[j] = b.tx[j]
      BY <2>1, <2>2
    <3> QED
      BY <1>2, <2>1, <2>2, <3>1 DEF OnItsWay
  <2>3. CASE j \notin 1..Len(b.tx)
    BY <1>2, <2>1, <2>3
  <2> QED
    BY <2>2, <2>3
<1> QED
  BY <1>1, <1>2 DEF OnItsWay

----------------------------------------------------------------------------
(* The lines on their way back.                                            *)

(* Where no echo or response is awaited nothing is claimed.                *)
LEMMA SilentFollows ==
    ASSUME NEW c, NEW m, c.state \notin PreEcho \cup PostEcho
    PROVE  Follows(c, m)
BY DEF Follows, After

(* Lines before the echo are dropped, or the echo with them.               *)
LEMMA DropFollows ==
    ASSUME NEW b, NEW c, NEW m, NEW n, Follows(b, m),
           b.state \in PreEcho, c.state \in PreEcho,
           c.current_req = b.current_req, c.tx = b.tx, Part(c.rx, b.rx, n)
    PROVE  Follows(c, m)
<1>0. /\ n \in Nat /\ Len(c.rx) \in Nat /\ Len(b.rx) \in Nat
      /\ Len(c.rx) + n <= Len(b.rx)
      /\ \A i \in 1..Len(c.rx) : i + n \in 1..Len(b.rx) /\ c.rx[i] = b.rx[i + n]
  BY DEF Part
<1>1. c.state \notin PostEcho
  BY DEF PreEcho, PostEcho
<1>2. ASSUME NEW j \in Nat, After(c, j), NEW k \in Nat, j + n <= k
      PROVE  After(b, k)
  <2>1. PICK i \in 1..Len(c.rx) : i < j /\ c.rx[i] = Line("echo", c.current_req)
    BY <1>1, <1>2 DEF After
  <2>2. i + n \in 1..Len(b.rx) /\ c.rx[i] = b.rx[i + n]
    BY <1>0
  <2>3. i + n < k
    BY <1>0, <1>2, <2>1
  <2> QED
    BY <2>1, <2>2, <2>3 DEF After
<1>3. After(c, Len(c.rx) + 1) => InGoodHands(c, m)
  <2> SUFFICES ASSUME After(c, Len(c.rx) + 1) PROVE InGoodHands(c, m)
    OBVIOUS
  <2>1. /\ Len(c.rx) + 1 \in Nat /\ Len(b.rx) + 1 \in Nat
        /\ Len(c.rx) + 1 + n <= Len(b.rx) + 1
    BY <1>0
  <2>2. After(b, Len(b.rx) + 1)
    BY <1>2, <2>1
  <2>3. InGoodHands(b, m)
    BY <2>2 DEF Follows
  <2> QED
    BY <2>3 DEF InGoodHands
<1>4. ASSUME NEW j \in 1..Len(c.rx), After(c, j)
      PROVE  c.rx[j].k # "final" /\ (m.of # c.current_req => c.rx[j].k # "prompt")
  <2>1. j \in Nat /\ j + n \in Nat /\ j + n \in 1..Len(b.rx) /\ c.rx[j] = b.rx[j + n]
    BY <1>0
  <2>2. After(b, j + n)
    BY <1>2, <1>4, <2>1
  <2> QED
    BY <2>1, <2>2 DEF Follows
<1> QED
  BY <1>3, <1>4 DEF Follows

(* The echo is read: everything else follows it.                           *)
LEMMA EchoFollows ==
    ASSUME NEW b, NEW c, NEW m, Follows(b, m),
           b.state \in PreEcho, c.state = "READING_RESPONSE",
           b.rx[1] = Line("echo", b.current_req),
           Len(b.rx) \in Nat, Len(b.rx) >= 1,
           c.current_req = b.current_req, c.tx = b.tx, Part(c.rx, b.rx, 1)
    PROVE  Follows(c, m)
<1>1. \A j \in Nat : 1 < j => After(b, j)
  BY DEF After
<1>2. InGoodHands(b, m)
  <2>1. After(b, Len(b.rx) + 1)
    BY <1>1
  <2> QED
    BY <2>1 DEF Follows
<1>3. InGoodHands(c, m)
  BY <1>2 DEF InGoodHands
<1>4. ASSUME NEW j \in 1..Len(c.rx)
      PROVE  c.rx[j].k # "final" /\ (m.of # c.current_req => c.rx[j].k # "prompt")
  <2>1. j + 1 \in 1..Len(b.rx) /\ c.rx[j] = b.rx[j + 1]
    BY DEF Part
  <2>2. After(b, j + 1)
    BY <1>1
  <2> QED
    BY <2>1, <2>2 DEF Follows
<1> QED
  BY <1>3, <1>4 DEF Follows

(* A line of the response is read; what is written is for a request that   *)
(* the module has in hand.                                                 *)
LEMMA ReadFollows ==
    ASSUME NEW b, NEW c, NEW m, NEW n, Follows(b, m),
           b.state \in PostEcho, c.state \in PostEcho,
           c.current_req = b.current_req, Part(c.rx, b.rx, n),
           m.of = c.current_req \/ (c.state = "READING_RESPONSE" /\ c.tx = b.tx)
    PROVE  Follows(c, m)
<1>1. \A j : After(b, j)
  BY DEF After
<1>2. InGoodHands(b, m)
  BY <1>1 DEF Follows
<1>3. InGoodHands(c, m)
  BY <1>2 DEF InGoodHands
<1>4. ASSUME NEW j \in 1..Len(c.rx)
      PROVE  c.rx[j].k # "final" /\ (m.of # c.current_req => c.rx[j].k # "prompt")
  <2>1. j + n \in 1..Len(b.rx) /\ c.rx[j] = b.rx[j + n]
    BY DEF Part
  <2> QED
    BY <1>1, <2>1 DEF Follows
<1> QED
  BY <1>3, <1>4 DEF Follows

----------------------------------------------------------------------------
(* The handlers of the comm thread.                                        *)

(* No request gets an answer.                                              *)
Unanswered(b, c) ==
    \A q \in Reqs : c.req[q].err = "answered" => b.req[q].err = "answered"

(* Only what the invariant does not look at changes.                       *)
LEMMA SameTame ==
    ASSUME NEW b, NEW c, NEW u, NEW m, NEW e, Tame(b, u, m, e), Unanswered(b, c),
           c.state = b.state, c.current_req = b.current_req,
           c.requests_queue = b.requests_queue, c.tx = b.tx, c.rx = b.rx
    PROVE  Tame(c, u, m, e)
<1>1. Fresh(c, u)
  BY DEF Tame, Fresh, Known
<1>2. OnItsWay(b, m) => OnItsWay(c, m)
  BY DEF OnItsWay
<1>3. Follows(b, m) => Follows(c, m)
  BY DEF Follows, After, InGoodHands
<1> QED
  BY <1>1, <1>2, <1>3 DEF Tame, Unanswered

(* The current request is over, or none is; some lines are read.           *)
LEMMA NoneTame ==
    ASSUME NEW b \in Comms, NEW c \in Comms, NEW u, NEW m, NEW e, NEW n, Tame(b, u, m, e),
           c.current_req = None, c.requests_queue = b.requests_queue, c.tx = b.tx,
           Part(c.rx, b.rx, n),
           \A q \in Reqs : c.req[q].err = "answered" =>
               b.req[q].err = "answered" \/ q \in e
    PROVE  Tame(c, u, m, e)
<1>0. b.tx \in Seq(TxLines)
  BY DEF Comms
<1>1. Fresh(b, u) /\ Part(c.tx, b.tx, 0)
  BY <1>0, PartIs DEF Tame
<1>2. \A i \in 1..Len(c.tx) : Known(b, u, c.tx[i].of)
  BY <1>1, PartsKnown
<1>3. \A i \in 1..Len(c.rx) : c.rx[i].k = "echo" => Known(b, u, c.rx[i].of)
  BY <1>1, PartsKnown
<1>4. Fresh(c, u)
  BY <1>1, <1>2, <1>3, FreshKept
<1> QED
  BY <1>4 DEF Tame

(* Lines are dropped while the echo is awaited.                            *)
LEMMA DropTame ==
    ASSUME NEW b \in Comms, NEW c \in Comms, NEW u, NEW m, NEW e, NEW n, Tame(b, u, m, e),
           Unanswered(b, c), c.current_req = b.current_req,
           c.requests_queue = b.requests_queue, c.tx = b.tx, Part(c.rx, b.rx, n),
           c.current_req = None \/ (b.state \in PreEcho /\ c.state \in PreEcho)
    PROVE  Tame(c, u, m, e)
<1>1. CASE c.current_req = None
  BY <1>1, NoneTame DEF Unanswered
<1>2. CASE b.state \in PreEcho /\ c.state \in PreEcho
  <2>0. b.tx \in Seq(TxLines)
    BY DEF Comms
  <2>1. Fresh(b, u) /\ Part(c.tx, b.tx, 0)
    BY <2>0, PartIs DEF Tame
  <2>2. \A i \in 1..Len(c.tx) : Known(b, u, c.tx[i].of)
    BY <2>1, PartsKnown
  <2>3. \A i \in 1..Len(c.rx) : c.rx[i].k = "echo" => Known(b, u, c.rx[i].of)
    BY <2>1, PartsKnown
  <2>4. Fresh(c, u)
    BY <2>1, <2>2, <2>3, FreshKept
  <2>5. OnItsWay(b, m) => OnItsWay(c, m)
    BY <2>1, LessOnItsWay
  <2>6. Follows(b, m) => Follows(c, m)
    BY <1>2, DropFollows
  <2> QED
    BY <2>4, <2>5, <2>6 DEF Tame, Unanswered
<1> QED
  BY <1>1, <1>2

(* The echo, or a line of the response, is read.                           *)
LEMMA ReadTame ==
    ASSUME NEW b \in Comms, NEW c \in Comms, NEW u, NEW m, NEW e, Tame(b, u, m, e),
           Unanswered(b, c), c.current_req = b.current_req,
           c.requests_queue = b.requests_queue, c.tx = b.tx,
           b.rx # <<>>, c.rx = Tail(b.rx), c.state = "READING_RESPONSE",
           \/ b.state \in PostEcho
           \/ b.state \in PreEcho /\ Head(b.rx) = Line("echo", b.current_req)
    PROVE  Tame(c, u, m, e)
<1>0. b.tx \in Seq(TxLines) /\ b.rx \in Seq(RxLines)
  BY DEF Comms
<1>1. Fresh(b, u) /\ Part(c.tx, b.tx, 0) /\ Part(c.rx, b.rx, 1)
  BY <1>0, PartIs DEF Tame
<1>2. \A i \in 1..Len(c.tx) : Known(b, u, c.tx[i].of)
  BY <1>1, PartsKnown
<1>3. \A i \in 1..Len(c.rx) : c.rx[i].k = "echo" => Known(b, u, c.rx[i].of)
  BY <1>1, PartsKnown
<1>4. Fresh(c, u)
  BY <1>1, <1>2, <1>3, FreshKept
<1>5. OnItsWay(b, m) => OnItsWay(c, m)
  BY <1>1, LessOnItsWay
<1>6. Follows(b, m) => Follows(c, m)
  <2>1. CASE b.state \in PostEcho
    BY <1>1, <2>1, ReadFollows DEF PostEcho
  <2>2. CASE b.state \in PreEcho /\ Head(b.rx) = Line("echo", b.current_req)
    <3>1. Len(b.rx) \in Nat /\ Len(b.rx) >= 1 /\ Head(b.rx) = b.rx[1]
      BY <1>0, HeadTailProperties
    <3> QED
      BY <1>1, <2>2, <3>1, EchoFollows
  <2> QED
    BY <2>1, <2>2
<1> QED
  BY <1>4, <1>5, <1>6 DEF Tame, Unanswered

(* A line of the response is answered by a PDU, its end or an escape.      *)
LEMMA ReplyTame ==
    ASSUME NEW b \in Comms, NEW c \in Comms, NEW u, NEW m, NEW e, NEW k, NEW n,
           Tame(b, u, m, e), Unanswered(b, c), c.current_req = b.current_req,
           c.current_req # None, c.requests_queue = b.requests_queue,
           c.tx = Append(b.tx, Line(k, c.current_req)), Part(c.rx, b.rx, n),
           b.state \in PostEcho, c.state \in PostEcho,
           m.of = c.current_req \/ c.current_req \in e
    PROVE  Tame(c, u, m, e)
<1> DEFINE x == Line(k, c.current_req)
<1>0. b.tx \in Seq(TxLines) /\ x.of = c.current_req
  BY DEF Comms, Line
<1>1. Fresh(b, u) /\ Known(b, u, x.of)
  BY <1>0 DEF Tame, Fresh
<1> HIDE DEF x
<1>2. /\ Len(c.tx) = Len(b.tx) + 1 /\ Len(b.tx) \in Nat
      /\ \A i \in 1..Len(b.tx) + 1 :
             c.tx[i] = IF i \in 1..Len(b.tx) THEN b.tx[i] ELSE x
  BY <1>0, AppendIs DEF x
<1>3. \A i \in 1..Len(c.tx) : Known(b, u, c.tx[i].of)
  BY <1>1, <1>2 DEF Fresh
<1>4. \A i \in 1..Len(c.rx) : c.rx[i].k = "echo" => Known(b, u, c.rx[i].of)
  BY <1>1, PartsKnown
<1>5. Fresh(c, u)
  BY <1>1, <1>3, <1>4, FreshKept
<1>6. ASSUME c.current_req \notin e, OnItsWay(b, m), Follows(b, m)
      PROVE  OnItsWay(c, m) /\ Follows(c, m)
  <2>1. m.of = c.current_req
    BY <1>6
  <2>2. OnItsWay(c, m)
    BY <1>0, <1>2, <1>6, <2>1, MoreOnItsWay
  <2>3. Follows(c, m)
    BY <1>6, <2>1, ReadFollows
  <2> QED
    BY <2>2, <2>3
<1> QED
  BY <1>5, <1>6 DEF Tame, Unanswered

(* Before any echo nothing is claimed.                                     *)
LEMMA QuietFollows ==
    ASSUME NEW c, NEW m, c.state \notin PostEcho,
           \A i \in 1..Len(c.rx) : c.rx[i] # Line("echo", c.current_req)
    PROVE  Follows(c, m)
BY DEF Follows, After

(* The next request is sent: nothing on the line is of it.                 *)
LEMMA SendTame ==
    ASSUME NEW b \in Comms, NEW c \in Comms, NEW u, NEW m, NEW e,
           Tame(b, u, m, e), Unanswered(b, c), b.requests_queue # <<>>,
           c.current_req = Head(b.requests_queue),
           c.requests_queue = Tail(b.requests_queue), c.rx = b.rx,
           c.tx = Append(b.tx, Line("cmd", c.current_req)), c.state = "AWAITING_ECHO"
    PROVE  Tame(c, u, m, e)
<1> DEFINE r == c.current_req
           x == Line("cmd", r)
           q == b.requests_queue
<1>0. b.tx \in Seq(TxLines) /\ x.of = r /\ x.k = "cmd" /\ q \in Seq(Reqs)
  BY DEF Comms, Line
<1>1. Fresh(b, u)
  BY DEF Tame
<1>2. r = q[1] /\ Len(q) \in Nat /\ 1 \in 1..Len(q) /\ Part(c.requests_queue, q, 1)
  BY <1>0, HeadTailProperties, PartIs
<1> HIDE DEF x
<1>3. /\ Len(c.tx) = Len(b.tx) + 1 /\ Len(b.tx) \in Nat
      /\ \A i \in 1..Len(b.tx) + 1 :
             c.tx[i] = IF i \in 1..Len(b.tx) THEN b.tx[i] ELSE x
  BY <1>0, AppendIs DEF x
<1>4. \A y : Known(b, u, y) => Known(c, u, y) /\ y # r
  BY <1>2 DEF Known, Part
<1>5. Known(c, u, r)
  <2>1. r \notin u
    BY <1>1, <1>2 DEF Fresh
  <2>2. ASSUME NEW i \in 1..Len(c.requests_queue)
        PROVE  c.requests_queue[i] # r
    <3>1. i + 1 \in 1..Len(q) /\ c.requests_queue[i] = q[i + 1] /\ i + 1 # 1
      BY <1>2 DEF Part
    <3> QED
      BY <1>1, <1>2, <3>1 DEF Fresh
  <2> QED
    BY <2>1, <2>2 DEF Known
<1>6. /\ \A i \in 1..Len(c.requests_queue) : c.requests_queue[i] \notin u
      /\ \A i, j \in 1..Len(c.requests_queue) :
             c.requests_queue[i] = c.requests_queue[j] => i = j
  <2>1. ASSUME NEW i \in 1..Len(c.requests_queue)
        PROVE  c.requests_queue[i] \notin u
    <3>1. i + 1 \in 1..Len(q) /\ c.requests_queue[i] = q[i + 1]
      BY <1>2 DEF Part
    <3> QED
      BY <1>1, <3>1 DEF Fresh
  <2>2. ASSUME NEW i \in 1..Len(c.requests_queue), NEW j \in 1..Len(c.requests_queue),
               c.requests_queue[i] = c.requests_queue[j]
        PROVE  i = j
    <3>1. /\ i + 1 \in 1..Len(q) /\ c.requests_queue[i] = q[i + 1]
          /\ j + 1 \in 1..Len(q) /\ c.requests_queue[j] = q[j + 1]
      BY <1>2 DEF Part
    <3>2. i + 1 = j + 1
      BY <1>1, <2>2, <3>1 DEF Fresh
    <3> QED
      BY <3>2
  <2> QED
    BY <2>1, <2>2
<1>7. Fresh(c, u)
  <2>1. ASSUME NEW i \in 1..Len(c.tx) PROVE Known(c, u, c.tx[i].of)
    <3>1. i \in 1..Len(b.tx) + 1
      BY <1>3
    <3>2. CASE i \in 1..Len(b.tx)
      BY <1>1, <1>3, <1>4, <3>1, <3>2 DEF Fresh
    <3>3. CASE i \notin 1..Len(b.tx)
      BY <1>0, <1>3, <1>5, <3>1, <3>3
    <3> QED
      BY <3>2, <3>3
  <2>2. \A i \in 1..Len(c.rx) : c.rx[i].k = "echo" => Known(c, u, c.rx[i].of)
    BY <1>1, <1>4 DEF Fresh
  <2> QED
    BY <1>5, <1>6, <2>1, <2>2 DEF Fresh
<1>8. OnItsWay(c, m)
  <2>1. ASSUME NEW j \in 1..Len(c.tx), c.tx[j].k \in Ends
        PROVE  c.tx[j].of # r /\ j \in 1..Len(b.tx)
    <3>1. j \in 1..Len(b.tx) + 1
      BY <1>3
    <3>2. j \in 1..Len(b.tx)
      BY <1>0, <1>3, <2>1, <3>1 DEF Ends
    <3> QED
      BY <1>1, <1>3, <1>4, <3>1, <3>2 DEF Fresh
  <2>2. ASSUME NEW i \in 1..Len(b.tx)
        PROVE  c.tx[i] # Line("cmd", r)
    <3>1. i \in 1..Len(b.tx) + 1 /\ c.tx[i] = b.tx[i]
      BY <1>3
    <3>2. b.tx[i].of # r
      BY <1>1, <1>4 DEF Fresh
    <3> QED
      BY <3>1, <3>2 DEF Line
  <2>3. ASSUME NEW i \in 1..Len(c.tx), NEW j \in 1..Len(c.tx), i < j,
               c.tx[i] = Line("cmd", r), c.tx[j].k \in Ends
        PROVE  FALSE
    <3>1. i \in 1..Len(b.tx)
      BY <1>3, <2>3
    <3> QED
      BY <2>2, <2>3, <3>1
  <2> QED
    BY <2>1, <2>3 DEF OnItsWay
<1>9. Follows(c, m)
  <2>1. ASSUME NEW i \in 1..Len(c.rx) PROVE c.rx[i] # Line("echo", r)
    BY <1>1, <1>4 DEF Fresh, Line
  <2> QED
    BY <2>1, QuietFollows DEF PostEcho
<1> QED
  BY <1>7, <1>8, <1>9 DEF Tame, Unanswered

(* After a recovery the command is sent again.                             *)
LEMMA ResendTame ==
    ASSUME NEW b \in Comms, NEW c \in Comms, NEW u, NEW m, NEW e,
           Tame(b, u, m, e), Unanswered(b, c), c.current_req = b.current_req,
           c.current_req # None, c.requests_queue = b.requests_queue,
           c.tx = Append(b.tx, Line("cmd", c.current_req)), c.rx = <<>>,
           c.state = "AWAITING_ECHO"
    PROVE  Tame(c, u, m, e)
<1> DEFINE x == Line("cmd", c.current_req)
<1>0. b.tx \in Seq(TxLines) /\ x.of = c.current_req /\ x.k = "cmd"
  BY DEF Comms, Line
<1>1. Fresh(b, u) /\ Known(b, u, x.of)
  BY <1>0 DEF Tame, Fresh
<1> HIDE DEF x
<1>2. /\ Len(c.tx) = Len(b.tx) + 1 /\ Len(b.tx) \in Nat
      /\ \A i \in 1..Len(b.tx) + 1 :
             c.tx[i] = IF i \in 1..Len(b.tx) THEN b.tx[i] ELSE x
  BY <1>0, AppendIs DEF x
<1>3. \A i \in 1..Len(c.tx) : Known(b, u, c.tx[i].of)
  BY <1>1, <1>2 DEF Fresh
<1>4. \A i \in 1..Len(c.rx) : FALSE
  OBVIOUS
<1>5. Fresh(c, u)
  BY <1>1, <1>3, <1>4, FreshKept
<1>6. OnItsWay(b, m) => OnItsWay(c, m)
  BY <1>0, <1>2, MoreOnItsWay DEF Ends
<1>7. Follows(c, m)
  BY <1>4, QuietFollows DEF PostEcho
<1> QED
  BY <1>5, <1>6, <1>7 DEF Tame, Unanswered

(* A timeout: what was read is forgotten, what was written is discarded or *)
(* not, and the recovery command follows.                                  *)
LEMMA RecoverTame ==
    ASSUME NEW b \in Comms, NEW c \in Comms, NEW u \in SUBSET Reqs, NEW m, NEW e,
           NEW kept \in Seq(TxLines), Part(kept, b.tx, 0),
           Tame(b, u, m, e), Unanswered(b, c), c.current_req = b.current_req,
           c.requests_queue = b.requests_queue,
           c.tx = Append(kept, Line("cmd", Recovery)), c.rx = <<>>,
           c.state = "RECOVERING"
    PROVE  Tame(c, u, m, e)
<1> DEFINE x == Line("cmd", Recovery)
           d == [b EXCEPT !.tx = kept]
<1>0. /\ x.of = Recovery /\ x.k = "cmd"
      /\ d.tx = kept /\ d.current_req = b.current_req
  BY DEF Comms, Line
<1>1. Fresh(b, u) /\ Known(b, u, x.of)
  BY <1>0, RecoveryKnown DEF Tame
<1> HIDE DEF x, d
<1>2. /\ Len(c.tx) = Len(kept) + 1 /\ Len(kept) \in Nat
      /\ \A i \in 1..Len(kept) + 1 :
             c.tx[i] = IF i \in 1..Len(kept) THEN kept[i] ELSE x
  BY AppendIs DEF x
<1>3. \A i \in 1..Len(c.tx) : Known(b, u, c.tx[i].of)
  <2>1. \A i \in 1..Len(kept) : Known(b, u, kept[i].of)
    BY <1>1, PartsKnown
  <2> QED
    BY <1>1, <1>2, <2>1
<1>4. \A i \in 1..Len(c.rx) : FALSE
  OBVIOUS
<1>5. Fresh(c, u)
  BY <1>1, <1>3, <1>4, FreshKept
<1>6. OnItsWay(b, m) => OnItsWay(c, m)
  <2>1. OnItsWay(b, m) => OnItsWay(d, m)
    BY <1>0, LessOnItsWay
  <2>2. OnItsWay(d, m) => OnItsWay(c, m)
    BY <1>0, <1>2, MoreOnItsWay DEF Ends
  <2> QED
    BY <2>1, <2>2
<1>7. Follows(c, m)
  BY SilentFollows DEF PreEcho, PostEcho
<1> QED
  BY <1>5, <1>6, <1>7 DEF Tame, Unanswered

(* The link leaves its loop or enters it: nothing is awaited.              *)
LEMMA SilentTame ==
    ASSUME NEW b \in Comms, NEW c \in Comms, NEW u, NEW m, NEW e, NEW n, NEW k,
           Tame(b, u, m, e), Unanswered(b, c), c.current_req = b.current_req,
           c.requests_queue = b.requests_queue, Part(c.tx, b.tx, k), Part(c.rx, b.rx, n),
           c.state \notin PreEcho \cup PostEcho
    PROVE  Tame(c, u, m, e)
<1>1. Fresh(b, u)
  BY DEF Tame
<1>2. \A i \in 1..Len(c.tx) : Known(b, u, c.tx[i].of)
  BY <1>1, PartsKnown
<1>3. \A i \in 1..Len(c.rx) : c.rx[i].k = "echo" => Known(b, u, c.rx[i].of)
  BY <1>1, PartsKnown
<1>4. Fresh(c, u)
  BY <1>1, <1>2, <1>3, FreshKept
<1>5. OnItsWay(b, m) => OnItsWay(c, m)
  BY LessOnItsWay
<1>6. Follows(c, m)
  BY SilentFollows
<1> QED
  BY <1>4, <1>5, <1>6 DEF Tame, Unanswered

(* The top of the loop.                                                    *)
LEMMA TopTame ==
    ASSUME NEW c \in Comms, NEW u, NEW m, NEW e, Tame(c, u, m, e),
           c.ok /\ c.state = "FAILED" => c.current_req = None
    PROVE  Tame(Top(c), u, m, e)
<1>1. CASE ~c.ok \/ c.state \notin {"IDLE", "FAILED"}
  <2>1. Top(c) = c
    BY <1>1 DEF Top
  <2> QED
    BY <2>1
<1>2. CASE c.ok /\ c.state = "IDLE"
  <2>1. Top(c) = process_next_request(c)
    BY <1>2 DEF Top
  <2>2. CASE c.current_req # None
    <3> DEFINE d == [c EXCEPT !.ok = FALSE]
    <3>1. Top(c) = d
      BY <2>1, <2>2 DEF process_next_request
    <3>2. /\ d.state = c.state /\ d.current_req = c.current_req /\ d.req = c.req
          /\ d.requests_queue = c.requests_queue /\ d.tx = c.tx /\ d.rx = c.rx
      BY DEF Comms
    <3> HIDE DEF d
    <3>3. Tame(d, u, m, e)
      BY <3>2, SameTame DEF Unanswered
    <3> QED
      BY <3>1, <3>3
  <2>3. CASE c.current_req = None /\ c.requests_queue = <<>>
    BY <2>1, <2>3 DEF process_next_request
  <2>4. CASE c.current_req = None /\ c.requests_queue # <<>>
    <3> DEFINE r == Head(c.requests_queue)
               d == [c EXCEPT !.current_req = r, !.requests_queue = Tail(@)]
               w == Write(d, "cmd", r)
               t == change_state(w, "AWAITING_ECHO", "on")
    <3>1. r \in Reqs /\ Tail(c.requests_queue) \in Seq(Reqs)
      BY <2>4, HeadTailProperties DEF Comms
    <3>2. Top(c) = t
      BY <2>1, <2>4 DEF process_next_request
    <3> HIDE DEF r
    <3>3. /\ d \in Comms /\ d.current_req = r
          /\ d.requests_queue = Tail(c.requests_queue)
          /\ d.req = c.req /\ d.tx = c.tx /\ d.rx = c.rx
      BY <3>1 DEF Comms
    <3> HIDE DEF d
    <3>4. Written(d, "cmd", r, w)
      BY <3>1, <3>3, WriteIs DEF Commands
    <3> HIDE DEF w
    <3>5. ChangedTo(w, "AWAITING_ECHO", "on", t)
      BY <3>4, ChangeStateIs DEF CommStates, Waiting, Written
    <3> HIDE DEF t
    <3>6. /\ t \in Comms /\ t.current_req = r /\ t.state = "AWAITING_ECHO"
          /\ t.requests_queue = Tail(c.requests_queue)
          /\ t.req = c.req /\ t.rx = c.rx
      BY <3>3, <3>4, <3>5 DEF Written, ChangedTo
    <3>7. t.tx = Append(c.tx, Line("cmd", t.current_req))
      BY <3>3, <3>4, <3>5, <3>6 DEF Written, ChangedTo
    <3>8. Tame(t, u, m, e)
      BY <2>4, <3>6, <3>7, SendTame DEF r, Unanswered
    <3> QED
      BY <3>2, <3>8
  <2> QED
    BY <2>2, <2>3, <2>4
<1>3. CASE c.ok /\ c.state = "FAILED"
  <2> DEFINE d == flush_requests(c)
  <2>1. Top(c) = d
    BY <1>3 DEF Top
  <2>2. /\ d \in Comms /\ d.requests_queue = <<>> /\ d.state = c.state
        /\ \A x \in Reqs : d.req[x].err \in {"FAILED", c.req[x].err}
        /\ d.current_req = c.current_req /\ d.rx = c.rx /\ d.tx = c.tx
    BY FlushRequestsIs
  <2> HIDE DEF d
  <2>3. Len(d.requests_queue) = 0 /\ 1..0 = {} /\ d.current_req = None
    BY <1>3, <2>2
  <2>4. \A x : Known(c, u, x) => Known(d, u, x)
    BY <2>3 DEF Known
  <2>5. Fresh(d, u)
    BY <2>2, <2>3, <2>4 DEF Fresh, Tame
  <2> QED
    BY <2>1, <2>2, <2>3, <2>5 DEF Tame
<1> QED
  BY <1>1, <1>2, <1>3

(* vgsm_comm_match_urc.                                                    *)
LEMMA MatchUrcTame ==
    ASSUME NEW c \in Comms, NEW t \in RxLines, NEW u, NEW m, NEW e, Tame(c, u, m, e),
           c.state \in {"IDLE", "AWAITING_ECHO"}, t.k = "prompt" => c.rx # <<>>,
           c.state = "IDLE" => c.current_req = None
    PROVE  Tame(match_urc(c, t), u, m, e)
<1> DEFINE g == match_urc(c, t)
<1>0. c.rx \in Seq(RxLines) /\ Part(c.rx, c.rx, 0)
  BY PartIs DEF Comms
<1>1. CASE g = c
  BY <1>1
<1>2. CASE t.k = "prompt" /\ g = [c EXCEPT !.rx = Tail(@)]
  <2>1. Tail(c.rx) \in Seq(RxLines) /\ Part(Tail(c.rx), c.rx, 1)
    BY <1>0, <1>2, HeadTailProperties, PartIs
  <2>2. g \in Comms
    BY <1>2, <2>1, UpdatesAreTyped
  <2>3. /\ g.current_req = c.current_req /\ g.state = c.state
        /\ g.requests_queue = c.requests_queue /\ g.req = c.req
        /\ g.tx = c.tx /\ g.rx = Tail(c.rx)
    BY <1>2 DEF Comms
  <2> HIDE DEF g
  <2>4. Tame(g, u, m, e)
    BY <2>1, <2>2, <2>3, DropTame DEF Unanswered, PreEcho
  <2> QED
    BY <2>4 DEF g
<1>3. CASE g = [c EXCEPT !.ok = FALSE]
  <2>1. /\ g.current_req = c.current_req /\ g.state = c.state
        /\ g.requests_queue = c.requests_queue /\ g.req = c.req
        /\ g.tx = c.tx /\ g.rx = c.rx
    BY <1>3 DEF Comms
  <2> HIDE DEF g
  <2>2. Tame(g, u, m, e)
    BY <2>1, SameTame DEF Unanswered
  <2> QED
    BY <2>2 DEF g
<1>4. CASE t.k = "urc" /\ t.of = "sms" /\ ~c.current_urc
  <2> DEFINE d == [c EXCEPT !.current_urc = TRUE]
             st == IF c.state = "AWAITING_ECHO" THEN "AWAITING_ECHO_READING_URC"
                   ELSE "READING_URC"
  <2>1. g = change_state(d, st, "on")
    BY <1>4 DEF match_urc
  <2>2. /\ d \in Comms /\ d.current_req = c.current_req
        /\ d.requests_queue = c.requests_queue /\ d.req = c.req
        /\ d.tx = c.tx /\ d.rx = c.rx
    BY DEF Comms
  <2>3. st \in CommStates
    BY DEF CommStates, Waiting
  <2> HIDE DEF d, st
  <2>4. ChangedTo(d, st, "on", g)
    BY <2>1, <2>2, <2>3, ChangeStateIs
  <2> HIDE DEF g
  <2>5. /\ g \in Comms /\ g.state = st /\ g.current_req = c.current_req
        /\ g.requests_queue = c.requests_queue /\ g.req = c.req
        /\ g.tx = c.tx /\ g.rx = c.rx
    BY <2>2, <2>4 DEF ChangedTo
  <2>6. Part(g.rx, c.rx, 0)
    BY <1>0, <2>5
  <2>7. g.current_req = None \/ (c.state \in PreEcho /\ g.state \in PreEcho)
    BY <2>5 DEF PreEcho, st
  <2>8. Tame(g, u, m, e)
    BY <2>5, <2>6, <2>7, DropTame DEF Unanswered
  <2> QED
    BY <2>8 DEF g
<1>5. CASE t.k = "urc" /\ t.of # "sms" /\ ~c.current_urc
  <2> DEFINE q == Append(c.urc_queue, t.of)
  <2>1. g = [c EXCEPT !.urc_queue = q, !.timer = @ \/ c.state = "AWAITING_ECHO"]
    BY <1>5 DEF match_urc
  <2> HIDE DEF q
  <2>2. /\ g.current_req = c.current_req /\ g.state = c.state
        /\ g.requests_queue = c.requests_queue /\ g.req = c.req
        /\ g.tx = c.tx /\ g.rx = c.rx
    BY <2>1 DEF Comms
  <2> HIDE DEF g
  <2>3. Tame(g, u, m, e)
    BY <2>2, SameTame DEF Unanswered
  <2> QED
    BY <2>3 DEF g
<1>6. \/ g = c \/ g = [c EXCEPT !.ok = FALSE]
      \/ t.k = "prompt" /\ g = [c EXCEPT !.rx = Tail(@)]
      \/ t.k = "urc" /\ ~c.current_urc
  <2>1. CASE t.k = "echo"
    BY <2>1 DEF match_urc
  <2>2. CASE t.k = "prompt"
    BY <2>2 DEF match_urc
  <2>3. CASE t.k \notin {"echo", "prompt"} /\ c.current_urc
    BY <2>3 DEF match_urc
  <2>4. CASE t.k \notin {"echo", "prompt", "urc"} /\ ~c.current_urc
    BY <2>4 DEF match_urc
  <2> QED
    BY <2>1, <2>2, <2>3, <2>4
<1> QED
  BY <1>1, <1>2, <1>3, <1>4, <1>5, <1>6

(* vgsm_comm_match_urc_cont.                                               *)
LEMMA MatchUrcContTame ==
    ASSUME NEW c \in Comms, NEW t \in RxLines, NEW u, NEW m, NEW e, Tame(c, u, m, e),
           c.state \in {"READING_URC", "AWAITING_ECHO_READING_URC"},
           c.state = "READING_URC" => c.current_req = None
    PROVE  Tame(match_urc_cont(c, t), u, m, e)
<1> DEFINE d == [c EXCEPT !.urc_queue = Append(@, "sms"), !.current_urc = FALSE]
           g == match_urc_cont(c, t)
           st == IF c.state = "READING_URC" THEN "IDLE" ELSE "AWAITING_ECHO"
           tm == IF c.state = "READING_URC" THEN "off" ELSE "on"
<1>0. c.rx \in Seq(RxLines) /\ Part(c.rx, c.rx, 0)
  BY PartIs DEF Comms
<1>1. Append(c.urc_queue, "sms") \in Seq(Urcs)
  BY DEF Comms, Urcs
<1>2. /\ d \in Comms /\ d.current_req = c.current_req
      /\ d.requests_queue = c.requests_queue /\ d.req = c.req
      /\ d.tx = c.tx /\ d.rx = c.rx
  BY <1>1 DEF Comms
<1>3. g = change_state(d, st, tm) /\ st \in CommStates /\ tm \in {"on", "off", "kept"}
  BY DEF match_urc_cont, CommStates, Waiting
<1> HIDE DEF d, st, tm
<1>4. ChangedTo(d, st, tm, g)
  BY <1>2, <1>3, ChangeStateIs
<1> HIDE DEF g
<1>5. /\ g \in Comms /\ g.state = st /\ g.current_req = c.current_req
      /\ g.requests_queue = c.requests_queue /\ g.req = c.req
      /\ g.tx = c.tx /\ g.rx = c.rx
  BY <1>2, <1>4 DEF ChangedTo
<1>6. Part(g.rx, c.rx, 0)
  BY <1>0, <1>5
<1>7. g.current_req = None \/ (c.state \in PreEcho /\ g.state \in PreEcho)
  BY <1>5 DEF PreEcho, st
<1>8. Tame(g, u, m, e)
  BY <1>5, <1>6, <1>7, DropTame DEF Unanswered
<1> QED
  BY <1>8 DEF g

(* vgsm_match_response, of a line that the module said with the request in *)
(* hand or after it ran it.                                                *)
LEMMA MatchResponseTame ==
    ASSUME NEW c \in Comms, NEW t \in RxLines, NEW u, NEW m, NEW e, Tame(c, u, m, e),
           c.state = "READING_RESPONSE", c.current_req # None,
           t.k = "final" => c.current_req \in e,
           t.k = "prompt" => m.of = c.current_req \/ c.current_req \in e
    PROVE  Tame(match_response(c, t), u, m, e)
<1> DEFINE r == c.current_req
           g == match_response(c, t)
<1>0. /\ r \in Reqs /\ r \in Commands /\ c.rx \in Seq(RxLines)
      /\ Part(c.rx, c.rx, 0)
  BY PartIs DEF Comms, Commands
<1>1. CASE t.k = "prompt" /\ ~c.req[r].pdu
  <2>1. g = Write(c, "esc", r)
    BY <1>1 DEF match_response
  <2>2. Written(c, "esc", r, g)
    BY <1>0, <2>1, WriteIs
  <2> HIDE DEF g
  <2>3. /\ g \in Comms /\ g.current_req = r /\ g.state = c.state
        /\ g.requests_queue = c.requests_queue /\ g.req = c.req /\ g.rx = c.rx
        /\ g.tx = Append(c.tx, Line("esc", g.current_req))
    BY <2>2 DEF Written
  <2>4. Tame(g, u, m, e)
    BY <1>0, <1>1, <2>3, ReplyTame DEF PostEcho, Unanswered
  <2> QED
    BY <2>4 DEF g
<1>2. CASE t.k = "prompt" /\ c.req[r].pdu
  <2> DEFINE w == Write(c, "pdu", r)
  <2>1. g = change_state(w, "AWAITING_SMS_ECHO", "on")
    BY <1>2 DEF match_response
  <2>2. Written(c, "pdu", r, w)
    BY <1>0, WriteIs
  <2> HIDE DEF w
  <2>3. ChangedTo(w, "AWAITING_SMS_ECHO", "on", g)
    BY <2>1, <2>2, ChangeStateIs DEF CommStates, Waiting, Written
  <2> HIDE DEF g
  <2>4. /\ g \in Comms /\ g.current_req = r /\ g.state = "AWAITING_SMS_ECHO"
        /\ g.requests_queue = c.requests_queue /\ g.req = c.req /\ g.rx = c.rx
        /\ g.tx = Append(c.tx, Line("pdu", g.current_req))
    BY <2>2, <2>3 DEF Written, ChangedTo
  <2>5. Tame(g, u, m, e)
    BY <1>0, <1>2, <2>4, ReplyTame DEF PostEcho, Unanswered
  <2> QED
    BY <2>5 DEF g
<1>3. CASE t.k = "final"
  <2> DEFINE f == change_state(c, "IDLE", "off")
             p == Complete(f, r, "answered")
  <2>1. g = [p EXCEPT !.current_req = None]
    BY <1>3 DEF match_response
  <2>2. ChangedTo(c, "IDLE", "off", f)
    BY ChangeStateIs DEF CommStates
  <2> HIDE DEF f
  <2>3. CompletedAs(f, r, "answered", p)
    BY <1>0, <2>2, CompleteIs DEF ChangedTo
  <2> HIDE DEF p
  <2>4. p \in Comms
    BY <2>3 DEF CompletedAs
  <2>5. /\ g \in Comms /\ g.current_req = None /\ g.req = p.req
        /\ g.requests_queue = p.requests_queue /\ g.tx = p.tx /\ g.rx = p.rx
    BY <2>1, <2>4 DEF Comms
  <2> HIDE DEF g
  <2>6. g.requests_queue = c.requests_queue /\ g.tx = c.tx /\ g.rx = c.rx
    BY <2>2, <2>3, <2>5 DEF CompletedAs, Frame, ChangedTo
  <2>7. \A q \in Reqs : g.req[q].err = "answered" =>
            c.req[q].err = "answered" \/ q \in e
    BY <1>3, <2>2, <2>3, <2>5 DEF CompletedAs, ChangedTo
  <2>8. Part(g.rx, c.rx, 0)
    BY <1>0, <2>6
  <2>9. Tame(g, u, m, e)
    BY <2>5, <2>6, <2>7, <2>8, NoneTame
  <2> QED
    BY <2>9 DEF g
<1>4. CASE t.k \notin {"prompt", "final"}
  <2>1. g = c
    BY <1>4 DEF match_response
  <2> QED
    BY <2>1
<1> QED
  BY <1>1, <1>2, <1>3, <1>4

(* A turn of vgsm_comm_receive: no late line is taken for an answer.       *)
LEMMA ReceiveTame ==
    ASSUME NEW b \in Comms, NEW u, NEW m, NEW e, Tame(b, u, m, e),
           Sup(b), Heard(b), Takes(b)
    PROVE  Tame(receive(b), u, m, e)
<1> DEFINE t == Head(b.rx)
           c == [b EXCEPT !.rx = Tail(@)]
           r == b.current_req
           g == receive(b)
<1>1. /\ b.rx # <<>> /\ t \in RxLines /\ Tail(b.rx) \in Seq(RxLines)
      /\ b.rx \in Seq(RxLines) /\ Len(Tail(b.rx)) = Len(b.rx) - 1
      /\ t = b.rx[1] /\ Len(b.rx) \in Nat /\ Len(b.rx) >= 1
      /\ Part(Tail(b.rx), b.rx, 1)
  BY HeadTailProperties, PartIs DEF Takes, Comms
<1>2. /\ c \in Comms /\ c.rx = Tail(b.rx) /\ c.tx = b.tx
      /\ c.state = b.state /\ c.current_req = r
      /\ c.requests_queue = b.requests_queue /\ c.req = b.req
  BY <1>1 DEF Comms
<1>3. Listens(b)
  BY <1>1 DEF Heard
<1>4. t.k = "prompt" /\ b.state \in {"IDLE", "AWAITING_ECHO"} => c.rx # <<>>
  <2> SUFFICES ASSUME t.k = "prompt", b.state \in {"IDLE", "AWAITING_ECHO"}
               PROVE  c.rx # <<>>
    OBVIOUS
  <2>1. Len(b.rx) > 1
    BY DEF Takes
  <2>2. Len(c.rx) = Len(b.rx) - 1
    BY <1>1, <1>2
  <2> HIDE DEF c
  <2> QED
    BY <1>1, <2>1, <2>2
<1>5. /\ c.state = "IDLE" => g = match_urc(c, t)
      /\ c.state = "AWAITING_ECHO" =>
             g = IF t = Line("echo", c.current_req)
                 THEN change_state(c, "READING_RESPONSE", "on") ELSE match_urc(c, t)
      /\ c.state \in {"READING_URC", "AWAITING_ECHO_READING_URC"} =>
             g = match_urc_cont(c, t)
      /\ c.state = "AWAITING_SMS_ECHO" =>
             g = change_state(Write(c, "eof", c.current_req),
                              "AWAITING_SMS_ECHO_1A", "kept")
      /\ c.state = "AWAITING_SMS_ECHO_1A" =>
             g = change_state(c, "READING_RESPONSE", "on")
      /\ c.state = "READING_RESPONSE" => g = match_response(c, t)
  BY ReceiveIs
<1> HIDE DEF g, c, t
<1>6. /\ c.state \in Waiting \ {"RECOVERING", "READING_URC"} => r # None
      /\ c.state \in {"IDLE", "READING_URC"} => r = None
  BY <1>2 DEF Sup
<1>7. SUFFICES Tame(g, u, m, e)
  BY DEF g
<1>8. ASSUME r = None \/ b.state \in PreEcho
      PROVE  Tame(c, u, m, e)
  BY <1>1, <1>2, <1>8, DropTame DEF Unanswered
<1>9. ASSUME g = change_state(c, "READING_RESPONSE", "on"),
             \/ b.state \in PostEcho
             \/ b.state \in PreEcho /\ t = Line("echo", r)
      PROVE  Tame(g, u, m, e)
  <2>1. ChangedTo(c, "READING_RESPONSE", "on", g)
    BY <1>2, <1>9, ChangeStateIs DEF CommStates, Waiting
  <2>2. /\ g \in Comms /\ g.current_req = r /\ g.state = "READING_RESPONSE"
        /\ g.requests_queue = b.requests_queue /\ g.req = b.req
        /\ g.tx = b.tx /\ g.rx = Tail(b.rx)
    BY <1>2, <2>1 DEF ChangedTo
  <2> QED
    BY <1>1, <1>9, <2>2, ReadTame DEF Unanswered, t
<1>10. CASE c.state = "IDLE"
  <2>1. g = match_urc(c, t) /\ r = None
    BY <1>5, <1>6, <1>10
  <2> QED
    BY <1>1, <1>2, <1>4, <1>8, <1>10, <2>1, MatchUrcTame
<1>11. CASE c.state = "AWAITING_ECHO"
  <2>1. CASE t = Line("echo", c.current_req)
    <3>1. g = change_state(c, "READING_RESPONSE", "on")
      BY <1>5, <1>11, <2>1
    <3> QED
      BY <1>2, <1>9, <1>11, <2>1, <3>1 DEF PreEcho
  <2>2. CASE t # Line("echo", c.current_req)
    <3>1. g = match_urc(c, t)
      BY <1>5, <1>11, <2>2
    <3>2. Tame(c, u, m, e)
      BY <1>2, <1>8, <1>11 DEF PreEcho
    <3> QED
      BY <1>1, <1>2, <1>4, <1>11, <3>1, <3>2, MatchUrcTame
  <2> QED
    BY <2>1, <2>2
<1>12. CASE c.state \in {"READING_URC", "AWAITING_ECHO_READING_URC"}
  <2>1. g = match_urc_cont(c, t)
    BY <1>5, <1>12
  <2>2. Tame(c, u, m, e)
    BY <1>2, <1>6, <1>8, <1>12 DEF PreEcho
  <2> QED
    BY <1>1, <1>2, <1>6, <1>12, <2>1, <2>2, MatchUrcContTame
<1>13. CASE c.state = "AWAITING_SMS_ECHO"
  <2> DEFINE w == Write(c, "eof", r)
  <2>1. g = change_state(w, "AWAITING_SMS_ECHO_1A", "kept")
    BY <1>2, <1>5, <1>13
  <2>2. r # None /\ r \in Commands
    BY <1>6, <1>13 DEF Waiting, Comms, Commands
  <2>3. Written(c, "eof", r, w)
    BY <1>2, <2>2, WriteIs
  <2> HIDE DEF w
  <2>4. ChangedTo(w, "AWAITING_SMS_ECHO_1A", "kept", g)
    BY <2>1, <2>3, ChangeStateIs DEF CommStates, Waiting, Written
  <2>5. /\ g \in Comms /\ g.current_req = r /\ g.state = "AWAITING_SMS_ECHO_1A"
        /\ g.requests_queue = b.requests_queue /\ g.req = b.req /\ g.rx = Tail(b.rx)
        /\ g.tx = Append(b.tx, Line("eof", g.current_req))
    BY <1>2, <2>3, <2>4 DEF Written, ChangedTo
  <2>6. m.of = r \/ r \in e
    <3>1. After(b, Len(b.rx) + 1)
      BY <1>2, <1>13 DEF After, PostEcho
    <3>2. r \notin e => InGoodHands(b, m)
      BY <2>2, <3>1 DEF Tame, Follows
    <3> QED
      BY <1>2, <1>13, <3>2 DEF InGoodHands, PreEcho
  <2> QED
    BY <1>1, <1>2, <1>13, <2>2, <2>5, <2>6, ReplyTame DEF PostEcho, Unanswered
<1>14. CASE c.state = "AWAITING_SMS_ECHO_1A"
  <2>1. g = change_state(c, "READING_RESPONSE", "on")
    BY <1>5, <1>14
  <2> QED
    BY <1>2, <1>9, <1>14, <2>1 DEF PostEcho
<1>15. CASE c.state = "READING_RESPONSE"
  <2>1. g = match_response(c, t)
    BY <1>5, <1>15
  <2>2. r # None
    BY <1>6, <1>15 DEF Waiting
  <2>3. Tame(c, u, m, e)
    BY <1>1, <1>2, <1>15, ReadTame DEF Unanswered, PostEcho
  <2>4. r \notin e => t.k # "final" /\ (m.of # r => t.k # "prompt")
    <3>1. After(b, 1) /\ 1 \in 1..Len(b.rx)
      BY <1>1, <1>2, <1>15 DEF After, PostEcho
    <3> QED
      BY <1>1, <2>2, <3>1 DEF Tame, Follows
  <2> QED
    BY <1>1, <1>2, <1>15, <2>1, <2>2, <2>3, <2>4, MatchResponseTame
<1>16. c.state \in Waiting \cup {"IDLE"} /\ c.state # "RECOVERING"
  BY <1>2, <1>3 DEF Listens, Comms, CommStates
<1> QED
  BY <1>10, <1>11, <1>12, <1>13, <1>14, <1>15, <1>16 DEF Waiting

(* vgsm_comm_timer_fired.                                                  *)
LEMMA TimerFiredTame ==
    ASSUME NEW c \in Comms, NEW u \in SUBSET Reqs, NEW m, NEW e, Tame(c, u, m, e),
           NEW kept \in Seq(TxLines), Part(kept, c.tx, 0), Sup(c), Heard(c), c.timer
    PROVE  Tame(timer_fired(c, kept), u, m, e)
<1> DEFINE r == c.current_req
           d == [c EXCEPT !.timer = FALSE]
           again == [d EXCEPT !.req[r].retransmit_cnt = @ - 1]
           lost == [d EXCEPT !.current_urc = FALSE, !.rx = <<>>, !.tx = kept]
           g == timer_fired(c, kept)
<1>1. c.state \in Waiting
  BY DEF Sup
<1>2. /\ d \in Comms /\ d.state = c.state /\ d.current_req = r /\ d.rx = c.rx
      /\ d.tx = c.tx /\ d.requests_queue = c.requests_queue /\ d.req = c.req
  BY DEF Comms
<1>3. c.rx \in Seq(RxLines) /\ Part(c.rx, c.rx, 0)
  BY PartIs DEF Comms
<1>4. CASE c.state = "RECOVERING" /\ r = None
  <2>1. g = change_state(d, "IDLE", "off")
    BY <1>2, <1>4 DEF timer_fired
  <2> HIDE DEF d, g
  <2>2. ChangedTo(d, "IDLE", "off", g)
    BY <1>2, <2>1, ChangeStateIs DEF CommStates
  <2>3. /\ g \in Comms /\ g.current_req = None /\ g.requests_queue = c.requests_queue
        /\ g.tx = c.tx /\ g.rx = c.rx /\ g.req = c.req
    BY <1>2, <1>4, <2>2 DEF ChangedTo
  <2>4. Part(g.rx, c.rx, 0)
    BY <1>3, <2>3
  <2>5. Tame(g, u, m, e)
    BY <2>3, <2>4, NoneTame
  <2> QED
    BY <2>5 DEF g
<1>5. CASE c.state = "RECOVERING" /\ r # None
  <2> DEFINE f == change_state(again, "FAILED", "off")
             p == Complete(f, r, "FAILED")
             w == Write(again, "cmd", r)
  <2>0. r \in Reqs /\ r \in Commands
    BY <1>5 DEF Comms, Commands
  <2>1. g = IF again.req[r].retransmit_cnt = 0 THEN [p EXCEPT !.current_req = None]
            ELSE change_state(w, "AWAITING_ECHO", "on")
    BY <1>2, <1>5 DEF timer_fired
  <2> HIDE DEF d, g
  <2>2. /\ again \in Comms /\ again.current_req = r
        /\ again.rx = c.rx /\ again.tx = c.tx
        /\ again.requests_queue = c.requests_queue
        /\ \A x \in Reqs : again.req[x].err = c.req[x].err
    <3> DEFINE q == [d.req EXCEPT ![r].retransmit_cnt = @ - 1]
               v == [d.req[r] EXCEPT !.retransmit_cnt = @ - 1]
    <3>1. d.req \in [Reqs -> ReqRecords] /\ d.req[r] \in ReqRecords
      BY <1>2, <2>0 DEF Comms
    <3>2. v \in ReqRecords /\ v.err = d.req[r].err
      <4> DEFINE z == d.req[r]
      <4>1. z \in ReqRecords /\ z.retransmit_cnt \in Int
        BY <3>1 DEF ReqRecords
      <4>2. v = [z EXCEPT !.retransmit_cnt = @ - 1]
        OBVIOUS
      <4> HIDE DEF z, v
      <4>3. z.retransmit_cnt - 1 \in Int
        BY <4>1
      <4>4. v \in ReqRecords
        BY <4>1, <4>2, <4>3 DEF ReqRecords
      <4>5. v.err = z.err
        BY <4>1, <4>2 DEF ReqRecords
      <4> QED
        BY <4>4, <4>5 DEF z
    <3>3. q = [d.req EXCEPT ![r] = v]
      OBVIOUS
    <3> HIDE DEF v
    <3>4. /\ q \in [Reqs -> ReqRecords]
          /\ \A x \in Reqs : q[x].err = d.req[x].err
      BY <2>0, <3>1, <3>2, <3>3
    <3>5. again = [d EXCEPT !.req = q]
      OBVIOUS
    <3> HIDE DEF q
    <3>6. /\ again \in Comms /\ again.req = q /\ again.tx = d.tx
          /\ again.current_req = d.current_req
          /\ again.rx = d.rx /\ again.requests_queue = d.requests_queue
      BY <1>2, <3>4, <3>5 DEF Comms
    <3> HIDE DEF again
    <3> QED
      BY <1>2, <3>4, <3>6
  <2> HIDE DEF again
  <2>3. c.rx = <<>>
    BY <1>5 DEF Heard, Listens
  <2>4. CASE again.req[r].retransmit_cnt = 0
    <3>1. ChangedTo(again, "FAILED", "off", f)
      BY <2>2, ChangeStateIs DEF CommStates
    <3> HIDE DEF f
    <3>2. CompletedAs(f, r, "FAILED", p)
      BY <2>0, <3>1, CompleteIs DEF ChangedTo
    <3> HIDE DEF p
    <3>3. p \in Comms
      BY <3>2 DEF CompletedAs
    <3>4. g = [p EXCEPT !.current_req = None]
      BY <2>1, <2>4
    <3>5. /\ g \in Comms /\ g.current_req = None /\ g.req = p.req
          /\ g.requests_queue = p.requests_queue /\ g.rx = p.rx /\ g.tx = p.tx
      BY <3>3, <3>4 DEF Comms
    <3>6. g.requests_queue = c.requests_queue /\ g.rx = c.rx /\ g.tx = c.tx
      BY <2>2, <3>1, <3>2, <3>5 DEF ChangedTo, CompletedAs, Frame
    <3>7. \A q \in Reqs : g.req[q].err = "answered" => c.req[q].err = "answered"
      BY <2>2, <3>1, <3>2, <3>5 DEF ChangedTo, CompletedAs
    <3>8. Part(g.rx, c.rx, 0)
      BY <1>3, <3>6
    <3>9. Tame(g, u, m, e)
      BY <3>5, <3>6, <3>7, <3>8, NoneTame
    <3> QED
      BY <3>9 DEF g
  <2>5. CASE again.req[r].retransmit_cnt # 0
    <3>1. g = change_state(w, "AWAITING_ECHO", "on")
      BY <2>1, <2>5
    <3>2. Written(again, "cmd", r, w)
      BY <2>0, <2>2, WriteIs
    <3> HIDE DEF w
    <3>3. ChangedTo(w, "AWAITING_ECHO", "on", g)
      BY <3>1, <3>2, ChangeStateIs DEF CommStates, Waiting, Written
    <3>4. /\ g \in Comms /\ g.state = "AWAITING_ECHO" /\ g.current_req = r
          /\ g.requests_queue = c.requests_queue /\ g.rx = <<>>
          /\ g.tx = Append(c.tx, Line("cmd", g.current_req))
      BY <2>2, <2>3, <3>2, <3>3 DEF ChangedTo, Written
    <3>5. Unanswered(c, g)
      BY <2>2, <3>2, <3>3 DEF ChangedTo, Written, Unanswered
    <3>6. Tame(g, u, m, e)
      BY <1>5, <3>4, <3>5, ResendTame
    <3> QED
      BY <3>6 DEF g
  <2> QED
    BY <2>4, <2>5
<1>6. CASE c.state # "RECOVERING"
  <2> DEFINE f == change_state(lost, "RECOVERING", "on")
  <2>1. g = Write(f, "cmd", Recovery)
    BY <1>1, <1>2, <1>6 DEF timer_fired
  <2> HIDE DEF d, g
  <2>2. /\ lost \in Comms /\ lost.current_req = r /\ lost.rx = <<>> /\ lost.tx = kept
        /\ lost.requests_queue = c.requests_queue /\ lost.req = c.req
    <3>1. <<>> \in Seq(RxLines)
      BY EmptySeq
    <3> QED
      BY <1>2, <3>1 DEF Comms
  <2> HIDE DEF lost
  <2>3. ChangedTo(lost, "RECOVERING", "on", f)
    BY <2>2, ChangeStateIs DEF CommStates, Waiting
  <2> HIDE DEF f
  <2>4. Written(f, "cmd", Recovery, g)
    BY <2>1, <2>3, WriteIs DEF ChangedTo, Commands
  <2>5. /\ g \in Comms /\ g.state = "RECOVERING" /\ g.current_req = r
        /\ g.rx = <<>> /\ g.requests_queue = c.requests_queue /\ g.req = c.req
        /\ g.tx = Append(kept, Line("cmd", Recovery))
    BY <2>2, <2>3, <2>4 DEF ChangedTo, Written
  <2>6. Tame(g, u, m, e)
    BY <2>5, RecoverTame DEF Unanswered
  <2> QED
    BY <2>6 DEF g
<1> QED
  BY <1>4, <1>5, <1>6

----------------------------------------------------------------------------
(* The steps.                                                              *)

TameNow == Tame(comm, NotMade, module, ended)

(* The comm thread.                                                        *)
LEMMA CommThreadTame ==
    ASSUME AnswerInv, Start \/ Receive \/ Timeout \/ ReadMessage \/ Joined
    PROVE  TameNow'
<1> USE DEF Looping
<1>0. comm \in Comms /\ Supervision /\ NotMade \in SUBSET Reqs
      /\ Tame(comm, NotMade, module, ended)
  BY DEF AnswerInv, IInv, TypeOK, NotMade
<1>1. NotMade' = NotMade /\ module' = module /\ ended' = ended
  BY DEF NotMade, Start, Receive, Timeout, ReadMessage, Joined, env, threads
<1>2. SUFFICES Tame(comm', NotMade, module, ended)
  BY <1>1 DEF TameNow
<1>3. comm.rx \in Seq(RxLines) /\ comm.tx \in Seq(TxLines)
  BY <1>0 DEF Comms
<1>4. /\ Part(comm.rx, comm.rx, 0) /\ Part(comm.tx, comm.tx, 0)
      /\ Part(<<>>, comm.rx, 0)
  BY <1>3, PartIs
<1>5. ASSUME NEW c, Sound(comm, c), Tame(c, NotMade, module, ended), comm' = Top(c)
      PROVE  Tame(comm', NotMade, module, ended)
  <2>1. c \in Comms /\ (c.ok /\ c.state = "FAILED" => c.current_req = None)
    BY <1>5 DEF Sound, Conserves, Sup
  <2> QED
    BY <1>5, <2>1, TopTame
<1>6. CASE Start
  <2> DEFINE d == change_state(comm, "IDLE", "off")
  <2>1. comm' = Top(d)
    BY <1>6 DEF Start, Becomes
  <2>2. ChangedTo(comm, "IDLE", "off", d)
    BY <1>0, ChangeStateIs DEF CommStates
  <2> HIDE DEF d
  <2>3. /\ d \in Comms /\ d.state = "IDLE" /\ d.current_req = comm.current_req
        /\ d.requests_queue = comm.requests_queue /\ d.req = comm.req
        /\ d.tx = comm.tx /\ d.rx = comm.rx
    BY <2>2 DEF ChangedTo
  <2>4. Part(d.tx, comm.tx, 0) /\ Part(d.rx, comm.rx, 0)
    BY <1>4, <2>3
  <2>5. Tame(d, NotMade, module, ended)
    BY <1>0, <2>3, <2>4, SilentTame DEF Unanswered, PreEcho, PostEcho
  <2> QED
    BY <2>1, <2>3, <2>5, TopTame
<1>7. CASE Receive
  <2>1. run \in Looping /\ Takes(comm) /\ comm.ok
    BY <1>7 DEF Receive, Takes
  <2>2. Sup(comm) /\ Heard(comm)
    BY <1>0, <2>1 DEF Supervision
  <2>3. Sound(comm, receive(comm)) /\ Tame(receive(comm), NotMade, module, ended)
    BY <1>0, <2>1, <2>2, ReceiveSound, ReceiveTame
  <2>4. comm' = receive(comm) \/ comm' = Top(receive(comm))
    BY <1>7 DEF Receive, Becomes
  <2> QED
    BY <1>5, <2>3, <2>4
<1>8. CASE Timeout
  <2>1. comm.ok /\ run = "loop" /\ comm.timer
    BY <1>8 DEF Timeout
  <2>2. Sup(comm) /\ Heard(comm)
    BY <1>0, <2>1 DEF Supervision
  <2>3. PICK n \in {0, Len(comm.tx)} :
           comm' = Top(timer_fired(comm, SubSeq(comm.tx, 1, n)))
    BY <1>8 DEF Timeout, Becomes
  <2>4. SubSeq(comm.tx, 1, n) \in Seq(TxLines) /\ Part(SubSeq(comm.tx, 1, n), comm.tx, 0)
    <3>1. Len(comm.tx) \in Nat /\ n \in 0..Len(comm.tx)
      BY <1>3, <2>3
    <3>2. \A i \in 1..n : comm.tx[i] \in TxLines
      BY <1>3, <3>1
    <3> QED
      BY <1>3, <3>1, <3>2, SubSeqProperties, PartIs
  <2>5. /\ Sound(comm, timer_fired(comm, SubSeq(comm.tx, 1, n)))
        /\ Tame(timer_fired(comm, SubSeq(comm.tx, 1, n)), NotMade, module, ended)
    BY <1>0, <2>1, <2>2, <2>4, TimerFiredSound, TimerFiredTame
  <2> QED
    BY <1>5, <2>3, <2>5
<1>9. CASE ReadMessage /\ comm' = Top(comm)
  <2>1. comm.ok /\ run = "loop"
    BY <1>9 DEF ReadMessage
  <2>2. comm.state = "FAILED" => comm.current_req = None
    BY <1>0, <2>1 DEF Supervision, Sup
  <2> QED
    BY <1>0, <1>9, <2>2, TopTame
<1>10. CASE ReadMessage /\ comm' = [change_state(comm, "CLOSING", "off") EXCEPT !.rx = <<>>]
  <2> DEFINE d == change_state(comm, "CLOSING", "off")
  <2>1. comm' = [d EXCEPT !.rx = <<>>]
    BY <1>10
  <2>2. ChangedTo(comm, "CLOSING", "off", d)
    BY <1>0, ChangeStateIs DEF CommStates
  <2> HIDE DEF d
  <2>3. d \in Comms /\ <<>> \in Seq(RxLines)
    BY <2>2, EmptySeq DEF ChangedTo
  <2>4. comm' \in Comms
    BY <2>1, <2>3, UpdatesAreTyped
  <2>5. /\ comm'.rx = <<>> /\ comm'.state = d.state /\ comm'.tx = d.tx
        /\ comm'.requests_queue = d.requests_queue
        /\ comm'.current_req = d.current_req /\ comm'.req = d.req
    BY <2>1, <2>3 DEF Comms
  <2>6. /\ comm'.state = "CLOSING" /\ comm'.tx = comm.tx /\ comm'.req = comm.req
        /\ comm'.requests_queue = comm.requests_queue
        /\ comm'.current_req = comm.current_req
    BY <2>2, <2>5 DEF ChangedTo
  <2>7. Part(comm'.tx, comm.tx, 0) /\ Part(comm'.rx, comm.rx, 0)
    BY <1>4, <2>5, <2>6
  <2> QED
    BY <1>0, <2>4, <2>6, <2>7, SilentTame DEF Unanswered, PreEcho, PostEcho
<1>11. CASE Joined
  <2>1. ChangedTo(comm, "CLOSED", "off", comm')
    BY <1>0, <1>11, ChangeStateIs DEF CommStates, Joined
  <2>2. /\ comm' \in Comms /\ comm'.state = "CLOSED" /\ comm'.tx = comm.tx
        /\ comm'.rx = comm.rx /\ comm'.req = comm.req
        /\ comm'.requests_queue = comm.requests_queue
        /\ comm'.current_req = comm.current_req
    BY <2>1 DEF ChangedTo
  <2>3. Part(comm'.tx, comm.tx, 0) /\ Part(comm'.rx, comm.rx, 0)
    BY <1>4, <2>2
  <2> QED
    BY <1>0, <2>2, <2>3, SilentTame DEF Unanswered, PreEcho, PostEcho
<1>12. ReadMessage => \/ comm' = Top(comm)
                      \/ comm' = [change_state(comm, "CLOSING", "off") EXCEPT !.rx = <<>>]
  BY DEF ReadMessage, Becomes
<1> QED
  BY <1>6, <1>7, <1>8, <1>9, <1>10, <1>11, <1>12

(* Fewer requests are left to make.                                        *)
LEMMA FewerTame ==
    ASSUME NEW c, NEW u, NEW w, NEW m, NEW e, Tame(c, u, m, e), w \subseteq u
    PROVE  Tame(c, w, m, e)
<1>1. \A x : Known(c, u, x) => Known(c, w, x)
  BY DEF Known
<1>2. Fresh(c, w)
  BY <1>1 DEF Tame, Fresh
<1> QED
  BY <1>2 DEF Tame

(* A new request is queued: nobody has heard of it.                        *)
LEMMA MakeTame ==
    ASSUME NEW b \in Comms, NEW c \in Comms, NEW u, NEW w, NEW m, NEW e, NEW r,
           Tame(b, u, m, e), Unanswered(b, c), r \in u, w \subseteq u \ {r},
           c.state = b.state, c.current_req = b.current_req,
           c.requests_queue = Append(b.requests_queue, r), c.tx = b.tx, c.rx = b.rx
    PROVE  Tame(c, w, m, e)
<1> DEFINE q == b.requests_queue
<1>0. q \in Seq(Reqs)
  BY DEF Comms
<1>1. /\ Len(c.requests_queue) = Len(q) + 1 /\ Len(q) \in Nat
      /\ \A i \in 1..Len(q) + 1 :
             c.requests_queue[i] = IF i \in 1..Len(q) THEN q[i] ELSE r
  BY <1>0, AppendIs
<1>2. Fresh(b, u)
  BY DEF Tame
<1> HIDE DEF q
<1>3. \A i \in 1..Len(q) : q[i] \notin u
  BY <1>2 DEF Fresh, q
<1>4. ASSUME NEW x, Known(b, u, x) PROVE Known(c, w, x)
  <2>1. x \notin w /\ x # r /\ \A i \in 1..Len(q) : q[i] # x
    BY <1>4 DEF Known, q
  <2> QED
    BY <1>1, <2>1 DEF Known
<1>5. ASSUME NEW i \in 1..Len(c.requests_queue)
      PROVE  c.requests_queue[i] \notin w
  <2>1. i \in 1..Len(q) + 1
    BY <1>1
  <2> QED
    BY <1>1, <1>3, <2>1
<1>6. ASSUME NEW i \in 1..Len(c.requests_queue), NEW j \in 1..Len(c.requests_queue),
             c.requests_queue[i] = c.requests_queue[j]
      PROVE  i = j
  <2>1. i \in 1..Len(q) + 1 /\ j \in 1..Len(q) + 1
    BY <1>1
  <2>2. CASE i \in 1..Len(q) /\ j \in 1..Len(q)
    BY <1>1, <1>2, <1>6, <2>1, <2>2 DEF Fresh, q
  <2>3. CASE i \in 1..Len(q) /\ j \notin 1..Len(q)
    BY <1>1, <1>3, <1>6, <2>1, <2>3
  <2>4. CASE i \notin 1..Len(q) /\ j \in 1..Len(q)
    BY <1>1, <1>3, <1>6, <2>1, <2>4
  <2>5. CASE i \notin 1..Len(q) /\ j \notin 1..Len(q)
    BY <1>1, <2>1, <2>5
  <2> QED
    BY <2>2, <2>3, <2>4, <2>5
<1>7. Fresh(c, w)
  BY <1>2, <1>4, <1>5, <1>6 DEF Fresh
<1>8. OnItsWay(b, m) => OnItsWay(c, m)
  BY DEF OnItsWay
<1>9. Follows(b, m) => Follows(c, m)
  BY DEF Follows, After, InGoodHands
<1> QED
  BY <1>7, <1>8, <1>9 DEF Tame, Unanswered

(* The threads that make requests, wait for them and run their callbacks.  *)
LEMMA OtherThreadTame ==
    ASSUME AnswerInv,
           \/ \E r \in CallerReqs : Make(r) \/ WaitReturns(r)
           \/ CompletionThread \/ TakeUrc \/ HandleUrc \/ HandlerReturns
           \/ Open \/ Close
    PROVE  TameNow'
<1>0. /\ comm \in Comms /\ caller \in [Reqs -> {"none", "waits", "left"}]
      /\ Tame(comm, NotMade, module, ended) /\ HandlerWaits
      /\ comm.completion_queue \in Seq(Reqs) /\ comm.urc_queue \in Seq(Urcs)
  BY DEF AnswerInv, IInv, TypeOK, Comms
<1>1. module' = module /\ ended' = ended
  BY DEF Make, WaitReturns, CompletionThread, TakeUrc, HandleUrc, HandlerReturns, Open,
         Close, env
<1>2. SUFFICES Tame(comm', NotMade', module, ended)
  BY <1>1 DEF TameNow
<1>3. ASSUME NEW r \in Reqs, caller[r] = "none", NEW a \in {"waits", "left"},
             caller' = [caller EXCEPT ![r] = a], NEW pdu \in BOOLEAN,
             comm' \in {req_make(comm, r, pdu), req_put(req_make(comm, r, pdu), r)}
      PROVE  Tame(comm', NotMade', module, ended)
  <2> DEFINE d == req_make(comm, r, pdu)
  <2>1. r \in NotMade /\ NotMade' \subseteq NotMade \ {r}
    BY <1>0, <1>3 DEF NotMade
  <2>2. MadeAs(comm, r, d)
    BY <1>0, ReqMakeIs
  <2>3. comm' \in {d, req_put(d, r)}
    BY <1>3
  <2> HIDE DEF d
  <2>4. d \in Comms /\ Unanswered(comm, d)
    BY <2>2 DEF MadeAs, Unanswered, None
  <2>5. Tame(d, NotMade', module, ended)
    BY <1>0, <2>1, <2>2, <2>4, MakeTame DEF MadeAs
  <2>6. CASE comm' = d
    BY <2>5, <2>6
  <2>7. CASE comm' = req_put(d, r)
    <3>1. Frame(d, comm') /\ Unanswered(d, comm')
      BY <2>4, <2>7, PutIs DEF Unanswered
    <3> QED
      BY <2>5, <3>1, SameTame DEF Frame
  <2> QED
    BY <2>3, <2>6, <2>7
<1>4. ASSUME NEW r \in Reqs, NEW d \in Comms, Tame(d, NotMade, module, ended),
             comm' = req_put(d, r), NotMade' \subseteq NotMade
      PROVE  Tame(comm', NotMade', module, ended)
  <2>1. Frame(d, comm') /\ Unanswered(d, comm')
    BY <1>4, PutIs DEF Unanswered
  <2>2. Tame(comm', NotMade, module, ended)
    BY <1>4, <2>1, SameTame DEF Frame
  <2> QED
    BY <1>4, <2>2, FewerTame
<1>5. ASSUME NEW r \in Reqs, caller' = [caller EXCEPT ![r] = "left"]
      PROVE  NotMade' \subseteq NotMade
  BY <1>0, <1>5 DEF NotMade
<1>6. ASSUME comm' = comm, caller' = caller
      PROVE  Tame(comm', NotMade', module, ended)
  BY <1>0, <1>6 DEF NotMade
<1>7. ASSUME NEW r \in CallerReqs, Make(r)
      PROVE  Tame(comm', NotMade', module, ended)
  <2>1. /\ r \in Reqs /\ caller[r] = "none"
        /\ \/ /\ \E pdu \in BOOLEAN : comm' = req_make(comm, r, pdu)
              /\ caller' = [caller EXCEPT ![r] = "waits"]
           \/ /\ comm' = req_put(req_make(comm, r, FALSE), r)
              /\ caller' = [caller EXCEPT ![r] = "left"]
    BY <1>7 DEF Make, Reqs
  <2> QED
    BY <1>3, <2>1
<1>8. ASSUME NEW r \in CallerReqs, WaitReturns(r)
      PROVE  Tame(comm', NotMade', module, ended)
  <2>1. /\ r \in Reqs /\ comm' = req_put(comm, r)
        /\ caller' = [caller EXCEPT ![r] = "left"]
    BY <1>8 DEF WaitReturns, Reqs
  <2> QED
    BY <1>0, <1>4, <1>5, <2>1
<1>9. CASE CompletionThread /\ comm.completion_queue # <<>>
  <2> DEFINE r == Head(comm.completion_queue)
             q == Tail(comm.completion_queue)
             d == [comm EXCEPT !.completion_queue = q]
  <2>1. comm' = req_put(d, r) /\ caller' = caller
    BY <1>9 DEF CompletionThread
  <2>2. r \in Reqs /\ q \in Seq(Reqs)
    BY <1>0, <1>9, HeadTailProperties
  <2> HIDE DEF r, q
  <2>3. /\ d \in Comms /\ d.state = comm.state /\ d.current_req = comm.current_req
        /\ d.requests_queue = comm.requests_queue /\ d.tx = comm.tx /\ d.rx = comm.rx
        /\ d.req = comm.req
    BY <1>0, <2>2 DEF Comms
  <2> HIDE DEF d
  <2>4. Tame(d, NotMade, module, ended)
    BY <1>0, <2>3, SameTame DEF Unanswered
  <2>5. NotMade' \subseteq NotMade
    BY <2>1 DEF NotMade
  <2> QED
    BY <1>4, <2>1, <2>2, <2>3, <2>4, <2>5
<1>10. CASE CompletionThread /\ comm.completion_queue = <<>>
  BY <1>6, <1>10 DEF CompletionThread
<1>11. CASE TakeUrc /\ comm.urc_queue # <<>>
  <2> DEFINE q == Tail(comm.urc_queue)
  <2>1. comm' = [comm EXCEPT !.urc_queue = q] /\ caller' = caller
    BY <1>11 DEF TakeUrc
  <2>2. q \in Seq(Urcs)
    BY <1>0, <1>11, HeadTailProperties
  <2> HIDE DEF q
  <2>3. /\ comm'.state = comm.state /\ comm'.current_req = comm.current_req
        /\ comm'.requests_queue = comm.requests_queue /\ comm'.tx = comm.tx
        /\ comm'.rx = comm.rx /\ comm'.req = comm.req
    BY <1>0, <2>1, <2>2 DEF Comms
  <2>4. Tame(comm', NotMade, module, ended)
    BY <1>0, <2>3, SameTame DEF Unanswered
  <2>5. NotMade' = NotMade
    BY <2>1 DEF NotMade
  <2> QED
    BY <2>4, <2>5
<1>12. CASE TakeUrc /\ comm.urc_queue = <<>>
  BY <1>6, <1>12 DEF TakeUrc
<1>13. CASE HandleUrc
  <2>1. \/ \E r \in HandlerReqs : /\ caller[r] = "none"
                                   /\ comm' = req_make(comm, r, FALSE)
                                   /\ caller' = [caller EXCEPT ![r] = "waits"]
        \/ comm' = comm /\ caller' = caller
    BY <1>13 DEF HandleUrc
  <2>2. HandlerReqs \subseteq Reqs
    BY DEF Reqs
  <2> QED
    BY <1>3, <1>6, <2>1, <2>2
<1>14. CASE HandlerReturns
  <2>1. /\ urct \in Reqs /\ comm' = req_put(comm, urct)
        /\ caller' = [caller EXCEPT ![urct] = "left"]
    BY <1>14 DEF HandlerReturns
  <2> QED
    BY <1>0, <1>4, <1>5, <2>1
<1>15. CASE Open
  BY <1>6, <1>15 DEF Open
<1>16. CASE Close
  BY <1>6, <1>16 DEF Close, threads
<1> QED
  BY <1>7, <1>8, <1>9, <1>10, <1>11, <1>12, <1>13, <1>14, <1>15, <1>16

----------------------------------------------------------------------------
(* The module's steps.                                                     *)

(* Lines of S, if any, are added to what is on its way back.               *)
Said(b, c, S) ==
    /\ Len(b.rx) \in Nat /\ Len(c.rx) \in Nat /\ Len(b.rx) <= Len(c.rx)
    /\ \A i \in 1..Len(c.rx) : IF i <= Len(b.rx) THEN c.rx[i] = b.rx[i] ELSE c.rx[i] \in S

(* A line the module says is added at the end, or lost.                    *)
LEMMA SaysSaid ==
    ASSUME NEW c \in Comms, NEW x \in Seq(RxLines), NEW S, Says(c, x), Heard(c),
           \A i \in 1..Len(x) : x[i] \in S
    PROVE  OnLine(c, comm') /\ comm'.tx = c.tx /\ Said(c, comm', S)
<1>1. /\ OnLine(c, comm') /\ comm'.tx = c.tx
      /\ comm'.rx = IF Listens(c) THEN c.rx \o x ELSE c.rx
  BY SaysIs
<1>2. c.rx \in Seq(RxLines) /\ Len(c.rx) \in Nat /\ Len(x) \in Nat
  BY DEF Comms
<1> DEFINE q == c.rx \o x
<1>3. /\ Len(q) = Len(c.rx) + Len(x)
      /\ \A i \in 1..Len(c.rx) + Len(x) :
             q[i] = IF i <= Len(c.rx) THEN c.rx[i] ELSE x[i - Len(c.rx)]
  BY <1>2, ConcatProperties
<1> HIDE DEF q
<1>4. ASSUME NEW i \in 1..Len(q)
      PROVE  IF i <= Len(c.rx) THEN q[i] = c.rx[i] ELSE q[i] \in S
  <2>1. CASE i <= Len(c.rx)
    BY <1>2, <1>3, <2>1
  <2>2. CASE ~(i <= Len(c.rx))
    <3>1. i - Len(c.rx) \in 1..Len(x) /\ q[i] = x[i - Len(c.rx)]
      BY <1>2, <1>3, <2>2
    <3> QED
      BY <2>2, <3>1
  <2> QED
    BY <2>1, <2>2
<1>5. CASE Listens(c)
  <2>1. comm'.rx = q
    BY <1>1, <1>5 DEF q
  <2> QED
    BY <1>1, <1>2, <1>3, <1>4, <2>1 DEF Said
<1>6. CASE ~Listens(c)
  BY <1>1, <1>2, <1>6 DEF Said
<1> QED
  BY <1>5, <1>6

(* What the module may do, from m to m2, when it says the lines of S: it   *)
(* does not let go of the current request nor leave the prompt that        *)
(* swallowed it, and it says nothing final between the echo and the end.   *)
Heeds(b, c, m, m2, S) ==
    /\ m.of = c.current_req => m2.of = c.current_req
    /\ InGoodHands(b, m) => InGoodHands(c, m2)
    /\ Line("echo", c.current_req) \in S /\ c.state \in PreEcho => InGoodHands(c, m2)
    /\ \A x \in S : x.k = "final" \/ (x.k = "prompt" /\ m2.of # c.current_req) =>
           ~InGoodHands(b, m) /\ \A y \in S : y.k # "echo"

(* Such a step keeps what is known of the lines on their way back,         *)
LEMMA TalkFollows ==
    ASSUME NEW b, NEW c, NEW m, NEW m2, NEW S, Follows(b, m), Heeds(b, c, m, m2, S),
           Said(b, c, S), c.state = b.state, c.current_req = b.current_req
    PROVE  Follows(c, m2)
<1> DEFINE r == c.current_req
           n == Len(b.rx)
<1>0. /\ n \in Nat /\ Len(c.rx) \in Nat /\ n <= Len(c.rx)
      /\ \A i \in 1..Len(c.rx) : IF i <= n THEN c.rx[i] = b.rx[i] ELSE c.rx[i] \in S
  BY DEF Said
<1> HIDE DEF n
<1>1. ASSUME NEW j \in Nat, After(c, j), NEW k \in Nat, j <= k \/ n < k
      PROVE  After(b, k) \/ (Line("echo", r) \in S /\ c.state \in PreEcho)
  <2>1. CASE c.state \in PostEcho
    BY <2>1 DEF After
  <2>2. CASE c.state \notin PostEcho
    <3>1. PICK i \in 1..Len(c.rx) : i < j /\ c.rx[i] = Line("echo", r)
      BY <1>1, <2>2 DEF After
    <3>2. c.state \in PreEcho
      BY <1>1, <2>2 DEF After
    <3>3. CASE i <= n
      <4>1. i \in 1..n /\ i < k /\ b.rx[i] = Line("echo", r)
        BY <1>0, <1>1, <3>1, <3>3
      <4> QED
        BY <3>2, <4>1 DEF After, n
    <3>4. CASE ~(i <= n)
      BY <1>0, <3>1, <3>2, <3>4
    <3> QED
      BY <3>3, <3>4
  <2> QED
    BY <2>1, <2>2
<1>2. After(b, n + 1) => InGoodHands(b, m)
  BY DEF Follows, n
<1>3. ASSUME NEW j \in Nat, After(c, j)
      PROVE  InGoodHands(b, m) \/ (Line("echo", r) \in S /\ c.state \in PreEcho)
  <2>1. n + 1 \in Nat /\ n < n + 1
    BY <1>0
  <2> QED
    BY <1>1, <1>2, <1>3, <2>1
<1>4. After(c, Len(c.rx) + 1) => InGoodHands(c, m2)
  <2>1. Len(c.rx) + 1 \in Nat
    BY <1>0
  <2> QED
    BY <1>3, <2>1 DEF Heeds
<1>5. ASSUME NEW j \in 1..Len(c.rx), After(c, j)
      PROVE  c.rx[j].k # "final" /\ (m2.of # r => c.rx[j].k # "prompt")
  <2>0. j \in Nat
    OBVIOUS
  <2>1. CASE j <= n
    <3>1. j \in 1..n /\ c.rx[j] = b.rx[j]
      BY <1>0, <2>1
    <3>2. After(b, j)
      <4>1. CASE c.state \in PostEcho
        BY <4>1 DEF After
      <4>2. CASE c.state \notin PostEcho
        <5>1. PICK i \in 1..Len(c.rx) : i < j /\ c.rx[i] = Line("echo", r)
          BY <1>5, <4>2 DEF After
        <5>2. i \in 1..n /\ b.rx[i] = Line("echo", r)
          BY <1>0, <2>1, <5>1
        <5> QED
          BY <1>5, <4>2, <5>1, <5>2 DEF After, n
      <4> QED
        BY <4>1, <4>2
    <3> QED
      BY <3>1, <3>2 DEF Follows, Heeds, n
  <2>2. CASE ~(j <= n)
    <3>1. c.rx[j] \in S
      BY <1>0, <2>2
    <3>2. Line("echo", r).k = "echo"
      BY DEF Line
    <3> QED
      BY <1>3, <1>5, <2>0, <3>1, <3>2 DEF Heeds
  <2> QED
    BY <2>1, <2>2
<1> QED
  BY <1>4, <1>5 DEF Follows

(* and the invariant.                                                      *)
LEMMA TalkTame ==
    ASSUME NEW b \in Comms, NEW c \in Comms, NEW u, NEW m, NEW m2, NEW e, NEW e2, NEW S,
           NEW n, Tame(b, u, m, e), OnLine(b, c), Part(c.tx, b.tx, n), Said(b, c, S),
           e \subseteq e2,
           \A x \in S : x.k = "echo" => Known(b, u, x.of),
           c.current_req # None /\ c.current_req \notin e2 /\ OnItsWay(b, m) =>
               Heeds(b, c, m, m2, S)
    PROVE  Tame(c, u, m2, e2)
<1>0. /\ c.state = b.state /\ c.current_req = b.current_req /\ c.req = b.req
      /\ c.requests_queue = b.requests_queue
  BY DEF OnLine
<1>1. Fresh(b, u) /\ \A i \in 1..Len(c.tx) : Known(b, u, c.tx[i].of)
  BY PartsKnown DEF Tame
<1>2. \A i \in 1..Len(c.rx) : c.rx[i].k = "echo" => Known(b, u, c.rx[i].of)
  <2> SUFFICES ASSUME NEW i \in 1..Len(c.rx), c.rx[i].k = "echo"
               PROVE  Known(b, u, c.rx[i].of)
    OBVIOUS
  <2>1. CASE i <= Len(b.rx)
    <3>1. i \in 1..Len(b.rx) /\ c.rx[i] = b.rx[i]
      BY <2>1 DEF Said
    <3> QED
      BY <1>1, <3>1 DEF Fresh
  <2>2. CASE ~(i <= Len(b.rx))
    BY <2>2 DEF Said
  <2> QED
    BY <2>1, <2>2
<1>3. Fresh(c, u)
  BY <1>0, <1>1, <1>2, FreshKept
<1>4. ASSUME c.current_req # None, c.current_req \notin e2
      PROVE  OnItsWay(c, m2) /\ Follows(c, m2)
  <2>1. OnItsWay(b, m) /\ Follows(b, m)
    BY <1>0, <1>4 DEF Tame
  <2>2. Heeds(b, c, m, m2, S)
    BY <1>4, <2>1
  <2>3. OnItsWay(c, m)
    BY <1>0, <2>1, LessOnItsWay
  <2>4. OnItsWay(c, m2)
    BY <2>2, <2>3 DEF OnItsWay, Heeds
  <2>5. Follows(c, m2)
    BY <1>0, <2>1, <2>2, TalkFollows
  <2> QED
    BY <2>4, <2>5
<1>5. \A q \in Reqs : c.req[q].err = "answered" => q \in e2
  BY <1>0 DEF Tame
<1> QED
  BY <1>3, <1>4, <1>5 DEF Tame

(* Fewer lines on their way do no harm.                                    *)
LEMMA HandsKept ==
    ASSUME NEW b, NEW c, NEW m, NEW n, InGoodHands(b, m), OnLine(b, c),
           Part(c.tx, b.tx, n)
    PROVE  InGoodHands(c, m)
<1>1. c.state = b.state /\ c.current_req = b.current_req
  BY DEF OnLine
<1>2. ASSUME NEW j \in 1..Len(c.tx), \A i \in 1..Len(b.tx) : b.tx[i].k \notin Ends
      PROVE  c.tx[j].k \notin Ends
  <2>1. j + n \in 1..Len(b.tx) /\ c.tx[j] = b.tx[j + n]
    BY DEF Part
  <2> QED
    BY <1>2, <2>1
<1> QED
  BY <1>1, <1>2 DEF InGoodHands

(* The module takes a command, a PDU, its end or an escape.                *)
LEMMA ModuleTakesTame ==
    ASSUME AnswerInv, ModuleTakes
    PROVE  TameNow'
<1> DEFINE b == comm
           m == module
           t == Head(comm.tx)
           c == [comm EXCEPT !.tx = Tail(@)]
           r == comm.current_req
<1>0. /\ b \in Comms /\ Heard(b) /\ Tame(b, NotMade, m, ended)
      /\ comm.tx \in Seq(TxLines) /\ comm.rx \in Seq(RxLines)
      /\ module \in [mode : {"idle"}, of : {None}]
                      \cup [mode : {"run", "prompt", "send"}, of : Commands]
  BY DEF AnswerInv, IInv, TypeOK, Supervision, Comms
<1>1. /\ comm.tx # <<>> /\ m.mode \in {"idle", "prompt"}
      /\ NotMade' = NotMade /\ ended' = ended
  BY DEF ModuleTakes, NotMade, others, threads
<1>2. SUFFICES Tame(comm', NotMade, module', ended)
  BY <1>1 DEF TameNow
<1>3. /\ t = comm.tx[1] /\ t \in TxLines /\ Tail(comm.tx) \in Seq(TxLines)
      /\ Len(comm.tx) \in Nat /\ 1 \in 1..Len(comm.tx) /\ Part(Tail(comm.tx), comm.tx, 1)
  BY <1>0, <1>1, HeadTailProperties, PartIs
<1>4. OnLine(b, c) /\ c.rx = b.rx /\ Part(c.tx, b.tx, 1)
  BY <1>0, <1>3, TakenFromTx
<1>5. c \in Comms /\ Heard(c) /\ Said(b, c, {})
  BY <1>0, <1>4 DEF OnLine, Heard, Listens, Said
<1>6. t.of \in Commands /\ Known(b, NotMade, t.of)
  BY <1>0, <1>3 DEF TxLines, Tame, Fresh
<1>7. ASSUME NEW k \in {"echo", "pduecho", "eofecho"}, Says(c, <<Line(k, t.of)>>)
      PROVE  /\ comm' \in Comms /\ OnLine(b, comm') /\ Part(comm'.tx, b.tx, 1)
             /\ Said(b, comm', {Line(k, t.of)})
  <2> DEFINE x == <<Line(k, t.of)>>
  <2>1. x \in Seq(RxLines) /\ \A i \in 1..Len(x) : x[i] \in {Line(k, t.of)}
    <3>1. Line(k, t.of) \in RxLines
      BY <1>6 DEF Line, RxLines
    <3> QED
      BY <3>1
  <2>2. Says(c, x)
    BY <1>7
  <2> HIDE DEF x, c
  <2>3. OnLine(c, comm') /\ comm'.tx = c.tx /\ Said(c, comm', {Line(k, t.of)})
    BY <1>5, <2>1, <2>2, SaysSaid
  <2> QED
    BY <1>4, <2>3 DEF OnLine, Said
<1> HIDE DEF c, t
<1>8. \/ t.k = "cmd" /\ Says(c, <<Line("echo", t.of)>>) /\ m.mode = "idle"
         /\ Does("run", t.of)
      \/ t.k = "cmd" /\ Says(c, <<Line("echo", t.of)>>) /\ m.mode = "prompt"
         /\ module' = m
      \/ t.k = "pdu" /\ Says(c, <<Line("pduecho", t.of)>>) /\ module' = m
      \/ t.k = "eof" /\ Says(c, <<Line("eofecho", t.of)>>) /\ m.mode = "prompt"
         /\ Does("send", m.of)
      \/ t.k = "eof" /\ Says(c, <<Line("eofecho", t.of)>>) /\ module' = m
      \/ t.k = "esc" /\ comm' = c /\ m.mode = "prompt" /\ Does("send", m.of)
      \/ t.k = "esc" /\ comm' = c /\ module' = m
  BY <1>1 DEF ModuleTakes, c, t
<1> USE DEF Line
<1>9. CASE t.k = "cmd" /\ Says(c, <<Line("echo", t.of)>>) /\ m.mode = "idle"
           /\ Does("run", t.of)
  <2> DEFINE S == {Line("echo", t.of)}
  <2>1. /\ comm' \in Comms /\ OnLine(b, comm') /\ Part(comm'.tx, b.tx, 1)
        /\ Said(b, comm', S)
    BY <1>7, <1>9
  <2>2. module'.of = t.of /\ m.of = None
    BY <1>0, <1>9 DEF Does
  <2>3. ASSUME comm'.current_req # None
        PROVE  Heeds(b, comm', m, module', S)
    <3>1. comm'.current_req = r
      BY <2>1 DEF OnLine
    <3>2. m.of # r /\ ~InGoodHands(b, m)
      BY <1>9, <2>2, <2>3, <3>1 DEF InGoodHands
    <3>3. Line("echo", r) \in S => InGoodHands(comm', module')
      BY <2>2, <3>1 DEF InGoodHands
    <3> QED
      BY <3>1, <3>2, <3>3 DEF Heeds
  <2>4. \A x \in S : x.k = "echo" => Known(b, NotMade, x.of)
    BY <1>6
  <2> HIDE DEF S
  <2> QED
    BY <1>0, <2>1, <2>3, <2>4, TalkTame
<1>10. CASE t.k = "cmd" /\ Says(c, <<Line("echo", t.of)>>) /\ m.mode = "prompt"
            /\ module' = m
  <2> DEFINE S == {Line("echo", t.of)}
  <2>1. /\ comm' \in Comms /\ OnLine(b, comm') /\ Part(comm'.tx, b.tx, 1)
        /\ Said(b, comm', S)
    BY <1>7, <1>10
  <2>3. ASSUME OnItsWay(b, m)
        PROVE  Heeds(b, comm', m, module', S)
    <3>1. comm'.current_req = r /\ comm'.state = b.state
      BY <2>1 DEF OnLine
    <3>2. InGoodHands(b, m) => InGoodHands(comm', module')
      BY <1>10, <2>1, HandsKept
    <3>3. ASSUME t.of = r, comm'.state \in PreEcho
          PROVE  InGoodHands(comm', module')
      <4>1. CASE m.of = r
        BY <1>10, <3>1, <4>1 DEF InGoodHands
      <4>2. CASE m.of # r
        <5>1. ASSUME NEW j \in 1..Len(comm'.tx), comm'.tx[j].k \in Ends
              PROVE  FALSE
          <6>1. j + 1 \in 1..Len(b.tx) /\ comm'.tx[j] = b.tx[j + 1] /\ 1 < j + 1
            BY <2>1 DEF Part
          <6>2. b.tx[j + 1].of # r
            BY <2>3, <4>2, <5>1, <6>1 DEF OnItsWay
          <6>3. b.tx[1] = Line("cmd", r)
            BY <1>3, <1>10, <3>3 DEF TxLines
          <6> QED
            BY <1>3, <2>3, <5>1, <6>1, <6>2, <6>3 DEF OnItsWay
        <5> QED
          BY <1>10, <3>3, <5>1 DEF InGoodHands
      <4> QED
        BY <4>1, <4>2
    <3>4. Line("echo", r) \in S => t.of = r
      OBVIOUS
    <3>5. \A x \in S : x.k = "echo"
      OBVIOUS
    <3> HIDE DEF S
    <3> QED
      BY <1>10, <3>1, <3>2, <3>3, <3>4, <3>5 DEF Heeds
  <2>4. \A x \in S : x.k = "echo" => Known(b, NotMade, x.of)
    BY <1>6
  <2> HIDE DEF S
  <2> QED
    BY <1>0, <2>1, <2>3, <2>4, TalkTame
<1>11. ASSUME NEW S, \A x \in S : x.k \in {"pduecho", "eofecho"},
              module' = m \/ (m.mode = "prompt" /\ Does("send", m.of) /\ t.k \in Ends),
              comm' \in Comms, OnLine(b, comm'), Part(comm'.tx, b.tx, 1), Said(b, comm', S)
       PROVE  Tame(comm', NotMade, module', ended)
  <2>1. Heeds(b, comm', m, module', S)
    <3>1. comm'.current_req = r /\ comm'.state = b.state
      BY <1>11 DEF OnLine
    <3>2. module'.of = m.of
      BY <1>11 DEF Does
    <3>3. ASSUME InGoodHands(b, m) PROVE InGoodHands(comm', module')
      <4>1. InGoodHands(comm', m)
        BY <1>11, <3>3, HandsKept
      <4>2. CASE m.of = r
        BY <3>1, <3>2, <4>2 DEF InGoodHands
      <4>3. CASE m.of # r
        <5>1. t.k \notin Ends
          BY <1>3, <3>3, <4>3 DEF InGoodHands
        <5> QED
          BY <1>11, <4>1, <5>1
      <4> QED
        BY <4>2, <4>3
    <3>4. Line("echo", r) \notin S
      BY <1>11
    <3>5. \A x \in S : x.k # "final" /\ x.k # "prompt"
      BY <1>11
    <3> QED
      BY <3>1, <3>2, <3>3, <3>4, <3>5 DEF Heeds
  <2>2. \A x \in S : x.k = "echo" => Known(b, NotMade, x.of)
    BY <1>11
  <2> QED
    BY <1>0, <1>11, <2>1, <2>2, TalkTame
<1>12. CASE /\ \E k \in {"pduecho", "eofecho"} : Says(c, <<Line(k, t.of)>>)
            /\ module' = m \/ (t.k = "eof" /\ m.mode = "prompt" /\ Does("send", m.of))
  <2>1. PICK k \in {"pduecho", "eofecho"} : Says(c, <<Line(k, t.of)>>)
    BY <1>12
  <2> DEFINE S == {Line(k, t.of)}
  <2>2. /\ comm' \in Comms /\ OnLine(b, comm') /\ Part(comm'.tx, b.tx, 1)
        /\ Said(b, comm', S)
    BY <1>7, <2>1
  <2>3. \A x \in S : x.k \in {"pduecho", "eofecho"}
    OBVIOUS
  <2> HIDE DEF S
  <2> QED
    BY <1>11, <1>12, <2>2, <2>3 DEF Ends
<1>13. CASE /\ t.k = "esc" /\ comm' = c
            /\ module' = m \/ (m.mode = "prompt" /\ Does("send", m.of))
  <2>1. \A x \in {} : x.k \in {"pduecho", "eofecho"}
    OBVIOUS
  <2> QED
    BY <1>4, <1>5, <1>11, <1>13, <2>1 DEF Ends
<1> HIDE DEF Line
<1>14. CASE t.k = "pdu" /\ Says(c, <<Line("pduecho", t.of)>>) /\ module' = m
  BY <1>12, <1>14
<1>15. CASE t.k = "eof" /\ Says(c, <<Line("eofecho", t.of)>>)
            /\ (module' = m \/ (m.mode = "prompt" /\ Does("send", m.of)))
  BY <1>12, <1>15
<1> QED
  BY <1>8, <1>9, <1>10, <1>13, <1>14, <1>15

(* It prompts, ends a command, or reports something else.                  *)
LEMMA ModuleSaysTame ==
    ASSUME AnswerInv, ModuleAnswers \/ (\E u \in Urcs : ModuleUrc(u))
    PROVE  TameNow'
<1> DEFINE m == module
           r == comm.current_req
<1>0. /\ comm \in Comms /\ Heard(comm) /\ Tame(comm, NotMade, m, ended)
      /\ comm.tx \in Seq(TxLines)
      /\ module \in [mode : {"idle"}, of : {None}]
                      \cup [mode : {"run", "prompt", "send"}, of : Commands]
  BY DEF AnswerInv, IInv, TypeOK, Supervision, Comms
<1>1. NotMade' = NotMade
  BY DEF ModuleAnswers, ModuleUrc, NotMade, others, threads
<1>2. SUFFICES Tame(comm', NotMade, module', ended')
  BY <1>1 DEF TameNow
<1>3. Part(comm.tx, comm.tx, 0)
  BY <1>0, PartIs
<1>4. ASSUME NEW x \in Seq(RxLines), Says(comm, x), NEW S, \A i \in 1..Len(x) : x[i] \in S
      PROVE  /\ comm' \in Comms /\ OnLine(comm, comm') /\ Part(comm'.tx, comm.tx, 0)
             /\ Said(comm, comm', S)
  BY <1>0, <1>3, <1>4, SaysSaid DEF OnLine
<1>5. ASSUME NEW k \in {"prompt", "final"}, m.of \in Commands,
             Says(comm, <<Line(k, m.of)>>)
      PROVE  /\ comm' \in Comms /\ OnLine(comm, comm') /\ Part(comm'.tx, comm.tx, 0)
             /\ Said(comm, comm', {Line(k, m.of)})
  <2> DEFINE x == <<Line(k, m.of)>>
  <2>1. x \in Seq(RxLines) /\ \A i \in 1..Len(x) : x[i] \in {Line(k, m.of)}
    <3>1. Line(k, m.of) \in RxLines
      BY <1>5 DEF Line, RxLines
    <3> QED
      BY <3>1
  <2>2. Says(comm, x)
    BY <1>5
  <2> HIDE DEF x
  <2> QED
    BY <1>4, <2>1, <2>2
<1> USE DEF Line
<1>6. CASE /\ m.mode = "run" /\ m.of \in CallerReqs /\ Says(comm, <<Line("prompt", m.of)>>)
           /\ Does("prompt", m.of) /\ UNCHANGED ended
  <2> DEFINE S == {Line("prompt", m.of)}
  <2>1. /\ comm' \in Comms /\ OnLine(comm, comm') /\ Part(comm'.tx, comm.tx, 0)
        /\ Said(comm, comm', S)
    BY <1>5, <1>6 DEF Commands, Reqs
  <2>2. Heeds(comm, comm', m, module', S)
    <3>1. comm'.current_req = r /\ module'.of = m.of
      BY <1>6, <2>1 DEF OnLine, Does
    <3>2. InGoodHands(comm, m) => m.of = r
      BY <1>6 DEF InGoodHands
    <3>3. m.of = r => InGoodHands(comm', module')
      BY <3>1 DEF InGoodHands
    <3>4. \A x \in S : x.k = "prompt" /\ x # Line("echo", r)
      OBVIOUS
    <3> HIDE DEF S
    <3> QED
      BY <3>1, <3>2, <3>3, <3>4 DEF Heeds
  <2>3. \A x \in S : x.k # "echo"
    OBVIOUS
  <2> HIDE DEF S
  <2> QED
    BY <1>0, <1>6, <2>1, <2>2, <2>3, TalkTame
<1>7. CASE /\ m.mode \in {"run", "send"} /\ Says(comm, <<Line("final", m.of)>>)
           /\ Does("idle", None) /\ ended' = ended \cup {m.of}
  <2> DEFINE S == {Line("final", m.of)}
  <2>1. /\ comm' \in Comms /\ OnLine(comm, comm') /\ Part(comm'.tx, comm.tx, 0)
        /\ Said(comm, comm', S)
    BY <1>0, <1>5, <1>7
  <2>2. ASSUME comm'.current_req \notin ended'
        PROVE  Heeds(comm, comm', m, module', S)
    <3>1. comm'.current_req = r
      BY <2>1 DEF OnLine
    <3>2. m.of # r
      BY <1>7, <2>2, <3>1
    <3>3. ~InGoodHands(comm, m)
      BY <1>7, <3>2 DEF InGoodHands
    <3>4. \A x \in S : x.k = "final" /\ x # Line("echo", r)
      OBVIOUS
    <3> HIDE DEF S
    <3> QED
      BY <3>1, <3>2, <3>3, <3>4 DEF Heeds
  <2>3. \A x \in S : x.k # "echo"
    OBVIOUS
  <2>4. ended \subseteq ended'
    BY <1>7
  <2> HIDE DEF S
  <2> QED
    BY <1>0, <2>1, <2>2, <2>3, <2>4, TalkTame
<1>8. ASSUME NEW u \in Urcs, ModuleUrc(u)
      PROVE  Tame(comm', NotMade, module', ended')
  <2> DEFINE x == IF u = "sms" THEN <<Line("urc", u), Line("body", u)>>
                  ELSE <<Line("urc", u)>>
             S == {Line("urc", u), Line("body", u)}
  <2>1. module' = m /\ ended' = ended /\ Says(comm, x)
    BY <1>8 DEF ModuleUrc
  <2>2. x \in Seq(RxLines) /\ \A i \in 1..Len(x) : x[i] \in S
    <3>1. Line("urc", u) \in RxLines /\ Line("body", u) \in RxLines
      BY DEF Line, RxLines
    <3> HIDE DEF Line
    <3> QED
      BY <3>1
  <2>3. \A y \in S : y.k \in {"urc", "body"}
    OBVIOUS
  <2> HIDE DEF x, S
  <2>4. /\ comm' \in Comms /\ OnLine(comm, comm') /\ Part(comm'.tx, comm.tx, 0)
        /\ Said(comm, comm', S)
    BY <1>4, <2>1, <2>2
  <2>5. Heeds(comm, comm', m, module', S)
    <3>1. InGoodHands(comm, m) => InGoodHands(comm', module')
      BY <2>1, <2>4, HandsKept
    <3>2. Line("echo", comm'.current_req) \notin S
      BY <2>3
    <3> QED
      BY <2>1, <2>3, <3>1, <3>2 DEF Heeds
  <2>6. \A y \in S : y.k # "echo"
    BY <2>3
  <2> QED
    BY <1>0, <2>1, <2>4, <2>5, <2>6, TalkTame
<1> QED
  BY <1>6, <1>7, <1>8 DEF ModuleAnswers

(* The tty is flushed and closed.                                          *)
LEMMA CloseReturnsTame ==
    ASSUME AnswerInv, CloseReturns
    PROVE  TameNow'
<1>0. comm \in Comms /\ Tame(comm, NotMade, module, ended) /\ comm.tx \in Seq(TxLines)
      /\ comm.rx \in Seq(RxLines) /\ NotMade \in SUBSET Reqs
  BY DEF AnswerInv, IInv, TypeOK, Comms, NotMade
<1>1. /\ NotMade' = NotMade /\ module' = module /\ ended' = ended
      /\ comm.state = "CLOSED"
  BY DEF CloseReturns, NotMade, env, threads
<1>2. PICK n \in {0, Len(comm.tx)} : comm' = [comm EXCEPT !.tx = SubSeq(@, 1, n)]
  BY DEF CloseReturns
<1>3. SubSeq(comm.tx, 1, n) \in Seq(TxLines) /\ Part(SubSeq(comm.tx, 1, n), comm.tx, 0)
  <2>1. Len(comm.tx) \in Nat /\ n \in 0..Len(comm.tx)
    BY <1>0, <1>2
  <2>2. \A i \in 1..n : comm.tx[i] \in TxLines
    BY <1>0, <2>1
  <2> QED
    BY <1>0, <2>1, <2>2, SubSeqProperties, PartIs
<1>4. OnLine(comm, comm') /\ comm'.rx = comm.rx /\ Part(comm'.tx, comm.tx, 0)
  BY <1>0, <1>2, <1>3, TakenFromTx
<1>5. Part(comm'.rx, comm.rx, 0)
  BY <1>0, <1>4, PartIs
<1>6. Tame(comm', NotMade, module, ended)
  BY <1>0, <1>1, <1>4, <1>5, SilentTame DEF OnLine, Unanswered, PreEcho, PostEcho
<1> QED
  BY <1>1, <1>6 DEF TameNow

----------------------------------------------------------------------------
(* The invariant holds at first and is kept.                               *)
LEMMA AnswerInvariant == Spec => []AnswerInv
<1>1. Init => AnswerInv
  <2> SUFFICES ASSUME Init PROVE AnswerInv
    OBVIOUS
  <2>1. /\ comm.requests_queue = <<>> /\ comm.tx = <<>> /\ comm.rx = <<>>
        /\ comm.current_req = None /\ \A r \in Reqs : comm.req[r].err = None
    BY DEF Init, NewComm
  <2>2. 1..Len(<<>>) = {}
    OBVIOUS
  <2>3. Fresh(comm, NotMade)
    BY <2>1, <2>2 DEF Fresh
  <2>4. Tame(comm, NotMade, module, ended)
    BY <2>1, <2>3 DEF Tame, None
  <2> QED
    BY <2>4, InitIInv DEF AnswerInv
<1>2. AnswerInv /\ [Next]_vars => AnswerInv'
  <2> SUFFICES ASSUME AnswerInv, [Next]_vars PROVE AnswerInv'
    OBVIOUS
  <2>1. IInv'
    BY NextIInv DEF AnswerInv
  <2>2. TameNow'
    <3>1. CASE Next
      <4>1. \/ Start \/ Receive \/ Timeout \/ ReadMessage \/ Joined
            \/ \E r \in CallerReqs : Make(r) \/ WaitReturns(r)
            \/ CompletionThread \/ TakeUrc \/ HandleUrc \/ HandlerReturns
            \/ Open \/ Close
            \/ ModuleTakes \/ ModuleAnswers \/ CloseReturns
            \/ \E u \in Urcs : ModuleUrc(u)
        BY <3>1 DEF Next, CommThread, UrcThread
      <4> QED
        BY <4>1, CommThreadTame, OtherThreadTame, ModuleTakesTame, ModuleSaysTame,
           CloseReturnsTame
    <3>2. CASE UNCHANGED vars
      BY <3>2 DEF vars, AnswerInv, TameNow, NotMade
    <3> QED
      BY <3>1, <3>2
  <2> QED
    BY <2>1, <2>2 DEF AnswerInv, TameNow
<1> QED
  BY <1>1, <1>2, PTL DEF Spec

(* A request that ended with a response (vgsm_match_response) was run to   *)
(* its end by the module, whatever was retransmitted, flushed, closed and  *)
(* opened again before: the echo that vgsm_comm_receive awaits, and the    *)
(* discarding of what arrives while it recovers, keep late lines of other  *)
(* commands apart.                                                         *)
THEOREM AnswersMeanRun == Spec => []AnswerMeansRun
<1>1. AnswerInv => AnswerMeansRun
  BY DEF AnswerInv, Tame, AnswerMeansRun
<1> QED
  BY <1>1, AnswerInvariant, PTL
=============================================================================
