--------------------------- MODULE VgsmCommProofs ---------------------------
(***************************************************************************)
(* Proofs about VgsmComm: for any number of requests, any interleaving of  *)
(* the comm, completion, URC and monitor threads and any module at the     *)
(* other end of the line, the comm thread never waits unsupervised,        *)
(* references are counted exactly and requests end in the order in which   *)
(* they were made.                                                         *)
(***************************************************************************)
EXTENDS VgsmComm, FiniteSetTheorems, SequenceTheorems, TLAPS

----------------------------------------------------------------------------
(* The inductive invariant.                                                *)

InHand(c) == IF c.current_req = None THEN 0 ELSE 1

(* What the link holds is the end of m, the requests ever made, after its  *)
(* first n: the completion queue, the current request, the request queue.  *)
Ordered(c, m, n) ==
    LET done == n + Len(c.completion_queue)
    IN  /\ done + InHand(c) + Len(c.requests_queue) = Len(m)
        /\ \A i \in 1..Len(c.completion_queue) : c.completion_queue[i] = m[n + i]
        /\ c.current_req # None => c.current_req = m[done + 1]
        /\ \A i \in 1..Len(c.requests_queue) :
               c.requests_queue[i] = m[done + InHand(c) + i]

(* WaitIsSupervised of a record, with what READING_URC needs to return to  *)
(* IDLE.                                                                   *)
Sup(c) ==
    /\ c.timer <=> c.state \in Waiting
    /\ c.state \in Waiting \ {"RECOVERING", "READING_URC"} => c.current_req # None
    /\ c.state \in {"IDLE", "FAILED", "READING_URC"} => c.current_req = None
    /\ c.state \in {"READING_URC", "AWAITING_ECHO_READING_URC"} => c.current_urc

(* Nothing is in the buffer in a state that throws away what arrives.      *)
Heard(c) == Listens(c) \/ c.rx = <<>>

(* Requests whose completion function was called.                          *)
Taken == Len(completed) - Len(comm.completion_queue)

HeldAfter(n, r) == IF \E i \in (n + 1)..Len(made) : made[i] = r THEN 1 ELSE 0
WaitsFor(r) == IF caller[r] = "waits" THEN 1 ELSE 0

InOrder ==
    /\ Taken \in Nat
    /\ Ordered(comm, made, Taken)
    /\ \A i \in 1..Len(completed) : completed[i] = made[i]

MadeOnce ==
    /\ \A i, j \in 1..Len(made) : made[i] = made[j] => i = j
    /\ \A r \in Reqs : caller[r] # "none" <=> \E i \in 1..Len(made) : made[i] = r

Counted ==
    \A r \in Reqs : comm.req[r].refcnt = HeldAfter(Taken, r) + WaitsFor(r)

HandlerWaits == urct \in Reqs => urct \in HandlerReqs /\ caller[urct] = "waits"

Supervision ==
    /\ Heard(comm)
    /\ run = "exiting" => comm.state = "CLOSING"
    /\ comm.ok /\ run \in Looping => Sup(comm)
    /\ comm.ok /\ run = "loop" /\ comm.state \in {"IDLE", "FAILED"} =>
           comm.requests_queue = <<>> \/ pipe # <<>>

IInv ==
    TypeOK /\ InOrder /\ MadeOnce /\ Counted /\ HandlerWaits /\ Supervision

----------------------------------------------------------------------------
(* What the helpers do to the record, field by field.                      *)

(* Updates that keep the record well-typed.                                *)
LEMMA UpdatesAreTyped ==
    ASSUME NEW c \in Comms
    PROVE  /\ \A q \in [Reqs -> ReqRecords] : [c EXCEPT !.req = q] \in Comms
           /\ \A q \in Seq(Reqs) : [c EXCEPT !.completion_queue = q] \in Comms
           /\ \A q \in Seq(RxLines) : [c EXCEPT !.rx = q] \in Comms
           /\ \A q \in Seq(TxLines) : [c EXCEPT !.tx = q] \in Comms
           /\ [c EXCEPT !.current_req = None] \in Comms
           /\ [c EXCEPT !.ok = FALSE] \in Comms
BY DEF Comms

(* Only the state and the timer change.                                    *)
ChangedTo(c, st, t, d) ==
    /\ d \in Comms
    /\ d.state = st
    /\ d.timer <=> (t = "on" \/ (t = "kept" /\ c.timer))
    /\ d.ok = c.ok
    /\ d.current_req = c.current_req
    /\ d.current_urc = c.current_urc
    /\ d.requests_queue = c.requests_queue
    /\ d.completion_queue = c.completion_queue
    /\ d.req = c.req
    /\ d.rx = c.rx
    /\ d.tx = c.tx

(* vgsm_comm_change_state touches the state and its timer only.            *)
LEMMA ChangeStateIs ==
    ASSUME NEW c \in Comms, NEW st \in CommStates, NEW t \in {"on", "off", "kept"}
    PROVE  ChangedTo(c, st, t, change_state(c, st, t))
BY DEF change_state, Comms, ChangedTo

(* Only tx grows.                                                          *)
Written(c, k, of, d) ==
    /\ d \in Comms
    /\ d.tx = Append(c.tx, Line(k, of))
    /\ d.state = c.state
    /\ d.timer = c.timer
    /\ d.ok = c.ok
    /\ d.current_req = c.current_req
    /\ d.current_urc = c.current_urc
    /\ d.requests_queue = c.requests_queue
    /\ d.completion_queue = c.completion_queue
    /\ d.req = c.req
    /\ d.rx = c.rx

(* A write to the tty appends to what is on its way to the module.         *)
LEMMA WriteIs ==
    ASSUME NEW c \in Comms, NEW k \in {"cmd", "pdu", "eof", "esc"}, NEW of \in Commands
    PROVE  Written(c, k, of, Write(c, k, of))
<1>1. Line(k, of) \in TxLines
  BY DEF Line, TxLines
<1>2. Append(c.tx, Line(k, of)) \in Seq(TxLines)
  BY <1>1 DEF Comms
<1>3. Write(c, k, of) \in Comms
  BY <1>2, UpdatesAreTyped DEF Write
<1> HIDE DEF Line
<1> QED
  BY <1>3 DEF Write, Comms, Written

(* The fields that the references and the completion queue leave alone.    *)
Frame(b, c) ==
    /\ c.ok = b.ok /\ c.state = b.state /\ c.timer = b.timer
    /\ c.current_req = b.current_req /\ c.current_urc = b.current_urc
    /\ c.requests_queue = b.requests_queue /\ c.rx = b.rx /\ c.tx = b.tx

(* Only one reference count changes.                                       *)
LEMMA GetIs ==
    ASSUME NEW c \in Comms, NEW r \in Reqs
    PROVE  /\ req_get(c, r) \in Comms /\ Frame(c, req_get(c, r))
           /\ req_get(c, r).completion_queue = c.completion_queue
           /\ \A x \in Reqs :
                /\ req_get(c, r).req[x].refcnt = c.req[x].refcnt + (IF x = r THEN 1 ELSE 0)
                /\ req_get(c, r).req[x].err = c.req[x].err
<1>1. req_get(c, r) \in Comms
  <2> DEFINE q == [c.req EXCEPT ![r].refcnt = @ + 1]
             x == [c.req[r] EXCEPT !.refcnt = @ + 1]
  <2>1. q \in [Reqs -> ReqRecords]
    <3>1. c.req \in [Reqs -> ReqRecords]
      BY DEF Comms
    <3>2. x \in ReqRecords
      BY <3>1 DEF ReqRecords
    <3> QED
      BY <3>1, <3>2
  <2>2. req_get(c, r) = [c EXCEPT !.req = q]
    BY DEF req_get
  <2> QED
    BY <2>1, <2>2, UpdatesAreTyped
<1>2. /\ Frame(c, req_get(c, r))
      /\ req_get(c, r).completion_queue = c.completion_queue
  BY DEF req_get, Comms, Frame
<1>3. ASSUME NEW x \in Reqs
      PROVE  /\ req_get(c, r).req[x].refcnt = c.req[x].refcnt + (IF x = r THEN 1 ELSE 0)
             /\ req_get(c, r).req[x].err = c.req[x].err
  BY DEF req_get, Comms, ReqRecords
<1> QED
  BY <1>1, <1>2, <1>3

(* The same of vgsm_req_put.                                               *)
LEMMA PutIs ==
    ASSUME NEW c \in Comms, NEW r \in Reqs
    PROVE  /\ req_put(c, r) \in Comms /\ Frame(c, req_put(c, r))
           /\ req_put(c, r).completion_queue = c.completion_queue
           /\ \A x \in Reqs :
                /\ req_put(c, r).req[x].refcnt = c.req[x].refcnt - (IF x = r THEN 1 ELSE 0)
                /\ req_put(c, r).req[x].err = c.req[x].err
<1>1. req_put(c, r) \in Comms
  <2> DEFINE q == [c.req EXCEPT ![r].refcnt = @ - 1]
             x == [c.req[r] EXCEPT !.refcnt = @ - 1]
  <2>1. q \in [Reqs -> ReqRecords]
    <3>1. c.req \in [Reqs -> ReqRecords]
      BY DEF Comms
    <3>2. x \in ReqRecords
      BY <3>1 DEF ReqRecords
    <3> QED
      BY <3>1, <3>2
  <2>2. req_put(c, r) = [c EXCEPT !.req = q]
    BY DEF req_put
  <2> QED
    BY <2>1, <2>2, UpdatesAreTyped
<1>2. /\ Frame(c, req_put(c, r))
      /\ req_put(c, r).completion_queue = c.completion_queue
  BY DEF req_put, Comms, Frame
<1>3. ASSUME NEW x \in Reqs
      PROVE  /\ req_put(c, r).req[x].refcnt = c.req[x].refcnt - (IF x = r THEN 1 ELSE 0)
             /\ req_put(c, r).req[x].err = c.req[x].err
  BY DEF req_put, Comms, ReqRecords
<1> QED
  BY <1>1, <1>2, <1>3

(* A completed request is ready and queued; nobody's references change.    *)
CompletedAs(c, r, e, p) ==
    /\ p \in Comms /\ Frame(c, p)
    /\ p.completion_queue = Append(c.completion_queue, r)
    /\ \A x \in Reqs :
         /\ p.req[x].refcnt = c.req[x].refcnt
         /\ p.req[x].err = IF x = r THEN e ELSE c.req[x].err

(* Completing a request hands its reference to the completion queue.       *)
LEMMA CompleteIs ==
    ASSUME NEW c \in Comms, NEW r \in Reqs, NEW e \in {"answered", "FAILED"}
    PROVE  CompletedAs(c, r, e, Complete(c, r, e))
<1> DEFINE a == [c EXCEPT !.req[r].err = e, !.req[r].ready = TRUE]
           b == req_get(a, r)
           d == [b EXCEPT !.completion_queue = Append(@, r)]
<1>1. a \in Comms
  <2> DEFINE q == [c.req EXCEPT ![r] = [@ EXCEPT !.err = e, !.ready = TRUE]]
  <2>1. q \in [Reqs -> ReqRecords]
    <3>1. c.req \in [Reqs -> ReqRecords]
      BY DEF Comms
    <3>2. [c.req[r] EXCEPT !.err = e, !.ready = TRUE] \in ReqRecords
      BY <3>1 DEF ReqRecords
    <3> QED
      BY <3>1, <3>2
  <2>2. a = [c EXCEPT !.req = q]
    BY DEF Comms, ReqRecords
  <2> QED
    BY <2>1, <2>2, UpdatesAreTyped
<1>2. Frame(c, a) /\ a.completion_queue = c.completion_queue
  BY DEF Comms, Frame
<1>3. ASSUME NEW x \in Reqs
      PROVE  /\ a.req[x].refcnt = c.req[x].refcnt
             /\ a.req[x].err = IF x = r THEN e ELSE c.req[x].err
  BY DEF Comms, ReqRecords
<1> HIDE DEF a
<1>4. /\ b \in Comms /\ Frame(a, b) /\ b.completion_queue = a.completion_queue
      /\ \A x \in Reqs :
           /\ b.req[x].refcnt = a.req[x].refcnt + (IF x = r THEN 1 ELSE 0)
           /\ b.req[x].err = a.req[x].err
  BY <1>1, GetIs
<1> HIDE DEF b
<1>5. /\ d \in Comms /\ d.req = b.req
      /\ d.completion_queue = Append(b.completion_queue, r)
  <2>1. Append(b.completion_queue, r) \in Seq(Reqs)
    BY <1>4 DEF Comms
  <2>2. d \in Comms
    BY <1>4, <2>1, UpdatesAreTyped
  <2> QED
    BY <1>4, <2>2 DEF Comms
<1>6. Frame(b, d)
  BY <1>4 DEF Comms, Frame
<1> HIDE DEF d
<1> DEFINE p == req_put(d, r)
<1>7. /\ p \in Comms /\ Frame(d, p) /\ p.completion_queue = d.completion_queue
      /\ \A x \in Reqs :
           /\ p.req[x].refcnt = d.req[x].refcnt - (IF x = r THEN 1 ELSE 0)
           /\ p.req[x].err = d.req[x].err
  BY <1>5, PutIs
<1>8. Complete(c, r, e) = p
  BY DEF Complete, a, b, d
<1> HIDE DEF p
<1>9. Frame(c, p)
  BY <1>2, <1>4, <1>6, <1>7 DEF Frame
<1>10. ASSUME NEW x \in Reqs
       PROVE  p.req[x].refcnt = c.req[x].refcnt
  <2>1. c.req[x].refcnt \in Int
    BY DEF Comms, ReqRecords
  <2>2. /\ a.req[x].refcnt = c.req[x].refcnt
        /\ b.req[x].refcnt = a.req[x].refcnt + (IF x = r THEN 1 ELSE 0)
        /\ d.req[x].refcnt = b.req[x].refcnt
        /\ p.req[x].refcnt = d.req[x].refcnt - (IF x = r THEN 1 ELSE 0)
    BY <1>3, <1>4, <1>5, <1>7
  <2> QED
    BY <2>1, <2>2
<1>11. ASSUME NEW x \in Reqs
       PROVE  p.req[x].err = IF x = r THEN e ELSE c.req[x].err
  BY <1>3, <1>4, <1>5, <1>7
<1>12. p.completion_queue = Append(c.completion_queue, r)
  BY <1>2, <1>4, <1>5, <1>7
<1> QED
  BY <1>7, <1>8, <1>9, <1>10, <1>11, <1>12 DEF CompletedAs

----------------------------------------------------------------------------
(* What a step of the comm thread conserves: the references of every       *)
(* request, the completion queue as a prefix, and the order.               *)
Conserves(b, c) ==
    /\ c \in Comms
    /\ \A r \in Reqs : c.req[r].refcnt = b.req[r].refcnt
    /\ Len(c.completion_queue) >= Len(b.completion_queue)
    /\ \A m \in Seq(Reqs), n \in Nat : Ordered(b, m, n) => Ordered(c, m, n)

(* What conserves in two steps conserves in one.                           *)
LEMMA ConservesTransitive ==
    ASSUME NEW a \in Comms, NEW b, NEW c, Conserves(a, b), Conserves(b, c)
    PROVE  Conserves(a, c)
<1>1. /\ Len(a.completion_queue) \in Nat /\ Len(b.completion_queue) \in Nat
      /\ Len(c.completion_queue) \in Nat
  BY DEF Conserves, Comms
<1> QED
  BY <1>1 DEF Conserves

(* A step that leaves the queues and the references alone.                 *)
LEMMA SameConserves ==
    ASSUME NEW b \in Comms, NEW c \in Comms,
           c.completion_queue = b.completion_queue, c.current_req = b.current_req,
           c.requests_queue = b.requests_queue,
           \A r \in Reqs : c.req[r].refcnt = b.req[r].refcnt
    PROVE  Conserves(b, c)
<1>1. Len(b.completion_queue) \in Nat
  BY DEF Comms
<1>2. InHand(c) = InHand(b)
  BY DEF InHand
<1>3. ASSUME NEW m \in Seq(Reqs), NEW n \in Nat, Ordered(b, m, n)
      PROVE  Ordered(c, m, n)
  BY <1>2, <1>3 DEF Ordered
<1> QED
  BY <1>1, <1>3 DEF Conserves

(* The current request ends.                                               *)
LEMMA EndConserves ==
    ASSUME NEW b \in Comms, NEW c \in Comms, b.current_req # None,
           c.completion_queue = Append(b.completion_queue, b.current_req),
           c.current_req = None, c.requests_queue = b.requests_queue,
           \A r \in Reqs : c.req[r].refcnt = b.req[r].refcnt
    PROVE  Conserves(b, c)
<1> DEFINE q == b.completion_queue
           s == b.requests_queue
<1>1. q \in Seq(Reqs) /\ b.current_req \in Reqs /\ s \in Seq(Reqs)
  BY DEF Comms
<1>2. /\ Len(q) \in Nat /\ Len(c.completion_queue) = Len(q) + 1
      /\ \A i \in 1..Len(q) : c.completion_queue[i] = q[i]
      /\ c.completion_queue[Len(q) + 1] = b.current_req
      /\ Len(s) \in Nat
  BY <1>1
<1>3. ASSUME NEW m \in Seq(Reqs), NEW n \in Nat, Ordered(b, m, n)
      PROVE  Ordered(c, m, n)
  <2>1. /\ n + Len(q) + 1 + Len(s) = Len(m)
        /\ \A i \in 1..Len(q) : q[i] = m[n + i]
        /\ b.current_req = m[n + Len(q) + 1]
        /\ \A i \in 1..Len(s) : s[i] = m[n + Len(q) + 1 + i]
    BY <1>3 DEF Ordered, InHand
  <2>2. InHand(c) = 0
    BY DEF InHand
  <2> HIDE DEF q
  <2>3. \A i \in 1..(Len(q) + 1) : c.completion_queue[i] = m[n + i]
    <3> SUFFICES ASSUME NEW i \in 1..(Len(q) + 1)
                 PROVE  c.completion_queue[i] = m[n + i]
      OBVIOUS
    <3>1. CASE i \in 1..Len(q)
      BY <3>1, <2>1, <1>2
    <3>2. CASE i = Len(q) + 1
      <4>1. n + i = n + Len(q) + 1
        BY <3>2, <1>2
      <4> QED
        BY <4>1, <3>2, <2>1, <1>2
    <3> QED
      BY <3>1, <3>2, <1>2
  <2>4. n + (Len(q) + 1) + 0 + Len(s) = Len(m)
    <3>1. Len(q) \in Nat /\ Len(s) \in Nat
      BY <1>2
    <3> HIDE DEF s
    <3> QED
      BY <3>1, <2>1
  <2>5. \A i \in 1..Len(s) : s[i] = m[(n + (Len(q) + 1)) + 0 + i]
    <3> SUFFICES ASSUME NEW i \in 1..Len(s)
                 PROVE  s[i] = m[(n + (Len(q) + 1)) + 0 + i]
      OBVIOUS
    <3>1. (n + (Len(q) + 1)) + 0 + i = n + Len(q) + 1 + i
      BY <1>2
    <3> QED
      BY <3>1, <2>1
  <2> QED
    BY <2>2, <2>3, <2>4, <2>5, <1>2 DEF Ordered
<1> QED
  BY <1>2, <1>3 DEF Conserves

(* The next request becomes the current one.                               *)
LEMMA DequeueConserves ==
    ASSUME NEW b \in Comms, NEW c \in Comms, b.current_req = None,
           b.requests_queue # <<>>, c.current_req = Head(b.requests_queue),
           c.requests_queue = Tail(b.requests_queue),
           c.completion_queue = b.completion_queue,
           \A r \in Reqs : c.req[r].refcnt = b.req[r].refcnt
    PROVE  Conserves(b, c)
<1> DEFINE q == b.completion_queue
           s == b.requests_queue
           p == c.requests_queue
<1>1. q \in Seq(Reqs) /\ s \in Seq(Reqs) /\ Len(q) \in Nat
  BY DEF Comms
<1>2. /\ Len(s) \in Nat /\ Len(s) >= 1 /\ Len(p) = Len(s) - 1
      /\ Head(s) = s[1] /\ s[1] \in Reqs
      /\ \A i \in 1..Len(p) : p[i] = s[i + 1]
  BY <1>1
<1>3. c.current_req # None
  BY <1>2, NamesAssumption
<1>4. InHand(c) = 1 /\ InHand(b) = 0
  BY <1>3 DEF InHand
<1>5. ASSUME NEW m \in Seq(Reqs), NEW n \in Nat, Ordered(b, m, n)
      PROVE  Ordered(c, m, n)
  <2>1. /\ (n + Len(q)) + 0 + Len(s) = Len(m)
        /\ \A i \in 1..Len(q) : q[i] = m[n + i]
        /\ \A i \in 1..Len(s) : s[i] = m[(n + Len(q)) + 0 + i]
    BY <1>4, <1>5 DEF Ordered
  <2>2. c.completion_queue = q
    OBVIOUS
  <2>3. c.current_req = s[1]
    BY <1>2
  <2> HIDE DEF q, s, p
  <2>4. s[1] = m[(n + Len(q)) + 1]
    <3>1. 1 \in 1..Len(s) /\ (n + Len(q)) + 0 + 1 = (n + Len(q)) + 1
      BY <1>1, <1>2
    <3> QED
      BY <3>1, <2>1
  <2>7. Len(q) \in Nat /\ Len(s) \in Nat /\ Len(s) >= 1 /\ Len(p) = Len(s) - 1
    BY <1>1, <1>2
  <2>8. (n + Len(q)) + 0 + Len(s) = Len(m)
    BY <2>1
  <2>5. (n + Len(q)) + 1 + Len(p) = Len(m)
    <3> DEFINE a == n + Len(q)
    <3>1. a \in Int /\ a + 0 + Len(s) = Len(m)
      BY <2>7, <2>8
    <3> HIDE DEF a
    <3>2. a + 1 + Len(p) = a + 0 + Len(s)
      BY <2>7, <3>1
    <3> QED
      BY <3>1, <3>2 DEF a
  <2>6. \A i \in 1..Len(p) : p[i] = m[(n + Len(q)) + 1 + i]
    <3> SUFFICES ASSUME NEW i \in 1..Len(p)
                 PROVE  p[i] = m[(n + Len(q)) + 1 + i]
      OBVIOUS
    <3>1. i + 1 \in 1..Len(s) /\ (n + Len(q)) + 0 + (i + 1) = (n + Len(q)) + 1 + i
      BY <2>7
    <3> QED
      BY <3>1, <2>1, <1>2
  <2> QED
    BY <1>4, <2>1, <2>2, <2>3, <2>4, <2>5, <2>6 DEF Ordered, p
<1> QED
  BY <1>1, <1>5 DEF Conserves

(* The whole queue goes to the completion thread.                          *)
LEMMA FlushConserves ==
    ASSUME NEW b \in Comms, NEW c \in Comms, b.current_req = None,
           c.current_req = None, c.requests_queue = <<>>,
           c.completion_queue = b.completion_queue \o b.requests_queue,
           \A r \in Reqs : c.req[r].refcnt = b.req[r].refcnt
    PROVE  Conserves(b, c)
<1> DEFINE q == b.completion_queue
           s == b.requests_queue
           p == c.completion_queue
<1>1. q \in Seq(Reqs) /\ s \in Seq(Reqs) /\ Len(q) \in Nat /\ Len(s) \in Nat
  BY DEF Comms
<1>2. /\ Len(p) = Len(q) + Len(s)
      /\ \A i \in 1..Len(p) : p[i] = IF i <= Len(q) THEN q[i] ELSE s[i - Len(q)]
  <2>1. p = q \o s
    OBVIOUS
  <2> HIDE DEF p, q, s
  <2>2. /\ Len(q \o s) = Len(q) + Len(s)
        /\ \A i \in 1..(Len(q) + Len(s)) :
               (q \o s)[i] = IF i <= Len(q) THEN q[i] ELSE s[i - Len(q)]
    BY <1>1, ConcatProperties
  <2> QED
    BY <2>1, <2>2
<1>3. InHand(c) = 0 /\ InHand(b) = 0 /\ Len(c.requests_queue) = 0
  BY DEF InHand
<1>4. ASSUME NEW m \in Seq(Reqs), NEW n \in Nat, Ordered(b, m, n)
      PROVE  Ordered(c, m, n)
  <2>1. /\ (n + Len(q)) + 0 + Len(s) = Len(m)
        /\ \A i \in 1..Len(q) : q[i] = m[n + i]
        /\ \A i \in 1..Len(s) : s[i] = m[(n + Len(q)) + 0 + i]
    BY <1>3, <1>4 DEF Ordered
  <2> HIDE DEF q, s, p
  <2>2. (n + Len(p)) + 0 + 0 = Len(m)
    BY <2>1, <1>1, <1>2
  <2>3. \A i \in 1..Len(p) : p[i] = m[n + i]
    <3> SUFFICES ASSUME NEW i \in 1..Len(p)
                 PROVE  p[i] = m[n + i]
      OBVIOUS
    <3>1. CASE i <= Len(q)
      BY <3>1, <2>1, <1>1, <1>2
    <3>2. CASE ~(i <= Len(q))
      <4>1. i - Len(q) \in 1..Len(s) /\ (n + Len(q)) + 0 + (i - Len(q)) = n + i
        BY <3>2, <1>1, <1>2
      <4> QED
        BY <4>1, <3>2, <2>1, <1>2
    <3> QED
      BY <3>1, <3>2
  <2> QED
    <3>1. 1..0 = {} /\ (n + Len(p)) + 0 + 0 = Len(m)
      BY <2>2
    <3> QED
      BY <1>3, <2>3, <3>1 DEF Ordered, p
<1>5. Len(p) >= Len(q)
  <2> HIDE DEF p, q, s
  <2> QED
    BY <1>1, <1>2
<1> QED
  BY <1>4, <1>5 DEF Conserves

----------------------------------------------------------------------------
(* The handlers of the comm thread.                                        *)

(* What each leaves: the link as it was but for the order's progress, and  *)
(* a wait that is supervised unless an assertion failed.                   *)
Sound(b, c) == Conserves(b, c) /\ Heard(c) /\ (c.ok => Sup(c))

(* A link that is idle takes the next request under a timer, or has none   *)
(* to take.                                                                *)
LEMMA ProcessNextRequestSound ==
    ASSUME NEW c \in Comms, Sup(c), c.state = "IDLE"
    PROVE  /\ Sound(c, process_next_request(c))
           /\ process_next_request(c).state \in {"IDLE", "FAILED"} =>
                  process_next_request(c).requests_queue = <<>>
<1>1. c.current_req = None
  BY DEF Sup
<1>2. CASE c.requests_queue = <<>>
  <2>1. process_next_request(c) = c
    BY <1>1, <1>2 DEF process_next_request
  <2>2. Conserves(c, c)
    BY SameConserves
  <2>3. Heard(c)
    BY DEF Heard, Listens
  <2> QED
    BY <1>2, <2>1, <2>2, <2>3 DEF Sound
<1>3. CASE c.requests_queue # <<>>
  <2> DEFINE r == Head(c.requests_queue)
             d == [c EXCEPT !.current_req = r, !.requests_queue = Tail(@)]
             w == Write(d, "cmd", r)
             e == change_state(w, "AWAITING_ECHO", "on")
  <2>1. r \in Reqs /\ Tail(c.requests_queue) \in Seq(Reqs)
    BY <1>3, HeadTailProperties DEF Comms
  <2>2. process_next_request(c) = e
    BY <1>1, <1>3 DEF process_next_request
  <2> HIDE DEF r
  <2>3. /\ d \in Comms /\ d.current_req = r
        /\ d.requests_queue = Tail(c.requests_queue)
        /\ d.completion_queue = c.completion_queue /\ d.req = c.req
    BY <2>1 DEF Comms
  <2> HIDE DEF d
  <2>4. /\ w \in Comms /\ w.current_req = d.current_req
        /\ w.requests_queue = d.requests_queue
        /\ w.completion_queue = d.completion_queue /\ w.req = d.req
    <3>1. Written(d, "cmd", r, w)
      BY <2>1, <2>3, WriteIs DEF Commands
    <3> QED
      BY <3>1 DEF Written
  <2> HIDE DEF w
  <2>5. /\ e \in Comms /\ e.current_req = w.current_req
        /\ e.requests_queue = w.requests_queue
        /\ e.completion_queue = w.completion_queue /\ e.req = w.req
        /\ e.state = "AWAITING_ECHO" /\ e.timer
    <3>1. ChangedTo(w, "AWAITING_ECHO", "on", e)
      BY <2>4, ChangeStateIs DEF CommStates, Waiting
    <3> QED
      BY <3>1 DEF ChangedTo
  <2> HIDE DEF e
  <2>6. Conserves(c, e)
    BY <1>1, <1>3, <2>3, <2>4, <2>5, DequeueConserves DEF r
  <2>7. e.current_req # None
    BY <2>1, <2>3, <2>4, <2>5, NamesAssumption
  <2>8. Sup(e) /\ Heard(e)
    BY <2>5, <2>7 DEF Sup, Heard, Listens, Waiting
  <2> QED
    BY <2>2, <2>5, <2>6, <2>8 DEF Sound
<1> QED
  BY <1>2, <1>3

(* vgsm_flush_requests moves the queue and changes nobody's references.    *)
LEMMA FlushRequestsIs ==
    ASSUME NEW c \in Comms
    PROVE  /\ flush_requests(c) \in Comms
           /\ flush_requests(c).requests_queue = <<>>
           /\ flush_requests(c).completion_queue = c.completion_queue \o c.requests_queue
           /\ \A x \in Reqs :
                /\ flush_requests(c).req[x].refcnt = c.req[x].refcnt
                /\ flush_requests(c).req[x].err \in {"FAILED", c.req[x].err}
           /\ flush_requests(c).state = c.state
           /\ flush_requests(c).timer = c.timer
           /\ flush_requests(c).ok = c.ok
           /\ flush_requests(c).current_req = c.current_req
           /\ flush_requests(c).current_urc = c.current_urc
           /\ flush_requests(c).rx = c.rx
           /\ flush_requests(c).tx = c.tx
<1> DEFINE Queued(r) == \E i \in 1..Len(c.requests_queue) : c.requests_queue[i] = r
           F(r) == [c.req[r] EXCEPT !.err = "FAILED", !.ready = TRUE]
           q == [r \in Reqs |-> IF Queued(r) THEN F(r) ELSE c.req[r]]
           p == c.completion_queue \o c.requests_queue
           d == [c EXCEPT !.req = q, !.completion_queue = p, !.requests_queue = <<>>]
<1>1. flush_requests(c) = d
  BY DEF flush_requests
<1>2. ASSUME NEW x \in Reqs
      PROVE  /\ F(x) \in ReqRecords /\ F(x).refcnt = c.req[x].refcnt
             /\ F(x).err = "FAILED" /\ c.req[x] \in ReqRecords
  <2>1. c.req[x] \in ReqRecords
    BY DEF Comms
  <2> QED
    BY <2>1 DEF ReqRecords
<1> HIDE DEF F, Queued
<1>3. /\ q \in [Reqs -> ReqRecords]
      /\ \A x \in Reqs : /\ q[x].refcnt = c.req[x].refcnt
                          /\ q[x].err \in {"FAILED", c.req[x].err}
  BY <1>2
<1>4. p \in Seq(Reqs) /\ <<>> \in Seq(Reqs)
  BY ConcatProperties DEF Comms
<1> HIDE DEF q, p
<1>5. /\ d \in Comms /\ d.req = q /\ d.completion_queue = p /\ d.requests_queue = <<>>
      /\ d.state = c.state /\ d.timer = c.timer /\ d.ok = c.ok
      /\ d.current_req = c.current_req /\ d.current_urc = c.current_urc
      /\ d.rx = c.rx /\ d.tx = c.tx
  BY <1>3, <1>4 DEF Comms
<1> HIDE DEF d
<1> QED
  BY <1>1, <1>3, <1>5 DEF p

(* The top of the loop: whoever polls in IDLE or FAILED has an empty queue. *)
LEMMA TopSound ==
    ASSUME NEW c \in Comms, Heard(c), c.ok => Sup(c)
    PROVE  /\ Sound(c, Top(c))
           /\ Top(c).ok /\ Top(c).state \in {"IDLE", "FAILED"} =>
                  Top(c).requests_queue = <<>>
<1>0. Conserves(c, c)
  BY SameConserves
<1>1. CASE ~c.ok \/ c.state \notin {"IDLE", "FAILED"}
  <2>1. Top(c) = c
    BY <1>1 DEF Top
  <2> QED
    BY <1>0, <1>1, <2>1 DEF Sound
<1>2. CASE c.ok /\ c.state = "IDLE"
  <2>1. Top(c) = process_next_request(c)
    BY <1>2 DEF Top
  <2> QED
    BY <1>2, <2>1, ProcessNextRequestSound
<1>3. CASE c.ok /\ c.state = "FAILED"
  <2> DEFINE d == flush_requests(c)
  <2>1. Top(c) = d
    BY <1>3 DEF Top
  <2>2. /\ d \in Comms /\ d.requests_queue = <<>> /\ d.state = c.state
        /\ d.completion_queue = c.completion_queue \o c.requests_queue
        /\ \A x \in Reqs : d.req[x].refcnt = c.req[x].refcnt
        /\ d.timer = c.timer /\ d.current_req = c.current_req
        /\ d.current_urc = c.current_urc /\ d.rx = c.rx
    BY FlushRequestsIs
  <2> HIDE DEF d
  <2>3. c.current_req = None
    BY <1>3 DEF Sup
  <2>4. Conserves(c, d)
    BY <2>2, <2>3, FlushConserves
  <2>5. Sup(d) /\ Heard(d)
    BY <1>3, <2>2 DEF Sup, Heard, Listens
  <2> QED
    BY <2>1, <2>2, <2>4, <2>5 DEF Sound
<1> QED
  BY <1>1, <1>2, <1>3

(* The current request ends, or a PDU or an escape follows the prompt.     *)
LEMMA MatchResponseSound ==
    ASSUME NEW c \in Comms, NEW t \in RxLines, Sup(c), c.state = "READING_RESPONSE"
    PROVE  Sound(c, match_response(c, t))
<1> DEFINE r == c.current_req
           m == match_response(c, t)
<1>1. r \in Reqs /\ r # None /\ r \in Commands
  BY DEF Sup, Waiting, Comms, Commands
<1>2. c.timer
  BY DEF Sup, Waiting
<1>3. CASE t.k = "prompt" /\ ~c.req[r].pdu
  <2>1. m = Write(c, "esc", r)
    BY <1>3 DEF match_response
  <2>2. /\ m \in Comms /\ m.current_req = r /\ m.state = c.state /\ m.timer = c.timer
        /\ m.requests_queue = c.requests_queue
        /\ m.completion_queue = c.completion_queue /\ m.req = c.req
    <3>1. Written(c, "esc", r, m)
      BY <1>1, <2>1, WriteIs
    <3> QED
      BY <3>1 DEF Written
  <2> HIDE DEF m
  <2>3. Conserves(c, m)
    BY <2>2, SameConserves
  <2>4. Sup(m) /\ Heard(m)
    BY <1>1, <1>2, <2>2 DEF Sup, Heard, Listens, Waiting
  <2> QED
    BY <2>3, <2>4 DEF Sound, m
<1>4. CASE t.k = "prompt" /\ c.req[r].pdu
  <2> DEFINE w == Write(c, "pdu", r)
  <2>1. m = change_state(w, "AWAITING_SMS_ECHO", "on")
    BY <1>4 DEF match_response
  <2>2. /\ w \in Comms /\ w.current_req = r
        /\ w.requests_queue = c.requests_queue
        /\ w.completion_queue = c.completion_queue /\ w.req = c.req
    <3>1. Written(c, "pdu", r, w)
      BY <1>1, WriteIs
    <3> QED
      BY <3>1 DEF Written
  <2> HIDE DEF w
  <2>3. /\ m \in Comms /\ m.current_req = w.current_req /\ m.timer
        /\ m.state = "AWAITING_SMS_ECHO"
        /\ m.requests_queue = w.requests_queue
        /\ m.completion_queue = w.completion_queue /\ m.req = w.req
    <3>1. ChangedTo(w, "AWAITING_SMS_ECHO", "on", m)
      BY <2>1, <2>2, ChangeStateIs DEF CommStates, Waiting
    <3> QED
      BY <3>1 DEF ChangedTo
  <2> HIDE DEF m
  <2>4. Conserves(c, m)
    BY <2>2, <2>3, SameConserves
  <2>5. Sup(m) /\ Heard(m)
    BY <1>1, <2>2, <2>3 DEF Sup, Heard, Listens, Waiting
  <2> QED
    BY <2>4, <2>5 DEF Sound, m
<1>5. CASE t.k = "final"
  <2> DEFINE s == change_state(c, "IDLE", "off")
             p == Complete(s, r, "answered")
  <2>1. m = [p EXCEPT !.current_req = None]
    BY <1>5 DEF match_response
  <2>2. /\ s \in Comms /\ s.state = "IDLE" /\ ~s.timer
        /\ s.requests_queue = c.requests_queue
        /\ s.completion_queue = c.completion_queue /\ s.req = c.req
    <3>1. ChangedTo(c, "IDLE", "off", s)
      BY ChangeStateIs DEF CommStates
    <3> QED
      BY <3>1 DEF ChangedTo
  <2> HIDE DEF s, r
  <2>3. /\ p \in Comms /\ Frame(s, p)
        /\ p.completion_queue = Append(s.completion_queue, r)
        /\ \A x \in Reqs : p.req[x].refcnt = s.req[x].refcnt
    <3>1. CompletedAs(s, r, "answered", p)
      BY <1>1, <2>2, CompleteIs
    <3> QED
      BY <3>1 DEF CompletedAs
  <2> HIDE DEF p
  <2>4. /\ m \in Comms /\ m.current_req = None /\ m.state = p.state
        /\ m.timer = p.timer /\ m.requests_queue = p.requests_queue
        /\ m.completion_queue = p.completion_queue /\ m.req = p.req
    BY <2>1, <2>3 DEF Comms
  <2> HIDE DEF m
  <2>5. Conserves(c, m)
    BY <1>1, <2>2, <2>3, <2>4, EndConserves DEF Frame, r
  <2>6. Sup(m) /\ Heard(m)
    BY <2>2, <2>3, <2>4 DEF Sup, Heard, Listens, Waiting, Frame
  <2> QED
    BY <2>5, <2>6 DEF Sound, m
<1>6. CASE t.k \notin {"prompt", "final"}
  <2>1. m = c
    BY <1>6 DEF match_response
  <2>2. Conserves(c, c)
    BY SameConserves
  <2>3. Heard(c)
    BY DEF Heard, Listens
  <2> QED
    BY <2>1, <2>2, <2>3 DEF Sound
<1> QED
  BY <1>3, <1>4, <1>5, <1>6

(* A URC, or something to drop, between commands or before an echo.        *)
LEMMA MatchUrcSound ==
    ASSUME NEW c \in Comms, NEW t \in RxLines, Sup(c),
           c.state \in {"IDLE", "AWAITING_ECHO"}, t.k = "prompt" => c.rx # <<>>
    PROVE  Sound(c, match_urc(c, t))
<1> DEFINE m == match_urc(c, t)
<1>0. Conserves(c, c) /\ Heard(c)
  BY SameConserves DEF Heard, Listens
<1>1. CASE t.k = "echo"
  <2>1. m = c
    BY <1>1 DEF match_urc
  <2> QED
    BY <1>0, <2>1 DEF Sound
<1>2. CASE t.k = "prompt"
  <2>1. m = c \/ m = [c EXCEPT !.rx = Tail(@)]
    BY <1>2 DEF match_urc
  <2>2. CASE m = c
    BY <1>0, <2>2 DEF Sound
  <2>3. CASE m = [c EXCEPT !.rx = Tail(@)]
    <3>1. Tail(c.rx) \in Seq(RxLines)
      BY <1>2, HeadTailProperties DEF Comms
    <3>2. m \in Comms
      BY <2>3, <3>1, UpdatesAreTyped
    <3>3. /\ m.current_req = c.current_req /\ m.state = c.state
          /\ m.timer = c.timer /\ m.current_urc = c.current_urc
          /\ m.requests_queue = c.requests_queue
          /\ m.completion_queue = c.completion_queue /\ m.req = c.req
      BY <2>3 DEF Comms
    <3> HIDE DEF m
    <3>4. Conserves(c, m)
      BY <3>2, <3>3, SameConserves
    <3>5. Sup(m) /\ Heard(m)
      BY <3>3 DEF Sup, Heard, Listens
    <3> QED
      BY <3>4, <3>5 DEF Sound, m
  <2> QED
    BY <2>1, <2>2, <2>3
<1>3. CASE t.k \notin {"echo", "prompt"} /\ c.current_urc
  <2>1. m = [c EXCEPT !.ok = FALSE]
    BY <1>3 DEF match_urc
  <2>2. /\ m \in Comms /\ ~m.ok /\ m.current_req = c.current_req
        /\ m.state = c.state /\ m.requests_queue = c.requests_queue
        /\ m.completion_queue = c.completion_queue /\ m.req = c.req
    BY <2>1 DEF Comms
  <2> HIDE DEF m
  <2>3. Conserves(c, m) /\ Heard(m)
    BY <2>2, SameConserves DEF Heard, Listens
  <2> QED
    BY <2>2, <2>3 DEF Sound, m
<1>4. CASE t.k = "urc" /\ t.of = "sms" /\ ~c.current_urc
  <2> DEFINE d == [c EXCEPT !.current_urc = TRUE]
             st == IF c.state = "AWAITING_ECHO" THEN "AWAITING_ECHO_READING_URC"
                   ELSE "READING_URC"
  <2>1. m = change_state(d, st, "on")
    BY <1>4 DEF match_urc
  <2>2. /\ d \in Comms /\ d.current_urc /\ d.current_req = c.current_req
        /\ d.requests_queue = c.requests_queue
        /\ d.completion_queue = c.completion_queue /\ d.req = c.req
    BY DEF Comms
  <2>6. st \in CommStates
    BY DEF CommStates, Waiting
  <2> HIDE DEF d, st
  <2>3. /\ m \in Comms /\ m.state = st /\ m.timer
        /\ m.current_urc = d.current_urc /\ m.current_req = d.current_req
        /\ m.requests_queue = d.requests_queue
        /\ m.completion_queue = d.completion_queue /\ m.req = d.req
    <3>1. ChangedTo(d, st, "on", m)
      BY <2>1, <2>2, <2>6, ChangeStateIs
    <3> QED
      BY <3>1 DEF ChangedTo
  <2> HIDE DEF m
  <2>4. Conserves(c, m)
    BY <2>2, <2>3, SameConserves
  <2>5. Sup(m) /\ Heard(m)
    BY <2>2, <2>3 DEF Sup, Heard, Listens, Waiting, st
  <2> QED
    BY <2>4, <2>5 DEF Sound, m
<1>5. CASE t.k = "urc" /\ t.of # "sms" /\ ~c.current_urc
  <2> DEFINE q == Append(c.urc_queue, t.of)
  <2>1. m = [c EXCEPT !.urc_queue = q, !.timer = @ \/ c.state = "AWAITING_ECHO"]
    BY <1>5 DEF match_urc
  <2>2. q \in Seq(Urcs)
    <3>1. t.of \in Urcs
      BY <1>5 DEF RxLines
    <3> QED
      BY <3>1 DEF Comms
  <2> HIDE DEF q
  <2>3. /\ m \in Comms /\ m.current_req = c.current_req /\ m.state = c.state
        /\ m.timer <=> (c.timer \/ c.state = "AWAITING_ECHO")
        /\ m.current_urc = c.current_urc /\ m.requests_queue = c.requests_queue
        /\ m.completion_queue = c.completion_queue /\ m.req = c.req
    BY <2>1, <2>2 DEF Comms
  <2> HIDE DEF m
  <2>4. Conserves(c, m)
    BY <2>3, SameConserves
  <2>5. Sup(m) /\ Heard(m)
    BY <2>3 DEF Sup, Heard, Listens, Waiting
  <2> QED
    BY <2>4, <2>5 DEF Sound, m
<1>6. CASE t.k \notin {"echo", "prompt", "urc"} /\ ~c.current_urc
  <2>1. m = c
    BY <1>6 DEF match_urc
  <2> QED
    BY <1>0, <2>1 DEF Sound
<1> QED
  BY <1>1, <1>2, <1>3, <1>4, <1>5, <1>6

(* The last line of a URC.                                                 *)
LEMMA MatchUrcContSound ==
    ASSUME NEW c \in Comms, NEW t \in RxLines, Sup(c),
           c.state \in {"READING_URC", "AWAITING_ECHO_READING_URC"}
    PROVE  Sound(c, match_urc_cont(c, t))
<1> DEFINE d == [c EXCEPT !.urc_queue = Append(@, "sms"), !.current_urc = FALSE]
           m == match_urc_cont(c, t)
<1>1. Append(c.urc_queue, "sms") \in Seq(Urcs)
  BY DEF Comms, Urcs
<1>2. /\ d \in Comms /\ d.current_req = c.current_req
      /\ d.requests_queue = c.requests_queue
      /\ d.completion_queue = c.completion_queue /\ d.req = c.req
  BY <1>1 DEF Comms
<1>3. m = IF c.state = "READING_URC" THEN change_state(d, "IDLE", "off")
          ELSE change_state(d, "AWAITING_ECHO", "on")
  BY DEF match_urc_cont
<1> HIDE DEF d
<1>4. /\ m \in Comms /\ m.current_req = d.current_req
      /\ m.state = IF c.state = "READING_URC" THEN "IDLE" ELSE "AWAITING_ECHO"
      /\ m.timer <=> c.state # "READING_URC"
      /\ m.requests_queue = d.requests_queue
      /\ m.completion_queue = d.completion_queue /\ m.req = d.req
  <2>1. CASE c.state = "READING_URC"
    <3>1. ChangedTo(d, "IDLE", "off", m)
      BY <1>2, <1>3, <2>1, ChangeStateIs DEF CommStates
    <3> QED
      BY <2>1, <3>1 DEF ChangedTo
  <2>2. CASE c.state # "READING_URC"
    <3>1. ChangedTo(d, "AWAITING_ECHO", "on", m)
      BY <1>2, <1>3, <2>2, ChangeStateIs DEF CommStates, Waiting
    <3> QED
      BY <2>2, <3>1 DEF ChangedTo
  <2> QED
    BY <2>1, <2>2
<1> HIDE DEF m
<1>5. Conserves(c, m)
  BY <1>2, <1>4, SameConserves
<1>6. Sup(m) /\ Heard(m)
  BY <1>2, <1>4 DEF Sup, Heard, Listens, Waiting
<1> QED
  BY <1>5, <1>6 DEF Sound, m

(* What a turn of vgsm_comm_receive does in each state.                    *)
LEMMA ReceiveIs ==
    ASSUME NEW b, Takes(b), NEW c, c = [b EXCEPT !.rx = Tail(@)],
           NEW t, t = Head(b.rx), NEW m, m = receive(b)
    PROVE  /\ c.state = "IDLE" => m = match_urc(c, t)
           /\ c.state = "AWAITING_ECHO" =>
                  m = IF t = Line("echo", c.current_req)
                      THEN change_state(c, "READING_RESPONSE", "on") ELSE match_urc(c, t)
           /\ c.state \in {"READING_URC", "AWAITING_ECHO_READING_URC"} =>
                  m = match_urc_cont(c, t)
           /\ c.state = "AWAITING_SMS_ECHO" =>
                  m = change_state(Write(c, "eof", c.current_req),
                                   "AWAITING_SMS_ECHO_1A", "kept")
           /\ c.state = "AWAITING_SMS_ECHO_1A" =>
                  m = change_state(c, "READING_RESPONSE", "on")
           /\ c.state = "READING_RESPONSE" => m = match_response(c, t)
<1> DEFINE L(e, x) == e = Line("echo", x)
<1>1. m = CASE ~Takes(b) -> b
        [] Takes(b) /\ c.state = "IDLE" -> match_urc(c, t)
        [] Takes(b) /\ c.state = "AWAITING_ECHO" ->
             IF L(t, c.current_req)
             THEN change_state(c, "READING_RESPONSE", "on") ELSE match_urc(c, t)
        [] Takes(b) /\ c.state \in {"READING_URC", "AWAITING_ECHO_READING_URC"} ->
             match_urc_cont(c, t)
        [] Takes(b) /\ c.state = "AWAITING_SMS_ECHO" ->
             change_state(Write(c, "eof", c.current_req),
                          "AWAITING_SMS_ECHO_1A", "kept")
        [] Takes(b) /\ c.state = "AWAITING_SMS_ECHO_1A" ->
             change_state(c, "READING_RESPONSE", "on")
        [] Takes(b) /\ c.state = "READING_RESPONSE" -> match_response(c, t)
  BY DEF receive
<1> HIDE DEF L
<1> QED
  BY <1>1 DEF L

(* A turn of vgsm_comm_receive.                                            *)
LEMMA ReceiveSound ==
    ASSUME NEW b \in Comms, Sup(b), Heard(b), Takes(b)
    PROVE  Sound(b, receive(b))
<1> DEFINE t == Head(b.rx)
           c == [b EXCEPT !.rx = Tail(@)]
           r == c.current_req
           m == receive(b)
<1>1. /\ b.rx # <<>> /\ t \in RxLines /\ Tail(b.rx) \in Seq(RxLines)
      /\ b.rx \in Seq(RxLines) /\ Len(Tail(b.rx)) = Len(b.rx) - 1
  BY HeadTailProperties DEF Takes, Comms
<1>2. /\ c \in Comms /\ c.rx = Tail(b.rx) /\ c.ok = b.ok
      /\ c.state = b.state /\ c.timer = b.timer
      /\ c.current_urc = b.current_urc /\ c.current_req = b.current_req
      /\ c.requests_queue = b.requests_queue
      /\ c.completion_queue = b.completion_queue /\ c.req = b.req
  BY <1>1 DEF Comms
<1>3. /\ t.k = "prompt" /\ b.state \in {"IDLE", "AWAITING_ECHO"} => c.rx # <<>>
      /\ Listens(b)
  <2>1. Listens(b)
    BY <1>1 DEF Heard
  <2>2. ASSUME t.k = "prompt", b.state \in {"IDLE", "AWAITING_ECHO"}
        PROVE  c.rx # <<>>
    <3>1. Len(b.rx) > 1 /\ Len(b.rx) \in Nat
      BY <2>2, <1>1 DEF Takes
    <3>2. Len(c.rx) = Len(b.rx) - 1
      BY <1>1, <1>2
    <3> HIDE DEF c
    <3> QED
      BY <3>1, <3>2
  <2> QED
    BY <2>1, <2>2
<1>4. /\ c.state = "IDLE" => m = match_urc(c, t)
      /\ c.state = "AWAITING_ECHO" =>
             m = IF t = Line("echo", c.current_req)
                 THEN change_state(c, "READING_RESPONSE", "on") ELSE match_urc(c, t)
      /\ c.state \in {"READING_URC", "AWAITING_ECHO_READING_URC"} =>
             m = match_urc_cont(c, t)
      /\ c.state = "AWAITING_SMS_ECHO" =>
             m = change_state(Write(c, "eof", c.current_req),
                              "AWAITING_SMS_ECHO_1A", "kept")
      /\ c.state = "AWAITING_SMS_ECHO_1A" =>
             m = change_state(c, "READING_RESPONSE", "on")
      /\ c.state = "READING_RESPONSE" => m = match_response(c, t)
  BY ReceiveIs
<1> HIDE DEF m, c, t
<1>5. Conserves(b, c)
  BY <1>2, SameConserves
<1>6. Sup(c)
  BY <1>2 DEF Sup
<1>7. SUFFICES Sound(c, m)
  <2>1. Conserves(b, m)
    BY <1>5, <1>7, ConservesTransitive DEF Sound
  <2> QED
    BY <2>1, <1>7 DEF Sound, m
<1>8. CASE c.state = "IDLE"
  <2>1. m = match_urc(c, t)
    BY <1>4, <1>8
  <2> QED
    BY <1>1, <1>2, <1>3, <1>6, <1>8, <2>1, MatchUrcSound
<1>9. ASSUME m = change_state(c, "READING_RESPONSE", "on"), r # None
      PROVE  Sound(c, m)
  <2>1. ChangedTo(c, "READING_RESPONSE", "on", m)
    BY <1>2, <1>9, ChangeStateIs DEF CommStates, Waiting
  <2>2. Conserves(c, m)
    BY <1>2, <2>1, SameConserves DEF ChangedTo
  <2>3. Sup(m) /\ Heard(m)
    BY <1>9, <2>1 DEF Sup, Heard, Listens, Waiting, ChangedTo
  <2> QED
    BY <2>2, <2>3 DEF Sound
<1>10. CASE c.state = "AWAITING_ECHO"
  <2>1. r # None
    BY <1>6, <1>10 DEF Sup, Waiting
  <2>2. CASE t = Line("echo", c.current_req)
    <3>1. m = change_state(c, "READING_RESPONSE", "on")
      BY <1>4, <1>10, <2>2
    <3> QED
      BY <1>9, <2>1, <3>1
  <2>3. CASE t # Line("echo", c.current_req)
    <3>1. m = match_urc(c, t)
      BY <1>4, <1>10, <2>3
    <3> QED
      BY <1>1, <1>2, <1>3, <1>6, <1>10, <3>1, MatchUrcSound
  <2> QED
    BY <2>2, <2>3
<1>11. CASE c.state \in {"READING_URC", "AWAITING_ECHO_READING_URC"}
  <2>1. m = match_urc_cont(c, t)
    BY <1>4, <1>11
  <2> QED
    BY <1>1, <1>2, <1>6, <1>11, <2>1, MatchUrcContSound
<1>12. CASE c.state = "AWAITING_SMS_ECHO"
  <2> DEFINE w == Write(c, "eof", r)
  <2>1. m = change_state(w, "AWAITING_SMS_ECHO_1A", "kept")
    BY <1>4, <1>12
  <2>2. r # None /\ r \in Commands /\ c.timer
    BY <1>2, <1>6, <1>12 DEF Sup, Waiting, Comms, Commands
  <2>3. Written(c, "eof", r, w)
    BY <1>2, <2>2, WriteIs
  <2> HIDE DEF w
  <2>4. ChangedTo(w, "AWAITING_SMS_ECHO_1A", "kept", m)
    BY <2>1, <2>3, ChangeStateIs DEF CommStates, Waiting, Written
  <2>5. Conserves(c, m)
    BY <1>2, <2>3, <2>4, SameConserves DEF Written, ChangedTo
  <2>6. m.timer /\ m.current_req = r /\ m.state = "AWAITING_SMS_ECHO_1A"
    BY <2>2, <2>3, <2>4 DEF Written, ChangedTo
  <2>7. Sup(m) /\ Heard(m)
    BY <2>2, <2>6 DEF Sup, Heard, Listens, Waiting
  <2> QED
    BY <2>5, <2>7 DEF Sound
<1>13. CASE c.state = "AWAITING_SMS_ECHO_1A"
  <2>1. m = change_state(c, "READING_RESPONSE", "on")
    BY <1>4, <1>13
  <2>2. r # None
    BY <1>6, <1>13 DEF Sup, Waiting
  <2> QED
    BY <1>9, <2>1, <2>2
<1>14. CASE c.state = "READING_RESPONSE"
  <2>1. m = match_response(c, t)
    BY <1>4, <1>14
  <2> QED
    BY <1>1, <1>2, <1>6, <1>14, <2>1, MatchResponseSound
<1>15. c.state \in Waiting \cup {"IDLE"} /\ c.state # "RECOVERING"
  BY <1>2, <1>3 DEF Listens, Comms, CommStates
<1> QED
  BY <1>8, <1>10, <1>11, <1>12, <1>13, <1>14, <1>15 DEF Waiting

(* vgsm_comm_timer_fired.                                                  *)
LEMMA TimerFiredSound ==
    ASSUME NEW c \in Comms, NEW kept \in Seq(TxLines), Sup(c), Heard(c), c.timer
    PROVE  Sound(c, timer_fired(c, kept))
<1> DEFINE r == c.current_req
           d == [c EXCEPT !.timer = FALSE]
           again == [d EXCEPT !.req[r].retransmit_cnt = @ - 1]
           lost == [d EXCEPT !.current_urc = FALSE, !.rx = <<>>, !.tx = kept]
           m == timer_fired(c, kept)
<1>1. c.state \in Waiting
  BY DEF Sup
<1>2. /\ d \in Comms /\ d.state = c.state /\ d.current_req = r /\ d.rx = c.rx
      /\ d.requests_queue = c.requests_queue
      /\ d.completion_queue = c.completion_queue /\ d.req = c.req
  BY DEF Comms
<1>3. CASE c.state = "RECOVERING" /\ r = None
  <2>1. m = change_state(d, "IDLE", "off")
    BY <1>2, <1>3 DEF timer_fired
  <2> HIDE DEF d, m
  <2>2. ChangedTo(d, "IDLE", "off", m)
    BY <1>2, <2>1, ChangeStateIs DEF CommStates
  <2>3. Conserves(c, m)
    BY <1>2, <2>2, SameConserves DEF ChangedTo
  <2>4. ~m.timer /\ m.state = "IDLE" /\ m.current_req = None
    BY <1>2, <1>3, <2>2 DEF ChangedTo
  <2>5. Sup(m) /\ Heard(m)
    BY <2>4 DEF Sup, Heard, Listens, Waiting
  <2> QED
    BY <2>3, <2>5 DEF Sound, m
<1>4. CASE c.state = "RECOVERING" /\ r # None
  <2> DEFINE f == change_state(again, "FAILED", "off")
             p == Complete(f, r, "FAILED")
             w == Write(again, "cmd", r)
  <2>0. r \in Reqs /\ r \in Commands
    BY <1>4 DEF Comms, Commands
  <2>1. m = IF again.req[r].retransmit_cnt = 0 THEN [p EXCEPT !.current_req = None]
            ELSE change_state(w, "AWAITING_ECHO", "on")
    BY <1>2, <1>4 DEF timer_fired
  <2> HIDE DEF d, m
  <2>2. /\ again \in Comms /\ again.state = c.state /\ again.current_req = r
        /\ again.rx = c.rx /\ again.requests_queue = c.requests_queue
        /\ again.completion_queue = c.completion_queue
        /\ \A x \in Reqs : again.req[x].refcnt = c.req[x].refcnt
    <3> DEFINE q == [d.req EXCEPT ![r].retransmit_cnt = @ - 1]
               v == [d.req[r] EXCEPT !.retransmit_cnt = @ - 1]
    <3>1. d.req \in [Reqs -> ReqRecords] /\ d.req[r] \in ReqRecords
      BY <1>2, <2>0 DEF Comms
    <3>2. v \in ReqRecords /\ v.refcnt = d.req[r].refcnt
      BY <3>1 DEF ReqRecords
    <3>3. q = [d.req EXCEPT ![r] = v]
      OBVIOUS
    <3> HIDE DEF v
    <3>4. /\ q \in [Reqs -> ReqRecords]
          /\ \A x \in Reqs : q[x].refcnt = d.req[x].refcnt
      BY <2>0, <3>1, <3>2, <3>3
    <3>5. again = [d EXCEPT !.req = q]
      OBVIOUS
    <3> HIDE DEF q
    <3>6. /\ again \in Comms /\ again.req = q /\ again.state = d.state
          /\ again.current_req = d.current_req
          /\ again.rx = d.rx /\ again.requests_queue = d.requests_queue
          /\ again.completion_queue = d.completion_queue
      BY <1>2, <3>4, <3>5 DEF Comms
    <3> HIDE DEF again
    <3> QED
      BY <1>2, <3>4, <3>6
  <2> HIDE DEF again
  <2>3. CASE again.req[r].retransmit_cnt = 0
    <3>1. ChangedTo(again, "FAILED", "off", f)
      BY <2>2, ChangeStateIs DEF CommStates
    <3> HIDE DEF f
    <3>2. CompletedAs(f, r, "FAILED", p)
      BY <2>0, <3>1, CompleteIs DEF ChangedTo
    <3> HIDE DEF p
    <3>3. p \in Comms /\ Frame(f, p)
      BY <3>2 DEF CompletedAs
    <3>4. m = [p EXCEPT !.current_req = None]
      BY <2>1, <2>3
    <3>5. /\ m \in Comms /\ m.current_req = None /\ m.state = p.state
          /\ m.timer = p.timer /\ m.requests_queue = p.requests_queue /\ m.rx = p.rx
          /\ m.completion_queue = p.completion_queue /\ m.req = p.req
      BY <3>3, <3>4 DEF Comms
    <3>6. /\ m.completion_queue = Append(c.completion_queue, r)
          /\ m.requests_queue = c.requests_queue
          /\ \A x \in Reqs : m.req[x].refcnt = c.req[x].refcnt
      BY <2>2, <3>1, <3>2, <3>5 DEF ChangedTo, CompletedAs, Frame
    <3>7. Conserves(c, m)
      BY <1>4, <3>5, <3>6, EndConserves
    <3>8. ~m.timer /\ m.state = "FAILED" /\ m.rx = c.rx
      BY <2>2, <3>1, <3>2, <3>5 DEF ChangedTo, CompletedAs, Frame
    <3>9. c.rx = <<>>
      BY <1>4 DEF Heard, Listens
    <3>10. Sup(m) /\ Heard(m)
      BY <3>5, <3>8, <3>9 DEF Sup, Heard, Waiting
    <3> QED
      BY <3>7, <3>10 DEF Sound, m
  <2>4. CASE again.req[r].retransmit_cnt # 0
    <3>1. m = change_state(w, "AWAITING_ECHO", "on")
      BY <2>1, <2>4
    <3>2. Written(again, "cmd", r, w)
      BY <2>0, <2>2, WriteIs
    <3> HIDE DEF w
    <3>3. ChangedTo(w, "AWAITING_ECHO", "on", m)
      BY <3>1, <3>2, ChangeStateIs DEF CommStates, Waiting, Written
    <3>4. /\ m \in Comms /\ m.timer /\ m.state = "AWAITING_ECHO" /\ m.current_req = r
          /\ m.requests_queue = c.requests_queue
          /\ m.completion_queue = c.completion_queue
          /\ \A x \in Reqs : m.req[x].refcnt = c.req[x].refcnt
      BY <2>2, <3>2, <3>3 DEF ChangedTo, Written
    <3>5. Conserves(c, m)
      BY <3>4, SameConserves
    <3>6. Sup(m) /\ Heard(m)
      BY <1>4, <3>4 DEF Sup, Heard, Listens, Waiting
    <3> QED
      BY <3>5, <3>6 DEF Sound, m
  <2> QED
    BY <2>3, <2>4
<1>5. CASE c.state # "RECOVERING"
  <2> DEFINE s == change_state(lost, "RECOVERING", "on")
  <2>1. m = Write(s, "cmd", Recovery)
    BY <1>1, <1>2, <1>5 DEF timer_fired
  <2> HIDE DEF d, m
  <2>2. /\ lost \in Comms /\ lost.current_req = r /\ lost.rx = <<>>
        /\ lost.requests_queue = c.requests_queue
        /\ lost.completion_queue = c.completion_queue /\ lost.req = c.req
    <3>1. <<>> \in Seq(RxLines) /\ kept \in Seq(TxLines)
      BY EmptySeq
    <3> QED
      BY <1>2, <3>1 DEF Comms
  <2> HIDE DEF lost
  <2>3. ChangedTo(lost, "RECOVERING", "on", s)
    BY <2>2, ChangeStateIs DEF CommStates, Waiting
  <2> HIDE DEF s
  <2>4. Written(s, "cmd", Recovery, m)
    BY <2>1, <2>3, WriteIs DEF ChangedTo, Commands
  <2>5. /\ m \in Comms /\ m.timer /\ m.state = "RECOVERING" /\ m.current_req = r
        /\ m.rx = <<>> /\ m.requests_queue = c.requests_queue
        /\ m.completion_queue = c.completion_queue /\ m.req = c.req
    BY <2>2, <2>3, <2>4 DEF ChangedTo, Written
  <2>6. Conserves(c, m)
    BY <2>5, SameConserves
  <2>7. Sup(m) /\ Heard(m)
    BY <2>5 DEF Sup, Heard, Waiting
  <2> QED
    BY <2>6, <2>7 DEF Sound, m
<1> QED
  BY <1>3, <1>4, <1>5

----------------------------------------------------------------------------
(* What the steps of each thread do to the order and to the references.    *)

Books == InOrder /\ MadeOnce /\ Counted

(* The lengths are numbers.                                                *)
LEMMA Lengths ==
    ASSUME TypeOK
    PROVE  /\ Len(comm.completion_queue) \in Nat /\ Len(comm.requests_queue) \in Nat
           /\ Len(completed) \in Nat /\ Len(made) \in Nat
           /\ comm.completion_queue \in Seq(Reqs) /\ comm.requests_queue \in Seq(Reqs)
           /\ \A r \in Reqs : comm.req[r].refcnt \in Int
BY DEF TypeOK, Comms, ReqRecords

(* A step of the comm thread, or one that leaves the queues alone.         *)
LEMMA BecomesKeepsBooks ==
    ASSUME TypeOK, Books, NEW c, Conserves(comm, c), Becomes(c),
           made' = made, caller' = caller
    PROVE  Books' /\ completed' \in Seq(Reqs) /\ comm' \in Comms
<1> DEFINE q == comm.completion_queue
           p == c.completion_queue
           x == SubSeq(p, Len(q) + 1, Len(p))
<1>1a. comm' = c /\ completed' = completed \o x
  BY DEF Becomes
<1>1b. c \in Comms /\ Len(p) >= Len(q)
  BY DEF Conserves
<1>1c. p \in Seq(Reqs) /\ Len(p) \in Nat
  BY <1>1b DEF Comms
<1>1d. /\ made \in Seq(Reqs) /\ completed \in Seq(Reqs)
       /\ Taken \in Nat /\ Ordered(comm, made, Taken)
       /\ \A i \in 1..Len(completed) : completed[i] = made[i]
  BY DEF TypeOK, Books, InOrder
<1>1. /\ comm' = c /\ completed' = completed \o x /\ c \in Comms
      /\ p \in Seq(Reqs) /\ Len(p) \in Nat /\ Len(p) >= Len(q)
      /\ made \in Seq(Reqs) /\ completed \in Seq(Reqs)
      /\ Taken \in Nat /\ Ordered(comm, made, Taken)
      /\ \A i \in 1..Len(completed) : completed[i] = made[i]
  BY <1>1a, <1>1b, <1>1c, <1>1d
<1>2. Len(q) \in Nat /\ Len(completed) \in Nat /\ Taken = Len(completed) - Len(q)
  BY Lengths DEF Taken
<1>3. Ordered(c, made, Taken)
  BY <1>1 DEF Conserves
<1>4. \A i \in 1..Len(p) : p[i] = made[Taken + i]
  BY <1>3 DEF Ordered
<1>5. comm'.completion_queue = p
  BY <1>1
<1> HIDE DEF q, p
<1>6. /\ x \in Seq(Reqs) /\ Len(x) = Len(p) - Len(q)
      /\ \A i \in 1..Len(x) : x[i] = p[Len(q) + i]
  <2>1. \A i \in (Len(q) + 1)..Len(p) : p[i] \in Reqs
    BY <1>1, <1>2
  <2>2. /\ x \in Seq(Reqs)
        /\ Len(x) = IF Len(q) + 1 <= Len(p) THEN Len(p) - (Len(q) + 1) + 1 ELSE 0
        /\ \A i \in 1..(Len(p) - (Len(q) + 1) + 1) : x[i] = p[(Len(q) + 1) + i - 1]
    BY <1>1, <1>2, <2>1, SubSeqProperties
  <2> HIDE DEF x
  <2>3. Len(x) = Len(p) - Len(q)
    BY <1>1, <1>2, <2>2
  <2>4. ASSUME NEW i \in 1..Len(x)
        PROVE  x[i] = p[Len(q) + i]
    <3>1. /\ i \in 1..(Len(p) - (Len(q) + 1) + 1)
          /\ (Len(q) + 1) + i - 1 = Len(q) + i
      BY <1>1, <1>2, <2>3
    <3>2. x[i] = p[(Len(q) + 1) + i - 1]
      BY <2>2, <3>1
    <3> QED
      BY <3>1, <3>2
  <2> QED
    BY <2>2, <2>3, <2>4
<1> HIDE DEF x
<1>7. /\ completed' \in Seq(Reqs) /\ Len(completed') = Len(completed) + Len(x)
      /\ \A i \in 1..(Len(completed) + Len(x)) : completed'[i] =
             IF i <= Len(completed) THEN completed[i] ELSE x[i - Len(completed)]
  BY <1>1, <1>6, ConcatProperties
<1>8. Taken' = Taken
  <2>1. Taken' = Len(completed') - Len(p)
    BY <1>5 DEF Taken
  <2> QED
    BY <1>1, <1>2, <1>6, <1>7, <2>1
<1>9. ASSUME NEW i \in 1..Len(completed')
      PROVE  completed'[i] = made[i]
  <2>1. CASE i <= Len(completed)
    BY <1>1, <1>2, <1>7, <2>1
  <2>2. CASE ~(i <= Len(completed))
    <3> DEFINE j == i - Len(completed)
    <3>1. /\ j \in 1..Len(x) /\ Len(q) + j \in 1..Len(p)
          /\ Taken + (Len(q) + j) = i
      BY <1>1, <1>2, <1>6, <1>7, <2>2
    <3>2. completed'[i] = x[j]
      BY <1>7, <2>2
    <3> HIDE DEF j
    <3>3. x[j] = made[Taken + (Len(q) + j)]
      BY <1>4, <1>6, <3>1
    <3> QED
      BY <3>1, <3>2, <3>3
  <2> QED
    BY <2>1, <2>2
<1>10. InOrder'
  BY <1>1, <1>3, <1>8, <1>9 DEF InOrder
<1>11. MadeOnce'
  BY DEF Books, MadeOnce
<1>12. Counted'
  <2>1. \A r \in Reqs : comm'.req[r].refcnt = comm.req[r].refcnt
    BY <1>1 DEF Conserves
  <2> QED
    BY <1>8, <2>1 DEF Books, Counted, HeldAfter, WaitsFor
<1> QED
  BY <1>1, <1>7, <1>10, <1>11, <1>12 DEF Books

(* A step that leaves the queues and the references alone.                 *)
LEMMA QuietKeepsBooks ==
    ASSUME TypeOK, Books, comm' \in Comms,
           comm'.completion_queue = comm.completion_queue,
           comm'.requests_queue = comm.requests_queue,
           comm'.current_req = comm.current_req,
           \A r \in Reqs : comm'.req[r].refcnt = comm.req[r].refcnt,
           made' = made, caller' = caller, completed' = completed
    PROVE  Books'
<1>1. Taken' = Taken
  BY DEF Taken
<1>2. Conserves(comm, comm')
  BY SameConserves DEF TypeOK
<1>3. Ordered(comm', made, Taken)
  BY <1>2 DEF Books, InOrder, Conserves, TypeOK
<1>4. InOrder'
  BY <1>1, <1>3 DEF Books, InOrder
<1>5. MadeOnce'
  BY DEF Books, MadeOnce
<1>6. Counted'
  BY <1>1 DEF Books, Counted, HeldAfter, WaitsFor
<1> QED
  BY <1>4, <1>5, <1>6 DEF Books

(* vgsm_req_make_va: two references, the last place of the queue.          *)
MadeAs(c, r, d) ==
    /\ d \in Comms
    /\ d.requests_queue = Append(c.requests_queue, r)
    /\ d.completion_queue = c.completion_queue
    /\ d.current_req = c.current_req /\ d.current_urc = c.current_urc
    /\ d.ok = c.ok /\ d.state = c.state /\ d.timer = c.timer
    /\ d.rx = c.rx /\ d.tx = c.tx
    /\ \A x \in Reqs : d.req[x].refcnt = IF x = r THEN 2 ELSE c.req[x].refcnt
    /\ \A x \in Reqs : d.req[x].err = IF x = r THEN None ELSE c.req[x].err

(* vgsm_req_make_va: a new request, with its maker's reference and the     *)
(* queue's, is the last.                                                   *)
LEMMA ReqMakeIs ==
    ASSUME NEW c \in Comms, NEW r \in Reqs, NEW pdu \in BOOLEAN
    PROVE  MadeAs(c, r, req_make(c, r, pdu))
<1> DEFINE v == [refcnt |-> 1, ready |-> FALSE, err |-> None,
                 retransmit_cnt |-> Attempts, pdu |-> pdu]
           q == Append(c.requests_queue, r)
           d == [c EXCEPT !.req[r] = v, !.requests_queue = q]
<1>1. v \in ReqRecords /\ v.refcnt = 1 /\ v.err = None
  BY BoundsAssumption DEF ReqRecords
<1>2. q \in Seq(Reqs) /\ c.req \in [Reqs -> ReqRecords]
  BY DEF Comms
<1>3. req_make(c, r, pdu) = req_get(d, r)
  BY DEF req_make
<1> HIDE DEF v, q
<1> DEFINE f == [c.req EXCEPT ![r] = v]
<1>4. f \in [Reqs -> ReqRecords] /\ \A x \in Reqs : f[x] = IF x = r THEN v ELSE c.req[x]
  BY <1>1, <1>2
<1>5. d = [c EXCEPT !.req = f, !.requests_queue = q]
  OBVIOUS
<1> HIDE DEF f
<1>6. /\ d \in Comms /\ d.req = f /\ d.requests_queue = q
      /\ d.completion_queue = c.completion_queue
      /\ d.current_req = c.current_req /\ d.current_urc = c.current_urc
      /\ d.ok = c.ok /\ d.state = c.state /\ d.timer = c.timer
      /\ d.rx = c.rx /\ d.tx = c.tx
  BY <1>2, <1>4, <1>5 DEF Comms
<1> HIDE DEF d
<1> DEFINE g == req_get(d, r)
<1>7. /\ g \in Comms /\ Frame(d, g) /\ g.completion_queue = d.completion_queue
      /\ \A x \in Reqs :
           /\ g.req[x].refcnt = d.req[x].refcnt + (IF x = r THEN 1 ELSE 0)
           /\ g.req[x].err = d.req[x].err
  BY <1>6, GetIs
<1> HIDE DEF g
<1>8. ASSUME NEW x \in Reqs
      PROVE  /\ g.req[x].refcnt = IF x = r THEN 2 ELSE c.req[x].refcnt
             /\ g.req[x].err = IF x = r THEN None ELSE c.req[x].err
  <2>1. c.req[x].refcnt \in Int
    BY DEF Comms, ReqRecords
  <2>2. d.req[x] = IF x = r THEN v ELSE c.req[x]
    BY <1>4, <1>6
  <2> QED
    BY <1>1, <1>7, <2>1, <2>2
<1> QED
  BY <1>3, <1>6, <1>7, <1>8 DEF MadeAs, Frame, g, q

(* A new request takes its place at the end of everything.                 *)
LEMMA MakeKeepsBooks ==
    ASSUME TypeOK, Books, NEW r \in Reqs, caller[r] = "none",
           NEW w \in {"waits", "left"}, caller' = [caller EXCEPT ![r] = w],
           made' = Append(made, r), completed' = completed, comm' \in Comms,
           comm'.completion_queue = comm.completion_queue,
           comm'.current_req = comm.current_req,
           comm'.requests_queue = Append(comm.requests_queue, r),
           \A x \in Reqs : comm'.req[x].refcnt =
               IF x = r THEN (IF w = "waits" THEN 2 ELSE 1) ELSE comm.req[x].refcnt
    PROVE  Books'
<1> DEFINE q == comm.completion_queue
           s == comm.requests_queue
           n == Taken
           h == InHand(comm)
           m == made
<1>1. /\ Len(q) \in Nat /\ Len(s) \in Nat /\ Len(m) \in Nat /\ n \in Nat
      /\ h \in {0, 1} /\ m \in Seq(Reqs) /\ s \in Seq(Reqs)
  BY Lengths DEF Books, InOrder, TypeOK, InHand
<1>2. Taken' = n /\ InHand(comm)' = h
  BY DEF Taken, InHand
<1>3. /\ made' \in Seq(Reqs) /\ Len(made') = Len(m) + 1
      /\ \A i \in 1..Len(m) : made'[i] = m[i]
      /\ made'[Len(m) + 1] = r
  BY <1>1
<1>4. /\ (n + Len(q)) + h + Len(s) = Len(m)
      /\ \A i \in 1..Len(q) : q[i] = m[n + i]
      /\ comm.current_req # None => comm.current_req = m[(n + Len(q)) + 1]
      /\ \A i \in 1..Len(s) : s[i] = m[(n + Len(q)) + h + i]
  BY DEF Books, InOrder, Ordered
<1>5. \A i \in 1..Len(m) : m[i] # r
  BY DEF Books, MadeOnce
<1> DEFINE t == Append(s, r)
<1>6. /\ Len(t) = Len(s) + 1 /\ t[Len(s) + 1] = r
      /\ \A i \in 1..Len(s) : t[i] = s[i]
  BY <1>1
<1>7. Ordered(comm', made', n)
  <2>1. h = 0 <=> comm.current_req = None
    BY DEF InHand
  <2>2. comm'.requests_queue = t /\ comm'.completion_queue = q /\ InHand(comm') = h
        /\ comm'.current_req = comm.current_req
    BY DEF InHand
  <2> HIDE DEF q, s, n, h, m, t
  <2>3. (n + Len(q)) + h + Len(t) = Len(made')
    BY <1>1, <1>3, <1>4, <1>6
  <2>4. ASSUME NEW i \in 1..Len(q)
        PROVE  q[i] = made'[n + i]
    <3>1. n + i \in 1..Len(m)
      BY <1>1, <1>4
    <3> QED
      BY <3>1, <1>3, <1>4
  <2>5. ASSUME comm.current_req # None
        PROVE  comm.current_req = made'[(n + Len(q)) + 1]
    <3>1. (n + Len(q)) + 1 \in 1..Len(m)
      BY <1>1, <1>4, <2>1, <2>5
    <3> QED
      BY <3>1, <1>3, <1>4, <2>5
  <2>6. ASSUME NEW i \in 1..Len(t)
        PROVE  t[i] = made'[(n + Len(q)) + h + i]
    <3>1. CASE i \in 1..Len(s)
      <4>1. (n + Len(q)) + h + i \in 1..Len(m)
        BY <1>1, <1>4, <3>1
      <4> QED
        BY <3>1, <4>1, <1>3, <1>4, <1>6
    <3>2. CASE i = Len(s) + 1
      <4>1. (n + Len(q)) + h + i = Len(m) + 1
        BY <1>1, <1>4, <3>2
      <4> QED
        BY <3>2, <4>1, <1>3, <1>6
    <3>3. i \in 1..Len(s) \/ i = Len(s) + 1
      BY <1>1, <1>6
    <3> QED
      BY <3>1, <3>2, <3>3
  <2> QED
    BY <2>2, <2>3, <2>4, <2>5, <2>6 DEF Ordered
<1>8. InOrder'
  <2>1. Len(completed) \in Nat /\ Len(completed) <= Len(m)
    <3>1. n = Len(completed) - Len(q) /\ Len(completed) \in Nat
      BY Lengths DEF Taken
    <3> HIDE DEF q, s, n, h, m
    <3> QED
      BY <1>1, <1>4, <3>1
  <2>2. \A i \in 1..Len(completed) : completed[i] = made'[i]
    <3> SUFFICES ASSUME NEW i \in 1..Len(completed) PROVE completed[i] = made'[i]
      OBVIOUS
    <3>1. i \in 1..Len(m)
      BY <1>1, <2>1
    <3>2. completed[i] = m[i]
      BY DEF Books, InOrder
    <3> QED
      BY <1>3, <3>1, <3>2
  <2> QED
    BY <1>1, <1>2, <1>7, <2>2 DEF InOrder
<1>9. MadeOnce'
  <2>1. ASSUME NEW i \in 1..Len(made'), NEW j \in 1..Len(made'), made'[i] = made'[j]
        PROVE  i = j
    <3>1. \A a, b \in 1..Len(m) : m[a] = m[b] => a = b
      BY DEF Books, MadeOnce
    <3> HIDE DEF m
    <3>2. /\ i \in 1..Len(m) \/ i = Len(m) + 1
          /\ j \in 1..Len(m) \/ j = Len(m) + 1
      BY <1>1, <1>3
    <3> QED
      BY <1>3, <1>5, <2>1, <3>1, <3>2
  <2>2. ASSUME NEW x \in Reqs
        PROVE  caller'[x] # "none" <=> \E i \in 1..Len(made') : made'[i] = x
    <3>1. caller[x] # "none" <=> \E i \in 1..Len(m) : m[i] = x
      BY DEF Books, MadeOnce
    <3>2. caller'[x] = IF x = r THEN w ELSE caller[x]
      BY DEF TypeOK
    <3> HIDE DEF m
    <3>3. (\E i \in 1..Len(made') : made'[i] = x)
             <=> x = r \/ \E i \in 1..Len(m) : m[i] = x
      <4>1. 1..Len(made') = 1..Len(m) \cup {Len(m) + 1}
        BY <1>1, <1>3
      <4> QED
        BY <1>3, <4>1
    <3> QED
      BY <3>1, <3>2, <3>3
  <2> QED
    BY <2>1, <2>2 DEF MadeOnce
<1>10. Counted'
  <2> SUFFICES ASSUME NEW x \in Reqs
               PROVE  comm'.req[x].refcnt = HeldAfter(Taken, x)' + WaitsFor(x)'
    BY DEF Counted
  <2>1. comm.req[x].refcnt = HeldAfter(n, x) + WaitsFor(x)
    BY DEF Books, Counted
  <2>2. caller'[x] = IF x = r THEN w ELSE caller[x]
    BY DEF TypeOK
  <2>3. HeldAfter(Taken, x)' =
          IF \E i \in (n + 1)..Len(made') : made'[i] = x THEN 1 ELSE 0
    BY <1>2 DEF HeldAfter
  <2>4. HeldAfter(n, x) = IF \E i \in (n + 1)..Len(m) : m[i] = x THEN 1 ELSE 0
    BY DEF HeldAfter
  <2>5. (\E i \in (n + 1)..Len(made') : made'[i] = x)
           <=> x = r \/ \E i \in (n + 1)..Len(m) : m[i] = x
    <3>1. n <= Len(m)
      <4> HIDE DEF q, s, n, h, m
      <4> QED
        BY <1>1, <1>4
    <3> HIDE DEF n, m
    <3>2. (n + 1)..Len(made') = (n + 1)..Len(m) \cup {Len(m) + 1}
      BY <1>1, <1>3, <3>1
    <3>3. \A i \in (n + 1)..Len(m) : i \in 1..Len(m)
      BY <1>1
    <3> QED
      BY <1>3, <3>2, <3>3
  <2>6. WaitsFor(x)' = IF x = r THEN (IF w = "waits" THEN 1 ELSE 0) ELSE WaitsFor(x)
    BY <2>2 DEF WaitsFor
  <2> HIDE DEF n, m
  <2>7. CASE x = r
    <3>1. HeldAfter(Taken, x)' = 1
      BY <2>3, <2>5, <2>7
    <3>2. WaitsFor(x)' = IF w = "waits" THEN 1 ELSE 0
      BY <2>6, <2>7
    <3>3. comm'.req[x].refcnt = IF w = "waits" THEN 2 ELSE 1
      BY <2>7
    <3> QED
      BY <3>1, <3>2, <3>3
  <2>8. CASE x # r
    <3> DEFINE A == \E i \in (n + 1)..Len(made') : made'[i] = x
               B == \E i \in (n + 1)..Len(m) : m[i] = x
    <3>4. A <=> B
      BY <2>5, <2>8
    <3>5. HeldAfter(Taken, x)' = IF A THEN 1 ELSE 0
      BY <2>3
    <3>6. HeldAfter(n, x) = IF B THEN 1 ELSE 0
      BY <2>4
    <3> HIDE DEF A, B
    <3>1. HeldAfter(Taken, x)' = HeldAfter(n, x)
      BY <3>4, <3>5, <3>6
    <3>2. WaitsFor(x)' = WaitsFor(x) /\ comm'.req[x].refcnt = comm.req[x].refcnt
      BY <2>6, <2>8
    <3> QED
      BY <2>1, <3>1, <3>2
  <2> QED
    BY <2>7, <2>8
<1> QED
  BY <1>8, <1>9, <1>10 DEF Books

(* The maker of a request puts it.                                         *)
LEMMA PutKeepsBooks ==
    ASSUME TypeOK, Books, NEW r \in Reqs, caller[r] = "waits",
           caller' = [caller EXCEPT ![r] = "left"],
           made' = made, completed' = completed, comm' = req_put(comm, r)
    PROVE  Books' /\ comm' \in Comms
<1>1. /\ comm' \in Comms /\ Frame(comm, comm')
      /\ comm'.completion_queue = comm.completion_queue
      /\ \A x \in Reqs :
           comm'.req[x].refcnt = comm.req[x].refcnt - (IF x = r THEN 1 ELSE 0)
  BY PutIs DEF TypeOK
<1>2. Taken' = Taken
  BY <1>1 DEF Taken
<1>3. Ordered(comm', made, Taken)
  <2>1. InHand(comm') = InHand(comm)
    BY <1>1 DEF InHand, Frame
  <2> QED
    BY <1>1, <2>1 DEF Books, InOrder, Ordered, Frame
<1>4. InOrder'
  BY <1>2, <1>3 DEF Books, InOrder
<1>5. \A x \in Reqs : caller'[x] = IF x = r THEN "left" ELSE caller[x]
  BY DEF TypeOK
<1>6. MadeOnce'
  BY <1>5 DEF Books, MadeOnce
<1>7. Counted'
  <2> SUFFICES ASSUME NEW x \in Reqs
               PROVE  comm'.req[x].refcnt = HeldAfter(Taken, x)' + WaitsFor(x)'
    BY DEF Counted
  <2>1. comm.req[x].refcnt = HeldAfter(Taken, x) + WaitsFor(x)
    BY DEF Books, Counted
  <2>2. HeldAfter(Taken, x)' = HeldAfter(Taken, x) /\ HeldAfter(Taken, x) \in {0, 1}
    BY <1>2 DEF HeldAfter
  <2>3. WaitsFor(x)' = WaitsFor(x) - (IF x = r THEN 1 ELSE 0) /\ WaitsFor(x) \in {0, 1}
    BY <1>5 DEF WaitsFor
  <2> QED
    BY <1>1, <2>1, <2>2, <2>3
<1> QED
  BY <1>1, <1>4, <1>6, <1>7 DEF Books

(* The completion thread takes a request out of its queue and puts it.     *)
LEMMA TakeKeepsBooks ==
    ASSUME TypeOK, Books, NEW r, comm.completion_queue # <<>>,
           r = Head(comm.completion_queue),
           comm' = req_put([comm EXCEPT !.completion_queue = Tail(@)], r),
           made' = made, completed' = completed, caller' = caller
    PROVE  Books' /\ comm' \in Comms /\ r \in Reqs /\ comm'.ok = comm.ok
           /\ comm'.state = comm.state /\ comm'.timer = comm.timer
           /\ comm'.current_req = comm.current_req
           /\ comm'.current_urc = comm.current_urc
           /\ comm'.requests_queue = comm.requests_queue
           /\ comm'.rx = comm.rx /\ comm'.tx = comm.tx
           /\ \A x \in Reqs : comm'.req[x].err = comm.req[x].err
<1> DEFINE q == comm.completion_queue
           p == Tail(q)
           s == comm.requests_queue
           d == [comm EXCEPT !.completion_queue = Tail(@)]
           n == Taken
           h == InHand(comm)
           m == made
<1>1. /\ Len(q) \in Nat /\ Len(s) \in Nat /\ Len(m) \in Nat /\ n \in Nat
      /\ h \in {0, 1} /\ q \in Seq(Reqs) /\ m \in Seq(Reqs)
      /\ n = Len(completed) - Len(q) /\ Len(completed) \in Nat
  BY Lengths DEF Books, InOrder, TypeOK, InHand, Taken
<1>2. /\ p \in Seq(Reqs) /\ r \in Reqs /\ Len(p) = Len(q) - 1 /\ r = q[1]
      /\ \A i \in 1..Len(p) : p[i] = q[i + 1]
      /\ Len(p) \in Nat /\ Len(q) >= 1
  <2>1. /\ p \in Seq(Reqs) /\ Head(q) \in Reqs /\ Len(p) = Len(q) - 1
        /\ \A i \in 1..Len(p) : p[i] = q[i + 1]
    BY <1>1, HeadTailProperties
  <2>2. Head(q) = q[1]
    BY <1>1
  <2>3. Len(p) \in Nat
    BY <2>1, LenProperties
  <2> HIDE DEF p, q
  <2>4. Len(q) >= 1
    BY <1>1, <2>1, <2>3
  <2> QED
    BY <2>1, <2>2, <2>3, <2>4 DEF q
<1>3. /\ d \in Comms /\ d.completion_queue = p /\ d.req = comm.req /\ Frame(comm, d)
  BY <1>2 DEF TypeOK, Comms, Frame
<1> HIDE DEF d
<1>4. /\ comm' \in Comms /\ Frame(d, comm') /\ comm'.completion_queue = d.completion_queue
      /\ \A x \in Reqs :
           /\ comm'.req[x].refcnt = d.req[x].refcnt - (IF x = r THEN 1 ELSE 0)
           /\ comm'.req[x].err = d.req[x].err
  <2> DEFINE g == req_put(d, r)
  <2>1. comm' = g
    BY DEF d
  <2>2. /\ g \in Comms /\ Frame(d, g) /\ g.completion_queue = d.completion_queue
        /\ \A x \in Reqs :
             /\ g.req[x].refcnt = d.req[x].refcnt - (IF x = r THEN 1 ELSE 0)
             /\ g.req[x].err = d.req[x].err
    BY <1>2, <1>3, PutIs
  <2> HIDE DEF g
  <2> QED
    BY <2>1, <2>2
<1>5. /\ comm'.completion_queue = p /\ comm'.requests_queue = s
      /\ comm'.current_req = comm.current_req /\ InHand(comm') = h
      /\ \A x \in Reqs :
           comm'.req[x].refcnt = comm.req[x].refcnt - (IF x = r THEN 1 ELSE 0)
  BY <1>3, <1>4 DEF Frame, InHand
<1>6. /\ (n + Len(q)) + h + Len(s) = Len(m)
      /\ \A i \in 1..Len(q) : q[i] = m[n + i]
      /\ comm.current_req # None => comm.current_req = m[(n + Len(q)) + 1]
      /\ \A i \in 1..Len(s) : s[i] = m[(n + Len(q)) + h + i]
  BY DEF Books, InOrder, Ordered
<1>7. Taken' = n + 1
  <2>1. Taken' = Len(completed) - Len(p)
    BY <1>5 DEF Taken
  <2> HIDE DEF n, p, q
  <2> QED
    BY <1>1, <1>2, <2>1
<1>8. Ordered(comm', made, n + 1)
  <2> HIDE DEF n, p, q, s, h, m
  <2>1. (n + 1) + Len(p) = n + Len(q)
    BY <1>1, <1>2
  <2>2. ASSUME NEW i \in 1..Len(p)
        PROVE  p[i] = m[(n + 1) + i]
    <3>1. i + 1 \in 1..Len(q) /\ (n + 1) + i = n + (i + 1)
      <4>1. Len(p) \in Nat /\ Len(q) = Len(p) + 1 /\ n \in Nat
        BY <1>1, <1>2
      <4> QED
        BY <4>1
    <3>2. p[i] = q[i + 1]
      BY <1>2
    <3> QED
      BY <1>6, <3>1, <3>2
  <2> QED
    BY <1>5, <1>6, <2>1, <2>2 DEF Ordered, m
<1>9. InOrder'
  <2>1. n + 1 \in Nat
    BY <1>1
  <2> QED
    BY <1>7, <1>8, <2>1 DEF Books, InOrder
<1>10. MadeOnce'
  BY DEF Books, MadeOnce
<1>11. Counted'
  <2> SUFFICES ASSUME NEW x \in Reqs
               PROVE  comm'.req[x].refcnt = HeldAfter(Taken, x)' + WaitsFor(x)'
    BY DEF Counted
  <2>1. comm.req[x].refcnt = HeldAfter(n, x) + WaitsFor(x)
    BY DEF Books, Counted
  <2>2. WaitsFor(x)' = WaitsFor(x) /\ WaitsFor(x) \in {0, 1}
    BY DEF WaitsFor
  <2>3. HeldAfter(Taken, x)' = IF \E i \in (n + 1 + 1)..Len(m) : m[i] = x THEN 1 ELSE 0
    BY <1>7 DEF HeldAfter
  <2>4. HeldAfter(n, x) = IF \E i \in (n + 1)..Len(m) : m[i] = x THEN 1 ELSE 0
    BY DEF HeldAfter
  <2>5. \A a, b \in 1..Len(m) : m[a] = m[b] => a = b
    BY DEF Books, MadeOnce
  <2> HIDE DEF n, p, q, s, h, m
  <2>6. n + 1 \in 1..Len(m) /\ m[n + 1] = r
    <3>1. n + 1 \in 1..Len(m) /\ 1 \in 1..Len(q)
      BY <1>1, <1>2, <1>6
    <3> QED
      BY <1>2, <1>6, <3>1
  <2>7. (n + 1)..Len(m) = {n + 1} \cup (n + 1 + 1)..Len(m)
    BY <1>1, <2>6
  <2>8. \A i \in (n + 1 + 1)..Len(m) : i \in 1..Len(m) /\ i # n + 1
    BY <1>1
  <2>9. CASE x = r
    <3>1. HeldAfter(n, x) = 1 /\ HeldAfter(Taken, x)' = 0
      BY <2>3, <2>4, <2>5, <2>6, <2>7, <2>8, <2>9
    <3>2. comm'.req[x].refcnt = comm.req[x].refcnt - 1
      BY <1>5, <2>9
    <3> QED
      BY <2>1, <2>2, <3>1, <3>2
  <2>10. CASE x # r
    <3>1. HeldAfter(Taken, x)' = HeldAfter(n, x)
      BY <2>3, <2>4, <2>6, <2>7, <2>10
    <3>2. HeldAfter(n, x) \in {0, 1}
      BY <2>4
    <3>3. comm'.req[x].refcnt = comm.req[x].refcnt - 0
      BY <1>5, <2>10
    <3> QED
      BY <2>1, <2>2, <3>1, <3>2, <3>3
  <2> QED
    BY <2>9, <2>10
<1> QED
  BY <1>2, <1>3, <1>4, <1>9, <1>10, <1>11 DEF Books, Frame

----------------------------------------------------------------------------
(* The steps of the comm thread.                                           *)

(* A message makes the pipe readable.                                      *)
LEMMA SentIs ==
    ASSUME TypeOK, NEW msg \in {"CLOSE", "REFRESH"}
    PROVE  /\ Sent(msg) \in Seq({"CLOSE", "REFRESH"})
           /\ run # "none" \/ pipe # <<>> => Sent(msg) # <<>>
<1>1. pipe \in Seq({"CLOSE", "REFRESH"})
  BY DEF TypeOK
<1>2. Append(pipe, msg) \in Seq({"CLOSE", "REFRESH"}) /\ Append(pipe, msg) # <<>>
  BY <1>1
<1>3. \/ Sent(msg) = Append(pipe, msg)
      \/ Sent(msg) = pipe /\ (run = "none" \/ pipe # <<>>)
  BY DEF Sent
<1> QED
  BY <1>1, <1>2, <1>3

(* The comm thread starts, reads a message, a line or its clock, or ends.  *)
LEMMA CommThreadSteps ==
    ASSUME IInv, Start \/ Receive \/ Timeout \/ ReadMessage \/ Joined
    PROVE  IInv'
<1> USE DEF Looping
<1>0. TypeOK /\ Books /\ HandlerWaits /\ Supervision /\ comm \in Comms
  BY DEF IInv, Books, TypeOK
<1>1. /\ UNCHANGED <<closing, made, env, threads>>
      /\ pipe' = pipe \/ pipe' = <<>> \/ (pipe # <<>> /\ pipe' = Tail(pipe))
      /\ run' \in Looping \cup {"none", "exiting"}
  <2>1. CASE Start
    BY <2>1 DEF Start
  <2>2. CASE Receive
    BY <2>2 DEF Receive
  <2>3. CASE Timeout
    BY <2>3 DEF Timeout
  <2>4. CASE ReadMessage
    BY <2>4 DEF ReadMessage
  <2>5. CASE Joined
    BY <2>5 DEF Joined
  <2> QED
    BY <2>1, <2>2, <2>3, <2>4, <2>5
<1>2. HandlerWaits'
  BY <1>0, <1>1 DEF HandlerWaits, threads
<1>3. pipe' \in Seq({"CLOSE", "REFRESH"})
  <2>1. pipe \in Seq({"CLOSE", "REFRESH"})
    BY <1>0 DEF TypeOK
  <2>2. pipe # <<>> => Tail(pipe) \in Seq({"CLOSE", "REFRESH"})
    BY <2>1, HeadTailProperties
  <2>3. <<>> \in Seq({"CLOSE", "REFRESH"})
    BY EmptySeq
  <2> QED
    BY <1>1, <2>1, <2>2, <2>3
<1>4. ASSUME comm' \in Comms, completed' \in Seq(Reqs)
      PROVE  TypeOK'
  BY <1>0, <1>1, <1>3, <1>4 DEF TypeOK, env, threads
<1>5. ASSUME NEW c, Sound(comm, c), Becomes(c),
             run' \in {"reading", "loop"},
             run' = "loop" /\ c.ok /\ c.state \in {"IDLE", "FAILED"} =>
                 c.requests_queue = <<>>
      PROVE  IInv'
  <2>1. Conserves(comm, c) /\ comm' = c /\ made' = made /\ caller' = caller
    BY <1>1, <1>5 DEF Sound, Becomes, threads
  <2>2. Books' /\ completed' \in Seq(Reqs) /\ comm' \in Comms
    BY <1>0, <1>5, <2>1, BecomesKeepsBooks
  <2>3. Supervision'
    BY <1>5, <2>1 DEF Supervision, Sound
  <2> QED
    BY <1>2, <1>4, <2>2, <2>3 DEF IInv, Books
<1>6. ASSUME NEW c, Sound(comm, c), Becomes(Top(c)), run' = "loop"
      PROVE  IInv'
  <2>1. c \in Comms /\ Conserves(comm, c) /\ Heard(c) /\ (c.ok => Sup(c))
    BY <1>6 DEF Sound, Conserves
  <2>2. /\ Sound(c, Top(c))
        /\ Top(c).ok /\ Top(c).state \in {"IDLE", "FAILED"} =>
               Top(c).requests_queue = <<>>
    BY <2>1, TopSound
  <2>3. Conserves(c, Top(c)) /\ Heard(Top(c)) /\ (Top(c).ok => Sup(Top(c)))
    BY <2>2 DEF Sound
  <2>4. Conserves(comm, Top(c))
    BY <1>0, <2>1, <2>3, ConservesTransitive
  <2>5. Sound(comm, Top(c))
    BY <2>3, <2>4 DEF Sound
  <2> QED
    BY <1>5, <1>6, <2>2, <2>5
<1>7. ASSUME comm' \in Comms, completed' = completed, run' \notin Looping, Heard(comm'),
             run' = "exiting" => comm'.state = "CLOSING",
             comm'.completion_queue = comm.completion_queue,
             comm'.requests_queue = comm.requests_queue,
             comm'.current_req = comm.current_req, comm'.req = comm.req
      PROVE  IInv'
  <2>1. made' = made /\ caller' = caller
    BY <1>1 DEF threads
  <2>2. Books'
    BY <1>0, <1>7, <2>1, QuietKeepsBooks
  <2>3. Supervision'
    BY <1>7 DEF Supervision
  <2>4. TypeOK'
    BY <1>0, <1>4, <1>7 DEF TypeOK
  <2> QED
    BY <1>2, <2>2, <2>3, <2>4 DEF IInv, Books
<1>8. CASE Start
  <2> DEFINE d == change_state(comm, "IDLE", "off")
  <2>1. comm.ok /\ run' = "loop" /\ Becomes(Top(d))
    BY <1>8 DEF Start
  <2>2. ChangedTo(comm, "IDLE", "off", d)
    BY <1>0, ChangeStateIs DEF CommStates
  <2> HIDE DEF d
  <2>3. Conserves(comm, d)
    BY <1>0, <2>2, SameConserves DEF ChangedTo
  <2>4. /\ d \in Comms /\ d.ok /\ d.state = "IDLE" /\ ~d.timer
        /\ d.current_req = comm.current_req
    BY <2>1, <2>2 DEF ChangedTo
  <2>5. CASE comm.current_req = None
    <3>1. Sup(d) /\ Heard(d)
      BY <2>4, <2>5 DEF Sup, Heard, Listens, Waiting
    <3> QED
      BY <1>6, <2>1, <2>3, <3>1 DEF Sound
  <2>6. CASE comm.current_req # None
    <3> DEFINE e == [d EXCEPT !.ok = FALSE]
    <3>1. Top(d) = e
      BY <2>4, <2>6 DEF Top, process_next_request
    <3>2. /\ e \in Comms /\ ~e.ok /\ e.state = "IDLE" /\ e.current_req = d.current_req
          /\ e.completion_queue = d.completion_queue
          /\ e.requests_queue = d.requests_queue /\ e.req = d.req
      BY <2>4 DEF Comms
    <3> HIDE DEF e
    <3>3. Conserves(d, e)
      BY <2>4, <3>2, SameConserves
    <3>4. Conserves(comm, e)
      BY <1>0, <2>3, <3>3, ConservesTransitive
    <3>5. Sound(comm, e)
      BY <3>2, <3>4 DEF Sound, Heard, Listens
    <3>6. Becomes(e)
      BY <2>1, <3>1
    <3> QED
      BY <1>5, <2>1, <3>2, <3>5, <3>6
  <2> QED
    BY <2>5, <2>6
<1>9. CASE Receive
  <2>1. run \in Looping /\ Takes(comm) /\ comm.ok
    BY <1>9 DEF Receive, Takes
  <2>2. Sup(comm) /\ Heard(comm)
    BY <1>0, <2>1 DEF Supervision
  <2>3. Sound(comm, receive(comm))
    BY <1>0, <2>1, <2>2, ReceiveSound
  <2>4. \/ run' = "reading" /\ Becomes(receive(comm))
        \/ run' = "loop" /\ Becomes(Top(receive(comm)))
    BY <1>9 DEF Receive
  <2> QED
    BY <1>5, <1>6, <2>3, <2>4
<1>10. CASE Timeout
  <2>1. comm.ok /\ run = "loop" /\ run' = run /\ comm.timer
    BY <1>10 DEF Timeout
  <2>2. Sup(comm) /\ Heard(comm)
    BY <1>0, <2>1 DEF Supervision
  <2>3. PICK n \in {0, Len(comm.tx)} :
           Becomes(Top(timer_fired(comm, SubSeq(comm.tx, 1, n))))
    BY <1>10 DEF Timeout
  <2>4. SubSeq(comm.tx, 1, n) \in Seq(TxLines)
    <3>1. comm.tx \in Seq(TxLines) /\ Len(comm.tx) \in Nat
      BY <1>0 DEF Comms
    <3>2. \A i \in 1..n : comm.tx[i] \in TxLines
      BY <2>3, <3>1
    <3>3. n \in Int
      BY <2>3, <3>1
    <3> QED
      BY <3>2, <3>3, SubSeqProperties
  <2>5. Sound(comm, timer_fired(comm, SubSeq(comm.tx, 1, n)))
    BY <1>0, <2>1, <2>2, <2>4, TimerFiredSound
  <2> QED
    BY <1>6, <2>1, <2>3, <2>5
<1>11. CASE ReadMessage /\ run' = "exiting"
  <2> DEFINE d == change_state(comm, "CLOSING", "off")
  <2>1. comm' = [d EXCEPT !.rx = <<>>] /\ completed' = completed
    BY <1>11 DEF ReadMessage
  <2>2. ChangedTo(comm, "CLOSING", "off", d)
    BY <1>0, ChangeStateIs DEF CommStates
  <2> HIDE DEF d
  <2>3. d \in Comms /\ <<>> \in Seq(RxLines)
    BY <2>2, EmptySeq DEF ChangedTo
  <2>4. comm' \in Comms
    BY <2>1, <2>3, UpdatesAreTyped
  <2>5. /\ comm'.rx = <<>> /\ comm'.state = d.state
        /\ comm'.completion_queue = d.completion_queue
        /\ comm'.requests_queue = d.requests_queue
        /\ comm'.current_req = d.current_req /\ comm'.req = d.req
    BY <2>1, <2>3 DEF Comms
  <2>6. Heard(comm')
    BY <2>5 DEF Heard
  <2> QED
    BY <1>7, <1>11, <2>1, <2>2, <2>4, <2>5, <2>6 DEF ChangedTo
<1>12. CASE ReadMessage /\ run' # "exiting"
  <2>1. comm.ok /\ run = "loop" /\ run' = "loop" /\ Becomes(Top(comm))
    BY <1>12 DEF ReadMessage
  <2>2. Sup(comm) /\ Heard(comm)
    BY <1>0, <2>1 DEF Supervision
  <2>3. Conserves(comm, comm)
    BY <1>0, SameConserves
  <2>4. Sound(comm, comm)
    BY <2>2, <2>3 DEF Sound
  <2> QED
    BY <1>6, <2>1, <2>4
<1>13. CASE Joined
  <2>1. comm' = change_state(comm, "CLOSED", "off") /\ completed' = completed
        /\ run' = "none" /\ run = "exiting"
    BY <1>13 DEF Joined
  <2>2. ChangedTo(comm, "CLOSED", "off", comm')
    BY <1>0, <2>1, ChangeStateIs DEF CommStates
  <2>3. Heard(comm')
    BY <1>0, <2>1, <2>2 DEF Supervision, Heard, Listens, ChangedTo
  <2> QED
    BY <1>7, <2>1, <2>2, <2>3 DEF ChangedTo
<1> QED
  BY <1>8, <1>9, <1>10, <1>11, <1>12, <1>13

----------------------------------------------------------------------------
(* The steps of the other threads and of the module.                       *)

(* The comm thread's wait is as it was: what it waits for is not changed,  *)
(* or its pipe is readable.                                                *)
LEMMA OthersKeepSupervision ==
    ASSUME Supervision, run' = run, Heard(comm'),
           comm'.ok = comm.ok, comm'.state = comm.state, comm'.timer = comm.timer,
           comm'.current_req = comm.current_req, comm'.current_urc = comm.current_urc,
           \/ comm'.requests_queue = comm.requests_queue /\ (pipe # <<>> => pipe' # <<>>)
           \/ run # "none" => pipe' # <<>>
    PROVE  Supervision'
BY DEF Supervision, Sup

(* A thread makes a request and waits, or leaves it to its callback.       *)
LEMMA MakeSteps ==
    ASSUME IInv, NEW r \in Reqs, caller[r] = "none", NEW w \in {"waits", "left"},
           \/ w = "waits" /\ \E pdu \in BOOLEAN : comm' = req_make(comm, r, pdu)
           \/ w = "left" /\ comm' = req_put(req_make(comm, r, FALSE), r),
           caller' = [caller EXCEPT ![r] = w],
           pipe' = Sent("REFRESH"), made' = Append(made, r),
           UNCHANGED <<run, compl, closing, completed, called, env>>
    PROVE  /\ Books' /\ Supervision' /\ comm' \in Comms
           /\ pipe' \in Seq({"CLOSE", "REFRESH"}) /\ made' \in Seq(Reqs)
           /\ caller' \in [Reqs -> {"none", "waits", "left"}]
           /\ caller'[r] = w
<1>0. TypeOK /\ Books /\ Supervision /\ comm \in Comms
  BY DEF IInv, Books, TypeOK
<1>1. /\ comm' \in Comms /\ comm'.completion_queue = comm.completion_queue
      /\ comm'.requests_queue = Append(comm.requests_queue, r)
      /\ comm'.ok = comm.ok /\ comm'.state = comm.state /\ comm'.timer = comm.timer
      /\ comm'.current_req = comm.current_req /\ comm'.current_urc = comm.current_urc
      /\ comm'.rx = comm.rx
      /\ \A x \in Reqs : comm'.req[x].refcnt =
             IF x = r THEN (IF w = "waits" THEN 2 ELSE 1) ELSE comm.req[x].refcnt
  <2>1. CASE w = "waits"
    <3>1. PICK pdu \in BOOLEAN : comm' = req_make(comm, r, pdu)
      BY <2>1
    <3>2. MadeAs(comm, r, comm')
      BY <1>0, <3>1, ReqMakeIs
    <3> QED
      BY <2>1, <3>2 DEF MadeAs
  <2>2. CASE w = "left"
    <3> DEFINE d == req_make(comm, r, FALSE)
    <3>1. MadeAs(comm, r, d)
      BY <1>0, ReqMakeIs
    <3>2. comm' = req_put(d, r)
      BY <2>2
    <3> HIDE DEF d
    <3>3. /\ d \in Comms
          /\ \A x \in Reqs : d.req[x].refcnt = IF x = r THEN 2 ELSE comm.req[x].refcnt
      BY <3>1 DEF MadeAs
    <3> DEFINE g == req_put(d, r)
    <3>4. /\ g \in Comms /\ Frame(d, g) /\ g.completion_queue = d.completion_queue
          /\ \A x \in Reqs :
               g.req[x].refcnt = d.req[x].refcnt - (IF x = r THEN 1 ELSE 0)
      BY <3>3, PutIs
    <3>5. comm' = g
      BY <3>2
    <3> HIDE DEF g
    <3>6. ASSUME NEW x \in Reqs
          PROVE  g.req[x].refcnt = IF x = r THEN 1 ELSE comm.req[x].refcnt
      <4>1. comm.req[x].refcnt \in Int
        BY <1>0, Lengths
      <4>2. /\ d.req[x].refcnt = IF x = r THEN 2 ELSE comm.req[x].refcnt
            /\ g.req[x].refcnt = d.req[x].refcnt - (IF x = r THEN 1 ELSE 0)
        BY <3>3, <3>4
      <4> QED
        BY <4>1, <4>2
    <3> QED
      BY <2>2, <3>1, <3>4, <3>5, <3>6 DEF MadeAs, Frame
  <2> QED
    BY <2>1, <2>2
<1>2. Books'
  BY <1>0, <1>1, MakeKeepsBooks
<1>3. /\ pipe' \in Seq({"CLOSE", "REFRESH"}) /\ (run # "none" => pipe' # <<>>)
  BY <1>0, SentIs
<1>4. Heard(comm')
  BY <1>0, <1>1 DEF Supervision, Heard, Listens
<1>5. Supervision'
  BY <1>0, <1>1, <1>3, <1>4, OthersKeepSupervision
<1>6. made' \in Seq(Reqs)
  BY <1>0 DEF TypeOK
<1>7. caller' \in [Reqs -> {"none", "waits", "left"}] /\ caller'[r] = w
  BY <1>0 DEF TypeOK
<1> QED
  BY <1>1, <1>2, <1>3, <1>5, <1>6, <1>7

(* A request's maker comes back from vgsm_req_wait.                        *)
LEMMA PutSteps ==
    ASSUME IInv, NEW r \in Reqs, caller[r] = "waits", comm' = req_put(comm, r),
           caller' = [caller EXCEPT ![r] = "left"],
           UNCHANGED <<run, pipe, made, completed>>
    PROVE  /\ Books' /\ Supervision' /\ comm' \in Comms
           /\ caller' \in [Reqs -> {"none", "waits", "left"}]
<1>0. TypeOK /\ Books /\ Supervision /\ comm \in Comms
  BY DEF IInv, Books, TypeOK
<1>1. Books' /\ comm' \in Comms
  BY <1>0, PutKeepsBooks
<1>2. Frame(comm, comm')
  BY <1>0, PutIs
<1>3. Heard(comm')
  BY <1>0, <1>2 DEF Supervision, Heard, Listens, Frame
<1>4. Supervision'
  BY <1>0, <1>2, <1>3, OthersKeepSupervision DEF Frame
<1>5. caller' \in [Reqs -> {"none", "waits", "left"}]
  BY <1>0 DEF TypeOK
<1> QED
  BY <1>1, <1>4, <1>5

(* Any thread but the comm thread.                                         *)
LEMMA OtherThreadSteps ==
    ASSUME IInv,
           \/ \E r \in CallerReqs : Make(r) \/ WaitReturns(r)
           \/ CompletionThread \/ TakeUrc \/ HandleUrc \/ HandlerReturns
           \/ Open \/ Close
    PROVE  IInv'
<1>0. TypeOK /\ Books /\ Supervision /\ comm \in Comms /\ HandlerWaits
  BY DEF IInv, Books, TypeOK
<1>1. ASSUME NEW r \in CallerReqs, Make(r)
      PROVE  IInv'
  <2>1. PICK w \in {"waits", "left"} :
          /\ \/ w = "waits" /\ \E pdu \in BOOLEAN : comm' = req_make(comm, r, pdu)
             \/ w = "left" /\ comm' = req_put(req_make(comm, r, FALSE), r)
          /\ caller' = [caller EXCEPT ![r] = w]
    BY <1>1 DEF Make
  <2>2. /\ r \in Reqs /\ caller[r] = "none" /\ pipe' = Sent("REFRESH")
        /\ made' = Append(made, r)
        /\ UNCHANGED <<run, compl, urct, closing, completed, called, env>>
    BY <1>1 DEF Make, Reqs
  <2>3. /\ Books' /\ Supervision' /\ comm' \in Comms
        /\ pipe' \in Seq({"CLOSE", "REFRESH"}) /\ made' \in Seq(Reqs)
        /\ caller' \in [Reqs -> {"none", "waits", "left"}]
    BY <2>1, <2>2, MakeSteps
  <2>4. TypeOK'
    BY <1>0, <2>2, <2>3 DEF TypeOK, env
  <2>5. HandlerWaits'
    <3>1. urct' = urct
      BY <2>2
    <3>2. ASSUME urct \in Reqs
          PROVE  urct \in HandlerReqs /\ caller'[urct] = "waits"
      <4>1. urct \in HandlerReqs /\ caller[urct] = "waits" /\ urct # r
        BY <1>0, <2>2, <3>2 DEF HandlerWaits
      <4> QED
        BY <1>0, <2>1, <3>2, <4>1 DEF TypeOK
    <3> QED
      BY <3>1, <3>2 DEF HandlerWaits
  <2> QED
    BY <2>3, <2>4, <2>5 DEF IInv, Books
<1>2. ASSUME NEW r \in CallerReqs, WaitReturns(r)
      PROVE  IInv'
  <2>1. /\ r \in Reqs /\ caller[r] = "waits" /\ comm' = req_put(comm, r)
        /\ caller' = [caller EXCEPT ![r] = "left"]
        /\ UNCHANGED <<run, pipe, compl, urct, closing, made, completed, called, env>>
    BY <1>2 DEF WaitReturns, Reqs
  <2>2. /\ Books' /\ Supervision' /\ comm' \in Comms
        /\ caller' \in [Reqs -> {"none", "waits", "left"}]
    BY <2>1, PutSteps
  <2>3. TypeOK'
    BY <1>0, <2>1, <2>2 DEF TypeOK, env
  <2>4. HandlerWaits'
    <3>1. urct' = urct
      BY <2>1
    <3>2. ASSUME urct \in Reqs
          PROVE  urct \in HandlerReqs /\ caller'[urct] = "waits"
      <4>1. urct \in HandlerReqs /\ caller[urct] = "waits" /\ urct # r
        BY <1>0, <3>2, KindsAssumption DEF HandlerWaits
      <4> QED
        BY <1>0, <2>1, <3>2, <4>1 DEF TypeOK
    <3> QED
      BY <3>1, <3>2 DEF HandlerWaits
  <2> QED
    BY <2>2, <2>3, <2>4 DEF IInv, Books
<1>3. CASE CompletionThread /\ comm.completion_queue # <<>>
  <2> DEFINE r == Head(comm.completion_queue)
  <2>1. /\ comm' = req_put([comm EXCEPT !.completion_queue = Tail(@)], r)
        /\ called' = called \cup {r}
        /\ UNCHANGED <<run, pipe, compl, urct, caller, closing, made, completed, env>>
    BY <1>3 DEF CompletionThread
  <2> HIDE DEF r
  <2>2. /\ Books' /\ comm' \in Comms /\ r \in Reqs /\ comm'.ok = comm.ok
        /\ comm'.state = comm.state /\ comm'.timer = comm.timer
        /\ comm'.current_req = comm.current_req
        /\ comm'.current_urc = comm.current_urc
        /\ comm'.requests_queue = comm.requests_queue /\ comm'.rx = comm.rx
    BY <1>0, <1>3, <2>1, TakeKeepsBooks DEF r
  <2>3. Heard(comm')
    BY <1>0, <2>2 DEF Supervision, Heard, Listens
  <2>4. Supervision'
    BY <1>0, <2>1, <2>2, <2>3, OthersKeepSupervision
  <2>5. TypeOK'
    BY <1>0, <2>1, <2>2 DEF TypeOK, env
  <2>6. HandlerWaits'
    BY <1>0, <2>1 DEF HandlerWaits
  <2> QED
    BY <2>2, <2>4, <2>5, <2>6 DEF IInv, Books
<1>4. ASSUME UNCHANGED <<comm, caller, made, completed, env, run, called, closing>>,
             pipe' = pipe, compl' \in {"idle", "gone"}, urct' \in {urct, "gone", "idle"}
      PROVE  IInv'
  <2>1. Supervision'
    BY <1>0, <1>4, OthersKeepSupervision DEF Supervision
  <2>2. Books'
    BY <1>0, <1>4, QuietKeepsBooks
  <2>3. TypeOK'
    BY <1>0, <1>4 DEF TypeOK, env
  <2>4. HandlerWaits'
    BY <1>0, <1>4, NamesAssumption DEF HandlerWaits
  <2> QED
    BY <2>1, <2>2, <2>3, <2>4 DEF IInv, Books
<1>5. CASE CompletionThread /\ comm.completion_queue = <<>>
  BY <1>4, <1>5 DEF CompletionThread
<1>6. CASE TakeUrc /\ comm.urc_queue # <<>>
  <2>1. /\ urct' = Head(comm.urc_queue) /\ comm' = [comm EXCEPT !.urc_queue = Tail(@)]
        /\ UNCHANGED <<run, pipe, compl, caller, closing, made, completed, called, env>>
    BY <1>6 DEF TakeUrc
  <2>2. urct' \in Urcs /\ Tail(comm.urc_queue) \in Seq(Urcs)
    BY <1>0, <1>6, <2>1, HeadTailProperties DEF Comms
  <2>3. /\ comm' \in Comms /\ comm'.ok = comm.ok
        /\ comm'.state = comm.state /\ comm'.timer = comm.timer
        /\ comm'.current_req = comm.current_req
        /\ comm'.current_urc = comm.current_urc
        /\ comm'.requests_queue = comm.requests_queue /\ comm'.rx = comm.rx
        /\ comm'.completion_queue = comm.completion_queue /\ comm'.req = comm.req
    BY <1>0, <2>1, <2>2 DEF Comms
  <2>4. Heard(comm')
    BY <1>0, <2>3 DEF Supervision, Heard, Listens
  <2>5. Supervision'
    BY <1>0, <2>1, <2>3, <2>4, OthersKeepSupervision
  <2>6. TypeOK'
    BY <1>0, <2>1, <2>2, <2>3 DEF TypeOK, env
  <2>7. HandlerWaits'
    BY <2>2, NamesAssumption DEF HandlerWaits, Urcs
  <2>8. Books'
    BY <1>0, <2>1, <2>3, QuietKeepsBooks
  <2> QED
    BY <2>5, <2>6, <2>7, <2>8 DEF IInv, Books
<1>7. CASE TakeUrc /\ comm.urc_queue = <<>>
  <2>1. /\ urct' = "gone"
        /\ UNCHANGED <<comm, run, pipe, compl, caller, closing, made, completed,
                       called, env>>
    BY <1>7 DEF TakeUrc
  <2> QED
    BY <1>0, <1>4, <2>1 DEF TypeOK
<1>8. CASE HandleUrc
  <2>1. UNCHANGED <<run, compl, closing, completed, called, env>>
    BY <1>8 DEF HandleUrc
  <2>2. ASSUME NEW r \in HandlerReqs, caller[r] = "none",
               comm' = req_make(comm, r, FALSE), urct' = r,
               caller' = [caller EXCEPT ![r] = "waits"],
               made' = Append(made, r), pipe' = Sent("REFRESH")
        PROVE  IInv'
    <3>1. r \in Reqs
      BY DEF Reqs
    <3>2. /\ Books' /\ Supervision' /\ comm' \in Comms
          /\ pipe' \in Seq({"CLOSE", "REFRESH"}) /\ made' \in Seq(Reqs)
          /\ caller' \in [Reqs -> {"none", "waits", "left"}] /\ caller'[r] = "waits"
      BY <2>1, <2>2, <3>1, MakeSteps
    <3>3. TypeOK'
      BY <1>0, <2>1, <2>2, <3>1, <3>2 DEF TypeOK, env
    <3>4. HandlerWaits'
      BY <2>2, <3>2 DEF HandlerWaits
    <3> QED
      BY <3>2, <3>3, <3>4 DEF IInv, Books
  <2>3. ASSUME urct' = "idle", UNCHANGED <<comm, caller, made, pipe>>
        PROVE  IInv'
    BY <1>0, <1>4, <2>1, <2>3 DEF TypeOK
  <2> QED
    BY <1>8, <2>2, <2>3 DEF HandleUrc
<1>9. CASE HandlerReturns
  <2>1. /\ urct \in Reqs /\ comm' = req_put(comm, urct) /\ urct' = "idle"
        /\ caller' = [caller EXCEPT ![urct] = "left"]
        /\ UNCHANGED <<run, pipe, compl, closing, made, completed, called, env>>
    BY <1>9 DEF HandlerReturns
  <2>2. caller[urct] = "waits"
    BY <1>0, <2>1 DEF HandlerWaits
  <2>3. /\ Books' /\ Supervision' /\ comm' \in Comms
        /\ caller' \in [Reqs -> {"none", "waits", "left"}]
    BY <2>1, <2>2, PutSteps
  <2>4. TypeOK'
    BY <1>0, <2>1, <2>3 DEF TypeOK, env
  <2>5. HandlerWaits'
    BY <2>1, NamesAssumption DEF HandlerWaits
  <2> QED
    BY <2>3, <2>4, <2>5 DEF IInv, Books
<1>10. CASE Open
  <2>1. /\ run = "none" /\ run' = "starting" /\ compl' = "idle" /\ urct' = "idle"
        /\ opens < MaxOpens /\ opens' = opens + 1
        /\ UNCHANGED <<comm, pipe, caller, closing, module, ended, made, completed,
                       called, urcs>>
    BY <1>10 DEF Open
  <2>2. Books'
    BY <1>0, <2>1, QuietKeepsBooks
  <2>3. Supervision'
    BY <1>0, <2>1 DEF Supervision, Looping
  <2>4. opens' \in 0..MaxOpens
    BY <1>0, <2>1, BoundsAssumption DEF TypeOK
  <2>5. TypeOK'
    BY <1>0, <2>1, <2>4 DEF TypeOK
  <2>6. HandlerWaits'
    BY <2>1, NamesAssumption DEF HandlerWaits
  <2> QED
    BY <2>2, <2>3, <2>5, <2>6 DEF IInv, Books
<1>11. CASE Close
  <2>1. /\ run \in Looping /\ closing' = TRUE /\ pipe' = Sent("CLOSE")
        /\ UNCHANGED <<comm, run, made, completed, env, threads>>
    BY <1>11 DEF Close
  <2>2. pipe' \in Seq({"CLOSE", "REFRESH"}) /\ (run # "none" => pipe' # <<>>)
    BY <1>0, <2>1, SentIs
  <2>3. Books'
    BY <1>0, <2>1, QuietKeepsBooks DEF threads
  <2>4. Supervision'
    BY <1>0, <2>1, <2>2, OthersKeepSupervision DEF Supervision
  <2>5. TypeOK'
    BY <1>0, <2>1, <2>2 DEF TypeOK, env, threads
  <2>6. HandlerWaits'
    BY <1>0, <2>1 DEF HandlerWaits, threads
  <2> QED
    BY <2>3, <2>4, <2>5, <2>6 DEF IInv, Books
<1> QED
  BY <1>1, <1>2, <1>3, <1>5, <1>6, <1>7, <1>8, <1>9, <1>10, <1>11

(* Only what is on the line changes.                                       *)
OnLine(b, c) ==
    /\ c \in Comms /\ c.ok = b.ok /\ c.state = b.state /\ c.timer = b.timer
    /\ c.current_req = b.current_req /\ c.current_urc = b.current_urc
    /\ c.requests_queue = b.requests_queue
    /\ c.completion_queue = b.completion_queue /\ c.req = b.req

(* What the module takes or tcflush discards is gone from the line and     *)
(* nothing else is.                                                        *)
LEMMA TakenFromTx ==
    ASSUME NEW c \in Comms, NEW q \in Seq(TxLines)
    PROVE  /\ OnLine(c, [c EXCEPT !.tx = q]) /\ [c EXCEPT !.tx = q].rx = c.rx
           /\ [c EXCEPT !.tx = q].tx = q
BY DEF OnLine, Comms

(* What the module says is heard or lost.                                  *)
LEMMA SaysIs ==
    ASSUME NEW c \in Comms, NEW x \in Seq(RxLines), Says(c, x), Heard(c)
    PROVE  /\ OnLine(c, comm') /\ Heard(comm') /\ comm'.tx = c.tx
           /\ comm'.rx = IF Listens(c) THEN c.rx \o x ELSE c.rx
<1>1. CASE Listens(c)
  <2> DEFINE q == c.rx \o x
             d == [c EXCEPT !.rx = q]
  <2>1. q \in Seq(RxLines)
    BY ConcatProperties DEF Comms
  <2>2. comm' = d
    BY <1>1 DEF Says
  <2> HIDE DEF q
  <2>3. OnLine(c, d) /\ d.rx = q /\ d.tx = c.tx
    BY <2>1 DEF OnLine, Comms
  <2> HIDE DEF d
  <2>4. Heard(d)
    BY <1>1, <2>3 DEF Heard, Listens, OnLine
  <2> QED
    BY <1>1, <2>2, <2>3, <2>4 DEF q
<1>2. CASE ~Listens(c)
  <2>1. comm' = c
    BY <1>2 DEF Says
  <2> QED
    BY <1>2, <2>1 DEF OnLine
<1> QED
  BY <1>1, <1>2

(* A step of the module, or the flush of the tty.                          *)
LEMMA LineSteps ==
    ASSUME IInv, OnLine(comm, comm'), Heard(comm'),
           UNCHANGED <<run, pipe, made, completed, threads>>,
           module' \in [mode : {"idle"}, of : {None}]
                         \cup [mode : {"run", "prompt", "send"}, of : Commands],
           ended' \subseteq Commands, opens' = opens, urcs' \in 0..MaxUrcs,
           closing' \in BOOLEAN
    PROVE  IInv'
<1>0. TypeOK /\ Books /\ Supervision /\ HandlerWaits
  BY DEF IInv, Books
<1>1. comm' \in Comms
  BY DEF OnLine
<1>2. TypeOK'
  BY <1>0, <1>1 DEF TypeOK, threads
<1>3. Books'
  BY <1>0, <1>1, QuietKeepsBooks DEF OnLine, threads
<1>4. Supervision'
  BY <1>0, OthersKeepSupervision DEF OnLine
<1>5. HandlerWaits'
  BY <1>0 DEF HandlerWaits, threads
<1> QED
  BY <1>2, <1>3, <1>4, <1>5 DEF IInv, Books

(* Steps of the module, and the flush that follows a close, keep the       *)
(* invariant.                                                              *)
LEMMA ModuleSteps ==
    ASSUME IInv,
           \/ ModuleTakes \/ ModuleAnswers \/ CloseReturns
           \/ \E u \in Urcs : ModuleUrc(u)
    PROVE  IInv'
<1> DEFINE Modules == [mode : {"idle"}, of : {None}]
                        \cup [mode : {"run", "prompt", "send"}, of : Commands]
<1>0. /\ TypeOK /\ comm \in Comms /\ Heard(comm) /\ module \in Modules
      /\ ended \subseteq Commands /\ urcs \in 0..MaxUrcs /\ closing \in BOOLEAN
      /\ comm.tx \in Seq(TxLines) /\ comm.rx \in Seq(RxLines)
  BY DEF IInv, TypeOK, Supervision, Comms
<1>1. CASE ModuleTakes
  <2> DEFINE t == Head(comm.tx)
             c == [comm EXCEPT !.tx = Tail(@)]
  <2>1. /\ t \in TxLines /\ Tail(comm.tx) \in Seq(TxLines)
    BY <1>0, <1>1, HeadTailProperties DEF ModuleTakes
  <2>2. OnLine(comm, c) /\ c.rx = comm.rx
    BY <1>0, <2>1, TakenFromTx
  <2>3. c \in Comms /\ Heard(c)
    BY <1>0, <2>2 DEF OnLine, Heard, Listens
  <2>4. \/ /\ \E k \in {"echo", "pduecho", "eofecho"} : Says(c, <<Line(k, t.of)>>)
           /\ module' \in Modules
        \/ comm' = c /\ module' \in Modules
    <3>1. t.of \in Commands
      BY <2>1 DEF TxLines
    <3>2. module.mode = "prompt" => module.of \in Commands
      BY <1>0
    <3>3. ASSUME NEW md \in {"run", "send"}, NEW of \in Commands, Does(md, of)
          PROVE  module' \in Modules
      BY <3>3 DEF Does
    <3>4. module' = module => module' \in Modules
      BY <1>0
    <3> HIDE DEF Modules, c, t
    <3>5. \/ Says(c, <<Line("echo", t.of)>>) /\ (Does("run", t.of) \/ module' = module)
          \/ Says(c, <<Line("pduecho", t.of)>>) /\ module' = module
          \/ /\ \/ Says(c, <<Line("eofecho", t.of)>>)
                 \/ comm' = c
             /\ \/ module.mode = "prompt" /\ Does("send", module.of)
                \/ module' = module
      BY <1>1 DEF ModuleTakes, c, t
    <3> QED
      BY <3>1, <3>2, <3>3, <3>4, <3>5
  <2>5. t.of \in Commands
    BY <2>1 DEF TxLines
  <2>6. /\ UNCHANGED <<run, pipe, made, completed, threads>> /\ opens' = opens
        /\ closing' = closing /\ ended' = ended /\ urcs' = urcs
    BY <1>1 DEF ModuleTakes, others
  <2> HIDE DEF c, t
  <2>7. CASE comm' = c
    BY <1>0, <2>2, <2>3, <2>4, <2>6, <2>7, LineSteps
  <2>8. ASSUME NEW k \in {"echo", "pduecho", "eofecho"}, Says(c, <<Line(k, t.of)>>)
        PROVE  OnLine(comm, comm') /\ Heard(comm')
    <3>1. Line(k, t.of) \in RxLines
      BY <2>5 DEF Line, RxLines
    <3>2. <<Line(k, t.of)>> \in Seq(RxLines)
      BY <3>1
    <3>3. OnLine(c, comm') /\ Heard(comm')
      BY <2>3, <2>8, <3>2, SaysIs
    <3> QED
      BY <2>2, <3>3 DEF OnLine
  <2> QED
    BY <1>0, <2>4, <2>6, <2>7, <2>8, LineSteps
<1>2. CASE ModuleAnswers
  <2>1. /\ UNCHANGED <<run, pipe, made, completed, threads>> /\ opens' = opens
        /\ closing' = closing /\ urcs' = urcs
    BY <1>2 DEF ModuleAnswers, others
  <2>2. PICK k \in {"prompt", "final"} :
           /\ Says(comm, <<Line(k, module.of)>>) /\ module.of \in Commands
           /\ module' \in Modules /\ ended' \subseteq Commands
    <3>1. CASE /\ module.mode = "run" /\ module.of \in CallerReqs
               /\ Says(comm, <<Line("prompt", module.of)>>)
               /\ Does("prompt", module.of) /\ UNCHANGED ended
      <4>1. module.of \in Commands
        BY <3>1 DEF Commands, Reqs
      <4>2. module' \in Modules
        BY <3>1, <4>1 DEF Does
      <4> QED
        BY <1>0, <3>1, <4>1, <4>2
    <3>2. CASE /\ module.mode \in {"run", "send"}
               /\ Says(comm, <<Line("final", module.of)>>)
               /\ Does("idle", None) /\ ended' = ended \cup {module.of}
      <4>1. module.of \in Commands
        BY <1>0, <3>2
      <4>2. module' \in Modules
        BY <3>2 DEF Does
      <4> QED
        BY <1>0, <3>2, <4>1, <4>2
    <3> QED
      BY <1>2, <3>1, <3>2 DEF ModuleAnswers
  <2>3. <<Line(k, module.of)>> \in Seq(RxLines)
    <3>1. Line(k, module.of) \in RxLines
      BY <2>2 DEF Line, RxLines
    <3> QED
      BY <3>1
  <2>4. OnLine(comm, comm') /\ Heard(comm')
    BY <1>0, <2>2, <2>3, SaysIs
  <2> QED
    BY <1>0, <2>1, <2>2, <2>4, LineSteps
<1>3. ASSUME NEW u \in Urcs, ModuleUrc(u)
      PROVE  IInv'
  <2>1. /\ UNCHANGED <<run, pipe, made, completed, threads>> /\ opens' = opens
        /\ closing' = closing /\ module' = module /\ ended' = ended
        /\ urcs < MaxUrcs /\ urcs' = urcs + 1
    BY <1>3 DEF ModuleUrc, others
  <2>2. urcs' \in 0..MaxUrcs
    BY <1>0, <2>1, BoundsAssumption
  <2> DEFINE x == IF u = "sms" THEN <<Line("urc", u), Line("body", u)>>
                  ELSE <<Line("urc", u)>>
  <2>3. x \in Seq(RxLines)
    <3>1. Line("urc", u) \in RxLines /\ Line("body", u) \in RxLines
      BY DEF Line, RxLines
    <3> QED
      BY <3>1
  <2>4. Says(comm, x)
    BY <1>3 DEF ModuleUrc
  <2> HIDE DEF x
  <2>5. OnLine(comm, comm') /\ Heard(comm')
    BY <1>0, <2>3, <2>4, SaysIs
  <2> QED
    BY <1>0, <2>1, <2>2, <2>5, LineSteps
<1>4. CASE CloseReturns
  <2>1. /\ UNCHANGED <<run, pipe, made, completed, env, threads>>
        /\ closing' = FALSE
    BY <1>4 DEF CloseReturns
  <2>2. PICK n \in {0, Len(comm.tx)} : comm' = [comm EXCEPT !.tx = SubSeq(@, 1, n)]
    BY <1>4 DEF CloseReturns
  <2>3. SubSeq(comm.tx, 1, n) \in Seq(TxLines)
    <3>1. n \in Int /\ \A i \in 1..n : comm.tx[i] \in TxLines
      BY <1>0, <2>2
    <3> QED
      BY <3>1, SubSeqProperties
  <2>4. OnLine(comm, comm') /\ comm'.rx = comm.rx
    BY <1>0, <2>2, <2>3, TakenFromTx
  <2>5. Heard(comm')
    BY <1>0, <2>4 DEF OnLine, Heard, Listens
  <2> QED
    BY <1>0, <2>1, <2>4, <2>5, LineSteps DEF env
<1> QED
  BY <1>1, <1>2, <1>3, <1>4

----------------------------------------------------------------------------
(* The invariant, and what it says.                                        *)

(* The invariant holds after vgsm_comm_init.                               *)
LEMMA InitIInv == Init => IInv
<1> SUFFICES ASSUME Init PROVE IInv
  OBVIOUS
<1>1. comm \in Comms
  <2>1. /\ <<>> \in Seq(Reqs) /\ <<>> \in Seq(Urcs) /\ <<>> \in Seq(TxLines)
        /\ <<>> \in Seq(RxLines)
    BY EmptySeq
  <2>2. [r \in Reqs |-> [refcnt |-> 0, ready |-> FALSE, err |-> None,
                         retransmit_cnt |-> 0, pdu |-> FALSE]] \in [Reqs -> ReqRecords]
    BY DEF ReqRecords
  <2> QED
    BY <2>1, <2>2 DEF Init, NewComm, Comms, CommStates
<1>2. TypeOK
  <2>1. made \in Seq(Reqs) /\ completed \in Seq(Reqs) /\ pipe \in Seq({"CLOSE", "REFRESH"})
    BY EmptySeq DEF Init
  <2>2. opens \in 0..MaxOpens /\ urcs \in 0..MaxUrcs
    BY BoundsAssumption DEF Init
  <2>3. module \in [mode : {"idle"}, of : {None}]
    BY DEF Init
  <2>4. caller \in [Reqs -> {"none", "waits", "left"}] /\ closing \in BOOLEAN
    BY DEF Init
  <2>5. ended \subseteq Commands /\ called \subseteq Reqs
    BY DEF Init
  <2>6. run = "none" /\ compl = "gone" /\ urct = "gone"
    BY DEF Init
  <2> QED
    BY <1>1, <2>1, <2>2, <2>3, <2>4, <2>5, <2>6 DEF TypeOK
<1>3. /\ comm.completion_queue = <<>> /\ comm.requests_queue = <<>> /\ comm.rx = <<>>
      /\ comm.current_req = None /\ \A r \in Reqs : comm.req[r].refcnt = 0
  BY DEF Init, NewComm
<1>4. Taken = 0 /\ made = <<>> /\ completed = <<>> /\ Len(<<>>) = 0 /\ 1..0 = {}
  BY <1>3 DEF Taken, Init
<1>5. InOrder
  BY <1>3, <1>4 DEF InOrder, Ordered, InHand
<1>6. \A r \in Reqs : caller[r] = "none"
  BY DEF Init
<1>7. MadeOnce
  BY <1>4, <1>6 DEF MadeOnce
<1>8. Counted
  BY <1>3, <1>4, <1>6 DEF Counted, HeldAfter, WaitsFor
<1>9. HandlerWaits
  BY NamesAssumption DEF HandlerWaits, Init
<1>10. Supervision
  BY <1>3 DEF Supervision, Heard, Init, Looping
<1> QED
  BY <1>2, <1>5, <1>7, <1>8, <1>9, <1>10 DEF IInv

(* Every step of every thread and of the module keeps the invariant.       *)
LEMMA NextIInv == IInv /\ [Next]_vars => IInv'
<1> SUFFICES ASSUME IInv, [Next]_vars PROVE IInv'
  OBVIOUS
<1>1. CASE Next
  <2>1. \/ Start \/ Receive \/ Timeout \/ ReadMessage \/ Joined
        \/ \E r \in CallerReqs : Make(r) \/ WaitReturns(r)
        \/ CompletionThread \/ TakeUrc \/ HandleUrc \/ HandlerReturns
        \/ Open \/ Close
        \/ ModuleTakes \/ ModuleAnswers \/ CloseReturns
        \/ \E u \in Urcs : ModuleUrc(u)
    BY <1>1 DEF Next, CommThread, UrcThread
  <2> QED
    BY <2>1, CommThreadSteps, OtherThreadSteps, ModuleSteps
<1>2. CASE UNCHANGED vars
  <2>1. /\ TypeOK' /\ InOrder' /\ MadeOnce' /\ Counted' /\ HandlerWaits' /\ Supervision'
    BY <1>2 DEF vars, IInv, TypeOK, InOrder, Taken, MadeOnce, Counted, HeldAfter,
                WaitsFor, HandlerWaits, Supervision
  <2> QED
    BY <2>1 DEF IInv
<1> QED
  BY <1>1, <1>2

(* Every reachable state satisfies the invariant.                          *)
LEMMA Invariant == Spec => []IInv
BY InitIInv, NextIInv, PTL DEF Spec

(* The record of the link, its queues and the lines on the serial line,    *)
(* and what the threads and the module do, have their types.               *)
THEOREM TypeCorrect == Spec => []TypeOK
<1>1. IInv => TypeOK
  BY DEF IInv
<1> QED
  BY <1>1, Invariant, PTL

(* vgsm_comm_thread_main never sleeps in a state that waits for the module *)
(* without a timer, nor on a queued request without a message in its pipe. *)
THEOREM WaitsAreSupervised == Spec => []WaitIsSupervised
<1>1. IInv => WaitIsSupervised
  <2> SUFFICES ASSUME IInv, comm.ok, run = "loop"
               PROVE  /\ comm.timer = (comm.state \in Waiting)
                      /\ comm.state \in Waiting \ {"RECOVERING", "READING_URC"}
                             => comm.current_req # None
                      /\ comm.state \in {"IDLE", "FAILED"} =>
                             /\ comm.current_req = None
                             /\ comm.requests_queue = <<>> \/ pipe # <<>>
                      /\ comm.state \in {"READING_URC", "AWAITING_ECHO_READING_URC"}
                             => comm.current_urc
    BY DEF WaitIsSupervised
  <2>1. Sup(comm) /\ Supervision
    BY DEF IInv, Supervision, Looping
  <2>2. comm.timer \in BOOLEAN
    BY DEF IInv, TypeOK, Comms
  <2>3. comm.timer = (comm.state \in Waiting)
    BY <2>1, <2>2 DEF Sup
  <2> QED
    BY <2>1, <2>3 DEF Sup, Supervision
<1> QED
  BY <1>1, Invariant, PTL

(* What vgsm_req_make_va queued ends in the same order, whether it was     *)
(* answered, given up or flushed.                                          *)
THEOREM RequestsEndInOrder == Spec => []EndInOrder
<1>1. IInv => EndInOrder
  <2> SUFFICES ASSUME IInv PROVE IsPrefix(completed, made)
    BY DEF EndInOrder
  <2>1. /\ completed \in Seq(Reqs) /\ made \in Seq(Reqs)
        /\ comm.completion_queue \in Seq(Reqs) /\ comm.requests_queue \in Seq(Reqs)
    BY DEF IInv, TypeOK, Comms
  <2>2. Len(completed) <= Len(made)
    <3> DEFINE n == Len(comm.completion_queue)
               q == Len(comm.requests_queue)
    <3>1. /\ Len(completed) \in Nat /\ n \in Nat /\ q \in Nat /\ Len(made) \in Nat
          /\ InHand(comm) \in Nat
      BY <2>1 DEF InHand
    <3>2. Taken = Len(completed) - n
      BY DEF Taken
    <3>3. Taken + n + InHand(comm) + q = Len(made)
      BY DEF IInv, InOrder, Ordered
    <3> HIDE DEF n, q
    <3> QED
      BY <3>1, <3>2, <3>3
  <2>3. \A i \in 1..Len(completed) : completed[i] = made[i]
    BY DEF IInv, InOrder
  <2> DEFINE s == SubSeq(completed, 1, Len(completed))
             t == SubSeq(made, 1, Len(completed))
  <2>4. /\ s \in Seq(Reqs) /\ Len(s) = Len(completed)
        /\ \A i \in 1..Len(completed) : s[i] = completed[i]
    BY <2>1, SubSeqProperties
  <2>5. /\ t \in Seq(Reqs) /\ Len(t) = Len(completed)
        /\ \A i \in 1..Len(completed) : t[i] = made[i]
    BY <2>1, <2>2, SubSeqProperties
  <2> HIDE DEF s, t
  <2>6. s = t
    BY <2>3, <2>4, <2>5, SeqEqual
  <2> QED
    BY <2>2, <2>6 DEF IsPrefix, s, t
<1> QED
  BY <1>1, Invariant, PTL

(* A sequence without repetitions has a member at one place, or nowhere.   *)
LEMMA PlacesOf ==
    ASSUME NEW q \in Seq(Reqs), NEW r,
           \A i, j \in 1..Len(q) : q[i] = q[j] => i = j
    PROVE  Cardinality({i \in DOMAIN q : q[i] = r})
             = IF \E i \in 1..Len(q) : q[i] = r THEN 1 ELSE 0
<1>1. DOMAIN q = 1..Len(q)
  OBVIOUS
<1>2. CASE \E i \in 1..Len(q) : q[i] = r
  <2>1. PICK k \in 1..Len(q) : q[k] = r
    BY <1>2
  <2>2. {i \in DOMAIN q : q[i] = r} = {k}
    BY <1>1, <2>1
  <2> QED
    BY <1>2, <2>2, FS_Singleton
<1>3. CASE ~ \E i \in 1..Len(q) : q[i] = r
  <2>1. {i \in DOMAIN q : q[i] = r} = {}
    BY <1>1, <1>3
  <2> QED
    BY <1>3, <2>1, FS_EmptySet
<1> QED
  BY <1>2, <1>3

(* vgsm_req_get and vgsm_req_put balance: the count of every request is    *)
(* the number of those who know it, and at most one queue has it.          *)
THEOREM ReferencesAreCounted == Spec => []HoldersCounted
<1>1. IInv => HoldersCounted
  <2> SUFFICES ASSUME IInv, NEW r \in Reqs
               PROVE  /\ Holders(r) <= 1
                      /\ comm.req[r].refcnt = Holders(r) + WaitsFor(r)
    BY DEF HoldersCounted, WaitsFor
  <2> DEFINE cq == comm.completion_queue
             rq == comm.requests_queue
             d == Taken + Len(cq)
             e == d + InHand(comm)
             InC == \E i \in 1..Len(cq) : cq[i] = r
             InR == \E i \in 1..Len(rq) : rq[i] = r
  <2>1. cq \in Seq(Reqs) /\ rq \in Seq(Reqs) /\ made \in Seq(Reqs)
    BY DEF IInv, TypeOK, Comms
  <2>2. /\ Taken \in Nat /\ InHand(comm) \in {0, 1}
        /\ Len(cq) \in Nat /\ Len(rq) \in Nat /\ Len(made) \in Nat
    BY <2>1 DEF IInv, InOrder, InHand
  <2>3. /\ e + Len(rq) = Len(made)
        /\ \A i \in 1..Len(cq) : cq[i] = made[Taken + i]
        /\ comm.current_req # None => comm.current_req = made[d + 1]
        /\ \A i \in 1..Len(rq) : rq[i] = made[e + i]
    BY DEF IInv, InOrder, Ordered
  <2>4. \A i, j \in 1..Len(made) : made[i] = made[j] => i = j
    BY DEF IInv, MadeOnce
  <2>5. r # None
    BY NamesAssumption
  <2>6. InHand(comm) = 1 <=> comm.current_req # None
    BY DEF InHand
  <2> HIDE DEF cq, rq, InC, InR
  <2>7. \A i, j \in 1..Len(cq) : cq[i] = cq[j] => i = j
    <3> SUFFICES ASSUME NEW i \in 1..Len(cq), NEW j \in 1..Len(cq), cq[i] = cq[j]
                 PROVE  i = j
      OBVIOUS
    <3>1. Taken + i \in 1..Len(made) /\ Taken + j \in 1..Len(made)
      BY <2>2, <2>3
    <3>2. Taken + i = Taken + j
      BY <2>3, <2>4, <3>1
    <3> QED
      BY <2>2, <3>2
  <2>8. \A i, j \in 1..Len(rq) : rq[i] = rq[j] => i = j
    <3> SUFFICES ASSUME NEW i \in 1..Len(rq), NEW j \in 1..Len(rq), rq[i] = rq[j]
                 PROVE  i = j
      OBVIOUS
    <3>1. e + i \in 1..Len(made) /\ e + j \in 1..Len(made)
      BY <2>2, <2>3
    <3>2. e + i = e + j
      BY <2>3, <2>4, <3>1
    <3> QED
      BY <2>2, <3>2
  <2>9. Holders(r) = (IF InR THEN 1 ELSE 0) + (IF InC THEN 1 ELSE 0)
                       + (IF comm.current_req = r THEN 1 ELSE 0)
    BY <2>1, <2>7, <2>8, PlacesOf DEF Holders, cq, rq, InC, InR
  <2>10. InC => \E i \in (Taken + 1)..d : made[i] = r
    <3> SUFFICES ASSUME NEW i \in 1..Len(cq), cq[i] = r
                 PROVE  \E k \in (Taken + 1)..d : made[k] = r
      BY DEF InC
    <3>1. Taken + i \in (Taken + 1)..d /\ made[Taken + i] = r
      BY <2>2, <2>3
    <3> QED
      BY <3>1
  <2>11. InR => \E i \in (e + 1)..Len(made) : made[i] = r
    <3> SUFFICES ASSUME NEW i \in 1..Len(rq), rq[i] = r
                 PROVE  \E k \in (e + 1)..Len(made) : made[k] = r
      BY DEF InR
    <3>1. e + i \in (e + 1)..Len(made) /\ made[e + i] = r
      BY <2>2, <2>3
    <3> QED
      BY <3>1
  <2>12. comm.current_req = r => InHand(comm) = 1 /\ made[d + 1] = r
    BY <2>3, <2>5, <2>6
  <2>13. ASSUME NEW k \in (Taken + 1)..Len(made), made[k] = r
         PROVE  InC \/ InR \/ comm.current_req = r
    <3>1. CASE k <= d
      <4>1. k - Taken \in 1..Len(cq) /\ Taken + (k - Taken) = k
        BY <2>2, <3>1
      <4>2. cq[k - Taken] = r
        BY <2>3, <2>13, <4>1
      <4> QED
        BY <4>1, <4>2 DEF InC
    <3>2. CASE k > e
      <4>1. k - e \in 1..Len(rq) /\ e + (k - e) = k
        BY <2>2, <2>3, <3>2
      <4>2. rq[k - e] = r
        BY <2>3, <2>13, <4>1
      <4> QED
        BY <4>1, <4>2 DEF InR
    <3>3. CASE k > d /\ k <= e
      <4>1. InHand(comm) = 1 /\ k = d + 1
        BY <2>2, <3>3
      <4> QED
        BY <2>3, <2>6, <2>13, <4>1
    <3> QED
      BY <2>2, <3>1, <3>2, <3>3
  <2> HIDE DEF d, e
  <2>14. /\ d \in Nat /\ e \in Nat /\ Taken <= d /\ d <= e /\ e <= Len(made)
         /\ (InHand(comm) = 1 => e = d + 1)
    BY <2>2, <2>3 DEF d, e
  <2>15. ~(InC /\ InR)
    <3> SUFFICES ASSUME InC, InR PROVE FALSE
      OBVIOUS
    <3>1. PICK i \in (Taken + 1)..d : made[i] = r
      BY <2>10
    <3>2. PICK j \in (e + 1)..Len(made) : made[j] = r
      BY <2>11
    <3>3. i \in 1..Len(made) /\ j \in 1..Len(made) /\ i # j
      BY <2>2, <2>14, <3>1, <3>2
    <3> QED
      BY <2>4, <3>1, <3>2, <3>3
  <2>16. ~(InC /\ comm.current_req = r)
    <3> SUFFICES ASSUME InC, comm.current_req = r PROVE FALSE
      OBVIOUS
    <3>1. PICK i \in (Taken + 1)..d : made[i] = r
      BY <2>10
    <3>2. i \in 1..Len(made) /\ d + 1 \in 1..Len(made) /\ i # d + 1
      BY <2>2, <2>12, <2>14, <3>1
    <3> QED
      BY <2>4, <2>12, <3>1, <3>2
  <2>17. ~(InR /\ comm.current_req = r)
    <3> SUFFICES ASSUME InR, comm.current_req = r PROVE FALSE
      OBVIOUS
    <3>1. PICK i \in (e + 1)..Len(made) : made[i] = r
      BY <2>11
    <3>2. i \in 1..Len(made) /\ d + 1 \in 1..Len(made) /\ i # d + 1
      BY <2>2, <2>12, <2>14, <3>1
    <3> QED
      BY <2>4, <2>12, <3>1, <3>2
  <2>18. HeldAfter(Taken, r) = IF InC \/ InR \/ comm.current_req = r THEN 1 ELSE 0
    <3>1. CASE InC \/ InR \/ comm.current_req = r
      <4>1. \E i \in (Taken + 1)..Len(made) : made[i] = r
        <5>1. CASE InC
          <6>1. PICK i \in (Taken + 1)..d : made[i] = r
            BY <2>10, <5>1
          <6>2. i \in (Taken + 1)..Len(made)
            BY <2>2, <2>14
          <6> QED
            BY <6>1, <6>2
        <5>2. CASE InR
          <6>1. PICK i \in (e + 1)..Len(made) : made[i] = r
            BY <2>11, <5>2
          <6>2. i \in (Taken + 1)..Len(made)
            BY <2>2, <2>14
          <6> QED
            BY <6>1, <6>2
        <5>3. CASE comm.current_req = r
          <6>1. d + 1 \in (Taken + 1)..Len(made) /\ made[d + 1] = r
            BY <2>2, <2>12, <2>14, <5>3
          <6> QED
            BY <6>1
        <5> QED
          BY <3>1, <5>1, <5>2, <5>3
      <4> QED
        BY <3>1, <4>1 DEF HeldAfter
    <3>2. CASE ~(InC \/ InR \/ comm.current_req = r)
      BY <2>13, <3>2 DEF HeldAfter
    <3> QED
      BY <3>1, <3>2
  <2>19. Holders(r) = HeldAfter(Taken, r) /\ Holders(r) \in {0, 1}
    BY <2>9, <2>15, <2>16, <2>17, <2>18
  <2>20. comm.req[r].refcnt = HeldAfter(Taken, r) + WaitsFor(r)
    BY DEF IInv, Counted
  <2> QED
    BY <2>19, <2>20
<1> QED
  BY <1>1, Invariant, PTL
=============================================================================
