------------------------------ MODULE VisdnLink ------------------------------
(***************************************************************************)
(* Two exchanges running chan_visdn and libq931, a network ("NT") and a    *)
(* user ("TE"), joined by a point-to-point D channel: one call between     *)
(* them, from its request to its end at both sides.                        *)
(*                                                                         *)
(* The data link is what DatalinkLink provides: messages arrive in order   *)
(* while it is established; its loss loses what is in transit, and each    *)
(* side learns of it for itself.                                           *)
(***************************************************************************)
EXTENDS ChanVisdn

CONSTANTS
    Services,   \* what Asterisk asks for: subset of {"SETUP", "RESUME"}
    Conditions, \* what Asterisk does with a channel, besides hanging up
    Occupied,   \* which channels other calls may use, as each side sees it
    MaxOps,     \* bound: how often it does so, at each side
    MaxFail     \* bound: failures of the data link

ASSUME ServicesAssumption == Services \subseteq {"SETUP", "RESUME"}
ASSUME BoundsAssumption == MaxOps \in Nat /\ MaxFail \in Nat
ASSUME PointToPoint == ~Multipoint /\ TEs = {}

Sides == {"NT", "TE"}

ASSUME OccupiedAssumption == Occupied \subseteq [Sides -> SUBSET Channels]

Peer(s) == IF s = "NT" THEN "TE" ELSE "NT"

VARIABLES
    ex,     \* the exchanges
    orig,   \* the side that placed the call, "none" before
    lapd,   \* LAPD's multiple frame operation, at each side
    wire,   \* what waits in each side's socket or is on its way there
    ops,    \* bound: what Asterisk did so far, at each side
    fails   \* bound: failures so far

vars == <<ex, orig, lapd, wire, ops, fails>>

(* Some channels may be in use by other calls; the two sides agree on      *)
(* them, but for a call that is just being set up or cleared.              *)
Init ==
    /\ \E used \in Occupied :
         ex = [s \in Sides |-> NewExchange(s, [ch \in Channels |->
                 IF ch \in used[s] THEN [st |-> "CONNECTED", own |-> "other"]
                 ELSE [st |-> "AVAILABLE", own |-> "none"]])]
    /\ orig = "none"
    /\ lapd = [s \in Sides |-> FALSE]
    /\ wire = [s \in Sides |-> <<>>]
    /\ ops = [s \in Sides |-> 0]
    /\ fails = 0

Alive(s) == ~ex[s].crash

(* What LAPD tells a side, in the place of a message.                      *)
Events == {"EST_CFM", "EST_IND", "REL_IND"}

----------------------------------------------------------------------------
(* Side s becomes x; what it sends reaches the other side if LAPD is       *)
(* established there too.  The end of the process ends the data link.      *)
Becomes(s, x) ==
    /\ ex' = [ex EXCEPT ![s] = [x EXCEPT !.out = <<>>]]
    /\ lapd' = [lapd EXCEPT ![s] = @ /\ ~x.crash]
    /\ wire' = [wire EXCEPT
                  ![Peer(s)] = IF lapd[Peer(s)] THEN @ \o x.out ELSE @]

(* The q931 thread, visdn_q931_thread_do_poll.  Timers run first, then     *)
(* poll() tells what is readable.  A message that will make a new call is  *)
(* taken to arrive when the Asterisk channel of the old one is gone.       *)
Serviceable(s) ==
    LET h == Head(wire[s])
    IN  \/ ex[s].call.listed
        \/ h.mt \in Events \cup {"RELEASE", "RELEASE_COMPLETE"}
        \/ ex[s].ast # "up" /\ ex[s].ind = <<>> /\ ex[s].rq = <<>>

Readable(s) ==
    (IF ex[s].ind # <<>> THEN {"ind"} ELSE {})
      \cup (IF ex[s].rq # <<>> THEN {"rq"} ELSE {})
      \cup (IF wire[s] # <<>> /\ Serviceable(s) THEN {"dlc"} ELSE {})

Poll(s) ==
    /\ Alive(s) /\ ex[s].pass = {} /\ Readable(s) # {}
    /\ ex' = [ex EXCEPT ![s].pass = Readable(s)]
    /\ UNCHANGED <<orig, lapd, wire, ops, fails>>

(* A queue is served until it is empty.                                    *)
Served(x, what, q) == [x EXCEPT !.pass = IF q = <<>> THEN @ \ {what} ELSE @]

Outcomes(p) ==
    [inband : IF p = "DISCONNECT_IND" THEN BOOLEAN ELSE {FALSE},
     digits : IF p = "MORE_INFO_IND" THEN BOOLEAN ELSE {FALSE},
     number : IF p = "SETUP_IND" THEN {"complete", "partial", "unknown"}
              ELSE {"complete"}]

ServeIndication(s) ==
    LET x == [ex[s] EXCEPT !.ind = Tail(@)]
        p == Head(ex[s].ind)
    IN  /\ Alive(s) /\ "ind" \in ex[s].pass
        /\ \E o \in Outcomes(p) :
             Becomes(s, Served(visdn_q931_ccb_receive(x, p, o), "ind", x.ind))
        /\ UNCHANGED <<orig, ops, fails>>

ServeRequest(s) ==
    LET x == [ex[s] EXCEPT !.rq = Tail(@)]
        c == ccb_dispatch(x.call, Head(ex[s].rq))
    IN  /\ Alive(s) /\ "rq" \in ex[s].pass /\ "ind" \notin ex[s].pass
        /\ Becomes(s, Served(CallStep(x, c, lapd[s]), "rq", x.rq))
        /\ UNCHANGED <<orig, ops, fails>>

(* A message as its receiver decodes it: a SETUP's channel is preferred    *)
(* only; PROGRESS says that the call is not end-to-end ISDN.               *)
Decoded(m) ==
    [mt |-> m.mt, ci |-> m.ci, cs |-> m.cs, ies |-> "good",
     excl |-> m.mt = "PROGRESS", resp |-> FALSE, te |-> NoTe, junk |-> {}]

ServeDlc(s) ==
    LET h == Head(wire[s])
        x == [ex[s] EXCEPT !.pass = {}]
        y == CASE h.mt = "EST_CFM" -> q931_dl_establish_confirm(x, lapd[s])
               [] h.mt = "EST_IND" -> q931_dl_establish_indication(x, lapd[s])
               [] h.mt = "REL_IND" -> q931_dl_release_indication(x, lapd[s])
               [] OTHER -> q931_receive(x, Decoded(h), s = orig, lapd[s])
    IN  /\ Alive(s) /\ ex[s].pass = {"dlc"}
        /\ IF Serviceable(s)
           THEN /\ ex' = [ex EXCEPT ![s] = [y EXCEPT !.out = <<>>]]
                /\ lapd' = [lapd EXCEPT ![s] = @ /\ ~y.crash]
                /\ wire' = [wire EXCEPT ![s] = Tail(@),
                              ![Peer(s)] = IF lapd[Peer(s)] THEN @ \o y.out ELSE @]
           ELSE ex' = [ex EXCEPT ![s] = x] /\ UNCHANGED <<lapd, wire>>
        /\ UNCHANGED <<orig, ops, fails>>

(* A timer lasts longer than it takes both sides to serve what is waiting. *)
Calm == \A s \in Sides : Alive(s) => ex[s].pass = {} /\ Readable(s) = {} /\ ~ex[s].conn

Timeout(s, t) ==
    /\ Alive(s) /\ t \in ex[s].call.tm /\ Calm
    /\ Becomes(s, CallStep(ex[s], timer(ex[s].call, t), lapd[s]))
    /\ UNCHANGED <<orig, ops, fails>>

----------------------------------------------------------------------------
(* The threads of Asterisk.                                                *)
Place(s, r) ==
    /\ Alive(s) /\ orig = "none" /\ (r = "RESUME" => s = "TE")
    /\ orig' = s
    /\ Becomes(s, visdn_call(ex[s], r))
    /\ UNCHANGED <<ops, fails>>

Does(x, a) ==
    CASE a = "ANSWER" -> visdn_answer(x)
      [] a = "DIGIT" -> visdn_send_digit(x)
      [] OTHER -> visdn_indicate(x, a)

Operate(s, a) ==
    /\ Alive(s) /\ ex[s].ast = "up" /\ ops[s] < MaxOps
    /\ Does(ex[s], a) # ex[s]
    /\ ops' = [ops EXCEPT ![s] = @ + 1]
    /\ Becomes(s, Does(ex[s], a))
    /\ UNCHANGED <<orig, fails>>

Hangup(s) ==
    /\ Alive(s) /\ ex[s].ast = "up"
    /\ Becomes(s, visdn_hangup(ex[s]))
    /\ UNCHANGED <<orig, ops, fails>>

----------------------------------------------------------------------------
(* The data link.                                                          *)
DlConnect(s) ==
    /\ ex[s].conn /\ \A r \in Sides : Alive(r)
    /\ ex' = [r \in Sides |-> [ex[r] EXCEPT !.conn = FALSE]]
    /\ lapd' = [r \in Sides |-> TRUE]
    /\ wire' = [r \in Sides |-> Append(wire[r],
                  Message(IF ex[r].conn THEN "EST_CFM" ELSE "EST_IND"))]
    /\ UNCHANGED <<orig, ops, fails>>

Lose(s) ==
    /\ lapd' = [lapd EXCEPT ![s] = FALSE]
    /\ wire' = [wire EXCEPT ![s] = Append(@, Message("REL_IND"))]

(* connect() gives up: no answer to N200 SABMEs.                           *)
DlConnectFails(s) ==
    /\ Alive(s) /\ ex[s].conn
    /\ \/ ~Alive(Peer(s)) /\ UNCHANGED fails
       \/ Alive(Peer(s)) /\ fails < MaxFail /\ fails' = fails + 1
    /\ ex' = [ex EXCEPT ![s].conn = FALSE]
    /\ Lose(s)
    /\ UNCHANGED <<orig, ops>>

(* How much of what waits for side s has certainly arrived: what LAPD told *)
(* it itself, and the message poll() saw.                                  *)
Arrived(s) ==
    LET seen == {i \in 1..Len(wire[s]) : wire[s][i].mt \in Events}
                  \cup (IF "dlc" \in ex[s].pass THEN {1} ELSE {0})
    IN  CHOOSE i \in seen : \A j \in seen : j <= i

(* The link is interrupted: what is in transit to either side is lost from *)
(* some message on, and side s notices.                                    *)
DlFails(s) ==
    /\ fails < MaxFail /\ Alive(s) /\ \A r \in Sides : lapd[r]
    /\ fails' = fails + 1
    /\ lapd' = [lapd EXCEPT ![s] = FALSE]
    /\ \E n \in Arrived("NT")..Len(wire["NT"]), u \in Arrived("TE")..Len(wire["TE"]) :
         wire' = [r \in Sides |->
            SubSeq(wire[r], 1, IF r = "NT" THEN n ELSE u)
              \o (IF r = s THEN <<Message("REL_IND")>> ELSE <<>>)]
    /\ UNCHANGED <<ex, orig, ops>>

(* The other side notices when its retransmissions fail.                   *)
DlNotices(s) ==
    /\ Alive(s) /\ lapd[s] /\ ~lapd[Peer(s)]
    /\ Lose(s)
    /\ UNCHANGED <<ex, orig, ops, fails>>

Next ==
    \/ \E s \in Sides : Poll(s)
    \/ \E s \in Sides : ServeIndication(s)
    \/ \E s \in Sides : ServeRequest(s)
    \/ \E s \in Sides : ServeDlc(s)
    \/ \E s \in Sides, t \in Timers : Timeout(s, t)
    \/ \E s \in Sides, r \in Services : Place(s, r)
    \/ \E s \in Sides, a \in Conditions : Operate(s, a)
    \/ \E s \in Sides : Hangup(s)
    \/ \E s \in Sides : DlConnect(s)
    \/ \E s \in Sides : DlConnectFails(s)
    \/ \E s \in Sides : DlFails(s)
    \/ \E s \in Sides : DlNotices(s)

(* Fairness: the q931 thread runs, timers expire, LAPD gets an answer or   *)
(* gives up, and Asterisk hangs up a channel it is told to.  Each conjunct *)
(* is the weak fairness of an action, Serve*, Timeout, Dl* or Hangup, with *)
(* the condition that enables it written out and its steps told by what    *)
(* they change.                                                            *)
Fairness ==
    \A s \in Sides :
        /\ \/ []<>~(Alive(s) /\ (ex[s].pass # {} \/ Readable(s) # {}))
           \/ []<><<\/ ex'[s].pass # ex[s].pass \/ ex'[s].ind # ex[s].ind
                    \/ ex'[s].rq # ex[s].rq>>_vars
        /\ \/ []<>~(Alive(s) /\ ex[s].call.tm # {} /\ Calm)
           \/ []<><<ex'[s].call # ex[s].call>>_vars
        /\ \/ []<>~(Alive(s) /\ (ex[s].conn \/ (lapd[s] /\ ~lapd[Peer(s)])))
           \/ []<><<lapd'[s] # lapd[s] \/ ex'[s].conn # ex[s].conn>>_vars
        /\ \/ []<>~(Alive(s) /\ ex[s].soft /\ ex[s].ast = "up")
           \/ []<><<ex'[s].ast # ex[s].ast>>_vars

Spec == Init /\ [][Next]_vars /\ Fairness

----------------------------------------------------------------------------
(* The shapes of the state.                                                *)
TypeOK ==
    /\ orig \in Sides \cup {"none"} /\ lapd \in [Sides -> BOOLEAN]
    /\ \A s \in Sides :
         /\ ex[s].call.st \in UStates \cup NStates
         /\ ex[s].call.ch \in Channels \cup {NoChan}
         /\ ex[s].rq \in Seq(Requests)
         /\ ex[s].ast \in {"none", "up", "gone"}
         /\ ex[s].dl \in {"down", "awaiting", "up"}
         /\ ex[s].pass \subseteq {"ind", "rq", "dlc"}

Active(s) == ex[s].call.listed /\ ex[s].call.st \in {"U10", "N10"}

(* Two sides that hold a call active hold it on the same channel, however  *)
(* their views of the free channels differed when it was set up: the       *)
(* answers of q931_channel_select_setup and q931_channel_select_response   *)
(* settle what the SETUP left open.                                        *)
ChannelsAgree ==
    (\A s \in Sides : Alive(s) /\ Active(s)) =>
        ex["NT"].call.ch = ex["TE"].call.ch

(* Nothing is on its way and nobody has anything to serve.                 *)
Settled ==
    /\ Calm /\ lapd["NT"] = lapd["TE"]
    /\ \A s \in Sides : Alive(s) /\ wire[s] = <<>>

(* Once everything sent is served the two sides are in the same state of   *)
(* the call (q931_call_state_to_ie_state), whatever crossed on the way.    *)
(* After a failure of the data link they may differ, but never for ever    *)
(* and unseen: a timer runs at one of them, or one still has the call      *)
(* active with an Asterisk channel that can be hung up.                    *)
StatesMirror ==
    Settled =>
        \/ IeState[ex["NT"].call.st] = IeState[ex["TE"].call.st]
        \/ /\ fails > 0
           /\ \E s \in Sides :
                ex[s].call.tm # {} \/ (Active(s) /\ ex[s].ast = "up")

(* When its call has ended, an Asterisk channel is hung up: one of the     *)
(* indications that reach chan_visdn sets _softhangup.                     *)
EndReachesAsterisk ==
    \A s \in Sides :
        orig # "none" /\ ~ex[s].call.listed ~> ex[s].ast # "up" \/ ex[s].crash

(* When an Asterisk channel is hung up its call ends, at this side even if *)
(* the data link fails: what visdn_hangup asks for, what is queued already *)
(* or a timer clears it.                                                   *)
HangupClearsCall ==
    \A s \in Sides :
        ex[s].ast = "gone" ~> ~ex[s].call.listed \/ ex[s].crash
=============================================================================
