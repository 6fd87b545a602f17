---------------------------- MODULE Q931Broadcast ----------------------------
(***************************************************************************)
(* A network's call offered to every terminal of a passive bus: the        *)
(* broadcast SETUP, a CES for each terminal that answers, the award of the *)
(* call to one of them and the release of the others.                      *)
(*                                                                         *)
(* The terminals, the CCB and the data links may do anything.  The model   *)
(* stops where the code fails an assertion (~call.ok) or has freed a CES   *)
(* with a timer pending (call.stale).                                      *)
(***************************************************************************)
EXTENDS Q931Dispatch

CONSTANTS
    CcbRequests,    \* what the CCB asks of a call it has set up
    Junk            \* what uninitialised memory may look like: see CesAlloc

ASSUME CcbAssumption == CcbRequests \subseteq Requests \ {"SETUP", "RESUME"}
ASSUME JunkAssumption == Junk \subseteq SUBSET {"fired", "senq"}
ASSUME BroadcastAssumption == Multipoint

VARIABLES
    call,
    told    \* history: the CCB knows that the call is over
vars == <<call, told>>

Free == [ch \in Channels |-> [st |-> "AVAILABLE", own |-> "none"]]

(* q931_call_alloc_out without a data link.                                *)
Init == call = NewCall("NT", Free, FALSE) /\ told = FALSE

Quiet(c) == [c EXCEPT !.tx = <<>>, !.up = <<>>]
Alive == call.ok /\ ~call.stale

(* The terminal the call was awarded to.                                   *)
Awarded(c) == IF c.dlc THEN c.presel ELSE NoTe

EndPrimitives == {"RELEASE_IND", "RELEASE_CFM", "REJECT_IND", "STATUS_IND"}
Hears(c) == told' = (told \/ \E i \in 1..Len(c.up) : c.up[i] \in EndPrimitives)
Becomes(c) == call' = c /\ Hears(c)

Originate ==
    /\ Alive /\ call.listed /\ call.st = "N0" /\ ~call.bc
    /\ Becomes(ccb_dispatch(Quiet(call), "SETUP"))

Request(r) ==
    /\ Alive /\ call.bc
    /\ call' = ccb_dispatch(Quiet(call), r)
    /\ told' = (told \/ (r = "SUSPEND_RESPONSE" /\ call.st = "N15")
                     \/ \E i \in 1..Len(call'.up) : call'.up[i] \in EndPrimitives)

Messages(t) ==
    LET m(mt, ies, ci, cs, resp, junk) ==
          [mt |-> mt, ies |-> ies, ci |-> ci, excl |-> FALSE, cs |-> cs,
           resp |-> resp, te |-> t, junk |-> junk]
        answers == {"ALERTING", "CALL_PROCEEDING", "CONNECT", "SETUP_ACKNOWLEDGE"}
    IN  {m(mt, ies, NoCI, NoState, FALSE, {}) :
             mt \in MessageTypes \ answers, ies \in {"good", "bad"}}
          \cup {m(mt, "good", ci, NoState, FALSE, junk) : mt \in answers,
             ci \in (SUBSET Channels) \cup {NoCI}, junk \in Junk}
          \cup {m("STATUS", "good", NoCI, cs, resp, {}) :
             cs \in {0, 10, IeState[call.st]}, resp \in BOOLEAN}

(* q931_receive: a message on the data link of a CES is for the CES, any   *)
(* other is for the call, whatever data link the call has.                 *)
Receive(t, m) ==
    /\ Alive /\ call.listed /\ call.bc
    /\ Becomes(IF t \in CesList(call) THEN ces_dispatch_message(Quiet(call), t, m)
               ELSE dispatch_message(Quiet(call), m))

(* T312 lasts two seconds more than T303, and is restarted with it.        *)
Timeout(t) ==
    /\ Alive /\ t \in call.tm
    /\ t = "T312" => "T303" \notin call.tm
    /\ Becomes(timer(Quiet(call), t))

ces_timer(c, t, x) ==
    LET d == [c EXCEPT !.ces[t].tm = @ \ {x}]
    IN  CASE x = "T304" -> ces_timer_T304(d, t)
          [] x = "T308" -> ces_timer_T308(d, t)
          [] x = "T322" -> ces_timer_T322(d, t)

CesTimeout(t, x) ==
    /\ Alive /\ x \in call.ces[t].tm
    /\ Becomes(ces_timer(Quiet(call), t, x))

(* q931_dl_establish_indication, _confirm and _release_indication for the  *)
(* data link of terminal t: its CES, then the call if it is its own.       *)
DlEstablishIndication(t) ==
    /\ Alive /\ call.listed /\ call.bc
    /\ LET c == ces_dl_establish_indication(Quiet(call), t)
       IN  Becomes(IF Awarded(c) = t THEN dl_establish_indication(c) ELSE c)

DlEstablishConfirm(t) ==
    /\ Alive /\ call.listed /\ call.bc /\ Awarded(call) = t
    /\ Becomes(dl_establish_confirm(Quiet(call)))

DlReleaseIndication(t) ==
    /\ Alive /\ call.listed /\ call.bc
    /\ LET c == ces_dl_release_indication(Quiet(call), t)
       IN  Becomes(IF Awarded(c) = t THEN dl_release_indication(c) ELSE c)

Next ==
    \/ Originate
    \/ \E r \in CcbRequests : Request(r)
    \/ \E t \in TEs : \E m \in Messages(t) : Receive(t, m)
    \/ \E t \in Timers : Timeout(t)
    \/ \E t \in TEs, x \in {"T304", "T308", "T322"} : CesTimeout(t, x)
    \/ \E t \in TEs : DlEstablishIndication(t)
    \/ \E t \in TEs : DlEstablishConfirm(t)
    \/ \E t \in TEs : DlReleaseIndication(t)

Spec == Init /\ [][Next]_vars

----------------------------------------------------------------------------
(* The shapes of the state.                                                *)
TypeOK ==
    /\ call.st \in UStates \cup NStates
    /\ call.tm \subseteq Timers
    /\ call.ch \in Channels \cup {NoChan}
    /\ call.chans \in [Channels -> [st : ChanStates, own : Owners]]
    /\ call.ces \in [TEs -> [st : CesStates \cup {"none"},
                             tm : SUBSET {"T304", "T308", "T322"},
                             fired : BOOLEAN, senq : 0..SenqMax]]
    /\ call.presel \in TEs \cup {NoTe}

(* While the award is pending the preselected terminal has a CES that has  *)
(* asked for the connection: the one q931_setup_complete_request takes the *)
(* data link from and frees.                                               *)
PreselectedConnects ==
    Alive /\ call.listed /\ call.st = "N8" =>
        call.presel \in TEs /\ call.ces[call.presel].st = "I8"

(* Once the call is awarded every other terminal that still has a CES is   *)
(* being released: one call, one terminal.                                 *)
LosersAreReleased ==
    Alive /\ call.listed /\ call.st = "N10" =>
        \A t \in CesList(call) : call.ces[t].st = "I19"

(* A terminal that is being released while the call goes on has its T308   *)
(* running, also when the CES was made only to be released.                *)
ReleaseIsSupervised ==
    Alive /\ call.listed /\ call.st \in {"N6", "N7", "N8", "N9", "N25", "N22"} =>
        \A t \in TEs : call.ces[t].st = "I19" => "T308" \in call.ces[t].tm

(* A broadcast call that was given up ends: either T312 runs and will look *)
(* at it, or a CES whose T308 runs will report when it is gone.            *)
AbortIsSupervised ==
    Alive /\ call.listed /\ call.st = "N22" =>
        \/ "T312" \in call.tm
        \/ \E t \in TEs : call.ces[t].st = "I19" /\ "T308" \in call.ces[t].tm

(* The call and its channel point to each other while terminals answer     *)
(* with channels of their own choice and are released again.               *)
ChannelTied ==
    Alive /\ call.listed =>
        \A ch \in Channels : call.chans[ch].own = "call" <=> call.ch = ch

(* A broadcast call never leaves the interface's list unless the CCB knows *)
(* that it is over.                                                        *)
EndIsTold == Alive /\ ~call.listed => told

(* The call is given to one terminal: the one that asked for it while the  *)
(* award is pending, and no other afterwards.                              *)
OneTerminalWins == PreselectedConnects /\ LosersAreReleased

(* What the network gives up it does not forget: neither a terminal it     *)
(* releases nor a call it has dropped.                                     *)
GivingUpIsSupervised == ReleaseIsSupervised /\ AbortIsSupervised

(* The end of the call is known to the CCB, and it is the end: a call that *)
(* has left the list stays as it is and tells nothing, though timers and   *)
(* the CES of terminals may outlive it.                                    *)
EndIsFinal ==
    [][/\ EndIsTold'
       /\ ~call.listed => call'.up = <<>> /\ call'.st = call.st]_vars
=============================================================================
