------------------------------- MODULE Q931Leg -------------------------------
(***************************************************************************)
(* One point-to-point call of libq931, of a user or of a network, against  *)
(* any CCB, any peer, any data link and any use of the B channels by other *)
(* calls.                                                                  *)
(*                                                                         *)
(* What a step sends and tells the CCB is in call.tx and call.up after     *)
(* that step only.  A step that fails an assertion is the last one.        *)
(***************************************************************************)
EXTENDS Q931Global

CONSTANT CcbRequests   \* what the CCB asks of a call it has or was given
ASSUME CcbAssumption == CcbRequests \subseteq Requests \ {"SETUP", "RESUME"}

(* A point-to-point interface.                                             *)
ASSUME PointToPoint == ~Multipoint

VARIABLES
    role,   \* intf->role: "NT" or "TE"
    call,   \* the call
    from,   \* who began it: "nobody" yet, the "ccb" or the "peer"
    dl,     \* dlc->status: "down", "awaiting" or "up"
    gc      \* intf->global_call

vars == <<role, call, from, dl, gc>>

Free == [ch \in Channels |-> [st |-> "AVAILABLE", own |-> "none"]]

Init ==
    /\ role \in {"NT", "TE"}
    /\ call = NewCall(role, Free, TRUE)
    /\ from = "nobody"
    /\ dl \in {"down", "up"}
    /\ gc = InitGlobal

Quiet(c) == [c EXCEPT !.tx = <<>>, !.up = <<>>]
Hushed(g) == [g EXCEPT !.tx = <<>>, !.up = <<>>]
GlobalIdle == gc' = Hushed(gc)

(* Sending on a data link that is down makes q931_send_message ask for its *)
(* establishment.                                                          *)
Linked(c) == dl' = IF dl = "down" /\ c.tx # <<>> THEN "awaiting" ELSE dl

Becomes(c) == call' = c /\ Linked(c)

----------------------------------------------------------------------------
(* The first step of a call.                                               *)
Originate(r) ==
    /\ call.ok /\ call.listed /\ call.st \in NullStates /\ from = "nobody"
    /\ Becomes(ccb_dispatch(Quiet(call), r))
    /\ from' = "ccb" /\ UNCHANGED role /\ GlobalIdle

Messages ==
    LET m(mt, ies, ci, excl, cs, resp) ==
          [mt |-> mt, ies |-> ies, ci |-> ci, excl |-> excl, cs |-> cs,
           resp |-> resp, te |-> NoTe, junk |-> {}]
        cis == (SUBSET Channels) \cup {NoCI}
    IN  {m(mt, ies, NoCI, FALSE, NoState, FALSE) :
             mt \in MessageTypes, ies \in {"good", "bad", "odd"}}
          \cup {m("SETUP", "good", ci, excl, NoState, FALSE) :
             ci \in cis, excl \in BOOLEAN}
          \cup {m(mt, "good", ci, FALSE, NoState, FALSE) : ci \in cis,
             mt \in {"ALERTING", "CALL_PROCEEDING", "CONNECT", "SETUP_ACKNOWLEDGE"}}
          \cup {m("PROGRESS", "good", NoCI, TRUE, NoState, FALSE)}
          \cup {m("STATUS", "good", NoCI, FALSE, cs, resp) :
             cs \in {0, 10, IeState[call.st]}, resp \in BOOLEAN}

(* A message with a call reference no call has.                            *)
Arrive(m) ==
    /\ call.ok /\ call.listed /\ call.st \in NullStates /\ from = "nobody"
    /\ dl = "up"
    /\ Becomes(receive_unknown(Quiet(call), m, FALSE))
    /\ from' = "peer" /\ UNCHANGED role /\ GlobalIdle

----------------------------------------------------------------------------
(* Requests reach a call also after its end: the CCB keeps a reference.    *)
Request(r) ==
    /\ call.ok /\ from # "nobody"
    /\ Becomes(ccb_dispatch(Quiet(call), r))
    /\ UNCHANGED <<role, from>> /\ GlobalIdle

Receive(m) ==
    /\ call.ok /\ call.listed /\ from # "nobody" /\ dl = "up"
    /\ Becomes(dispatch_message(Quiet(call), m))
    /\ UNCHANGED <<role, from>> /\ GlobalIdle

Timeout(t) ==
    /\ call.ok /\ t \in call.tm
    /\ Becomes(timer(Quiet(call), t))
    /\ UNCHANGED <<role, from>> /\ GlobalIdle

(* A message with the global call reference: of RESTART the channels       *)
(* count, of STATUS whether it agrees.                                     *)
GlobalMessages ==
    {[mt |-> "RESTART", ci |-> ci, cs |-> 0] :
         ci \in ((SUBSET Channels) \ {{}}) \cup {NoCI}}
      \cup {[mt |-> mt, ci |-> NoCI, cs |-> cs] : cs \in {0, 1},
         mt \in {"STATUS", "RESTART_ACKNOWLEDGE", "UNKNOWN"}}

ReceiveGlobal(m) ==
    /\ call.ok /\ dl = "up"
    /\ LET a == dispatch_global_message([c |-> Quiet(call), g |-> Hushed(gc)], m)
       IN call' = a.c /\ gc' = a.g
    /\ UNCHANGED <<role, from, dl>>

GlobalTimeout ==
    /\ call.ok /\ gc.t317
    /\ gc' = global_timer_T317(Hushed(gc))
    /\ Linked(gc')
    /\ call' = Quiet(call)
    /\ UNCHANGED <<role, from>>

DlEstablishIndication ==
    /\ call.ok /\ call.listed /\ from # "nobody"
    /\ call' = dl_establish_indication(Quiet(call))
    /\ dl' = "up"
    /\ UNCHANGED <<role, from>> /\ GlobalIdle

DlEstablishConfirm ==
    /\ call.ok /\ call.listed /\ from # "nobody" /\ dl = "awaiting"
    /\ call' = dl_establish_confirm(Quiet(call))
    /\ dl' = "up"
    /\ UNCHANGED <<role, from>> /\ GlobalIdle

(* An active call asks for the data link again, under T309.                *)
DlReleaseIndication ==
    /\ call.ok /\ call.listed /\ from # "nobody" /\ dl # "down"
    /\ call' = dl_release_indication(Quiet(call))
    /\ dl' = IF call'.tm \ call.tm # {} THEN "awaiting" ELSE "down"
    /\ UNCHANGED <<role, from>> /\ GlobalIdle

(* Other calls of the interface take and free channels.                    *)
OtherTakes(ch) ==
    /\ call.ok /\ ch \in Available(call)
    /\ call' = [Quiet(call) EXCEPT !.chans[ch] = [st |-> "SELECTED", own |-> "other"]]
    /\ UNCHANGED <<role, from, dl>> /\ GlobalIdle

OtherFrees(ch) ==
    /\ call.ok /\ call.chans[ch].own = "other"
    /\ call' = [Quiet(call) EXCEPT !.chans[ch] = [st |-> "AVAILABLE", own |-> "none"]]
    /\ UNCHANGED <<role, from, dl>> /\ GlobalIdle

Next ==
    \/ \E r \in {"SETUP", "RESUME"} : Originate(r)
    \/ \E m \in Messages : Arrive(m)
    \/ \E r \in CcbRequests : Request(r)
    \/ \E m \in Messages : Receive(m)
    \/ \E t \in Timers : Timeout(t)
    \/ \E m \in GlobalMessages : ReceiveGlobal(m)
    \/ GlobalTimeout
    \/ DlEstablishIndication
    \/ DlEstablishConfirm
    \/ DlReleaseIndication
    \/ \E ch \in Channels : OtherTakes(ch)
    \/ \E ch \in Channels : OtherFrees(ch)

Spec == Init /\ [][Next]_vars

----------------------------------------------------------------------------
(* The shapes of the state.                                                *)
TypeOK ==
    /\ role \in {"NT", "TE"}
    /\ call.st \in UStates \cup NStates
    /\ call.tm \subseteq Timers
    /\ call.ch \in Channels \cup {NoChan}
    /\ call.chans \in [Channels -> [st : ChanStates, own : Owners]]
    /\ call.senq \in 0..SenqMax
    /\ {call.f303, call.f308, call.rcr, call.dis, call.listed, call.ok} \subseteq BOOLEAN
    /\ from \in {"nobody", "ccb", "peer"} /\ dl \in {"down", "awaiting", "up"}
    /\ gc.st \in GlobalStates /\ gc.t317 \in BOOLEAN
    /\ gc.reqd \cup gc.acked \subseteq Channels

(* The timer that bounds the wait of each state in which the call waits    *)
(* for its peer.  (U1 and U15 are not among them: an unacceptable channel  *)
(* leaves U1 without T303, and T319 does nothing in U15.)                  *)
Supervisor ==
    [U8 |-> {"T313"}, U11 |-> {"T305"}, U17 |-> {"T318"}, U19 |-> {"T308"},
     N6 |-> {"T303"}, N7 |-> {"T301"}, N12 |-> {"T305", "T306"},
     N19 |-> {"T308"}, N25 |-> {"T304"}]

(* Whatever sequence of requests, messages and timers led there, a call    *)
(* that waits for its peer has the timer of its state running: no path     *)
(* through the handlers of call.c enters such a state, or stops its timer, *)
(* without the other half.                                                 *)
WaitsAreSupervised ==
    call.ok /\ call.listed /\ call.st \in DOMAIN Supervisor
        => call.tm \cap Supervisor[call.st] # {}

(* A call that is active while its data link is not established runs T309: *)
(* q931_call_dl_release_indication starts it, and only the confirmation of *)
(* the re-establishment stops it.                                          *)
DlLossIsSupervised ==
    call.ok /\ call.listed /\ call.st \in {"U10", "N10"} /\ dl # "up"
        => "T309" \in call.tm

(* At the network a call and its channel point to each other, so that      *)
(* q931_channel_release frees this call's channel and clears this call's   *)
(* pointer.  (A user does not take the channel of a SETUP out of the       *)
(* available ones, and two calls may point to it.)                         *)
NetworkChannelTied ==
    call.ok /\ call.listed /\ role = "NT" =>
        \A ch \in Channels : call.chans[ch].own = "call" <=> call.ch = ch

Clearing == {"U11", "U12", "U19", "N11", "N12", "N19", "N22"}

(* A call whose clearing has begun is never active again, whatever request *)
(* or message of the set-up crosses it.                                    *)
ClearingIsFinal ==
    [][call.st \in Clearing => call'.st \in Clearing \cup NullStates]_vars

(* No call leaves the interface's list in silence: the CCB is told that it *)
(* ended in the same step, unless the step is the CCB's own refusal of a   *)
(* call it was offered.                                                    *)
EndIsReported ==
    [][call.listed /\ ~call'.listed /\ call'.ok /\ call.st \notin NullStates
         => \/ \E i \in 1..Len(call'.up) : call'.up[i] \in
                  {"RELEASE_IND", "RELEASE_CFM", "REJECT_IND", "STATUS_IND",
                   "SUSPEND_CFM", "RESUME_CFM"}
            \/ call.st \in {"U6", "N1", "N15", "N17"} /\ call'.tx # <<>>]_vars

(* A call that has left the list stays as it is and tells nothing: late    *)
(* requests of a CCB that still holds a reference find it in the null      *)
(* state, and no timer is left to wake it in another.                      *)
GoneIsSilent ==
    [][~call.listed => call'.up = <<>> /\ call'.st = call.st]_vars

(* A RESTART is answered by the step that takes it: each call on a channel *)
(* gives up that very channel and confirms it, so the global call never    *)
(* stays in RESTART for T317, which would tell the peer a RESTART of its   *)
(* own (global.c, q931_global_restart_confirm; call.c,                     *)
(* q931_restart_request).                                                  *)
RestartCompletes == call.ok => gc.st = "NULL"

(* The acknowledgement of a RESTART is true: in the step that sends it     *)
(* every channel it names is available and belongs to no call, whatever    *)
(* call it was taken from.                                                 *)
RestartedAreFree ==
    [][\A i \in DOMAIN gc'.tx :
          gc'.tx[i].mt = "RESTART_ACKNOWLEDGE" /\ call'.ok =>
             \A ch \in gc'.tx[i].chans :
                call'.chans[ch] = [st |-> "AVAILABLE", own |-> "none"]]_vars

(* No wait is unbounded: neither for an answer of the peer nor for the     *)
(* data link of an active call.                                            *)
CallIsSupervised == WaitsAreSupervised /\ DlLossIsSupervised

(* What has begun to end ends: the states of clearing lead only to the     *)
(* null state, and nothing leads out of that.                              *)
EndIsFinal == ClearingIsFinal /\ GoneIsSilent

(* A RESTART is answered at once and truthfully, whatever calls it finds   *)
(* on the channels it names.                                               *)
RestartIsAnswered == []RestartCompletes /\ RestartedAreFree
=============================================================================
