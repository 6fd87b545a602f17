------------------------------ MODULE ChanVisdn ------------------------------
(***************************************************************************)
(* chan_visdn, the CCB of libq931: an exchange that joins one Q.931 call   *)
(* to one Asterisk channel.  Two kinds of thread share it.  The q931       *)
(* thread serves, in passes over what poll() found readable, the queue of  *)
(* primitives for the CCB, the queue of requests of the CCB and the data   *)
(* link; the threads of Asterisk call the channel's methods at any moment. *)
(*                                                                         *)
(* An exchange is a record; each C function is an operator from the        *)
(* exchange before to the exchange after it.  The module has no variables. *)
(*   role    intf->role; call: the call (Q931Call)                         *)
(*   ast     the Asterisk channel: "none" yet, "up" (call->pvt is set) or  *)
(*           "gone" (hung up, call->pvt is NULL)                           *)
(*   soft    _softhangup is set: Asterisk is to hang up                    *)
(*   heard   channel_has_been_connected                                    *)
(*   rq, ind ccb_q931_queue and q931_ccb_queue                             *)
(*   crash   a NULL pointer was followed or an assertion failed            *)
(*   dl      dlc->status; conn: connect() is in progress; outq:            *)
(*           dlc->outgoing_queue                                           *)
(*   out     what the step hands to the data link                          *)
(*   pass    what poll() found readable and is still to be served          *)
(*                                                                         *)
(* Left out: the media path, hunting, numbers, tones once they are started *)
(* (AST_CONTROL_BUSY of a failure tone asks an already disconnected call   *)
(* to disconnect), and suspended calls but for the refusal to resume one.  *)
(***************************************************************************)
EXTENDS Q931Dispatch

NewExchange(role, chans) ==
    [role |-> role, call |-> NewCall(role, chans, TRUE), ast |-> "none",
     soft |-> FALSE, heard |-> FALSE, rq |-> <<>>, ind |-> <<>>, crash |-> FALSE,
     dl |-> "down", conn |-> FALSE, outq |-> <<>>, out |-> <<>>, pass |-> {}]

Attached(x) == x.ast = "up"
Crash(x) == [x EXCEPT !.crash = TRUE]

(* q931_send_primitive: a request is queued for the q931 thread.           *)
Ask(x, r) == [x EXCEPT !.rq = Append(@, r)]

(* q931_call_primitive, through visdn_queue_primitive: what the step of    *)
(* the call told the CCB is queued.                                        *)
Queued(x, c) == [x EXCEPT !.call = [c EXCEPT !.tx = <<>>, !.up = <<>>],
                          !.ind = @ \o c.up, !.crash = @ \/ ~c.ok]

(* q931_send_message for each message c sent: on a data link that is down  *)
(* connect() is called first and the message is kept; connect() fails, and *)
(* the message is lost, when LAPD has established the link and the library *)
(* does not know yet.                                                      *)
SendMessage(x, m, lapdUp) ==
    CASE x.dl = "up" -> [x EXCEPT !.out = IF lapdUp THEN Append(@, m) ELSE @]
      [] x.dl = "down" /\ lapdUp -> [x EXCEPT !.dl = "awaiting"]
      [] OTHER -> [x EXCEPT !.conn = @ \/ x.dl = "down", !.dl = "awaiting",
                            !.outq = Append(@, m)]

Sent(x, ms, lapdUp) ==
    LET send[i \in 0..Len(ms)] ==
            IF i = 0 THEN x ELSE SendMessage(send[i - 1], ms[i], lapdUp)
    IN  send[Len(ms)]

(* A step of the call, with what it sends and tells.                       *)
CallStep(x, c, lapdUp) == Sent(Queued(x, c), c.tx, lapdUp)

----------------------------------------------------------------------------
(* The methods of the channel, called by Asterisk.                         *)

(* visdn_request_call and visdn_resume_call: a call is allocated and tied  *)
(* to the channel, and r is asked of it.                                   *)
visdn_call(x, r) == Ask([x EXCEPT !.ast = "up"], r)

visdn_answer(x) ==
    IF x.call.st \in {"U6", "U7", "U9", "U25", "N2", "N3", "N4"}
    THEN Ask(x, "SETUP_RESPONSE") ELSE x

visdn_indicate(x, condition) ==
    CASE condition = "RINGING" /\ x.call.st = "N1" ->
             Ask(Ask(x, "PROCEEDING"), "ALERTING")
      [] condition = "RINGING" /\ x.call.st \in {"N2", "N3", "U6", "U9", "U25"} ->
             Ask(x, "ALERTING")
      [] condition = "PROCEEDING" /\ x.call.st \in {"N1", "N2", "U6", "U25"} ->
             Ask(x, "PROCEEDING")
      [] condition = "PROGRESS" -> Ask(x, "PROGRESS")
      [] condition = "BUSY" -> Ask(x, "DISCONNECT")   \* also CONGESTION, DISCONNECT
      [] OTHER -> x

visdn_send_digit(x) ==
    IF x.call.st \in {"U3", "U4", "U10"} THEN x ELSE Ask(x, "INFO")

(* Mutants: an active call is forgotten; one that is alerting is.          *)
HangupForgets(x) ==
    LET y == CASE x.call.st \in {"U1", "U2", "U3", "U4", "U7", "U8", "U9", "U25",
                                 "N2", "N3", "N4", "N6", "N7", "N8", "N9", "N25"} ->
                      Ask(x, "DISCONNECT")
               [] x.call.st \in {"U12", "N11"} -> Ask(x, "RELEASE")
               [] OTHER -> x
    IN  [y EXCEPT !.ast = "gone", !.soft = FALSE]
HangupTooEarly(x) ==
    LET y == CASE x.call.st \in {"U1", "U2", "U8", "U9", "U10", "U25", "N2",
                                 "N3", "N6", "N8", "N9", "N10", "N25"} ->
                      Ask(x, "DISCONNECT")
               [] x.call.st \in {"U12", "N11"} -> Ask(x, "RELEASE")
               [] OTHER -> x
    IN  [y EXCEPT !.ast = "gone", !.soft = FALSE]

(* What is asked depends on the state the call is in now, not on the one   *)
(* it will be in when the request is served.                               *)
visdn_hangup(x) ==
    LET y == CASE x.call.st \in {"U1", "U2", "U3", "U4", "U7", "U8", "U9", "U10",
                                 "U25", "N2", "N3", "N4", "N6", "N7", "N8", "N9",
                                 "N10", "N15", "N25"} -> Ask(x, "DISCONNECT")
               [] x.call.st \in {"U12", "N11"} -> Ask(x, "RELEASE")
               [] OTHER -> x
    IN  [y EXCEPT !.ast = "gone", !.soft = FALSE]

----------------------------------------------------------------------------
(* The primitives of libq931, served by the q931 thread.                   *)

visdn_q931_connect_indication(x) == Ask(x, "SETUP_COMPLETE")

(* In-band information on a connected channel is listened to: the call is  *)
(* released when the caller hangs up.                                      *)
visdn_q931_disconnect_indication(x, inband) ==
    IF Attached(x) /\ ~(inband /\ x.heard) THEN Ask(x, "RELEASE") ELSE x

visdn_q931_more_info_indication(x, digits) ==
    IF Attached(x) /\ digits THEN Ask(x, "INFO") ELSE x

(* Mutant: Asterisk is not told.                                           *)
HangupUnasked(x) == x

(* visdn_hunt_next_or_hangup (not in a huntgroup), also for a RELEASE      *)
(* CONFIRM.                                                                *)
visdn_hunt_next_or_hangup(x) == IF Attached(x) THEN [x EXCEPT !.soft = TRUE] ELSE x

(* No call is suspended.                                                   *)
visdn_q931_resume_indication(x) == Ask(x, "RESUME_REJECT")

visdn_q931_setup_complete_indication(x) == IF Attached(x) THEN x ELSE Crash(x)

visdn_q931_setup_confirm(x) ==
    IF Attached(x) /\ x.role = "NT" THEN Ask(x, "SETUP_COMPLETE") ELSE x

(* A channel and a PBX thread for an incoming call whose number is         *)
(* complete, one that collects further digits, or a refusal.               *)
visdn_q931_setup_indication(x, number) ==
    LET y == IF Attached(x) THEN Crash(x)
             ELSE [x EXCEPT !.ast = "up", !.soft = FALSE, !.heard = FALSE]
    IN  CASE number = "complete" -> Ask(y, "PROCEEDING")
          [] number = "partial" -> Ask(y, "MORE_INFO")
          [] number = "unknown" -> visdn_hangup(Ask(y, "REJECT"))

(* The primitives about a channel carry its address, and find the call     *)
(* through it.                                                             *)
ChannelHasCall(x) == \E ch \in Channels : x.call.chans[ch].own = "call"

visdn_q931_connect_channel(x) ==
    IF ChannelHasCall(x) /\ Attached(x) THEN [x EXCEPT !.heard = TRUE] ELSE Crash(x)

visdn_q931_start_tone(x) == IF ChannelHasCall(x) THEN x ELSE Crash(x)

visdn_q931_stop_tone(x) ==
    IF ChannelHasCall(x) /\ ~Attached(x) THEN Crash(x) ELSE x

(* visdn_q931_ccb_receive: one primitive.  o is what the handler finds in  *)
(* the information elements and in the dialplan.                           *)
visdn_q931_ccb_receive(x, p, o) ==
    CASE p = "CONNECT_IND" -> visdn_q931_connect_indication(x)
      [] p = "DISCONNECT_IND" -> visdn_q931_disconnect_indication(x, o.inband)
      [] p = "MORE_INFO_IND" -> visdn_q931_more_info_indication(x, o.digits)
      [] p \in {"REJECT_IND", "RELEASE_IND", "RELEASE_CFM"} -> visdn_hunt_next_or_hangup(x)
      [] p = "RESUME_IND" -> visdn_q931_resume_indication(x)
      [] p = "SETUP_COMPLETE_IND" -> visdn_q931_setup_complete_indication(x)
      [] p = "SETUP_CFM" -> visdn_q931_setup_confirm(x)
      [] p = "SETUP_IND" -> visdn_q931_setup_indication(x, o.number)
      [] p = "CONNECT_CHANNEL" -> visdn_q931_connect_channel(x)
      [] p = "START_TONE" -> visdn_q931_start_tone(x)
      [] p = "STOP_TONE" -> visdn_q931_stop_tone(x)
      [] OTHER -> x   \* no effect here: RESUME CONFIRM and STATUS INDICATION too

----------------------------------------------------------------------------
(* The data link indications of libq931/input.c.                           *)

Flushed(x, lapdUp) ==
    [x EXCEPT !.out = IF lapdUp THEN @ \o x.outq ELSE @, !.outq = <<>>]

Listed(x, c) == IF x.call.listed THEN c ELSE x.call

q931_dl_establish_confirm(x, lapdUp) ==
    LET y == [x EXCEPT !.dl = "up"]
    IN  Flushed(CallStep(y, Listed(x, dl_establish_confirm(x.call)), lapdUp), lapdUp)

q931_dl_establish_indication(x, lapdUp) ==
    LET y == [x EXCEPT !.dl = "up"]
    IN  Flushed(CallStep(y, Listed(x, dl_establish_indication(x.call)), lapdUp), lapdUp)

(* An active call calls connect() but does not set the status; the queue   *)
(* of outgoing messages is kept.                                           *)
q931_dl_release_indication(x, lapdUp) ==
    LET c == Listed(x, dl_release_indication(x.call))
    IN  CallStep([x EXCEPT !.dl = "down",
                           !.conn = @ \/ (~lapdUp /\ c.tm \ x.call.tm # {})],
                 c, lapdUp)

(* q931_receive: a message for a call, or for a call reference that has    *)
(* none (any more); own is the call reference flag.                        *)
q931_receive(x, m, own, lapdUp) ==
    IF x.call.listed THEN CallStep(x, dispatch_message(x.call, m), lapdUp)
    ELSE LET left == [ch \in Channels |-> [x.call.chans[ch] EXCEPT
                          !.own = IF @ = "call" THEN "other" ELSE @]]
             fresh == NewCall(x.role, left, TRUE)
         IN  CallStep(x, receive_unknown(fresh, m, own), lapdUp)
=============================================================================
