----------------------------- MODULE Q931Global -----------------------------
(***************************************************************************)
(* The global call of an interface (libq931/global.c): the peer restarts   *)
(* channels, and the calls on them are cleared before it gets its          *)
(* acknowledgement.                                                        *)
(*                                                                         *)
(* Its state is a record g; g.tx and g.up are what the last step sent and  *)
(* told.  The state RESTART REQUEST is left out: nothing compiled calls    *)
(* q931_management_restart_request.                                        *)
(***************************************************************************)
EXTENDS Q931Dispatch

(* An interface has a last channel.                                        *)
ASSUME LastAssumption == \E n \in Channels : \A ch \in Channels : ch <= n
LastChannel == CHOOSE n \in Channels : \A ch \in Channels : ch <= n

(* q931_global_init: struct q931_global_call.                              *)
InitGlobal ==
    [st |-> "NULL", t317 |-> FALSE, reqd |-> {}, acked |-> {},
     tx |-> <<>>, up |-> <<>>]

GlobalStates == {"NULL", "RESTART"}

GlobalSend(g, mt, chs) ==
    [g EXCEPT !.tx = Append(@, [mt |-> mt, chans |-> chs])]

(* q931_global_restart_confirm, for a channel or for none.                 *)
restart_confirm(g, ch) ==
    LET named == {ch} \ {NoChan}
        g1 == [g EXCEPT !.reqd = @ \ named, !.acked = @ \cup named]
    IN IF g.st = "NULL" THEN g
       ELSE IF g1.reqd # {} THEN g1
       ELSE GlobalSend([g1 EXCEPT !.t317 = FALSE, !.st = "NULL"],
                       "RESTART_ACKNOWLEDGE", g1.acked)

(* Mutant: the channels are confirmed and the calls left alone.            *)
RestartKeepsCalls(a, ch) == [a EXCEPT !.g = restart_confirm(@, ch)]

(* The calls on one channel of a RESTART: the modelled call, another one   *)
(* or none.  T317 is started after the call was cleared, also when that    *)
(* was the last one.  A channel may still point to a call that has left    *)
(* the interface (refused in U6): the step that uses it is the last.       *)
RestartChannel(a, ch) ==
    LET own == a.c.chans[ch].own
    IN CASE own = "none" -> [a EXCEPT !.g = restart_confirm(@, ch)]
         [] own = "call" ->
              [c |-> IF a.c.listed THEN restart_request(a.c)
                                   ELSE Assert_(a.c, FALSE),
               g |-> [restart_confirm(a.g, a.c.ch) EXCEPT !.t317 = TRUE]]
         [] own = "other" ->
              [c |-> [a.c EXCEPT !.chans[ch] = [st |-> "AVAILABLE",
                                                own |-> "none"]],
               g |-> [restart_confirm(a.g, ch) EXCEPT !.t317 = TRUE]]

(* q931_channel_is_restartable.                                            *)
Restartable(c, ch) == c.chans[ch].st # "MAINTAINANCE"

(* The loop over the channels of reqd in their order: what it has made of  *)
(* begun when it has passed the channels below n.                          *)
Restarted(begun, reqd) ==
    LET passed[n \in Nat] ==
          IF n = 0 THEN begun
          ELSE IF n - 1 \in reqd THEN RestartChannel(passed[n - 1], n - 1)
          ELSE passed[n - 1]
    IN  passed

(* q931_global_handle_restart, of the channels named or of all.            *)
handle_restart(a, ci) ==
    LET chs == IF ci = NoCI THEN Channels ELSE ci
        reqd == {ch \in chs : Restartable(a.c, ch)}
        begun == [a EXCEPT !.g.st = "RESTART", !.g.reqd = reqd,
                           !.g.acked = {}]
    IN IF a.g.st # "NULL" THEN [a EXCEPT !.g = GlobalSend(@, "STATUS", {})]
       ELSE IF reqd = {}
       THEN [a EXCEPT !.g = GlobalSend([@ EXCEPT !.reqd = {}, !.acked = {}],
                                       "STATUS", {})]
       ELSE Restarted(begun, reqd)[LastChannel + 1]

(* q931_global_handle_status.                                              *)
global_handle_status(g, agrees) ==
    IF g.st = "NULL" \/ agrees THEN g
    ELSE [g EXCEPT !.up = Append(@, "STATUS_MANAGEMENT_IND")]

(* q931_dispatch_global_message; an acknowledgement is not expected.       *)
dispatch_global_message(a, m) ==
    CASE m.mt = "RESTART" -> handle_restart(a, m.ci)
      [] m.mt = "STATUS" -> [a EXCEPT !.g = global_handle_status(@, m.cs = 0)]
      [] OTHER -> [a EXCEPT !.g = GlobalSend(@, "STATUS", {})]

(* q931_global_timer_T317.  What was restarted is told to the peer in a    *)
(* RESTART.                                                                *)
global_timer_T317(g) ==
    LET g1 == [g EXCEPT !.t317 = FALSE]
    IN IF g.st = "NULL" THEN g1
       ELSE [(IF g.acked = {} THEN g1 ELSE GlobalSend(g1, "RESTART", g.acked))
               EXCEPT !.st = "NULL",
                      !.up = Append(@, "TIMEOUT_MANAGEMENT_IND")]
=============================================================================
