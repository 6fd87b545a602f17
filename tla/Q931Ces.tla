------------------------------- MODULE Q931Ces -------------------------------
(***************************************************************************)
(* The connection endpoint suffixes of libq931/ces.c: one small state      *)
(* machine for each terminal that answered a broadcast SETUP, kept in      *)
(* c.ces[t].  This module has what the call asks of a CES; the messages    *)
(* and timers of the CES call back into the call and are in Q931CallN.     *)
(*                                                                         *)
(* What a CES sends goes to its own terminal and changes nothing in the    *)
(* call: it is left out.  The terminals may do anything at any time.       *)
(***************************************************************************)
EXTENDS Q931Call

(* The terminals whose CES is in call->ces.                                *)
CesList(c) == {t \in TEs : c.ces[t].st # "none"}

CesGo(c, t, stop, start, st) ==
    [c EXCEPT !.ces[t].tm = (@ \ stop) \cup start, !.ces[t].st = st]

(* q931_ces_alloc does not clear its memory: T308_fired and senq_cnt start *)
(* with what junk says.                                                    *)
CesAlloc(c, t, junk) ==
    [c EXCEPT !.ces[t] = [st |-> "I0", tm |-> {}, fired |-> "fired" \in junk,
                          senq |-> IF "senq" \in junk THEN SenqMax ELSE 0]]

(* q931_ces_free: the timers are not stopped.  A pending one stays in the  *)
(* timer list with freed memory behind it (c.stale).                       *)
CesFree(c, t) == [c EXCEPT !.stale = @ \/ c.ces[t].tm # {}, !.ces[t] = NoCes]

(* The requests for a new CES: alerting, connect, call_proceeding and      *)
(* setup_ack; in any other state they are unexpected.                      *)
CesAnswer(c, t, st) ==
    IF c.ces[t].st # "I0" THEN c
    ELSE CesGo(c, t, {}, IF st = "I25" THEN {"T304"} ELSE {}, st)

Released(s) ==
    IF s.st \in {"none", "I19"} THEN s
    ELSE [s EXCEPT !.tm = (@ \ (IF s.st = "I25" THEN {"T304"} ELSE {}))
                              \cup {"T308"},
                   !.st = "I19"]
ces_release_request(c, t) == [c EXCEPT !.ces[t] = Released(@)]
CesReleaseAll(c) == [c EXCEPT !.ces = [t \in TEs |-> Released(c.ces[t])]]

(* q931_ces_status_enquiry_request looks at the T322 of the call.          *)
ces_status_enquiry_request(c, t) ==
    IF c.ces[t].st \in CesStates \ {"I0"} /\ "T322" \notin c.tm
    THEN [c EXCEPT !.ces[t].tm = @ \cup {"T322"}] ELSE c
=============================================================================
