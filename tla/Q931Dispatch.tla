---------------------------- MODULE Q931Dispatch ----------------------------
(***************************************************************************)
(* The entry points of libq931 for one call: q931_ccb_dispatch for the     *)
(* requests of the CCB, q931_dispatch_message for a message whose call is  *)
(* known, the timer handlers, and the data link indications.  The switch   *)
(* over the call state of every C function is split in its N and its U     *)
(* cases; a user's call that was put into a network state is served by the *)
(* N cases.                                                                *)
(***************************************************************************)
EXTENDS Q931CallU

Requests ==
    {"ALERTING", "DISCONNECT", "INFO", "MORE_INFO", "NOTIFY", "PROCEEDING",
     "PROGRESS", "REJECT", "RELEASE", "RESUME", "RESUME_REJECT",
     "RESUME_RESPONSE", "SETUP_COMPLETE", "SETUP", "SETUP_RESPONSE",
     "STATUS_ENQUIRY", "SUSPEND_REJECT", "SUSPEND_RESPONSE", "SUSPEND"}

MessageTypes ==
    {"ALERTING", "CALL_PROCEEDING", "CONNECT", "CONNECT_ACKNOWLEDGE", "PROGRESS",
     "SETUP", "SETUP_ACKNOWLEDGE", "DISCONNECT", "RELEASE", "RELEASE_COMPLETE",
     "STATUS", "STATUS_ENQUIRY", "INFORMATION", "NOTIFY", "RESUME",
     "RESUME_ACKNOWLEDGE", "RESUME_REJECT", "SUSPEND", "SUSPEND_ACKNOWLEDGE",
     "SUSPEND_REJECT", "UNKNOWN"}

N_ccb_dispatch(c, r) ==
    CASE r = "ALERTING" -> N_alerting_request(c)
      [] r = "DISCONNECT" -> N_disconnect_request(c)
      [] r = "INFO" -> N_info_request(c)
      [] r = "MORE_INFO" -> N_more_info_request(c)
      [] r = "NOTIFY" -> N_notify_request(c)
      [] r = "PROCEEDING" -> N_proceeding_request(c)
      [] r = "PROGRESS" -> N_progress_request(c)
      [] r = "REJECT" -> N_reject_request(c)
      [] r = "RELEASE" -> N_release_request(c)
      [] r = "RESUME_REJECT" -> N_resume_reject_request(c)
      [] r = "RESUME_RESPONSE" -> N_resume_response(c)
      [] r = "SETUP_COMPLETE" -> N_setup_complete_request(c)
      [] r = "SETUP" -> N_setup_request(c)
      [] r = "SETUP_RESPONSE" -> N_setup_response(c)
      [] r = "STATUS_ENQUIRY" -> N_status_enquiry_request(c)
      [] r = "SUSPEND_REJECT" -> N_suspend_reject_request(c)
      [] r = "SUSPEND_RESPONSE" -> N_suspend_response(c)
      [] OTHER -> c     \* RESUME, SUSPEND: requests of a user only

U_ccb_dispatch(c, r) ==
    CASE r = "ALERTING" -> U_alerting_request(c)
      [] r = "DISCONNECT" -> U_disconnect_request(c)
      [] r = "INFO" -> U_info_request(c)
      [] r = "MORE_INFO" -> U_more_info_request(c)
      [] r = "NOTIFY" -> U_notify_request(c)
      [] r = "PROCEEDING" -> U_proceeding_request(c)
      [] r = "PROGRESS" -> U_progress_request(c)
      [] r = "REJECT" -> U_reject_request(c)
      [] r = "RELEASE" -> U_release_request(c)
      [] r = "RESUME" -> U_resume_request(c)
      [] r = "SETUP" -> U_setup_request(c)
      [] r = "SETUP_RESPONSE" -> U_setup_response(c)
      [] r = "STATUS_ENQUIRY" -> U_status_enquiry_request(c)
      [] r = "SUSPEND" -> U_suspend_request(c)
      [] OTHER -> c     \* requests of a network only

ccb_dispatch(c, r) ==
    IF c.st \in NStates THEN N_ccb_dispatch(c, r) ELSE U_ccb_dispatch(c, r)

restart_request(c) ==
    IF c.st \in NStates THEN N_restart_request(c) ELSE U_restart_request(c)

(* q931_dispatch_message.                                                  *)
N_dispatch_message(c, m) ==
    CASE m.mt = "ALERTING" -> N_handle_alerting(c, m)
      [] m.mt = "CALL_PROCEEDING" -> N_handle_call_proceeding(c, m)
      [] m.mt = "CONNECT" -> N_handle_connect(c, m)
      [] m.mt = "CONNECT_ACKNOWLEDGE" -> N_handle_connect_acknowledge(c)
      [] m.mt = "PROGRESS" -> N_handle_progress(c, m)
      [] m.mt = "SETUP" -> N_handle_setup(c, m)
      [] m.mt = "SETUP_ACKNOWLEDGE" -> N_handle_setup_acknowledge(c, m)
      [] m.mt = "DISCONNECT" -> N_handle_disconnect(c, m)
      [] m.mt = "RELEASE" -> N_handle_release(c, m)
      [] m.mt = "RELEASE_COMPLETE" -> N_handle_release_complete(c, m)
      [] m.mt = "STATUS" -> N_handle_status(c, m)
      [] m.mt = "STATUS_ENQUIRY" -> handle_status_enquiry(c)
      [] m.mt = "INFORMATION" -> N_handle_info(c, m)
      [] m.mt = "NOTIFY" -> N_handle_notify(c, m)
      [] m.mt = "RESUME" -> N_handle_resume(c, m)
      [] m.mt = "SUSPEND" -> N_handle_suspend(c, m)
      [] m.mt = "UNKNOWN" -> N_handle_unknown(c)
      [] OTHER -> NotCompatible(c)   \* answers to a user's SUSPEND or RESUME

U_dispatch_message(c, m) ==
    CASE m.mt = "ALERTING" -> U_handle_alerting(c, m)
      [] m.mt = "CALL_PROCEEDING" -> U_handle_call_proceeding(c, m)
      [] m.mt = "CONNECT" -> U_handle_connect(c, m)
      [] m.mt = "CONNECT_ACKNOWLEDGE" -> U_handle_connect_acknowledge(c, m)
      [] m.mt = "PROGRESS" -> U_handle_progress(c, m)
      [] m.mt = "SETUP" -> U_handle_setup(c, m)
      [] m.mt = "SETUP_ACKNOWLEDGE" -> U_handle_setup_acknowledge(c, m)
      [] m.mt = "DISCONNECT" -> U_handle_disconnect(c, m)
      [] m.mt = "RELEASE" -> U_handle_release(c, m)
      [] m.mt = "RELEASE_COMPLETE" -> U_handle_release_complete(c, m)
      [] m.mt = "STATUS" -> U_handle_status(c, m)
      [] m.mt = "STATUS_ENQUIRY" -> handle_status_enquiry(c)
      [] m.mt = "INFORMATION" -> U_handle_info(c, m)
      [] m.mt = "NOTIFY" -> U_handle_notify(c, m)
      [] m.mt = "RESUME_ACKNOWLEDGE" -> U_handle_resume_acknowledge(c, m)
      [] m.mt = "RESUME_REJECT" -> U_handle_resume_reject(c, m)
      [] m.mt = "SUSPEND_ACKNOWLEDGE" -> U_handle_suspend_acknowledge(c, m)
      [] m.mt = "SUSPEND_REJECT" -> U_handle_suspend_reject(c, m)
      [] m.mt = "UNKNOWN" -> U_handle_unknown(c)
      [] OTHER -> NotCompatible(c)   \* SUSPEND and RESUME, for a network only

dispatch_message(c, m) ==
    IF c.st \in NStates THEN N_dispatch_message(c, m) ELSE U_dispatch_message(c, m)

(* Timer t expires: it is no longer pending when its handler runs.         *)
timer(c0, t) ==
    LET c == Stop(c0, {t})
        net == c.st \in NStates
    IN  CASE t = "T301" -> N_timer_T301(c)
          [] t = "T302" -> IF net THEN N_timer_T302(c) ELSE U_timer_T302(c)
          [] t = "T303" -> IF net THEN N_timer_T303(c) ELSE U_timer_T303(c)
          [] t = "T304" -> IF net THEN N_timer_T304(c) ELSE U_timer_T304(c)
          [] t = "T305" -> IF net THEN N_timer_T305(c) ELSE U_timer_T305(c)
          [] t = "T306" -> N_timer_T306(c)
          [] t = "T308" -> IF net THEN N_timer_T308(c) ELSE U_timer_T308(c)
          [] t = "T309" -> IF net THEN N_timer_T309(c) ELSE U_timer_T309(c)
          [] t = "T310" -> N_timer_T310(c)
          [] t = "T312" -> N_timer_T312(c)
          [] t = "T313" -> U_timer_T313(c)
          [] t = "T318" -> U_timer_T318(c)
          [] t = "T319" -> N_timer_T319(c)
          [] t = "T322" -> timer_T322(c)

dl_establish_indication(c) ==
    IF c.st \in NStates THEN N_dl_establish_indication(c) ELSE U_dl_establish_indication(c)
dl_establish_confirm(c) ==
    IF c.st \in NStates THEN N_dl_establish_confirm(c) ELSE U_dl_establish_confirm(c)
dl_release_indication(c) ==
    IF c.st \in NStates THEN N_dl_release_indication(c) ELSE U_dl_release_indication(c)

(* q931_receive for a call reference that no call has: what a new call     *)
(* does with the message.  toOrig is the call reference flag.              *)
receive_unknown(c, m, toOrig) ==
    CASE m.mt = "RELEASE" -> ReleaseReference(Send(c, "RELEASE_COMPLETE"))
      [] m.mt = "RELEASE_COMPLETE" -> ReleaseReference(c)
      [] m.mt \in {"SETUP", "RESUME"} /\ toOrig -> ReleaseReference(c)
      [] (m.mt \in {"SETUP", "RESUME"} /\ ~toOrig) \/ m.mt = "STATUS" ->
             dispatch_message(c, m)
      [] OTHER -> Go(Send(c, "RELEASE"), {}, {"T308"},
                     IF c.st = "N0" THEN "N19" ELSE "U19")
=============================================================================
