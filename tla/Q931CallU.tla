------------------------------ MODULE Q931CallU ------------------------------
(***************************************************************************)
(* The user side of libq931/call.c: what each request of the CCB, each     *)
(* message, each timer and each data link indication does to a call whose  *)
(* state is a user state.  Conventions as in Q931CallN.                    *)
(***************************************************************************)
EXTENDS Q931CallN

(* Back to the null state, the channel freed, the call unlisted.           *)
ToU0(c) == ReleaseReference(SetState(ChanRelease(c), "U0"))

(* Unlisted without touching the channel.                                  *)
DropU(c) == ReleaseReference(SetState(c, "U0"))

DisconnectU(c, stop) ==
    Go(Send(ChanDisconnect(c), "DISCONNECT"), stop, {"T305"}, "U11")
ReleaseU(c, stop) == Go(Send(c, "RELEASE"), stop, {"T308"}, "U19")

(* q931_channel_control connects the channel.                              *)
ChanControl(c) == ChanConnect(c)

----------------------------------------------------------------------------
(* Requests of the CCB.                                                    *)

U_alerting_request(c) ==
    CASE c.st = "U6" -> SetState(SendWithChannel(c, "ALERTING"), "U7")
      [] c.st \in {"U8", "U9"} -> SetState(Send(c, "ALERTING"), "U7")
      [] c.st = "U25" -> Go(Send(c, "ALERTING"), {"T302"}, {}, "U7")
      [] OTHER -> c

(* In U6 a disconnection is unexpected; in U1 the channel, which an        *)
(* unacceptable answer may have left behind, is not looked at.             *)
U_disconnect_request(c0) ==
    LET c == [c0 EXCEPT !.dis = TRUE]
    IN  CASE c.st = "U1" -> Go(Send(c, "DISCONNECT"), {"T303"}, {"T305"}, "U11")
          [] c.st = "U2" -> DisconnectU(c, {"T304"})
          [] c.st = "U8" -> DisconnectU(c, {"T313"})
          [] c.st = "U25" -> DisconnectU(c, {"T302"})
          [] c.st \in {"U3", "U4", "U7", "U9", "U10"} -> DisconnectU(c, {})
          [] OTHER -> c

U_info_request(c) ==
    IF c.st \in {"U2", "U3", "U4", "U7", "U8", "U9", "U10", "U11", "U12", "U25"}
    THEN Send(c, "INFORMATION") ELSE c

U_more_info_request(c) ==
    IF c.st = "U6"
    THEN Go(SendWithChannel(c, "SETUP_ACKNOWLEDGE"), {}, {"T302"}, "U25") ELSE c

U_notify_request(c) == IF c.st = "U10" THEN Send(c, "NOTIFY") ELSE c

U_proceeding_request(c) ==
    CASE c.st = "U6" -> SetState(SendWithChannel(c, "CALL_PROCEEDING"), "U9")
      [] c.st = "U25" -> Go(Send(c, "CALL_PROCEEDING"), {"T302"}, {}, "U9")
      [] OTHER -> c

U_progress_request(c) ==
    CASE c.st \in {"U7", "U8"} -> Send(c, "PROGRESS")
      [] c.st = "U25" -> Send(Stop(c, {"T302"}), "PROGRESS")
      [] OTHER -> c

(* "Release channel ??": it stays tied to the call.                        *)
U_reject_request(c) ==
    IF c.st = "U6" THEN DropU(Send(c, "RELEASE_COMPLETE")) ELSE c

U_release_request(c) == IF c.st = "U12" THEN ReleaseU(ChanDisconnect(c), {}) ELSE c

U_resume_request(c) ==
    IF c.st = "U0" THEN Go(Send(c, "RESUME"), {}, {"T318"}, "U17") ELSE c

U_setup_request(c) ==
    IF c.st = "U0" THEN Go(Send(c, "SETUP"), {}, {"T303"}, "U1") ELSE c

U_setup_response(c) ==
    CASE c.st = "U6" -> Go(SendWithChannel(c, "CONNECT"), {}, {"T313"}, "U8")
      [] c.st \in {"U7", "U9"} -> Go(Send(c, "CONNECT"), {}, {"T313"}, "U8")
      [] c.st = "U25" -> Go(Send(c, "CONNECT"), {"T302"}, {"T313"}, "U8")
      [] OTHER -> c

U_suspend_request(c) ==
    IF c.st = "U10" THEN Go(Send(c, "SUSPEND"), {}, {"T319"}, "U15") ELSE c

U_status_enquiry_request(c) == StatusEnquiry(c)

U_restart_request(c) == Tell(ToU0(StopAnyTimer(c)), "RELEASE_IND")

----------------------------------------------------------------------------
(* Timers.                                                                 *)

U_timer_T302(c) == IF c.st = "U25" THEN Tell(c, "INFO_IND") ELSE c

U_timer_T303(c) ==
    LET d == CASE c.st # "U1" -> c
               [] c.st = "U1" /\ ~c.f303 -> Start(Send(c, "SETUP"), "T303")
               [] OTHER -> DropU(Send(Tell(c, "RELEASE_IND"), "RELEASE_COMPLETE"))
    IN  [d EXCEPT !.f303 = TRUE]

U_timer_T304(c) ==
    IF c.st = "U2" THEN Tell(DisconnectU(c, {}), "SETUP_CFM") ELSE c

U_timer_T305(c) == IF c.st = "U11" THEN ReleaseU(c, {}) ELSE c

(* One retransmission, then the call is given up; point-to-point its       *)
(* channel passes through the maintenance state on its way to available.   *)
U_timer_T308(c) ==
    LET d == CASE c.st # "U19" -> c
               [] c.st = "U19" /\ ~c.f308 -> Start(Send(c, "RELEASE"), "T308")
               [] OTHER -> Tell(ToU0(c), "RELEASE_CFM")
    IN  [d EXCEPT !.f308 = TRUE]

U_timer_T309(c) == IF c.st = "U10" THEN Tell(ToU0(c), "RELEASE_IND") ELSE c

U_timer_T313(c) ==
    IF c.st = "U8" THEN Tell(DisconnectU(c, {}), "SETUP_COMPLETE_IND") ELSE c

U_timer_T318(c) ==
    IF c.st = "U17" THEN Tell(ReleaseU(c, {}), "RESUME_CFM") ELSE c

----------------------------------------------------------------------------
(* Messages.                                                               *)

U_handle_alerting(c, m) ==
    LET d == Decode(c, m)
    IN  CASE c.st \in {"U2", "U3"} ->
                 IF ~Decodes(m) THEN d
                 ELSE Tell(Go(ChanControl(d), IF c.st = "U2" THEN {"T304"} ELSE {}, {}, "U4"),
                           "ALERTING_IND")
          [] OTHER -> NotCompatible(c)

(* The first answer to a SETUP must bring a channel; if it does not the    *)
(* call is released but its state remains U1.                              *)
FirstAnswer(d, m, start, st, up) ==
    IF Selects(d, m)
    THEN Tell(ChanControl(Go(SelectResponse(d, m), {"T303"}, start, st)), up)
    ELSE Tell(Go(Send(d, "RELEASE"), {"T303"}, {"T308"}, "U1"), "RELEASE_IND")

U_handle_call_proceeding(c, m) ==
    LET d == Decode(c, m)
    IN  CASE c.st \in {"U1", "U2"} ->
                 IF ~Decodes(m) THEN d
                 ELSE IF c.st = "U1" THEN FirstAnswer(d, m, {}, "U3", "PROCEEDING_IND")
                 ELSE Tell(Go(ChanControl(d), {"T304"}, {}, "U3"), "PROCEEDING_IND")
          [] OTHER -> NotCompatible(c)

(* Mutant: a CONNECT that crosses the DISCONNECT is taken.                 *)
ConnectWhileClearing(c, m) ==
    IF c.st \in {"U2", "U3", "U4", "U11"} /\ c.ch # NoChan
    THEN Tell(Go(Send(ChanConnect(c), "CONNECT_ACKNOWLEDGE"), {"T304", "T305"}, {}, "U10"),
              "SETUP_CFM")
    ELSE NotCompatible(c)

U_handle_connect(c, m) ==
    LET d == Decode(c, m)
    IN  CASE c.st \in {"U2", "U3", "U4"} ->
                 IF ~Decodes(m) THEN d
                 ELSE Tell(Go(Send(ChanConnect(d), "CONNECT_ACKNOWLEDGE"),
                              IF c.st = "U2" THEN {"T304"} ELSE {}, {}, "U10"),
                           "SETUP_CFM")
          [] OTHER -> NotCompatible(c)

U_handle_connect_acknowledge(c, m) ==
    LET d == Decode(c, m)
    IN  CASE c.st = "U8" ->
                 IF ~Decodes(m) THEN d
                 ELSE Tell(Go(ChanConnect(d), {"T313"}, {}, "U10"), "SETUP_COMPLETE_IND")
          [] OTHER -> NotCompatible(c)

(* m.excl stands for a progress description that stops T304.               *)
U_handle_progress(c, m) ==
    LET d == Decode(c, m)
    IN  CASE c.st \in {"U2", "U3", "U4"} ->
                 IF ~Decodes(m) THEN d
                 ELSE Tell(Stop(ChanControl(d),
                                IF c.st = "U2" /\ m.excl THEN {"T304"} ELSE {}),
                           "PROGRESS_IND")
          [] OTHER -> NotCompatible(c)

(* The channel is tied to the call but stays AVAILABLE: another call may   *)
(* take it.                                                                *)
U_handle_setup(c, m) ==
    LET d == Decode(c, m)
        ch == SelectSetup(d, m)
    IN  CASE c.st # "U0" -> c
          [] c.st = "U0" /\ ~Decodes(m) -> d
          [] OTHER -> IF ch = NoChan THEN DropU(Send([d EXCEPT !.ch = NoChan],
                                                     "RELEASE_COMPLETE"))
                      ELSE Tell(SetState(ChanSelect(d, ch, d.chans[ch].st), "U6"),
                                "SETUP_IND")

U_handle_setup_acknowledge(c, m) ==
    LET d == Decode(c, m)
    IN  CASE c.st = "U1" ->
                 IF ~Decodes(m) THEN d
                 ELSE FirstAnswer(d, m, {"T304"}, "U2", "MORE_INFO_IND")
          [] OTHER -> NotCompatible(c)

U_handle_disconnect(c, m) ==
    LET d == Decode(c, m)
        stop == [U2 |-> {"T304"}, U3 |-> {}, U4 |-> {}, U6 |-> {}, U7 |-> {},
                 U8 |-> {"T313"}, U9 |-> {"T313"}, U10 |-> {}, U15 |-> {"T319"},
                 U25 |-> {"T302"}]
    IN  CASE c.st \in DOMAIN stop ->
                 Tell(Go(IF c.st \in {"U2", "U3", "U4"} THEN ChanControl(d) ELSE d,
                         stop[c.st], {}, "U12"),
                      "DISCONNECT_IND")
          [] c.st = "U11" -> ReleaseU(c, {"T305"})
          [] c.st = "U17" -> ReleaseU(c, {"T318"})
          [] c.st = "U19" -> c
          [] OTHER -> NotCompatible(c)

(* The timers q931_handle_release and _release_complete stop.              *)
ClearStopsU(st) ==
    CASE st = "U1" -> {"T303"} [] st = "U2" -> {"T304"} [] st = "U8" -> {"T313"}
      [] st = "U11" -> {"T305"} [] st = "U15" -> {"T319"} [] st = "U17" -> {"T318"}
      [] st = "U19" -> {"T308"} [] st = "U25" -> {"T302"} [] OTHER -> {}

(* Mutant: the RELEASE is not answered.                                    *)
ReleaseUnanswered(c, m) ==
    Tell(ToU0(Stop(c, ClearStopsU(c.st))),
         IF c.st = "U19" THEN "RELEASE_CFM" ELSE "RELEASE_IND")

U_handle_release(c, m) ==
    LET d == Decode(c, m)
        e == Stop(d, ClearStopsU(c.st))
    IN  CASE c.st = "U0" -> ReleaseReference(Send(c, "RELEASE_COMPLETE"))
          [] c.st # "U0" /\ ~Decodes(m) -> d
          [] c.st = "U19" /\ Decodes(m) -> Tell(ToU0(e), "RELEASE_CFM")
          [] c.st \in {"U1", "U17"} /\ Decodes(m) ->
                 Tell(DropU(Send(e, "RELEASE_COMPLETE")), "RELEASE_IND")
          [] OTHER -> Tell(ToU0(Send(e, "RELEASE_COMPLETE")), "RELEASE_IND")

U_handle_release_complete(c0, m) ==
    LET c == [c0 EXCEPT !.rcr = TRUE]
        e == Stop(Decode(c, m), ClearStopsU(c.st))
    IN  CASE c.st = "U0" -> c
          [] c.st = "U1" -> Tell(ToU0(e), "REJECT_IND")
          [] c.st = "U17" -> Tell(DropU(e), "RELEASE_IND")
          [] c.st \in {"U19", "U25"} -> Tell(ToU0(e), "RELEASE_CFM")
          [] OTHER -> Tell(ToU0(e), "RELEASE_IND")

(* A STATUS that says "null" puts the user's call into N0.                 *)
U_handle_status(c, m) ==
    LET d == Decode(c, m)
        e == IF m.resp THEN Stop(d, {"T322"}) ELSE d
    IN  CASE ~Decodes(m) -> d
          [] Decodes(m) /\ c.st = "U0" -> IF m.cs # 0 THEN ReleaseU(d, {}) ELSE d
          [] Decodes(m) /\ c.st = "U19" ->
                 IF m.cs = 0 THEN Tell(ToU0(Stop(d, {"T308"})), "STATUS_IND") ELSE d
          [] OTHER ->
                 IF m.cs = 0
                 THEN Tell(Tell(ToN0(StopAnyTimer(e)), "STATUS_IND"), "RELEASE_IND")
                 ELSE IF m.cs = IeState[c.st] THEN e
                 ELSE Tell(Tell(ReleaseU(StopAnyTimer(e), {}), "STATUS_IND"),
                           "RELEASE_IND")

U_handle_info(c, m) ==
    LET d == Decode(c, m)
    IN  CASE c.st \in {"U2", "U3", "U4", "U6", "U8", "U9", "U10", "U11", "U12",
                       "U15", "U19", "U25"} ->
                 IF ~Decodes(m) THEN d
                 ELSE Tell(IF c.st = "U25" THEN Start(d, "T302") ELSE d, "INFO_IND")
          [] OTHER -> NotCompatible(c)

U_handle_notify(c, m) ==
    LET d == Decode(c, m)
    IN  IF c.st \in {"U10", "U11", "U15"}
        THEN IF Decodes(m) THEN Tell(d, "NOTIFY_IND") ELSE d
        ELSE c

(* RESUME ACKNOWLEDGE and REJECT, SUSPEND ACKNOWLEDGE and REJECT: the      *)
(* resumed call has no channel to connect.                                 *)
U_handle_resume_acknowledge(c, m) ==
    LET d == Decode(c, m)
    IN  IF c.st # "U17" THEN NotCompatible(c)
        ELSE IF ~Decodes(m) THEN d
        ELSE Tell(Go(ChanConnect(d), {"T318"}, {}, "U10"), "RESUME_CFM")

U_handle_resume_reject(c, m) ==
    LET d == Decode(c, m)
    IN  IF c.st # "U17" THEN NotCompatible(c)
        ELSE IF ~Decodes(m) THEN d
        ELSE Tell(DropU(Stop(d, {"T318"})), "RESUME_CFM")

U_handle_suspend_acknowledge(c, m) ==
    LET d == Decode(c, m)
    IN  IF c.st # "U15" THEN NotCompatible(c)
        ELSE IF ~Decodes(m) THEN d
        ELSE Tell(ToU0(Stop(d, {"T319"})), "SUSPEND_CFM")

U_handle_suspend_reject(c, m) ==
    LET d == Decode(c, m)
    IN  IF c.st # "U15" THEN NotCompatible(c)
        ELSE IF ~Decodes(m) THEN d
        ELSE Tell(Go(d, {"T319"}, {}, "U10"), "SUSPEND_CFM")

U_handle_unknown(c) ==
    IF c.st = "U0" THEN ReleaseU(c, {}) ELSE SendStatus(c, c.st)

----------------------------------------------------------------------------
(* Data link indications.                                                  *)

U_dl_establish_indication(c) ==
    IF c.st \in {"U2", "U25"}
    THEN Tell(Go(Send(ChanRelease(c), "DISCONNECT"),
                 IF c.st = "U2" THEN {"T304"} ELSE {"T302"}, {"T305"}, "U11"),
              "DISCONNECT_IND")
    ELSE c

U_dl_establish_confirm(c) ==
    IF c.st = "U10" THEN SendStatus(Stop(c, {"T309"}), "U10") ELSE c

(* A second failure while T309 runs puts the user's call into N0.          *)
U_dl_release_indication(c) ==
    CASE c.st = "U0" -> c
      [] c.st = "U10" -> IF "T309" \in c.tm
                         THEN Tell(ToN0(Stop(c, {"T309"})), "RELEASE_IND")
                         ELSE Start(c, "T309")
      [] OTHER -> Tell(ToU0(StopAnyTimer(c)), "RELEASE_IND")
=============================================================================
