------------------------------ MODULE Q931CallN ------------------------------
(***************************************************************************)
(* The network side of libq931/call.c: what each request of the CCB, each  *)
(* message, each timer and each data link indication does to a call whose  *)
(* state is a network state; and the handlers of ces.c, which report to    *)
(* such a call.                                                            *)
(*                                                                         *)
(* An operator is named after its C function and has the N cases of its    *)
(* switch; an "unexpected primitive" or "unexpected timer" is only logged. *)
(***************************************************************************)
EXTENDS Q931Ces

(* Back to the null state, the channel freed, the call unlisted.           *)
ToN0(c) == ReleaseReference(SetState(ChanRelease(c), "N0"))

(* Announce the disconnection in band, or cut the channel: T306 or T305.   *)
DisconnectN(c) ==
    IF Tones THEN Go(StartTone(Send(c, "DISCONNECT")), {}, {"T306"}, "N12")
    ELSE Go(Send(ChanDisconnect(c), "DISCONNECT"), {}, {"T305"}, "N12")

(* Give up a call offered by broadcast: every CES is released, and the     *)
(* call waits in N22 as long as T312 lets terminals answer.                *)
AbortBroadcast(c) ==
    LET d == CesReleaseAll(ChanRelease(c))
    IN  IF "T312" \in c.tm THEN SetState(d, "N22")
        ELSE ReleaseReference(SetState(d, "N0"))

----------------------------------------------------------------------------
(* Requests of the CCB.                                                    *)

N_alerting_request(c) ==
    IF c.st \in {"N2", "N3"}
    THEN Go(Send(c, "ALERTING"), IF c.st = "N2" THEN {"T302"} ELSE {}, {}, "N4")
    ELSE c

N_disconnect_request(c0) ==
    LET c == [c0 EXCEPT !.dis = TRUE]
        stop == [N2 |-> {"T302"}, N6 |-> {"T303"}, N7 |-> {"T301"},
                 N8 |-> {}, N9 |-> {"T310"}, N25 |-> {"T304"}]
        bcast == AbortBroadcast(Stop(c, stop[c.st]))
    IN  CASE c.st \in {"N3", "N4", "N10", "N15"} -> DisconnectN(c)
          [] c.st = "N2" -> DisconnectN(Stop(c, {"T302"}))
          [] c.st = "N6" -> IF c.bc THEN Go(ChanDisconnect(c), {"T303"}, {}, "N22")
                            ELSE DisconnectN(Stop(c, {"T303"}))
          [] c.st \in {"N7", "N8", "N9", "N25"} /\ c.bc ->
                 IF bcast.st = "N0" THEN Tell(bcast, "RELEASE_IND") ELSE bcast
          [] c.st \in {"N7", "N8", "N9", "N25"} /\ ~c.bc ->
                 LET d == Go(Send(c, "DISCONNECT"), stop[c.st], {"T305"}, "N12")
                 IN  (CASE c.st = "N9" -> ChanRelease(d)
                        [] c.st = "N25" -> ChanDisconnect(d)
                        [] OTHER -> d)
          [] OTHER -> c

N_info_request(c) ==
    IF c.st \in {"N2", "N3", "N4", "N10", "N11", "N12"}
          \/ (c.st \in {"N7", "N8", "N9"} /\ ~c.bc)
    THEN Send(c, "INFORMATION") ELSE c

N_more_info_request(c) ==
    CASE c.st = "N1" ->
             LET d == ChanConnect(SendWithChannel(c, "SETUP_ACKNOWLEDGE"))
             IN  Go(IF Tones THEN StartTone(d) ELSE d, {}, {"T302"}, "N2")
      [] c.st = "N25" /\ ~c.bc -> Start(Send(c, "INFORMATION"), "T304")
      [] OTHER -> c

N_notify_request(c) == IF c.st \in {"N10", "N15"} THEN Send(c, "NOTIFY") ELSE c

N_proceeding_request(c) ==
    CASE c.st = "N1" ->
             SetState(ChanConnect(SendWithChannel(c, "CALL_PROCEEDING")), "N3")
      [] c.st = "N2" -> Go(Send(c, "CALL_PROCEEDING"), {"T302"}, {}, "N3")
      [] OTHER -> c

N_progress_request(c) ==
    IF c.st \in {"N2", "N3", "N4"} THEN Send(c, "PROGRESS") ELSE c

N_reject_request(c) ==
    IF c.st = "N1" THEN ToN0(Send(c, "RELEASE_COMPLETE")) ELSE c

N_release_request(c) ==
    IF c.st = "N11" THEN Go(Send(c, "RELEASE"), {}, {"T308"}, "N19") ELSE c

N_resume_reject_request(c) ==
    IF c.st = "N17"
    THEN SetState(ReleaseReference(Send(c, "RESUME_REJECT")), "N0") ELSE c

N_resume_response(c) ==
    IF c.st = "N17" THEN SetState(Send(c, "RESUME_ACKNOWLEDGE"), "N10") ELSE c

(* The preselected terminal gets the call and its data link, its CES is    *)
(* freed and the others are released.  Freeing it takes it off the list    *)
(* only: presel keeps its name, as call->preselected_ces its address.      *)
(* Mutant: the other terminals are left alone.                             *)
AwardOnly(c) ==
    IF c.st # "N8" THEN c
    ELSE SetState(CesFree(Send([ChanConnect(c) EXCEPT !.dlc = TRUE],
                               "CONNECT_ACKNOWLEDGE"), c.presel), "N10")

N_setup_complete_request(c) ==
    IF c.st # "N8" THEN c
    ELSE LET d == ChanConnect(c)
             e == IF d.bc
                  THEN CesReleaseAll(CesFree(Send([d EXCEPT !.dlc = TRUE],
                                                  "CONNECT_ACKNOWLEDGE"),
                                             d.presel))
                  ELSE Send(d, "CONNECT_ACKNOWLEDGE")
         IN  SetState(e, "N10")

(* enable_bumping is TRUE on every interface: a call without a channel is  *)
(* offered all the same, with an empty channel identification.  The        *)
(* broadcast SETUP goes to the interface's data link.                      *)
N_setup_request(c) ==
    IF c.st # "N0" THEN c
    ELSE LET d == ChanAcquire(c)
             m == [Message("SETUP") EXCEPT !.ci =
                      IF d.ch = NoChan THEN {} ELSE {d.ch}]
         IN  IF Multipoint
             THEN Go([d EXCEPT !.bc = TRUE], {}, {"T303", "T312"}, "N6")
             ELSE Go(SendMsg(d, m), {}, {"T303"}, "N6")

N_setup_response(c) ==
    IF c.st \in {"N2", "N3", "N4"}
    THEN Go(Send(c, "CONNECT"), IF c.st = "N2" THEN {"T302"} ELSE {}, {}, "N10")
    ELSE c

StatusEnquiry(c) ==
    IF "T322" \in c.tm THEN c
    ELSE Start([Send(c, "STATUS_ENQUIRY") EXCEPT !.senq = 0], "T322")

N_status_enquiry_request(c) ==
    IF c.bc /\ c.st \in {"N0", "N6", "N7", "N8", "N9", "N19", "N25"}
    THEN IF c.st = "N6" THEN c
         ELSE [c EXCEPT !.ces = [t \in TEs |-> ces_status_enquiry_request(c, t).ces[t]]]
    ELSE StatusEnquiry(c)

N_suspend_reject_request(c) ==
    IF c.st = "N15" THEN SetState(Send(c, "SUSPEND_REJECT"), "N10") ELSE c

N_suspend_response(c) ==
    IF c.st = "N15"
    THEN SetState(ReleaseReference(Send(c, "SUSPEND_ACKNOWLEDGE")), "N0")
    ELSE c

N_restart_request(c) == Tell(ToN0(StopAnyTimer(c)), "RELEASE_IND")

----------------------------------------------------------------------------
(* Indications of a CES to its call.                                       *)

(* "able_to_proceed" compares the CES states I0..I25 (0 to 5) with the     *)
(* call states N0 and N19 (16 and 30): any other CES counts, also one that *)
(* is being released.                                                      *)
AbleToProceed(c, others) == others \cap CesList(c) # {}

N_int_alerting_indication(c) ==
    CASE c.st \in {"N9", "N25"} ->
             Tell(Go(c, IF c.st = "N9" THEN {"T310"} ELSE {"T304"}, {"T301"}, "N7"),
                  "ALERTING_IND")
      [] OTHER -> c

N_int_connect_indication(c, t, m) ==
    LET award(d, stop) == Tell(Go([d EXCEPT !.presel = t], stop, {}, "N8"),
                               "CONNECT_IND")
    IN  CASE c.st = "N7" -> IF Selects(c, m) THEN award(SelectResponse(c, m), {"T301"})
                            ELSE ces_release_request(c, t)
          [] c.st = "N9" -> award(c, {"T310"})
          [] c.st = "N25" -> award(c, {"T304"})
          [] OTHER -> c

N_int_call_proceeding_indication(c) ==
    IF c.st = "N25"
    THEN Tell(Go(c, {"T304"}, {"T310"}, "N9"), "PROCEEDING_IND") ELSE c

(* Mutant: the last CES of an aborted call goes unnoticed.                 *)
LastCesUnnoticed(c, t) ==
    IF c.st \in {"N0", "N6", "N7", "N8", "N9", "N10", "N19", "N22", "N25"}
    THEN CesFree(c, t) ELSE c

N_int_release_complete_indication(c, t) ==
    CASE c.st \in {"N0", "N6", "N7", "N8", "N9", "N10", "N19", "N25"} -> CesFree(c, t)
      [] c.st = "N22" ->
             LET d == CesFree(c, t)
             IN  IF CesList(d) # {} THEN d
                 ELSE ToN0(IF d.dis THEN Tell(d, "RELEASE_IND") ELSE d)
      [] OTHER -> c

N_int_info_indication(c) ==
    IF c.st \in {"N7", "N8", "N9", "N19", "N25"} THEN Tell(c, "INFO_IND") ELSE c

N_int_progress_indication(c) ==
    CASE c.st \in {"N7", "N8", "N25"} -> Tell(c, "PROGRESS_IND")
      [] c.st = "N9" -> Tell(Stop(c, {"T310"}), "PROGRESS_IND")
      [] OTHER -> c

(* In N8 any CES's release aborts the call: preselected_ces is not         *)
(* compared with the CES.  T304 is not stopped in N25.                     *)
N_int_release_indication(c, t) ==
    CASE c.st \in {"N7", "N9", "N25"} ->
             IF AbleToProceed(c, TEs \ {t}) \/ "T312" \in c.tm THEN c
             ELSE Tell(ToN0(Stop(c, CASE c.st = "N7" -> {"T301"}
                                      [] c.st = "N9" -> {"T310"}
                                      [] OTHER -> {})),
                       "RELEASE_IND")
      [] c.st = "N8" ->
             IF c.presel # NoTe THEN Tell(AbortBroadcast(c), "RELEASE_IND") ELSE c
      [] OTHER -> c

----------------------------------------------------------------------------
(* Timers.  The one that expires is no longer pending when its handler     *)
(* runs.                                                                   *)

N_timer_T301(c) ==
    IF c.st # "N7" THEN c
    ELSE Tell(IF c.bc THEN AbortBroadcast(c)
              ELSE Go(Send(c, "DISCONNECT"), {}, {"T305"}, "N12"),
              "RELEASE_IND")

(* Sending complete is simulated; T302 is not started again.               *)
N_timer_T302(c) == IF c.st = "N2" THEN Tell(c, "INFO_IND") ELSE c

N_timer_T303(c) ==
    LET abort == Tell(SetState(ChanRelease(c), "N22"), "RELEASE_IND")
        d == CASE c.st # "N6" -> c
               [] c.st = "N6" /\ c.bc ->
                      IF c.f303 \/ c.rcr THEN abort
                      ELSE Go(c, {}, {"T303", "T312"}, "N6")
               [] c.st = "N6" /\ ~c.bc ->
                      IF c.f303
                      THEN Tell(Go(Send(c, "DISCONNECT"), {}, {"T305"}, "N12"),
                                "DISCONNECT_IND")
                      ELSE Start(SendMsg(c, [Message("SETUP") EXCEPT !.ci =
                                    IF c.ch = NoChan THEN {} ELSE {c.ch}]), "T303")
    IN  [d EXCEPT !.f303 = TRUE]

N_timer_T304(c) ==
    IF c.st # "N25" THEN c
    ELSE Tell(IF c.bc THEN AbortBroadcast(c)
              ELSE Go(ChanDisconnect(Send(c, "DISCONNECT")), {}, {"T305"}, "N12"),
              "RELEASE_IND")

(* Mutant: T308 is not started.                                            *)
T305WithoutT308(c) == IF c.st = "N12" THEN SetState(Send(c, "RELEASE"), "N19") ELSE c

N_timer_T305(c) ==
    IF c.st = "N12" THEN Go(Send(c, "RELEASE"), {}, {"T308"}, "N19") ELSE c

N_timer_T306(c) ==
    IF c.st = "N12" THEN Go(Send(StopTone(c), "RELEASE"), {}, {"T308"}, "N19") ELSE c

(* The first expiry ends the call: T308_fired is tested the wrong way      *)
(* round.  Point-to-point, the channel is put out of service and stays     *)
(* tied to the call.                                                       *)
N_timer_T308(c) ==
    LET freed == IF c.ch = NoChan THEN c
                 ELSE IF Multipoint THEN ChanRelease(c)
                 ELSE ChanSet(c, c.ch, "MAINTAINANCE")
        d == IF c.st # "N19" THEN c
             ELSE IF c.f308 THEN Start(Send(c, "RELEASE"), "T308")
             ELSE Tell(ReleaseReference(SetState(freed, "N0")), "RELEASE_CFM")
    IN  [d EXCEPT !.f308 = TRUE]

(* Mutant: the CCB is not told.                                            *)
T309Silent(c) == IF c.st = "N10" THEN ToN0(c) ELSE c

N_timer_T309(c) == IF c.st = "N10" THEN Tell(ToN0(c), "RELEASE_IND") ELSE c

N_timer_T310(c) ==
    IF c.st # "N9" THEN c
    ELSE Tell(IF c.bc THEN AbortBroadcast(c)
              ELSE Go(ChanRelease(Send(c, "DISCONNECT")), {}, {"T305"}, "N12"),
              "RELEASE_IND")

(* Mutant: the CCB is not told.                                            *)
T312Silent(c) ==
    IF c.st \in {"N7", "N9", "N25", "N22"} /\ ~AbleToProceed(c, TEs) THEN ToN0(c) ELSE c

N_timer_T312(c) ==
    CASE c.st \in {"N7", "N9", "N25"} ->
             IF AbleToProceed(c, TEs) THEN c
             ELSE Tell(ToN0(Stop(c, CASE c.st = "N7" -> {"T301"}
                                      [] c.st = "N9" -> {"T310"}
                                      [] OTHER -> {})),
                       "RELEASE_IND")
      [] c.st = "N22" ->
             IF CesList(c) # {} THEN c
             ELSE ToN0(IF c.dis THEN Tell(c, "RELEASE_IND") ELSE c)
      [] OTHER -> c

(* T319 is a user timer, but its handler waits for the network state N15.  *)
N_timer_T319(c) ==
    IF c.st = "N15" THEN SetState(Tell(c, "SUSPEND_CFM"), "U10") ELSE c

(* The call ends in N19 also when it is a user's.                          *)
timer_T322(c) ==
    IF c.st \in NullStates THEN c
    ELSE IF c.senq >= SenqMax
    THEN Tell(Go(Send(c, "RELEASE"), {}, {"T308"}, "N19"), "RELEASE_IND")
    ELSE Start([Send(c, "STATUS_ENQUIRY") EXCEPT !.senq = @ + 1], "T322")

----------------------------------------------------------------------------
(* Messages.  d is the call after q931_call_decode_ies; "bad" messages go  *)
(* no further in the states that decode them.                              *)

(* A terminal that is too late or not wanted gets a CES only to be         *)
(* released.                                                               *)
Refuse(c, m) == ces_release_request(CesAlloc(c, m.te, m.junk), m.te)

(* A terminal answers a broadcast SETUP: a CES in state ist, if its        *)
(* channel is acceptable, and the call goes from one state to another.     *)
BcAnswer(c, m, ist, stop, start, st, up) ==
    IF ~Selects(c, m) THEN Refuse(c, m)
    ELSE LET d == Go(SelectResponse(CesAlloc(c, m.te, m.junk), m), stop, start, st)
         IN  CesAnswer([d EXCEPT !.up = @ \o up], m.te, ist)

(* The user answers a SETUP sent on its own data link.                     *)
Answer(c, m, start, st, up) ==
    IF Selects(c, m) THEN Tell(Go(SelectResponse(c, m), {"T303"}, start, st), up)
    ELSE Tell(Go(Send(c, "RELEASE"), {"T303"}, {"T308"}, "N19"), "RELEASE_IND")

N_handle_alerting(c, m) ==
    LET d == Decode(c, m)
        up == "ALERTING_IND"
    IN  CASE c.st = "N22" -> Refuse(c, m)
          [] c.st \in {"N6", "N9", "N25"} \/ (c.st \in {"N7", "N8"} /\ c.bc) ->
                 (CASE ~Decodes(m) -> d
                   [] Decodes(m) /\ c.bc ->
                        (CASE c.st = "N6" -> BcAnswer(d, m, "I7", {"T303"}, {"T301"}, "N7", <<up>>)
                           [] c.st = "N7" -> BcAnswer(d, m, "I7", {}, {}, "N7", <<>>)
                           [] c.st = "N8" -> Refuse(d, m)
                           [] c.st = "N9" -> BcAnswer(d, m, "I7", {"T310"}, {"T301"}, "N7", <<up>>)
                           [] c.st = "N25" -> BcAnswer(d, m, "I7", {}, {"T301"}, "N7", <<up>>))
                   [] Decodes(m) /\ ~c.bc ->
                        (CASE c.st = "N6" -> Answer(d, m, {"T301"}, "N7", up)
                           [] c.st = "N9" -> Tell(Go(d, {"T310"}, {"T301"}, "N7"), up)
                           [] c.st = "N25" -> Tell(Go(d, {"T304"}, {"T301"}, "N7"), up)))
          [] OTHER -> NotCompatible(c)

N_handle_call_proceeding(c, m) ==
    LET d == Decode(c, m)
        up == "PROCEEDING_IND"
    IN  CASE c.st = "N22" \/ (c.st = "N8" /\ c.bc) -> Refuse(c, m)
          [] c.st \in {"N6", "N25"} \/ (c.st \in {"N7", "N9"} /\ c.bc) ->
                 (CASE ~Decodes(m) -> d
                   [] Decodes(m) /\ c.bc ->
                        (CASE c.st = "N6" -> BcAnswer(d, m, "I9", {"T303"}, {"T310"}, "N9", <<up>>)
                           [] c.st \in {"N7", "N9"} -> BcAnswer(d, m, "I9", {}, {}, c.st, <<>>)
                           [] c.st = "N25" -> BcAnswer(d, m, "I9", {}, {"T310"}, "N9", <<up>>))
                   [] Decodes(m) /\ ~c.bc ->
                        IF c.st = "N6" THEN Answer(d, m, {"T310"}, "N9", up)
                        ELSE Tell(Go(d, {"T304"}, {"T310"}, "N9"), up))
          [] OTHER -> NotCompatible(c)

N_handle_connect(c, m) ==
    LET d == Decode(c, m)
        stop == [N6 |-> {"T303"}, N7 |-> {"T301"}, N9 |-> {"T310"}]
        up == IF c.st = "N6" THEN "SETUP_CFM" ELSE "CONNECT_IND"
        e == BcAnswer(d, m, "I8", IF c.st = "N25" THEN {} ELSE stop[c.st],
                      {}, "N8", <<up>>)
    IN  CASE c.st = "N22" \/ (c.st = "N8" /\ c.bc) -> Refuse(c, m)
          [] c.st \in {"N6", "N7", "N9", "N25"} ->
                 (CASE ~Decodes(m) -> d
                   [] Decodes(m) /\ c.bc ->
                        IF Selects(d, m) THEN [e EXCEPT !.presel = m.te] ELSE e
                   [] Decodes(m) /\ ~c.bc ->
                        (CASE c.st = "N6" -> Answer(d, m, {}, "N8", up)
                           [] c.st = "N25" -> Tell(Go(d, {"T304"}, {}, "N8"), up)
                           [] OTHER -> Tell(Go(d, stop[c.st], {}, "N8"), up)))
          [] OTHER -> NotCompatible(c)

N_handle_connect_acknowledge(c) == IF c.st = "N10" THEN c ELSE NotCompatible(c)

N_handle_progress(c, m) ==
    LET d == Decode(c, m)
    IN  IF c.st \in {"N7", "N9", "N25"} /\ ~c.bc
        THEN IF ~Decodes(m) THEN d
             ELSE Tell(IF c.st = "N9" THEN Stop(d, {"T310"}) ELSE d, "PROGRESS_IND")
        ELSE NotCompatible(c)

N_handle_setup(c, m) ==
    LET d == Decode(c, m)
        ch == SelectSetup(d, m)
    IN  CASE c.st # "N0" -> c
          [] c.st = "N0" /\ ~Decodes(m) -> d
          [] c.st = "N0" /\ Decodes(m) ->
                 IF ch = NoChan THEN ReleaseReference(Send(d, "RELEASE_COMPLETE"))
                 ELSE Tell(SetState(ChanSelect(d, ch, "SELECTED"), "N1"), "SETUP_IND")

N_handle_setup_acknowledge(c, m) ==
    LET d == Decode(c, m)
        up == "MORE_INFO_IND"
    IN  CASE c.st = "N22" -> Refuse(c, m)
          [] c.st = "N6" \/ (c.st \in {"N7", "N8", "N9", "N25"} /\ c.bc) ->
                 (CASE ~Decodes(m) -> d
                   [] Decodes(m) /\ c.bc ->
                        (CASE c.st = "N6" -> BcAnswer(d, m, "I25", {"T303"}, {"T304"}, "N25", <<up>>)
                           [] c.st = "N8" -> Refuse(d, m)
                           [] OTHER -> BcAnswer(d, m, "I25", {}, {}, c.st, <<>>))
                   [] Decodes(m) /\ ~c.bc -> Answer(d, m, {"T304"}, "N25", up))
          [] OTHER -> NotCompatible(c)

N_handle_disconnect(c, m) ==
    LET d == Decode(c, m)
        stop == [N1 |-> {}, N2 |-> {"T302"}, N3 |-> {}, N4 |-> {},
                 N7 |-> {"T301"}, N8 |-> {}, N9 |-> {"T310"}, N10 |-> {},
                 N17 |-> {}, N25 |-> {"T304"}]
    IN  CASE c.st \in {"N7", "N8", "N9", "N25"} /\ c.bc -> NotCompatibleAs(c, "N6")
          [] c.st \in DOMAIN stop /\ ~(c.st \in {"N7", "N8", "N9", "N25"} /\ c.bc) ->
                 Tell(Go(IF c.st = "N8" THEN ChanRelease(d) ELSE ChanDisconnect(d),
                         stop[c.st], {}, "N11"),
                      "DISCONNECT_IND")
          [] c.st = "N12" ->
                 Go(Send(StopTone(c), "RELEASE"), {"T305", "T306"}, {"T308"}, "N19")
          [] c.st = "N19" -> c
          [] OTHER -> NotCompatible(c)

(* The timers q931_handle_release and _release_complete stop on the way to *)
(* the null state; a RELEASE in N7 stops T302, not T301.                   *)
ClearStops(c, mt) ==
    CASE c.st = "N2" -> {"T302"}
      [] c.st = "N6" -> {"T303"}
      [] c.st = "N7" -> IF mt = "RELEASE" THEN {"T302"} ELSE {"T301"}
      [] c.st = "N9" -> {"T310"}
      [] c.st = "N12" -> {"T305", "T306"}
      [] c.st = "N19" -> {"T308"}
      [] c.st = "N25" -> {"T304"}
      [] OTHER -> {}

N_handle_release(c, m) ==
    LET d == Decode(c, m)
        e == Stop(IF c.st = "N12" THEN StopTone(d) ELSE d, ClearStops(c, "RELEASE"))
    IN  CASE c.st = "N0" -> ReleaseReference(Send(c, "RELEASE_COMPLETE"))
          [] c.st = "N22" -> Send(c, "RELEASE_COMPLETE")
          [] c.st \in {"N15", "N17"} -> NotCompatible(c)
          [] c.st \notin {"N0", "N22", "N15", "N17"} ->
                 (CASE ~Decodes(m) -> d
                    [] Decodes(m) /\ c.bc /\ c.st \in {"N6", "N7", "N8", "N9", "N25"} ->
                         Send(d, "RELEASE_COMPLETE")
                    [] Decodes(m) /\ c.st = "N19" -> Tell(ToN0(e), "RELEASE_CFM")
                    [] OTHER -> Tell(ToN0(Send(e, "RELEASE_COMPLETE")), "RELEASE_IND"))

N_handle_release_complete(c0, m) ==
    LET c == [c0 EXCEPT !.rcr = TRUE]
        d == Decode(c, m)
        e == Stop(IF c.st = "N12" THEN StopTone(d) ELSE d, ClearStops(c, "RELEASE_COMPLETE"))
    IN  CASE c.st \in {"N0", "N22"} -> c
          [] c.st \in {"N15", "N17"} -> NotCompatible(c)
          [] c.st \in {"N6", "N7", "N8", "N9", "N25"} /\ c.bc -> d
          [] c.st = "N6" /\ ~c.bc -> Tell(ToN0(e), "REJECT_IND")
          [] c.st = "N19" -> Tell(ToN0(e), "RELEASE_CFM")
          [] OTHER -> Tell(ToN0(e), "RELEASE_IND")

(* m.resp: the cause is "response to STATUS ENQUIRY".                      *)
N_handle_status(c, m) ==
    LET d == Decode(c, m)
        e == IF m.resp THEN Stop(d, {"T322"}) ELSE d
        release(f) == Go(Send(f, "RELEASE"), {}, {"T308"}, "N19")
    IN  CASE ~Decodes(m) -> d
          [] Decodes(m) /\ c.st = "N0" -> IF m.cs # 0 THEN release(d) ELSE d
          [] Decodes(m) /\ c.st = "N19" ->
                 IF m.cs = 0 THEN Tell(ToN0(Stop(d, {"T308"})), "STATUS_IND") ELSE d
          [] Decodes(m) /\ c.st \notin {"N0", "N19"} ->
                 IF m.cs = 0
                 THEN Tell(Tell(ToN0(StopAnyTimer(e)), "STATUS_IND"), "RELEASE_IND")
                 ELSE IF m.cs = IeState[c.st] THEN e
                 ELSE Tell(Tell(release(StopAnyTimer(e)), "STATUS_IND"), "RELEASE_IND")

handle_status_enquiry(c) == SendStatus(c, c.st)

N_handle_info(c, m) ==
    LET d == Decode(c, m)
    IN  CASE c.st \in {"N7", "N8", "N9", "N25"} /\ c.bc -> NotCompatibleAs(c, "N6")
          [] c.st \in {"N2", "N3", "N4", "N10", "N11", "N12", "N19"}
                \/ (c.st \in {"N7", "N8", "N9", "N25"} /\ ~c.bc) ->
                 IF ~Decodes(m) THEN d
                 ELSE Tell(IF c.st = "N2" THEN Start(StopTone(d), "T302") ELSE d, "INFO_IND")
          [] OTHER -> NotCompatible(c)

N_handle_notify(c, m) ==
    LET d == Decode(c, m)
    IN  CASE c.st = "N10" -> IF Decodes(m) THEN Tell(d, "NOTIFY_IND") ELSE d
          [] OTHER -> c

(* The interface is a basic access.                                        *)
N_handle_resume(c, m) ==
    LET d == Decode(c, m)
    IN  IF c.st # "N0" THEN NotCompatible(c)
        ELSE IF Decodes(m) THEN Tell(SetState(d, "N17"), "RESUME_IND") ELSE d

N_handle_suspend(c, m) ==
    LET d == Decode(c, m)
    IN  IF c.st # "N10" THEN NotCompatible(c)
        ELSE IF Decodes(m) THEN Tell(SetState(d, "N15"), "SUSPEND_IND") ELSE d

(* A message type the dispatcher does not know; in N0 both branches run.   *)
N_handle_unknown(c) ==
    IF c.st = "N0"
    THEN SendStatus(Go(Send(c, "RELEASE"), {}, {"T308"}, "N19"), "N19")
    ELSE SendStatus(c, c.st)

----------------------------------------------------------------------------
(* Data link indications.                                                  *)

(* T304 keeps running in N25.                                              *)
N_dl_establish_indication(c) ==
    CASE c.st = "N2" -> Tell(DisconnectN(StopAnyTimer(c)), "DISCONNECT_IND")
      [] c.st = "N25" /\ ~c.bc ->
             Tell(Go(Send(ChanDisconnect(c), "DISCONNECT"), {}, {"T305"}, "N12"),
                  "RELEASE_IND")
      [] OTHER -> c

N_dl_establish_confirm(c) ==
    IF c.st = "N10" THEN SendStatus(Stop(c, {"T309"}), "N10") ELSE c

N_dl_release_indication(c) ==
    CASE c.st = "N0" -> c
      [] c.st = "N10" -> IF "T309" \in c.tm
                         THEN Tell(ToN0(Stop(c, {"T309"})), "RELEASE_IND")
                         ELSE Start(c, "T309")
      [] OTHER -> IF ~c.bc \/ c.st = "N6"
                  THEN Tell(ToN0(StopAnyTimer(c)), "RELEASE_IND") ELSE c

----------------------------------------------------------------------------
(* ces.c: messages of a terminal that has a CES.  In the states a case     *)
(* does not name the CES answers with a STATUS to its terminal.            *)

ces_handle_alerting(c, t, m) ==
    LET d == Decode(c, m)
    IN  IF c.ces[t].st \notin {"I9", "I25"} THEN c
        ELSE IF ~Decodes(m) THEN d
        ELSE N_int_alerting_indication(CesGo(d, t, {"T304"}, {}, "I7"))

ces_handle_call_proceeding(c, t, m) ==
    LET d == Decode(c, m)
    IN  IF c.ces[t].st # "I25" THEN c
        ELSE IF ~Decodes(m) THEN d
        ELSE N_int_call_proceeding_indication(CesGo(d, t, {"T304"}, {}, "I9"))

ces_handle_connect(c, t, m) ==
    LET d == Decode(c, m)
    IN  IF c.ces[t].st \notin {"I7", "I9", "I25"} THEN c
        ELSE IF ~Decodes(m) THEN d
        ELSE N_int_connect_indication(CesGo(d, t, {"T304"}, {}, "I8"), t, m)

ces_handle_progress(c, t, m) ==
    LET d == Decode(c, m)
    IN  IF c.ces[t].st \notin {"I7", "I9", "I25"} THEN c
        ELSE IF ~Decodes(m) THEN d
        ELSE N_int_progress_indication([d EXCEPT !.ces[t].tm = @ \ {"T304"}])

ces_handle_disconnect(c, t, m) ==
    IF c.ces[t].st \notin {"I7", "I8", "I9", "I25"} THEN c
    ELSE N_int_release_indication(CesGo(Decode(c, m), t, {"T304"}, {"T308"}, "I19"), t)

(* The CES tells the call that it is gone, and is freed.                   *)
CesGone(c, t) ==
    N_int_release_complete_indication(N_int_release_indication(c, t), t)

ces_handle_release(c, t, m) ==
    LET d == [Decode(c, m) EXCEPT !.ces[t].tm = @ \ {"T304"}]
    IN  CASE c.ces[t].st = "I0" -> c
          [] c.ces[t].st # "I0" /\ ~Decodes(m) -> Decode(c, m)
          [] c.ces[t].st = "I19" /\ Decodes(m) ->
                 N_int_release_complete_indication(
                     [d EXCEPT !.ces[t].tm = @ \ {"T308"}], t)
          [] OTHER -> CesGone(d, t)

(* A RELEASE COMPLETE is never refused and is not answered.                *)
ces_handle_release_complete(c, t, m) == ces_handle_release(c, t, m)

(* The T322 looked at is the call's, which a CES never starts.             *)
ces_handle_status(c, t, m) ==
    LET s == c.ces[t]
        d == Decode(c, m)
        e == IF m.resp /\ "T322" \in c.tm
             THEN [d EXCEPT !.ces[t].tm = @ \ {"T322"}] ELSE d
        ie == [I0 |-> 0, I7 |-> 7, I8 |-> 8, I9 |-> 9, I19 |-> 19, I25 |-> 25]
    IN  CASE s.st = "I0" -> c
          [] s.st # "I0" /\ ~Decodes(m) -> d
          [] s.st = "I19" /\ Decodes(m) ->
                 IF m.cs # 0 THEN d
                 ELSE N_int_release_complete_indication(
                          [d EXCEPT !.ces[t].tm = @ \ {"T308"}], t)
          [] OTHER ->
                 IF m.cs = 0 THEN CesGone([e EXCEPT !.ces[t].tm = {}], t)
                 ELSE IF m.cs = ie[s.st] THEN e
                 ELSE N_int_release_indication(
                          Tell(CesGo(e, t, s.tm, {"T308"}, "I19"), "STATUS_IND"), t)

ces_handle_info(c, t, m) ==
    IF c.ces[t].st \notin {"I7", "I8", "I9"} THEN c
    ELSE IF ~Decodes(m) THEN Decode(c, m)
    ELSE N_int_info_indication(Decode(c, m))

ces_timer_T304(c, t) ==
    IF c.ces[t].st # "I25" THEN c
    ELSE N_int_release_indication(CesGo(c, t, {}, {"T308"}, "I19"), t)

ces_timer_T308(c, t) ==
    IF c.ces[t].st # "I19" THEN c
    ELSE IF c.ces[t].fired THEN N_int_release_complete_indication(c, t)
    ELSE [CesGo(c, t, {}, {"T308"}, "I19") EXCEPT !.ces[t].fired = TRUE]

(* When it gives up, T308 is started but the state is left alone.          *)
ces_timer_T322(c, t) ==
    IF c.ces[t].st = "I0" THEN c
    ELSE IF c.ces[t].senq >= SenqMax
    THEN N_int_release_indication(CesGo(c, t, {}, {"T308"}, c.ces[t].st), t)
    ELSE [CesGo(c, t, {}, {"T322"}, c.ces[t].st) EXCEPT !.ces[t].senq = @ + 1]

ces_dl_establish_indication(c, t) ==
    IF c.ces[t].st # "I25" THEN c
    ELSE N_int_release_indication(CesGo(c, t, {"T304"}, {"T308"}, "I19"), t)

ces_dl_release_indication(c, t) ==
    IF c.ces[t].st \in {"none", "I0"} THEN c
    ELSE CesGone([c EXCEPT !.ces[t].tm = {}], t)

(* q931_ces_dispatch_message.                                              *)
ces_dispatch_message(c, t, m) ==
    CASE m.mt = "ALERTING" -> ces_handle_alerting(c, t, m)
      [] m.mt = "CALL_PROCEEDING" -> ces_handle_call_proceeding(c, t, m)
      [] m.mt = "CONNECT" -> ces_handle_connect(c, t, m)
      [] m.mt = "PROGRESS" -> ces_handle_progress(c, t, m)
      [] m.mt = "DISCONNECT" -> ces_handle_disconnect(c, t, m)
      [] m.mt = "RELEASE" -> ces_handle_release(c, t, m)
      [] m.mt = "RELEASE_COMPLETE" -> ces_handle_release_complete(c, t, m)
      [] m.mt = "STATUS" -> ces_handle_status(c, t, m)
      [] m.mt = "INFORMATION" -> ces_handle_info(c, t, m)
      [] OTHER -> c
=============================================================================
