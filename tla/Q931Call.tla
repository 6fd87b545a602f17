------------------------------ MODULE Q931Call ------------------------------
(***************************************************************************)
(* The parts of libq931 every call-control procedure is built from: the    *)
(* call (struct q931_call), its timers, its B channel and, for a call      *)
(* offered on the broadcast data link, its connection endpoint suffixes    *)
(* (struct q931_ces).                                                      *)
(*                                                                         *)
(* A call is a record and each C function is an operator from the call     *)
(* before to the call after it.  Messages handed to the data link are      *)
(* appended to c.tx and primitives for the user of the library (the CCB)   *)
(* to c.up.  The module has no variables.                                  *)
(*                                                                         *)
(* Left out: causes and all other information elements but the channel     *)
(* identification and the call state, digits, which tone is played, and    *)
(* logging.                                                                *)
(***************************************************************************)
EXTENDS Integers, Sequences, FiniteSets

CONSTANTS
    Channels,   \* the B channels of the interface, numbered in scan order
    NoChan,     \* call->channel == NULL
    TEs,        \* the terminals that may answer a broadcast SETUP
    NoTe,       \* call->preselected_ces == NULL
    Multipoint, \* intf->mode == LAPD_INTF_MODE_MULTIPOINT
    Tones,      \* call->tones_option
    SenqMax     \* STATUS ENQUIRYs before T322 gives up: 4 (senq_cnt > 3)

ASSUME ChannelsAssumption == Channels \subseteq Nat /\ NoChan \notin Channels
ASSUME TEsAssumption      == NoTe \notin TEs
ASSUME ModeAssumption     == Multipoint \in BOOLEAN /\ Tones \in BOOLEAN
ASSUME SenqAssumption     == SenqMax \in Nat \ {0}

(* enum q931_call_state: user side and network side.                       *)
UStates == {"U0", "U1", "U2", "U3", "U4", "U6", "U7", "U8", "U9", "U10",
            "U11", "U12", "U15", "U17", "U19", "U25"}
NStates == {"N0", "N1", "N2", "N3", "N4", "N6", "N7", "N8", "N9", "N10",
            "N11", "N12", "N15", "N17", "N19", "N22", "N25"}
NullStates == {"U0", "N0"}

(* q931_call_state_to_ie_state: the value a STATUS carries.                *)
IeState == [U0 |-> 0, U1 |-> 1, U2 |-> 2, U3 |-> 3, U4 |-> 4, U6 |-> 6,
            U7 |-> 7, U8 |-> 8, U9 |-> 9, U10 |-> 10, U11 |-> 11,
            U12 |-> 12, U15 |-> 15, U17 |-> 17, U19 |-> 19, U25 |-> 25,
            N0 |-> 0, N1 |-> 1, N2 |-> 2, N3 |-> 3, N4 |-> 4, N6 |-> 6,
            N7 |-> 7, N8 |-> 8, N9 |-> 9, N10 |-> 10, N11 |-> 11,
            N12 |-> 12, N15 |-> 15, N17 |-> 17, N19 |-> 19, N22 |-> 22,
            N25 |-> 25]

Timers == {"T301", "T302", "T303", "T304", "T305", "T306", "T308", "T309",
           "T310", "T312", "T313", "T318", "T319", "T322"}

ChanStates == {"AVAILABLE", "SELECTED", "CONNECTED", "DISCONNECTED",
               "MAINTAINANCE"}
(* channel->call: nobody, the modelled call, or another call.              *)
Owners == {"none", "call", "other"}

CesStates == {"I0", "I7", "I8", "I9", "I19", "I25"}
NoCes == [st |-> "none", tm |-> {}, fired |-> FALSE, senq |-> 0]

NoState == 99   \* a message without a call state IE
NoCI == {NoChan} \* a message without a channel identification IE

Message(mt) == [mt |-> mt, ci |-> NoCI, cs |-> NoState]

(* q931_call_alloc_in and q931_call_alloc_out: a new call, listed at its   *)
(* interface.  A network call on a multipoint interface has no data link   *)
(* until a terminal is selected.                                           *)
NewCall(role, chans, hasDlc) ==
    [st |-> IF role = "TE" THEN "U0" ELSE "N0", tm |-> {}, ch |-> NoChan,
     chans |-> chans, f303 |-> FALSE, f308 |-> FALSE, rcr |-> FALSE,
     dis |-> FALSE, senq |-> 0, bc |-> FALSE,
     dlc |-> hasDlc, listed |-> TRUE, ces |-> [t \in TEs |-> NoCes],
     presel |-> NoTe, stale |-> FALSE, ok |-> TRUE, tx |-> <<>>, up |-> <<>>]

----------------------------------------------------------------------------
(* Elementary steps.                                                       *)

(* assert(): a failed assertion aborts the process.                        *)
Assert_(c, cond) == [c EXCEPT !.ok = @ /\ cond]

(* q931_call_send_message: assert(dlc), then queued for the data link.     *)
SendMsg(c, m) == [Assert_(c, c.dlc) EXCEPT !.tx = Append(@, m)]
Send(c, mt) == SendMsg(c, Message(mt))

(* A channel identification IE is built with q931_chanset_add, which       *)
(* asserts that there is a channel.                                        *)
SendWithChannel(c, mt) ==
    SendMsg(Assert_(c, c.ch # NoChan), [Message(mt) EXCEPT !.ci = {c.ch}])

(* q931_call_send_call_status_with_state.                                  *)
SendStatus(c, st) == SendMsg(c, [Message("STATUS") EXCEPT !.cs = IeState[st]])

(* q931_call_primitive, q931_call_primitive1.                              *)
Tell(c, p) == [c EXCEPT !.up = Append(@, p)]

(* q931_call_start_timer, _restart_timer and _stop_timer: the timers       *)
(* pending.                                                                *)
Start(c, t) == [c EXCEPT !.tm = @ \cup {t}]
Stop(c, ts) == [c EXCEPT !.tm = @ \ ts]
StopAnyTimer(c) == [c EXCEPT !.tm = {}]

SetState(c, st) == [c EXCEPT !.st = st]

(* q931_call_release_reference: the call leaves the interface's list.      *)
ReleaseReference(c) == [c EXCEPT !.listed = FALSE]

(* Stop timers, start timers, set the state: the frame of most handlers.   *)
Go(c, stop, start, st) == [c EXCEPT !.tm = (@ \ stop) \cup start, !.st = st]

----------------------------------------------------------------------------
(* channel.c                                                               *)

ChanSet(c, ch, st) == [c EXCEPT !.chans[ch].st = st]

(* The CCB is told when a channel is connected and disconnected, and when  *)
(* a tone starts and stops: q931_channel_primitive.                        *)
ChanConnect(c) ==
    IF c.ch = NoChan \/ c.chans[c.ch].own = "none" THEN Assert_(c, FALSE)
    ELSE IF c.chans[c.ch].st = "CONNECTED" THEN c
    ELSE Tell(ChanSet(c, c.ch, "CONNECTED"), "CONNECT_CHANNEL")

ChanDisconnect(c) ==
    IF c.ch = NoChan THEN c
    ELSE IF c.chans[c.ch].own = "none" THEN Assert_(c, FALSE)
    ELSE IF c.chans[c.ch].st = "CONNECTED"
    THEN Tell(ChanSet(c, c.ch, "DISCONNECTED"), "DISCONNECT_CHANNEL")
    ELSE c

(* q931_channel_release clears channel->call->channel: the field of the    *)
(* call the channel points to, which need not be this one.                 *)
ChanRelease(c) ==
    IF c.ch = NoChan THEN c
    ELSE IF c.chans[c.ch].own = "none" THEN Assert_(c, FALSE)
    ELSE [ (IF c.chans[c.ch].st = "CONNECTED" THEN Tell(c, "DISCONNECT_CHANNEL") ELSE c)
           EXCEPT !.chans[c.ch] = [st |-> "AVAILABLE", own |-> "none"],
                  !.ch = IF c.chans[c.ch].own = "call" THEN NoChan ELSE @]

StartTone(c) == Tell(Assert_(c, c.ch # NoChan), "START_TONE")
StopTone(c) == Tell(Assert_(c, c.ch # NoChan), "STOP_TONE")

ChanSelect(c, ch, st) ==
    [c EXCEPT !.ch = ch, !.chans[ch] = [st |-> st, own |-> "call"]]

Available(c) == {ch \in Channels : c.chans[ch].st = "AVAILABLE"}
First(chs) == CHOOSE ch \in chs : \A o \in chs : ch <= o

(* q931_channel_acquire: the first available channel, if any.              *)
ChanAcquire(c) ==
    LET a == Assert_(c, c.ch = NoChan)
    IN  IF Available(c) = {} THEN a ELSE ChanSelect(a, First(Available(c)), "SELECTED")

(* q931_channel_select_setup: the channel a SETUP gets, or NoChan.  excl   *)
(* is the preferred/exclusive bit; an empty set asks for bumping, which    *)
(* the callers do not do.                                                  *)
SelectSetup(c, m) ==
    LET wanted == m.ci \cap Available(c)
    IN  IF m.ci # NoCI /\ wanted # {} THEN First(wanted)
        ELSE IF m.ci = {} \/ (m.ci # NoCI /\ m.excl) \/ Available(c) = {}
        THEN NoChan
        ELSE First(Available(c))

(* q931_channel_select_response: its result, and the call after it.  The   *)
(* loops over the offered channels are not bounded by their number: when   *)
(* none of them is available they read on past the set, which is taken to  *)
(* bring the process down.                                                 *)
Selects(c, m) ==
    IF m.ci = NoCI THEN c.ch # NoChan ELSE m.ci # {}

(* Mutants: the channel given up is not released; the answer is ignored.   *)
SelectKeepsOld(c, m) ==
    IF m.ci = NoCI \/ c.ch \in m.ci \/ m.ci \cap Available(c) = {} THEN c
    ELSE ChanSelect(c, First(m.ci \cap Available(c)), "SELECTED")
SelectKeepsOwn(c, m) == c

SelectResponse(c, m) ==
    IF m.ci = NoCI THEN [c EXCEPT !.chans[c.ch].own = "call"]
    ELSE IF c.ch \in m.ci THEN c
    ELSE IF m.ci \cap Available(c) = {} THEN Assert_(c, FALSE)
    ELSE ChanSelect(ChanRelease(c), First(m.ci \cap Available(c)), "SELECTED")

----------------------------------------------------------------------------
(* Unexpected and malformed messages.                                      *)

(* q931_call_message_not_compatible_with_state: in N0 a RELEASE is sent    *)
(* and then, the state now being N19, a STATUS too; a call in U0 is put    *)
(* into the network state N19.                                             *)
NotCompatibleAs(c, st) ==
    IF c.st = "U0" THEN Go(Send(c, "RELEASE"), {}, {"T308"}, "N19")
    ELSE IF c.st = "N0"
    THEN SendStatus(Go(Send(c, "RELEASE"), {}, {"T308"}, "N19"),
                    IF st = "" THEN "N19" ELSE st)
    ELSE SendStatus(c, IF st = "" THEN c.st ELSE st)
NotCompatible(c) == NotCompatibleAs(c, "")

(* q931_call_decode_ies: m.ies is "bad" when a mandatory element is        *)
(* missing or invalid, or one is not recognized, and "odd" when an         *)
(* optional one is invalid.  The STATUS sent carries no call state.        *)
Decodes(m) == m.ies # "bad" \/ m.mt \in {"DISCONNECT", "RELEASE_COMPLETE"}

Decode(c, m) ==
    IF m.ies = "good" \/ (m.ies = "bad" /\ Decodes(m)) THEN c
    ELSE IF m.ies = "bad" /\ m.mt \in {"SETUP", "RELEASE"}
    THEN Send(c, "RELEASE_COMPLETE")
    ELSE Send(c, "STATUS")
=============================================================================
