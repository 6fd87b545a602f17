------------------------- MODULE Q931BroadcastProofs -------------------------
(***************************************************************************)
(* Proofs about Q931Broadcast: a call offered to a passive bus, for any    *)
(* number of terminals and channels and anything they, the CCB and the     *)
(* data links may do.                                                      *)
(*                                                                         *)
(* A handler is an operator from call to call, built of small steps.  The  *)
(* first lemmas say what a small step leaves alone (Turns, Calm); those    *)
(* named ...After say that a handler takes a good call (Good) to a good    *)
(* call, or to one that is over and known to be (After).  The handlers of  *)
(* a suffix are followed through the one suffix they change (At).  A call  *)
(* off the list stays there (Still).                                       *)
(***************************************************************************)
EXTENDS Q931Broadcast, WellFoundedInduction, TLAPS

(* The fields of a call.                                                   *)
CallFields ==
    {"st", "tm", "ch", "chans", "f303", "f308", "rcr", "dis", "senq", "bc",
     "dlc", "listed", "ces", "presel", "stale", "ok", "tx", "up"}

(* The call knows its channel and the channel its call.                    *)
ChanOK(c) ==
    /\ c.ch \in Channels \cup {NoChan}
    /\ c.chans \in [Channels -> [st : ChanStates, own : {"none", "call"}]]
    /\ c.ok => \A ch \in Channels : c.chans[ch].own = "call" <=> c.ch = ch

(* No assertion has failed and no freed suffix has left a timer behind.    *)
Lives(c) == c.ok /\ ~c.stale

(* The CCB is told that the call is over.                                  *)
Ends(c) == \E i \in 1..Len(c.up) : c.up[i] \in EndPrimitives

(* The call is a record, and what it tells the CCB a sequence.             *)
Shaped(c) == DOMAIN c = CallFields /\ \E S : c.up \in Seq(S)

(* The call c has become d, in this state, with these timers, suffixes and *)
(* preselected terminal. What Turns does not fix may change, as long as    *)
(* the channel stays tied, a failed assertion stays failed and an end once *)
(* told stays told.                                                        *)
Turns(c, d, st, tm, ces, presel, listed) ==
    /\ Shaped(d) /\ (ChanOK(c) => ChanOK(d))
    /\ d.st = st /\ d.tm = tm /\ d.ces = ces /\ d.presel = presel
    /\ d.listed = listed /\ d.bc = c.bc /\ d.dis = c.dis
    /\ (Lives(d) => Lives(c)) /\ (Ends(c) => Ends(d))

(* ... with nothing changed that the invariant speaks of.                  *)
Calm(c, d) == Turns(c, d, c.st, c.tm, c.ces, c.presel, c.listed)

(* The states a call offered by broadcast comes to.                        *)
Reached == {"N0", "N6", "N7", "N8", "N9", "N10", "N11", "N12", "N15", "N19",
            "N22", "N25"}

(* T313, T318 and T319 are a user's.                                       *)
NetTimers == Timers \ {"T313", "T318", "T319"}

(* The connection endpoint suffixes.                                       *)
Suffixes == [TEs -> [st : CesStates \cup {"none"},
                     tm : SUBSET {"T304", "T308", "T322"},
                     fired : BOOLEAN, senq : 0..SenqMax]]

(* A suffix that is not there has no timer.                                *)
NoneIsIdle(ces) == \A t \in TEs : ces[t].st = "none" => ces[t].tm = {}

(* What holds of the call even after an assertion has failed.              *)
Core(c) ==
    /\ Shaped(c) /\ ChanOK(c)
    /\ c.st \in Reached /\ c.tm \subseteq NetTimers
    /\ c.ces \in Suffixes /\ NoneIsIdle(c.ces)
    /\ c.presel \in TEs \cup {NoTe}
    /\ c.bc \in BOOLEAN /\ c.listed \in BOOLEAN /\ c.dis \in BOOLEAN

(* Every terminal that has a CES is being released.                        *)
AllGoing(ces) == \A t \in TEs : ces[t].st \in {"none", "I19"}

(* ... and that is supervised.                                             *)
Watched(ces) == \A t \in TEs : ces[t].st = "I19" => "T308" \in ces[t].tm

(* Some terminal has a suffix.                                             *)
AnyLeft(ces) == \E t \in TEs : ces[t].st # "none"

(* The states in which terminals may still answer or be released.          *)
Offering == {"N6", "N7", "N8", "N9", "N25", "N22"}

(* What each state of a listed call means for its timers and suffixes. In  *)
(* N6 no terminal has been accepted and both T303 and T312 run; in N8 the  *)
(* preselected suffix waits for the connection; a call given up (N22) has  *)
(* T312 or a suffix that will report.                                      *)
Phase(c) ==
    /\ c.st # "N0"
    /\ c.st = "N6" => {"T303", "T312"} \subseteq c.tm
    /\ c.st \in {"N6", "N22", "N10", "N15"} => AllGoing(c.ces)
    /\ c.st = "N8" => c.presel \in TEs /\ c.ces[c.presel].st = "I8"
    /\ c.st \in Offering => Watched(c.ces)
    /\ c.st = "N22" => "T312" \in c.tm \/ AnyLeft(c.ces)

(* A call offered by broadcast: listed, or back in the null state.         *)
Begun(c) == c.bc /\ (IF c.listed THEN Phase(c) ELSE c.st = "N0")

(* A call that has just been allocated.                                    *)
NotBegun(c) == ~c.bc /\ c.listed /\ c.st = "N0" /\ c.tm = {} /\ ~AnyLeft(c.ces)

(* A call off the list is known to be over; one given up in N22 was either *)
(* disconnected by the CCB or reported to it.                              *)
Told(c, kn) == /\ kn \in BOOLEAN
               /\ ~c.listed => kn
               /\ c.st = "N22" => c.dis \/ kn

(* The inductive invariant.                                                *)
IInv == Core(call) /\ (Alive => (Begun(call) \/ NotBegun(call)) /\ Told(call, told))

(* A listed broadcast call, as a handler finds it.                         *)
Good(c) == Core(c) /\ Lives(c) /\ c.listed /\ c.bc /\ Phase(c)

(* What a handler makes of it: it goes on in a state that means what it    *)
(* says, or it is off the list and the CCB is told. Only a call that was   *)
(* in N22, and not disconnected by the CCB, may end without a word: that   *)
(* CCB was told when the call came to N22.                                 *)
After(c, d) ==
    /\ Core(d) /\ d.bc = c.bc /\ (c.dis => d.dis)
    /\ Lives(d) =>
         IF d.listed
         THEN Phase(d) /\ (d.st = "N22" => c.st = "N22" \/ d.dis \/ Ends(d))
         ELSE d.st = "N0" /\ (Ends(d) \/ (c.st = "N22" /\ ~c.dis))

(* q931_ces_release_request for every suffix.                              *)
RelAll(ces) == [t \in TEs |-> Released(ces[t])]

(* A nonempty set of naturals has a least element.                         *)
LEMMA LeastNumber ==
  ASSUME NEW T, T \subseteq Nat, T # {}
  PROVE  \E i \in T : \A j \in T : i <= j
<1>1. PICK i \in T : \A j \in T : ~ (<< j, i >> \in OpToRel(<, Nat))
  BY NatLessThanWellFounded, WFMin
<1>2. ASSUME NEW j \in T
      PROVE  i <= j
  <2>1. << j, i >> \in Nat \X Nat /\ i \in Nat /\ j \in Nat
    OBVIOUS
  <2>2. ~ (j < i)
    BY <1>1, <2>1, Zenon DEF OpToRel
  <2> QED BY <2>1, <2>2
<1> QED BY <1>2

(* Nothing done.                                                           *)
LEMMA CalmSelf == ASSUME NEW c, Shaped(c) PROVE Calm(c, c)
  BY DEF Calm, Turns

(* A calm step after another step.                                         *)
LEMMA TurnsOn ==
  ASSUME NEW c, NEW d, NEW e, NEW st, NEW tm, NEW ces, NEW presel, NEW listed,
         Turns(c, d, st, tm, ces, presel, listed), Calm(d, e)
  PROVE  Turns(c, e, st, tm, ces, presel, listed)
  BY DEF Calm, Turns

(* Two calm steps.                                                         *)
LEMMA CalmOn ==
  ASSUME NEW c, NEW d, NEW e, Calm(c, d), Calm(d, e)
  PROVE  Calm(c, e)
  BY DEF Calm, Turns

(* What a calm step leaves alone.                                          *)
LEMMA CalmShaped ==
  ASSUME NEW c, NEW d, Calm(c, d)
  PROVE  /\ Shaped(d) /\ (ChanOK(c) => ChanOK(d)) /\ (Ends(c) => Ends(d))
         /\ d.st = c.st /\ d.tm = c.tm /\ d.ces = c.ces /\ d.presel = c.presel
         /\ d.listed = c.listed /\ d.bc = c.bc /\ d.dis = c.dis
         /\ (Lives(d) => Lives(c))
  BY DEF Calm, Turns

(* assert() changes nothing but ok.                                        *)
LEMMA AssertCalm ==
  ASSUME NEW c, Shaped(c), NEW b
  PROVE  Calm(c, Assert_(c, b)) /\ Assert_(c, b).up = c.up
  BY DEF Calm, Turns, Assert_, Shaped, CallFields, Lives, Ends, ChanOK

(* A primitive for the CCB; it ends the call if it is one that does.       *)
LEMMA TellCalm ==
  ASSUME NEW c, Shaped(c), NEW p
  PROVE  Calm(c, Tell(c, p)) /\ (p \in EndPrimitives => Ends(Tell(c, p)))
<1> DEFINE d == Tell(c, p)
<1>1. /\ DOMAIN d = CallFields /\ (ChanOK(c) => ChanOK(d))
      /\ d.st = c.st /\ d.tm = c.tm /\ d.ces = c.ces /\ d.presel = c.presel
      /\ d.listed = c.listed /\ d.bc = c.bc /\ d.dis = c.dis
      /\ (Lives(d) => Lives(c)) /\ d.up = Append(c.up, p)
  BY DEF Tell, Shaped, CallFields, Lives, ChanOK
<1> HIDE DEF d
<1>2. PICK S : c.up \in Seq(S)
  BY DEF Shaped
<1>3. Ends(c) => Ends(d)
  BY <1>1, <1>2 DEF Ends
<1>4. p \in EndPrimitives => Ends(d)
  BY <1>1, <1>2 DEF Ends
<1>5. d.up \in Seq(S \cup {p})
  BY <1>1, <1>2
<1>6. Calm(c, d)
  BY <1>1, <1>3, <1>5 DEF Calm, Turns, Shaped
<1> QED BY <1>4, <1>6 DEF d

(* A message handed to the data link asserts that there is one.            *)
LEMMA SendMsgCalm ==
  ASSUME NEW c, Shaped(c), NEW m
  PROVE  Calm(c, SendMsg(c, m)) /\ SendMsg(c, m).up = c.up
  BY DEF Calm, Turns, SendMsg, Assert_, Shaped, CallFields, Lives, Ends, ChanOK

(* A message without a channel.                                            *)
LEMMA SendCalm ==
  ASSUME NEW c, Shaped(c), NEW mt
  PROVE  Calm(c, Send(c, mt)) /\ Send(c, mt).up = c.up
  BY SendMsgCalm DEF Send

(* A STATUS.                                                               *)
LEMMA SendStatusCalm ==
  ASSUME NEW c, Shaped(c), NEW st
  PROVE  Calm(c, SendStatus(c, st))
  BY SendMsgCalm DEF SendStatus

(* Decoding a message may send a STATUS or a RELEASE COMPLETE.             *)
LEMMA DecodeCalm ==
  ASSUME NEW c, Shaped(c), NEW m
  PROVE  Calm(c, Decode(c, m))
  BY SendCalm, CalmSelf DEF Decode

(* Tones assert that there is a channel.                                   *)
LEMMA ToneCalm ==
  ASSUME NEW c, Shaped(c)
  PROVE  Calm(c, StartTone(c)) /\ Calm(c, StopTone(c))
<1>1. Calm(c, Assert_(c, c.ch # NoChan)) /\ Shaped(Assert_(c, c.ch # NoChan))
  BY AssertCalm, CalmShaped
<1>2. Calm(Assert_(c, c.ch # NoChan), StartTone(c))
  BY <1>1, TellCalm DEF StartTone
<1>3. Calm(Assert_(c, c.ch # NoChan), StopTone(c))
  BY <1>1, TellCalm DEF StopTone
<1> QED BY <1>1, <1>2, <1>3, CalmOn

(* q931_channel_release: the call and its channel let go of each other at  *)
(* once.                                                                   *)
LEMMA ChanReleaseCalm ==
  ASSUME NEW c, Shaped(c), ChanOK(c)
  PROVE  Calm(c, ChanRelease(c))
<1>1. CASE c.ch = NoChan
  BY <1>1, CalmSelf DEF ChanRelease
<1>2. CASE c.ch # NoChan /\ c.chans[c.ch].own = "none"
  BY <1>2, AssertCalm DEF ChanRelease
<1>3. CASE c.ch # NoChan /\ c.chans[c.ch].own # "none"
  <2> DEFINE b == IF c.chans[c.ch].st = "CONNECTED"
                  THEN Tell(c, "DISCONNECT_CHANNEL") ELSE c
             d == [b EXCEPT !.chans[c.ch] = [st |-> "AVAILABLE", own |-> "none"],
                            !.ch = IF c.chans[c.ch].own = "call" THEN NoChan ELSE @]
  <2>1. ChanRelease(c) = d
    BY <1>3 DEF ChanRelease
  <2>2. Calm(c, b) /\ b.ch = c.ch /\ b.chans = c.chans
    <3>1. Calm(c, b)
      BY CalmSelf, TellCalm
    <3>2. b.ch = c.ch /\ b.chans = c.chans
      BY DEF Tell, Shaped, CallFields
    <3> QED BY <3>1, <3>2
  <2> HIDE DEF b
  <2>3. Shaped(b) /\ ChanOK(b)
    BY <2>2, CalmShaped
  <2>4. ChanOK(d)
    BY <1>3, <2>2, <2>3, ChannelsAssumption
    DEF ChanOK, Shaped, CallFields, ChanStates
  <2>5. Calm(b, d)
    BY <2>3, <2>4 DEF Calm, Turns, Shaped, CallFields, Lives, Ends
  <2> QED BY <2>1, <2>2, <2>5, CalmOn
<1> QED BY <1>1, <1>2, <1>3

(* A channel may change its state.                                         *)
LEMMA ChanSetCalm ==
  ASSUME NEW c, Shaped(c), ChanOK(c), c.ch \in Channels, NEW st \in ChanStates
  PROVE  Calm(c, ChanSet(c, c.ch, st))
<1> DEFINE d == ChanSet(c, c.ch, st)
<1>1. ChanOK(d)
  BY DEF ChanOK, ChanSet, Shaped, CallFields
<1> QED BY <1>1 DEF Calm, Turns, ChanSet, Shaped, CallFields, Lives, Ends

(* q931_channel_connect.                                                   *)
LEMMA ChanConnectCalm ==
  ASSUME NEW c, Shaped(c), ChanOK(c)
  PROVE  Calm(c, ChanConnect(c))
<1>1. CASE c.ch = NoChan \/ c.chans[c.ch].own = "none"
  BY <1>1, AssertCalm DEF ChanConnect
<1>2. CASE ~(c.ch = NoChan \/ c.chans[c.ch].own = "none")
  <2> DEFINE b == ChanSet(c, c.ch, "CONNECTED")
  <2>1. c.ch \in Channels /\ "CONNECTED" \in ChanStates
    BY <1>2 DEF ChanOK, ChanStates
  <2>2. Calm(c, b)
    BY <2>1, ChanSetCalm
  <2> HIDE DEF b
  <2>3. Calm(b, Tell(b, "CONNECT_CHANNEL"))
    BY <2>2, TellCalm, CalmShaped
  <2>4. ChanConnect(c) \in {c, Tell(b, "CONNECT_CHANNEL")}
    BY <1>2 DEF ChanConnect, b
  <2> QED BY <2>2, <2>3, <2>4, CalmOn, CalmSelf
<1> QED BY <1>1, <1>2

(* q931_channel_disconnect.                                                *)
LEMMA ChanDisconnectCalm ==
  ASSUME NEW c, Shaped(c), ChanOK(c)
  PROVE  Calm(c, ChanDisconnect(c))
<1>1. CASE c.ch = NoChan
  BY <1>1, CalmSelf DEF ChanDisconnect
<1>2. CASE c.ch # NoChan /\ c.chans[c.ch].own = "none"
  BY <1>2, AssertCalm DEF ChanDisconnect
<1>3. CASE c.ch # NoChan /\ c.chans[c.ch].own # "none"
  <2> DEFINE b == ChanSet(c, c.ch, "DISCONNECTED")
  <2>1. c.ch \in Channels /\ "DISCONNECTED" \in ChanStates
    BY <1>3 DEF ChanOK, ChanStates
  <2>2. Calm(c, b)
    BY <2>1, ChanSetCalm
  <2> HIDE DEF b
  <2>3. Calm(b, Tell(b, "DISCONNECT_CHANNEL"))
    BY <2>2, TellCalm, CalmShaped
  <2>4. ChanDisconnect(c) \in {c, Tell(b, "DISCONNECT_CHANNEL")}
    BY <1>3 DEF ChanDisconnect, b
  <2> QED BY <2>2, <2>3, <2>4, CalmOn, CalmSelf
<1> QED BY <1>1, <1>2, <1>3

(* A call without a channel gets one.                                      *)
LEMMA ChanSelectCalm ==
  ASSUME NEW c, Shaped(c), ChanOK(c), c.ok => c.ch = NoChan,
         NEW ch \in Channels, NEW st \in ChanStates
  PROVE  Calm(c, ChanSelect(c, ch, st))
<1> DEFINE d == ChanSelect(c, ch, st)
<1>1. /\ d.ch = ch /\ d.ok = c.ok
      /\ d.chans = [c.chans EXCEPT ![ch] = [st |-> st, own |-> "call"]]
  BY DEF ChanSelect, Shaped, CallFields
<1>2. d.chans \in [Channels -> [st : ChanStates, own : {"none", "call"}]]
  BY <1>1 DEF ChanOK
<1>3. ASSUME c.ok, NEW x \in Channels
      PROVE  d.chans[x].own = "call" <=> d.ch = x
  BY <1>1, <1>3, ChannelsAssumption DEF ChanOK
<1>4. ChanOK(d)
  BY <1>1, <1>2, <1>3 DEF ChanOK
<1> QED BY <1>4 DEF Calm, Turns, ChanSelect, Shaped, CallFields, Lives, Ends

(* The scan for a channel finds one if there is one.                       *)
LEMMA FirstIn ==
  ASSUME NEW chs, chs \subseteq Channels, chs # {}
  PROVE  First(chs) \in chs
<1>1. \E x \in chs : \A o \in chs : x <= o
  <2>1. chs \subseteq Nat
    BY ChannelsAssumption
  <2> QED BY <2>1, LeastNumber
<1> QED BY <1>1 DEF First

(* q931_channel_select_response: the old channel is released before the    *)
(* new one is taken, so the tie holds across a change of channel.          *)
LEMMA SelectResponseCalm ==
  ASSUME NEW c, Shaped(c), ChanOK(c), NEW m, Selects(c, m),
         m.ci \in (SUBSET Channels) \cup {NoCI}
  PROVE  Calm(c, SelectResponse(c, m))
<1>1. CASE m.ci = NoCI
  <2> DEFINE d == [c EXCEPT !.chans[c.ch].own = "call"]
  <2>1. SelectResponse(c, m) = d
    BY <1>1 DEF SelectResponse
  <2>2. c.ch \in Channels
    BY <1>1 DEF Selects, ChanOK
  <2>3. ChanOK(d)
    BY <2>2 DEF ChanOK, Shaped, CallFields
  <2>4. Calm(c, d)
    BY <2>3 DEF Calm, Turns, Shaped, CallFields, Lives, Ends
  <2> QED BY <2>1, <2>4
<1>2. CASE m.ci # NoCI /\ c.ch \in m.ci
  BY <1>2, CalmSelf DEF SelectResponse
<1>3. CASE m.ci # NoCI /\ c.ch \notin m.ci /\ m.ci \cap Available(c) = {}
  BY <1>3, AssertCalm DEF SelectResponse
<1>4. CASE m.ci # NoCI /\ c.ch \notin m.ci /\ m.ci \cap Available(c) # {}
  <2> DEFINE b == ChanRelease(c)
             ch == First(m.ci \cap Available(c))
  <2>1. SelectResponse(c, m) = ChanSelect(b, ch, "SELECTED")
    BY <1>4 DEF SelectResponse
  <2>2. Calm(c, b)
    BY ChanReleaseCalm
  <2>3. b.ok => b.ch = NoChan
    <3>1. CASE c.ch = NoChan
      BY <3>1 DEF ChanRelease
    <3>2. CASE c.ch # NoChan /\ c.chans[c.ch].own = "none"
      BY <3>2 DEF ChanRelease, Assert_, Shaped, CallFields
    <3>3. CASE c.ch # NoChan /\ c.chans[c.ch].own # "none"
      <4>1. c.chans[c.ch].own = "call"
        BY <3>3 DEF ChanOK
      <4> QED BY <3>3, <4>1 DEF ChanRelease, Tell, Shaped, CallFields
    <3> QED BY <3>1, <3>2, <3>3
  <2>4. ch \in Channels
    BY <1>4, FirstIn DEF Available
  <2> HIDE DEF b, ch
  <2>5. Calm(b, ChanSelect(b, ch, "SELECTED"))
    BY <2>2, <2>3, <2>4, CalmShaped, ChanSelectCalm DEF ChanStates
  <2> QED BY <2>1, <2>2, <2>5, CalmOn
<1> QED BY <1>1, <1>2, <1>3, <1>4

-----------------------------------------------------------------------------
(* States and timers.                                                      *)

(* Timers stopped and started, and a new state.                            *)
LEMMA GoTurns ==
  ASSUME NEW c, Shaped(c), NEW stop, NEW start, NEW st
  PROVE  Turns(c, Go(c, stop, start, st), st, (c.tm \ stop) \cup start, c.ces,
               c.presel, c.listed)
  BY DEF Turns, Go, Shaped, CallFields, Lives, Ends, ChanOK

(* q931_call_start_timer.                                                  *)
LEMMA StartTurns ==
  ASSUME NEW c, Shaped(c), NEW t
  PROVE  Turns(c, Start(c, t), c.st, c.tm \cup {t}, c.ces, c.presel, c.listed)
  BY DEF Turns, Start, Shaped, CallFields, Lives, Ends, ChanOK

(* q931_call_stop_timer.                                                   *)
LEMMA StopTurns ==
  ASSUME NEW c, Shaped(c), NEW ts
  PROVE  Turns(c, Stop(c, ts), c.st, c.tm \ ts, c.ces, c.presel, c.listed)
  BY DEF Turns, Stop, Shaped, CallFields, Lives, Ends, ChanOK

(* q931_call_stop_any_timer.                                               *)
LEMMA StopAnyTurns ==
  ASSUME NEW c, Shaped(c)
  PROVE  Turns(c, StopAnyTimer(c), c.st, {}, c.ces, c.presel, c.listed)
  BY DEF Turns, StopAnyTimer, Shaped, CallFields, Lives, Ends, ChanOK

(* q931_call_set_state.                                                    *)
LEMMA SetStateTurns ==
  ASSUME NEW c, Shaped(c), NEW st
  PROVE  Turns(c, SetState(c, st), st, c.tm, c.ces, c.presel, c.listed)
  BY DEF Turns, SetState, Shaped, CallFields, Lives, Ends, ChanOK

(* q931_call_release_reference takes the call off the list.                *)
LEMMA ReleaseTurns ==
  ASSUME NEW c, Shaped(c)
  PROVE  Turns(c, ReleaseReference(c), c.st, c.tm, c.ces, c.presel, FALSE)
  BY DEF Turns, ReleaseReference, Shaped, CallFields, Lives, Ends, ChanOK

(* Fields the invariant does not speak of.                                 *)
LEMMA OtherFieldCalm ==
  ASSUME NEW c, Shaped(c), NEW v
  PROVE  /\ Calm(c, [c EXCEPT !.f303 = v]) /\ Calm(c, [c EXCEPT !.f308 = v])
         /\ Calm(c, [c EXCEPT !.rcr = v]) /\ Calm(c, [c EXCEPT !.senq = v])
         /\ Calm(c, [c EXCEPT !.dlc = v])
<1>1. Calm(c, [c EXCEPT !.f303 = v]) /\ Calm(c, [c EXCEPT !.f308 = v])
  BY DEF Calm, Turns, Shaped, CallFields, Lives, Ends, ChanOK
<1>2. Calm(c, [c EXCEPT !.rcr = v]) /\ Calm(c, [c EXCEPT !.senq = v])
  BY DEF Calm, Turns, Shaped, CallFields, Lives, Ends, ChanOK
<1>3. Calm(c, [c EXCEPT !.dlc = v])
  BY DEF Calm, Turns, Shaped, CallFields, Lives, Ends, ChanOK
<1> QED BY <1>1, <1>2, <1>3

(* A step after another.                                                   *)
LEMMA TurnsTwice ==
  ASSUME NEW c, NEW d, NEW e,
         NEW st, NEW tm, NEW ces, NEW ps, NEW li,
         NEW st2, NEW tm2, NEW ces2, NEW ps2, NEW li2,
         Turns(c, d, st, tm, ces, ps, li), Turns(d, e, st2, tm2, ces2, ps2, li2)
  PROVE  Turns(c, e, st2, tm2, ces2, ps2, li2)
  BY DEF Turns

(* What a step leaves behind.                                              *)
LEMMA TurnsFacts ==
  ASSUME NEW c, NEW d, NEW st, NEW tm, NEW ces, NEW ps, NEW li,
         Turns(c, d, st, tm, ces, ps, li)
  PROVE  /\ Shaped(d) /\ (ChanOK(c) => ChanOK(d)) /\ (Ends(c) => Ends(d))
         /\ d.st = st /\ d.tm = tm /\ d.ces = ces /\ d.presel = ps
         /\ d.listed = li /\ d.bc = c.bc /\ d.dis = c.dis
         /\ (Lives(d) => Lives(c))
  BY DEF Turns

(* The channel freed, the null state, off the list.                        *)
LEMMA ToN0Turns ==
  ASSUME NEW c, Shaped(c), ChanOK(c)
  PROVE  Turns(c, ToN0(c), "N0", c.tm, c.ces, c.presel, FALSE)
<1> DEFINE a == ChanRelease(c)
           b == SetState(a, "N0")
<1>1. Calm(c, a) /\ Shaped(a)
  BY ChanReleaseCalm, CalmShaped
<1>2. Turns(a, b, "N0", a.tm, a.ces, a.presel, a.listed)
  BY <1>1, SetStateTurns
<1>3. Shaped(b)
  BY <1>2, TurnsFacts
<1> HIDE DEF a, b
<1>4. Turns(b, ReleaseReference(b), b.st, b.tm, b.ces, b.presel, FALSE)
  BY <1>3, ReleaseTurns
<1>5. ToN0(c) = ReleaseReference(b)
  BY DEF ToN0, a, b
<1> QED BY <1>1, <1>2, <1>4, <1>5 DEF Calm, Turns

(* A DISCONNECT with a tone and T306, or with the channel cut and T305.    *)
LEMMA DisconnectNTurns ==
  ASSUME NEW c, Shaped(c), ChanOK(c)
  PROVE  \E t \in {"T305", "T306"} :
           Turns(c, DisconnectN(c), "N12", c.tm \cup {t}, c.ces, c.presel, c.listed)
<1>1. CASE Tones
  <2> DEFINE a == Send(c, "DISCONNECT")
             b == StartTone(a)
  <2>1. Calm(c, a) /\ Shaped(a)
    BY SendCalm, CalmShaped
  <2>2. Calm(a, b) /\ Shaped(b)
    BY <2>1, ToneCalm, CalmShaped
  <2> HIDE DEF a, b
  <2>3. Turns(b, Go(b, {}, {"T306"}, "N12"), "N12", (b.tm \ {}) \cup {"T306"},
              b.ces, b.presel, b.listed)
    BY <2>2, GoTurns
  <2>4. DisconnectN(c) = Go(b, {}, {"T306"}, "N12")
    BY <1>1 DEF DisconnectN, a, b
  <2> QED BY <2>1, <2>2, <2>3, <2>4 DEF Calm, Turns
<1>2. CASE ~Tones
  <2> DEFINE a == ChanDisconnect(c)
             b == Send(a, "DISCONNECT")
  <2>1. Calm(c, a) /\ Shaped(a)
    BY ChanDisconnectCalm, CalmShaped
  <2>2. Calm(a, b) /\ Shaped(b)
    BY <2>1, SendCalm, CalmShaped
  <2> HIDE DEF a, b
  <2>3. Turns(b, Go(b, {}, {"T305"}, "N12"), "N12", (b.tm \ {}) \cup {"T305"},
              b.ces, b.presel, b.listed)
    BY <2>2, GoTurns
  <2>4. DisconnectN(c) = Go(b, {}, {"T305"}, "N12")
    BY <1>2 DEF DisconnectN, a, b
  <2> QED BY <2>1, <2>2, <2>3, <2>4 DEF Calm, Turns
<1> QED BY <1>1, <1>2

-----------------------------------------------------------------------------
(* The suffixes.                                                           *)

(* Every suffix is released.                                               *)
LEMMA CesReleaseAllTurns ==
  ASSUME NEW c, Shaped(c)
  PROVE  Turns(c, CesReleaseAll(c), c.st, c.tm, RelAll(c.ces), c.presel, c.listed)
  BY DEF Turns, CesReleaseAll, RelAll, Shaped, CallFields, Lives, Ends, ChanOK

(* Suffix t becomes s.                                                     *)
LEMMA CesPutTurns ==
  ASSUME NEW c, Shaped(c), NEW t, NEW s
  PROVE  Turns(c, [c EXCEPT !.ces[t] = s], c.st, c.tm,
               [c.ces EXCEPT ![t] = s], c.presel, c.listed)
  BY DEF Turns, Shaped, CallFields, Lives, Ends, ChanOK

(* ... in its timers and its state.                                        *)
Suffix(s, tm, st) == [s EXCEPT !.tm = tm, !.st = st]

(* ... a suffix starts and stops timers and changes its state,             *)
LEMMA CesGoTurns ==
  ASSUME NEW c, Shaped(c), c.ces \in Suffixes, NEW t \in TEs, NEW stop, NEW start, NEW st
  PROVE  Turns(c, CesGo(c, t, stop, start, st), c.st, c.tm,
               [c.ces EXCEPT ![t] = Suffix(c.ces[t], (c.ces[t].tm \ stop) \cup start, st)],
               c.presel, c.listed)
<1> DEFINE a == CesGo(c, t, stop, start, st)
           s == Suffix(c.ces[t], (c.ces[t].tm \ stop) \cup start, st)
<1>1. a.ces = [c.ces EXCEPT ![t] = s]
  BY DEF CesGo, Suffix, Suffixes, Shaped, CallFields
<1> QED BY <1>1 DEF Turns, CesGo, Shaped, CallFields, Lives, Ends, ChanOK

(* ... only its timers,                                                    *)
LEMMA CesTimersTurns ==
  ASSUME NEW c, Shaped(c), c.ces \in Suffixes, NEW t \in TEs, NEW tm
  PROVE  Turns(c, [c EXCEPT !.ces[t].tm = tm], c.st, c.tm,
               [c.ces EXCEPT ![t] = Suffix(c.ces[t], tm, c.ces[t].st)],
               c.presel, c.listed)
<1> DEFINE a == [c EXCEPT !.ces[t].tm = tm]
           s == Suffix(c.ces[t], tm, c.ces[t].st)
<1>1. a.ces = [c.ces EXCEPT ![t] = s]
  BY DEF Suffix, Suffixes, Shaped, CallFields
<1> QED BY <1>1 DEF Turns, Shaped, CallFields, Lives, Ends, ChanOK

(* ... or is freed.                                                        *)
LEMMA CesFreeTurns ==
  ASSUME NEW c, Shaped(c), NEW t
  PROVE  Turns(c, CesFree(c, t), c.st, c.tm, [c.ces EXCEPT ![t] = NoCes],
               c.presel, c.listed)
  BY DEF Turns, CesFree, Shaped, CallFields, Lives, Ends, ChanOK

-----------------------------------------------------------------------------
(* One step after what has been done to c so far.                          *)

(* Nothing done yet.                                                       *)
LEMMA TurnsSelf ==
  ASSUME NEW c, Shaped(c)
  PROVE  Turns(c, c, c.st, c.tm, c.ces, c.presel, c.listed)
  BY DEF Turns

(* Then a primitive.                                                       *)
LEMMA ThenTell ==
  ASSUME NEW c, NEW d, NEW st, NEW tm, NEW ces, NEW ps, NEW li,
         Turns(c, d, st, tm, ces, ps, li), NEW p
  PROVE  /\ Turns(c, Tell(d, p), st, tm, ces, ps, li)
         /\ p \in EndPrimitives => Ends(Tell(d, p))
  BY TurnsFacts, TellCalm, TurnsOn

(* Then a message.                                                         *)
LEMMA ThenSend ==
  ASSUME NEW c, NEW d, NEW st, NEW tm, NEW ces, NEW ps, NEW li,
         Turns(c, d, st, tm, ces, ps, li), NEW mt
  PROVE  Turns(c, Send(d, mt), st, tm, ces, ps, li)
  BY TurnsFacts, SendCalm, TurnsOn

(* Then a STATUS.                                                          *)
LEMMA ThenSendStatus ==
  ASSUME NEW c, NEW d, NEW st, NEW tm, NEW ces, NEW ps, NEW li,
         Turns(c, d, st, tm, ces, ps, li), NEW s
  PROVE  Turns(c, SendStatus(d, s), st, tm, ces, ps, li)
  BY TurnsFacts, SendStatusCalm, TurnsOn

(* Then a message is decoded.                                              *)
LEMMA ThenDecode ==
  ASSUME NEW c, NEW d, NEW st, NEW tm, NEW ces, NEW ps, NEW li,
         Turns(c, d, st, tm, ces, ps, li), NEW m
  PROVE  Turns(c, Decode(d, m), st, tm, ces, ps, li)
  BY TurnsFacts, DecodeCalm, TurnsOn

(* Then a tone.                                                            *)
LEMMA ThenTone ==
  ASSUME NEW c, NEW d, NEW st, NEW tm, NEW ces, NEW ps, NEW li,
         Turns(c, d, st, tm, ces, ps, li)
  PROVE  /\ Turns(c, StartTone(d), st, tm, ces, ps, li)
         /\ Turns(c, StopTone(d), st, tm, ces, ps, li)
  BY TurnsFacts, ToneCalm, TurnsOn

(* Then the channel is released, cut or connected.                         *)
LEMMA ThenChan ==
  ASSUME NEW c, NEW d, NEW st, NEW tm, NEW ces, NEW ps, NEW li,
         Turns(c, d, st, tm, ces, ps, li), ChanOK(c)
  PROVE  /\ Turns(c, ChanRelease(d), st, tm, ces, ps, li)
         /\ Turns(c, ChanDisconnect(d), st, tm, ces, ps, li)
         /\ Turns(c, ChanConnect(d), st, tm, ces, ps, li)
  BY TurnsFacts, ChanReleaseCalm, ChanDisconnectCalm, ChanConnectCalm, TurnsOn

(* Then timers and a state.                                                *)
LEMMA ThenGo ==
  ASSUME NEW c, NEW d, NEW st, NEW tm, NEW ces, NEW ps, NEW li,
         Turns(c, d, st, tm, ces, ps, li), NEW stop, NEW start, NEW st2
  PROVE  Turns(c, Go(d, stop, start, st2), st2, (tm \ stop) \cup start, ces, ps, li)
<1> DEFINE e == Go(d, stop, start, st2)
<1>1. Shaped(d) /\ d.tm = tm /\ d.ces = ces /\ d.presel = ps /\ d.listed = li
  BY TurnsFacts
<1>2. Turns(d, e, st2, (tm \ stop) \cup start, ces, ps, li)
  BY <1>1, GoTurns
<1> QED BY <1>2, TurnsTwice

(* Then a timer is started.                                                *)
LEMMA ThenStart ==
  ASSUME NEW c, NEW d, NEW st, NEW tm, NEW ces, NEW ps, NEW li,
         Turns(c, d, st, tm, ces, ps, li), NEW t
  PROVE  Turns(c, Start(d, t), st, tm \cup {t}, ces, ps, li)
<1>1. /\ Shaped(d) /\ d.st = st /\ d.tm = tm /\ d.ces = ces
      /\ d.presel = ps /\ d.listed = li
  BY TurnsFacts
<1>2. Turns(d, Start(d, t), st, tm \cup {t}, ces, ps, li)
  BY <1>1, StartTurns
<1> QED BY <1>2, TurnsTwice

(* Then timers are stopped.                                                *)
LEMMA ThenStop ==
  ASSUME NEW c, NEW d, NEW st, NEW tm, NEW ces, NEW ps, NEW li,
         Turns(c, d, st, tm, ces, ps, li), NEW ts
  PROVE  /\ Turns(c, Stop(d, ts), st, tm \ ts, ces, ps, li)
         /\ Turns(c, StopAnyTimer(d), st, {}, ces, ps, li)
<1>1. /\ Shaped(d) /\ d.st = st /\ d.tm = tm /\ d.ces = ces
      /\ d.presel = ps /\ d.listed = li
  BY TurnsFacts
<1>2. Turns(d, Stop(d, ts), st, tm \ ts, ces, ps, li)
  BY <1>1, StopTurns
<1>3. Turns(d, StopAnyTimer(d), st, {}, ces, ps, li)
  BY <1>1, StopAnyTurns
<1> QED BY <1>2, <1>3, TurnsTwice

(* Then a state.                                                           *)
LEMMA ThenSetState ==
  ASSUME NEW c, NEW d, NEW st, NEW tm, NEW ces, NEW ps, NEW li,
         Turns(c, d, st, tm, ces, ps, li), NEW st2
  PROVE  Turns(c, SetState(d, st2), st2, tm, ces, ps, li)
<1>1. /\ Shaped(d) /\ d.st = st /\ d.tm = tm /\ d.ces = ces
      /\ d.presel = ps /\ d.listed = li
  BY TurnsFacts
<1>2. Turns(d, SetState(d, st2), st2, tm, ces, ps, li)
  BY <1>1, SetStateTurns
<1> QED BY <1>2, TurnsTwice

(* Then off the list.                                                      *)
LEMMA ThenRelease ==
  ASSUME NEW c, NEW d, NEW st, NEW tm, NEW ces, NEW ps, NEW li,
         Turns(c, d, st, tm, ces, ps, li)
  PROVE  Turns(c, ReleaseReference(d), st, tm, ces, ps, FALSE)
<1>1. /\ Shaped(d) /\ d.st = st /\ d.tm = tm /\ d.ces = ces
      /\ d.presel = ps /\ d.listed = li
  BY TurnsFacts
<1>2. Turns(d, ReleaseReference(d), st, tm, ces, ps, FALSE)
  BY <1>1, ReleaseTurns
<1> QED BY <1>2, TurnsTwice

(* Then the null state.                                                    *)
LEMMA ThenToN0 ==
  ASSUME NEW c, NEW d, NEW st, NEW tm, NEW ces, NEW ps, NEW li,
         Turns(c, d, st, tm, ces, ps, li), ChanOK(c)
  PROVE  Turns(c, ToN0(d), "N0", tm, ces, ps, FALSE)
<1>1. /\ Shaped(d) /\ ChanOK(d) /\ d.st = st /\ d.tm = tm /\ d.ces = ces
      /\ d.presel = ps /\ d.listed = li
  BY TurnsFacts
<1>2. Turns(d, ToN0(d), "N0", tm, ces, ps, FALSE)
  BY <1>1, ToN0Turns
<1> QED BY <1>2, TurnsTwice

(* Then every suffix is released.                                          *)
LEMMA ThenReleaseAll ==
  ASSUME NEW c, NEW d, NEW st, NEW tm, NEW ces, NEW ps, NEW li,
         Turns(c, d, st, tm, ces, ps, li)
  PROVE  Turns(c, CesReleaseAll(d), st, tm, RelAll(ces), ps, li)
<1>1. /\ Shaped(d) /\ d.st = st /\ d.tm = tm /\ d.ces = ces
      /\ d.presel = ps /\ d.listed = li
  BY TurnsFacts
<1>2. Turns(d, CesReleaseAll(d), st, tm, RelAll(ces), ps, li)
  BY <1>1, CesReleaseAllTurns
<1> QED BY <1>2, TurnsTwice

(* A call given up by broadcast.                                           *)
LEMMA AbortTurns ==
  ASSUME NEW c, NEW d, NEW st, NEW tm, NEW ces, NEW ps, NEW li,
         Turns(c, d, st, tm, ces, ps, li), ChanOK(c)
  PROVE  IF "T312" \in tm
         THEN Turns(c, AbortBroadcast(d), "N22", tm, RelAll(ces), ps, li)
         ELSE Turns(c, AbortBroadcast(d), "N0", tm, RelAll(ces), ps, FALSE)
<1> DEFINE e == CesReleaseAll(ChanRelease(d))
<1>1. Turns(c, e, st, tm, RelAll(ces), ps, li)
  BY ThenChan, ThenReleaseAll
<1>2. d.tm = tm
  BY TurnsFacts
<1> HIDE DEF e
<1>3. CASE "T312" \in tm
  <2>1. AbortBroadcast(d) = SetState(e, "N22")
    BY <1>2, <1>3 DEF AbortBroadcast, e
  <2> QED BY <1>1, <1>3, <2>1, ThenSetState
<1>4. CASE "T312" \notin tm
  <2>1. AbortBroadcast(d) = ReleaseReference(SetState(e, "N0"))
    BY <1>2, <1>4 DEF AbortBroadcast, e
  <2> QED BY <1>1, <1>4, <2>1, ThenSetState, ThenRelease
<1> QED BY <1>3, <1>4

-----------------------------------------------------------------------------
(* What keeps the invariant.                                               *)

(* Once every suffix is released all are going, each with its T308 if      *)
(* those already going had it.                                             *)
LEMMA RelAllFacts ==
  ASSUME NEW ces \in Suffixes, NoneIsIdle(ces)
  PROVE  /\ RelAll(ces) \in Suffixes /\ NoneIsIdle(RelAll(ces))
         /\ AllGoing(RelAll(ces))
         /\ Watched(ces) => Watched(RelAll(ces))
         /\ AnyLeft(RelAll(ces)) <=> AnyLeft(ces)
<1>1. ASSUME NEW t \in TEs
      PROVE  /\ RelAll(ces)[t] \in [st : CesStates \cup {"none"},
                                   tm : SUBSET {"T304", "T308", "T322"},
                                   fired : BOOLEAN, senq : 0..SenqMax]
             /\ RelAll(ces)[t].st = "none" => RelAll(ces)[t].tm = {}
             /\ RelAll(ces)[t].st \in {"none", "I19"}
             /\ ces[t].st = "none" <=> RelAll(ces)[t].st = "none"
             /\ RelAll(ces)[t].st = "I19" =>
                   \/ ces[t].st = "I19" /\ RelAll(ces)[t] = ces[t]
                   \/ "T308" \in RelAll(ces)[t].tm
  <2> DEFINE s == ces[t]
  <2>1. s \in [st : CesStates \cup {"none"}, tm : SUBSET {"T304", "T308", "T322"},
               fired : BOOLEAN, senq : 0..SenqMax] /\ (s.st = "none" => s.tm = {})
    BY DEF Suffixes, NoneIsIdle
  <2>2. RelAll(ces)[t] = Released(s)
    BY DEF RelAll
  <2> HIDE DEF s
  <2>3. CASE s.st \in {"none", "I19"}
    <3>1. Released(s) = s
      BY <2>3 DEF Released
    <3> QED BY <2>1, <2>2, <2>3, <3>1 DEF s
  <2>4. CASE s.st \notin {"none", "I19"}
    <3>1. /\ Released(s).st = "I19" /\ "T308" \in Released(s).tm
          /\ Released(s) \in [st : CesStates \cup {"none"},
                              tm : SUBSET {"T304", "T308", "T322"},
                              fired : BOOLEAN, senq : 0..SenqMax]
      BY <2>1, <2>4 DEF Released, CesStates
    <3> QED BY <2>1, <2>2, <2>4, <3>1 DEF s
  <2> QED BY <2>3, <2>4
<1>2. DOMAIN RelAll(ces) = TEs /\ RelAll(ces) = [t \in TEs |-> RelAll(ces)[t]]
  BY DEF RelAll
<1>3. RelAll(ces) \in Suffixes
  BY <1>1, <1>2 DEF Suffixes
<1> QED BY <1>1, <1>3 DEF NoneIsIdle, AllGoing, Watched, AnyLeft

(* A listed broadcast call, part by part.                                  *)
LEMMA GoodFacts ==
  ASSUME NEW c, Good(c)
  PROVE  /\ Shaped(c) /\ ChanOK(c) /\ c.listed = TRUE /\ c.bc = TRUE
         /\ c.st \in Reached \ {"N0"} /\ c.tm \subseteq NetTimers
         /\ c.ces \in Suffixes /\ NoneIsIdle(c.ces)
         /\ c.presel \in TEs \cup {NoTe} /\ c.dis \in BOOLEAN /\ Lives(c) /\ Core(c)
         /\ Turns(c, c, c.st, c.tm, c.ces, c.presel, c.listed) /\ c.listed \in BOOLEAN
  BY TurnsSelf DEF Good, Core, Phase

(* A step into a legal state with legal timers and suffixes keeps the      *)
(* core.                                                                   *)
LEMMA CoreOf ==
  ASSUME NEW c, Core(c), NEW d,
         NEW st \in Reached, NEW tm \in SUBSET NetTimers, NEW ces \in Suffixes,
         NoneIsIdle(ces), NEW ps \in TEs \cup {NoTe}, NEW li \in BOOLEAN,
         Turns(c, d, st, tm, ces, ps, li)
  PROVE  Core(d)
  BY TurnsFacts DEF Core

(* The call is over and the CCB is told.                                   *)
LEMMA OverAfter ==
  ASSUME NEW c, Good(c), NEW d, NEW tm \in SUBSET NetTimers, NEW ces \in Suffixes,
         NoneIsIdle(ces), NEW ps \in TEs \cup {NoTe},
         Turns(c, d, "N0", tm, ces, ps, FALSE),
         Ends(d) \/ (c.st = "N22" /\ ~c.dis)
  PROVE  After(c, d)
<1>1. Core(c) /\ "N0" \in Reached
  BY GoodFacts DEF Reached
<1>2. Core(d)
  BY <1>1, CoreOf
<1>3. d.listed = FALSE /\ d.st = "N0" /\ d.bc = c.bc /\ d.dis = c.dis
  BY DEF Turns, Good
<1> QED BY <1>2, <1>3 DEF After

(* The call leaves the offer and goes on as any call does.                 *)
LEMMA AwayAfter ==
  ASSUME NEW c, Good(c), NEW d, NEW st \in {"N11", "N12", "N19"},
         NEW tm \in SUBSET NetTimers, NEW ces \in Suffixes,
         NoneIsIdle(ces), NEW ps \in TEs \cup {NoTe},
         Turns(c, d, st, tm, ces, ps, c.listed)
  PROVE  After(c, d)
<1>1. Core(c) /\ st \in Reached /\ c.listed \in BOOLEAN
  BY GoodFacts DEF Reached
<1>2. Core(d)
  BY <1>1, CoreOf
<1>3. d.listed = TRUE /\ d.st = st /\ d.bc = c.bc /\ d.dis = c.dis
  BY DEF Turns, Good
<1>4. Phase(d)
  BY <1>3 DEF Phase, Offering
<1> QED BY <1>2, <1>3, <1>4 DEF After

(* The call stays listed, in a state that is not N22 or was it before.     *)
LEMMA ListedAfter ==
  ASSUME NEW c, Good(c), NEW d, NEW st \in Reached, NEW tm \in SUBSET NetTimers,
         NEW ces \in Suffixes, NoneIsIdle(ces), NEW ps \in TEs \cup {NoTe},
         Turns(c, d, st, tm, ces, ps, c.listed),
         st = "N22" => c.st = "N22" \/ c.dis \/ Ends(d),
         /\ st # "N0"
         /\ st = "N6" => {"T303", "T312"} \subseteq tm
         /\ st \in {"N6", "N22", "N10", "N15"} => AllGoing(ces)
         /\ st = "N8" => ps \in TEs /\ ces[ps].st = "I8"
         /\ st \in Offering => Watched(ces)
         /\ st = "N22" => "T312" \in tm \/ AnyLeft(ces)
  PROVE  After(c, d)
<1>1. Core(c) /\ c.listed \in BOOLEAN
  BY GoodFacts
<1>2. Core(d)
  BY <1>1, CoreOf
<1>3. /\ d.listed = TRUE /\ d.st = st /\ d.bc = c.bc /\ d.dis = c.dis
      /\ d.tm = tm /\ d.ces = ces /\ d.presel = ps
  BY DEF Turns, Good
<1>4. Phase(d)
  BY <1>3 DEF Phase
<1> QED BY <1>2, <1>3, <1>4 DEF After

(* Only timers change, and not those the offer depends on.                 *)
LEMMA StayAfter ==
  ASSUME NEW c, Good(c), NEW d, NEW tm \in SUBSET NetTimers,
         \A t \in {"T303", "T312"} : t \in c.tm => t \in tm,
         Turns(c, d, c.st, tm, c.ces, c.presel, c.listed)
  PROVE  After(c, d)
<1>1. /\ c.st \in Reached /\ c.ces \in Suffixes /\ NoneIsIdle(c.ces)
      /\ c.presel \in TEs \cup {NoTe}
  BY GoodFacts
<1>2. Phase(c)
  BY DEF Good
<1> QED BY <1>1, <1>2, ListedAfter DEF Phase

(* Nothing that matters changes.                                           *)
LEMMA CalmAfter ==
  ASSUME NEW c, Good(c), NEW d, Turns(c, d, c.st, c.tm, c.ces, c.presel, c.listed)
  PROVE  After(c, d)
  BY GoodFacts, StayAfter

(* ... with a message sent and timers started, and the CCB told or not.     *)
LEMMA AwayGo ==
  ASSUME NEW c, Good(c), NEW d, NEW st, NEW tm \in SUBSET NetTimers,
         NEW ces \in Suffixes, NoneIsIdle(ces),
         Turns(c, d, st, tm, ces, c.presel, c.listed),
         NEW stop, NEW start \in SUBSET NetTimers, NEW st2 \in {"N11", "N12", "N19"},
         NEW p, NEW q
  PROVE  /\ After(c, Go(d, stop, start, st2))
         /\ After(c, Tell(Go(d, stop, start, st2), p))
         /\ After(c, Tell(Tell(Go(d, stop, start, st2), p), q))
<1> DEFINE e == Go(d, stop, start, st2)
           tm2 == (tm \ stop) \cup start
<1>1. Turns(c, e, st2, tm2, ces, c.presel, c.listed)
  BY ThenGo
<1>2. tm2 \in SUBSET NetTimers /\ c.presel \in TEs \cup {NoTe}
  BY GoodFacts
<1> HIDE DEF e, tm2
<1>3. /\ Turns(c, Tell(e, p), st2, tm2, ces, c.presel, c.listed)
      /\ Turns(c, Tell(Tell(e, p), q), st2, tm2, ces, c.presel, c.listed)
  BY <1>1, ThenTell
<1>4. After(c, e) /\ After(c, Tell(e, p)) /\ After(c, Tell(Tell(e, p), q))
  BY <1>1, <1>2, <1>3, AwayAfter
<1> QED BY <1>4 DEF e

(* Back to the null state, and the CCB is told.                            *)
LEMMA ToN0After ==
  ASSUME NEW c, Good(c), NEW d, NEW st, NEW tm \in SUBSET NetTimers,
         NEW ces \in Suffixes, NoneIsIdle(ces),
         Turns(c, d, st, tm, ces, c.presel, c.listed),
         NEW p \in EndPrimitives, NEW q \in EndPrimitives
  PROVE  After(c, Tell(ToN0(d), p)) /\ After(c, Tell(Tell(ToN0(d), q), p))
<1> DEFINE e == ToN0(d)
<1>1. Turns(c, e, "N0", tm, ces, c.presel, FALSE)
  BY GoodFacts, ThenToN0
<1> HIDE DEF e
<1>2. /\ Turns(c, Tell(e, p), "N0", tm, ces, c.presel, FALSE)
      /\ Ends(Tell(e, p))
  BY <1>1, ThenTell
<1>3. /\ Turns(c, Tell(e, q), "N0", tm, ces, c.presel, FALSE)
  BY <1>1, ThenTell
<1>4. /\ Turns(c, Tell(Tell(e, q), p), "N0", tm, ces, c.presel, FALSE)
      /\ Ends(Tell(Tell(e, q), p))
  BY <1>3, ThenTell
<1>5. c.presel \in TEs \cup {NoTe}
  BY GoodFacts
<1> QED BY <1>2, <1>4, <1>5, OverAfter DEF e

(* The offer is given up, and the CCB is told or has asked for it.         *)
LEMMA AbortAfter ==
  ASSUME NEW c, Good(c), NEW d, NEW st, NEW tm \in SUBSET NetTimers,
         NEW ces \in Suffixes, NoneIsIdle(ces), Watched(ces),
         Turns(c, d, st, tm, ces, c.presel, c.listed)
  PROVE  /\ After(c, Tell(AbortBroadcast(d), "RELEASE_IND"))
         /\ c.dis => After(c, IF AbortBroadcast(d).st = "N0"
                              THEN Tell(AbortBroadcast(d), "RELEASE_IND")
                              ELSE AbortBroadcast(d))
<1> DEFINE e == AbortBroadcast(d)
           f == Tell(e, "RELEASE_IND")
<1>1. /\ RelAll(ces) \in Suffixes /\ NoneIsIdle(RelAll(ces))
      /\ AllGoing(RelAll(ces)) /\ Watched(RelAll(ces))
  BY RelAllFacts
<1>2. c.presel \in TEs \cup {NoTe} /\ ChanOK(c)
  BY GoodFacts
<1>3. "RELEASE_IND" \in EndPrimitives
  BY DEF EndPrimitives
<1>4. CASE "T312" \in tm
  <2>1. Turns(c, e, "N22", tm, RelAll(ces), c.presel, c.listed)
    BY <1>2, <1>4, AbortTurns
  <2> HIDE DEF e
  <2>2. Turns(c, f, "N22", tm, RelAll(ces), c.presel, c.listed) /\ Ends(f)
    BY <1>3, <2>1, ThenTell
  <2> HIDE DEF f
  <2>3. After(c, f)
    BY <1>1, <1>2, <1>4, <2>2, ListedAfter DEF Reached
  <2>4. c.dis => After(c, e)
    BY <1>1, <1>2, <1>4, <2>1, ListedAfter DEF Reached
  <2> QED BY <2>3, <2>4 DEF e, f
<1>5. CASE "T312" \notin tm
  <2>1. Turns(c, e, "N0", tm, RelAll(ces), c.presel, FALSE)
    BY <1>2, <1>5, AbortTurns
  <2>2. e.st = "N0"
    BY <2>1 DEF Turns
  <2> HIDE DEF e
  <2>3. Turns(c, f, "N0", tm, RelAll(ces), c.presel, FALSE) /\ Ends(f)
    BY <1>3, <2>1, ThenTell
  <2> HIDE DEF f
  <2>4. After(c, f)
    BY <1>1, <1>2, <2>3, OverAfter
  <2> QED BY <2>2, <2>4 DEF e, f
<1> QED BY <1>4, <1>5

-----------------------------------------------------------------------------
(* Requests.                                                               *)

(* q931_info_request and q931_notify_request.                              *)
LEMMA InfoAfter ==
  ASSUME NEW c, Good(c)
  PROVE  After(c, N_info_request(c)) /\ After(c, N_notify_request(c))
<1>1. Turns(c, c, c.st, c.tm, c.ces, c.presel, c.listed)
  BY GoodFacts
<1>2. /\ Turns(c, Send(c, "INFORMATION"), c.st, c.tm, c.ces, c.presel, c.listed)
      /\ Turns(c, Send(c, "NOTIFY"), c.st, c.tm, c.ces, c.presel, c.listed)
  BY <1>1, ThenSend
<1>3. After(c, c) /\ After(c, Send(c, "INFORMATION")) /\ After(c, Send(c, "NOTIFY"))
  BY <1>1, <1>2, CalmAfter
<1> QED BY <1>3 DEF N_info_request, N_notify_request

(* q931_release_request.                                                   *)
LEMMA ReleaseRequestAfter ==
  ASSUME NEW c, Good(c)
  PROVE  After(c, N_release_request(c))
<1> DEFINE d == Send(c, "RELEASE")
           tm == (c.tm \ {}) \cup {"T308"}
<1>1. Turns(c, d, c.st, c.tm, c.ces, c.presel, c.listed)
  BY GoodFacts, ThenSend
<1>2. Turns(c, Go(d, {}, {"T308"}, "N19"), "N19", tm, c.ces, c.presel, c.listed)
  BY <1>1, ThenGo
<1>3. tm \in SUBSET NetTimers
  BY GoodFacts DEF NetTimers, Timers
<1>4. After(c, Go(d, {}, {"T308"}, "N19"))
  BY <1>2, <1>3, GoodFacts, AwayAfter
<1>5. After(c, c)
  BY GoodFacts, CalmAfter
<1> QED BY <1>4, <1>5 DEF N_release_request

(* q931_suspend_reject_request.                                            *)
LEMMA SuspendAfter ==
  ASSUME NEW c, Good(c)
  PROVE  After(c, N_suspend_reject_request(c))
<1> DEFINE d == Send(c, "SUSPEND_REJECT")
<1>1. CASE c.st = "N15"
  <2>1. Turns(c, SetState(d, "N10"), "N10", c.tm, c.ces, c.presel, c.listed)
    BY GoodFacts, ThenSend, ThenSetState
  <2>2. AllGoing(c.ces)
    BY <1>1 DEF Good, Phase
  <2> HIDE DEF d
  <2>3. c.tm \in SUBSET NetTimers /\ c.ces \in Suffixes /\ NoneIsIdle(c.ces)
        /\ c.presel \in TEs \cup {NoTe}
    BY GoodFacts
  <2>4. After(c, SetState(d, "N10"))
    BY <2>1, <2>2, <2>3, ListedAfter DEF Reached, Offering
  <2> QED BY <1>1, <2>4 DEF N_suspend_reject_request, d
<1>2. CASE c.st # "N15"
  BY <1>2, GoodFacts, CalmAfter DEF N_suspend_reject_request
<1> QED BY <1>1, <1>2

(* The requests a broadcast call does not answer to.                       *)
LEMMA IdleRequests ==
  ASSUME NEW c, Good(c)
  PROVE  /\ N_alerting_request(c) = c /\ N_more_info_request(c) = c
         /\ N_proceeding_request(c) = c /\ N_progress_request(c) = c
         /\ N_reject_request(c) = c /\ N_resume_reject_request(c) = c
         /\ N_resume_response(c) = c /\ N_setup_response(c) = c
<1>1. c.st \in Reached \ {"N0"} /\ c.bc = TRUE
  BY GoodFacts
<1> QED BY <1>1 DEF Reached, N_alerting_request, N_more_info_request,
          N_proceeding_request, N_progress_request, N_reject_request,
          N_resume_reject_request, N_resume_response, N_setup_response

(* The CCB has asked for the end of the call.                              *)
LEMMA DisGood ==
  ASSUME NEW c, Good(c)
  PROVE  LET d == [c EXCEPT !.dis = TRUE]
         IN  /\ Good(d) /\ d.dis /\ d.st = c.st /\ d.bc = c.bc
             /\ \A e : After(d, e) => After(c, e)
<1> DEFINE d == [c EXCEPT !.dis = TRUE]
<1>1. DOMAIN d = CallFields /\ d.dis = TRUE
  BY DEF Good, Core, Shaped, CallFields
<1>2. /\ d.st = c.st /\ d.tm = c.tm /\ d.ces = c.ces /\ d.presel = c.presel
      /\ d.listed = c.listed /\ d.bc = c.bc /\ d.ok = c.ok /\ d.stale = c.stale
      /\ d.ch = c.ch /\ d.chans = c.chans /\ d.up = c.up
  BY DEF Good, Core, Shaped, CallFields
<1> HIDE DEF d
<1>3. Core(d)
  BY <1>1, <1>2 DEF Good, Core, Shaped, ChanOK
<1>4. Good(d)
  BY <1>2, <1>3 DEF Good, Phase, Lives
<1>5. ASSUME NEW e, After(d, e)
      PROVE  After(c, e)
  BY <1>1, <1>2, <1>5 DEF After
<1> QED BY <1>1, <1>2, <1>4, <1>5 DEF d

(* A connected call is disconnected.                                       *)
LEMMA DisconnectNAfter ==
  ASSUME NEW c, Good(c)
  PROVE  After(c, DisconnectN(c))
<1>1. /\ Shaped(c) /\ ChanOK(c) /\ c.tm \in SUBSET NetTimers /\ c.ces \in Suffixes
      /\ NoneIsIdle(c.ces) /\ c.presel \in TEs \cup {NoTe}
  BY GoodFacts
<1>2. PICK t \in {"T305", "T306"} :
        Turns(c, DisconnectN(c), "N12", c.tm \cup {t}, c.ces, c.presel, c.listed)
  BY <1>1, DisconnectNTurns
<1>3. c.tm \cup {t} \in SUBSET NetTimers
  BY <1>1 DEF NetTimers, Timers
<1> QED BY <1>1, <1>2, <1>3, AwayAfter

(* q931_disconnect_request: before the award the call is given up, and the *)
(* CCB is told at once if nothing is left to wait for; in N6 T312 still    *)
(* runs, so N22 is supervised.                                             *)
LEMMA DisconnectRequestAfter ==
  ASSUME NEW c0, Good(c0)
  PROVE  After(c0, N_disconnect_request(c0))
<1> DEFINE c == [c0 EXCEPT !.dis = TRUE]
           S == [N2 |-> {"T302"}, N6 |-> {"T303"}, N7 |-> {"T301"},
                 N8 |-> {}, N9 |-> {"T310"}, N25 |-> {"T304"}]
           stop == S[c.st]
           bcast == AbortBroadcast(Stop(c, stop))
           d == N_disconnect_request(c0)
<1>1. Good(c) /\ c.dis /\ (After(c, d) => After(c0, d))
  BY DisGood
<1>2. /\ c.st \in Reached \ {"N0"} /\ c.bc = TRUE /\ c.tm \in SUBSET NetTimers
      /\ c.ces \in Suffixes /\ NoneIsIdle(c.ces) /\ ChanOK(c)
      /\ Turns(c, c, c.st, c.tm, c.ces, c.presel, c.listed)
      /\ c.presel \in TEs \cup {NoTe}
  BY <1>1, GoodFacts
<1>3. d = CASE c.st \in {"N10", "N15"} -> DisconnectN(c)
            [] c.st = "N6" -> Go(ChanDisconnect(c), {"T303"}, {}, "N22")
            [] c.st \in {"N7", "N8", "N9", "N25"} ->
                 IF bcast.st = "N0" THEN Tell(bcast, "RELEASE_IND") ELSE bcast
            [] OTHER -> c
  BY <1>2 DEF N_disconnect_request, Reached
<1> SUFFICES After(c, d)
  BY <1>1
<1> HIDE DEF c, d, bcast, stop
<1>4. CASE c.st \in {"N10", "N15"}
  BY <1>1, <1>3, <1>4, DisconnectNAfter
<1>5. CASE c.st = "N6"
  <2> DEFINE e == Go(ChanDisconnect(c), {"T303"}, {}, "N22")
             tm == (c.tm \ {"T303"}) \cup {}
  <2>1. Turns(c, e, "N22", tm, c.ces, c.presel, c.listed)
    BY <1>2, ThenChan, ThenGo
  <2>2. "T312" \in tm /\ tm \in SUBSET NetTimers /\ AllGoing(c.ces) /\ Watched(c.ces)
    BY <1>1, <1>2, <1>5 DEF Good, Phase, Offering
  <2>3. d = e
    BY <1>3, <1>5
  <2> HIDE DEF e, tm
  <2>4. After(c, e)
    BY <1>1, <1>2, <2>1, <2>2, ListedAfter DEF Reached
  <2> QED BY <1>1, <2>3, <2>4
<1>6. CASE c.st \in {"N7", "N8", "N9", "N25"}
  <2>1. Turns(c, Stop(c, stop), c.st, c.tm \ stop, c.ces, c.presel, c.listed)
    BY <1>2, ThenStop
  <2>2. c.tm \ stop \in SUBSET NetTimers /\ Watched(c.ces)
    BY <1>1, <1>2, <1>6 DEF Good, Phase, Offering
  <2>3. After(c, IF bcast.st = "N0" THEN Tell(bcast, "RELEASE_IND") ELSE bcast)
    BY <1>1, <1>2, <2>1, <2>2, AbortAfter DEF bcast
  <2> QED BY <1>1, <1>3, <1>6, <2>3
<1>7. CASE c.st \notin {"N10", "N15", "N6", "N7", "N8", "N9", "N25"}
  BY <1>1, <1>2, <1>3, <1>7, CalmAfter
<1> QED BY <1>4, <1>5, <1>6, <1>7

(* What one suffix may be.                                                 *)
OneCes == [st : CesStates \cup {"none"}, tm : SUBSET {"T304", "T308", "T322"},
           fired : BOOLEAN, senq : 0..SenqMax]

(* Suffix t becomes s, the others stay: what that does to what is said of  *)
(* all suffixes.                                                           *)
LEMMA PutFacts ==
  ASSUME NEW ces \in Suffixes, NoneIsIdle(ces), NEW t \in TEs, NEW s \in OneCes,
         s.st = "none" => s.tm = {}
  PROVE  /\ [ces EXCEPT ![t] = s] \in Suffixes
         /\ NoneIsIdle([ces EXCEPT ![t] = s])
         /\ AllGoing(ces) /\ s.st \in {"none", "I19"} => AllGoing([ces EXCEPT ![t] = s])
         /\ Watched(ces) /\ (s.st = "I19" => "T308" \in s.tm) =>
              Watched([ces EXCEPT ![t] = s])
         /\ s.st # "none" => AnyLeft([ces EXCEPT ![t] = s])
         /\ [ces EXCEPT ![t] = s][t] = s
         /\ \A u \in TEs \ {t} : [ces EXCEPT ![t] = s][u] = ces[u]
<1> DEFINE n == [ces EXCEPT ![t] = s]
<1>1. ces \in [TEs -> OneCes]
  BY DEF Suffixes, OneCes
<1>2. n \in [TEs -> OneCes]
  BY <1>1
<1>3. n[t] = s /\ \A u \in TEs \ {t} : n[u] = ces[u]
  BY <1>1
<1> HIDE DEF n
<1>4. n \in Suffixes
  BY <1>2 DEF Suffixes, OneCes
<1>5. NoneIsIdle(n)
  BY <1>3 DEF NoneIsIdle
<1>6. AllGoing(ces) /\ s.st \in {"none", "I19"} => AllGoing(n)
  BY <1>3 DEF AllGoing
<1>7. Watched(ces) /\ (s.st = "I19" => "T308" \in s.tm) => Watched(n)
  BY <1>3 DEF Watched
<1>8. s.st # "none" => AnyLeft(n)
  BY <1>3 DEF AnyLeft
<1> QED BY <1>3, <1>4, <1>5, <1>6, <1>7, <1>8 DEF n

(* A suffix that is not there.                                             *)
LEMMA NoCesFacts == NoCes \in OneCes /\ NoCes.st = "none" /\ NoCes.tm = {}
  BY SenqAssumption DEF NoCes, OneCes

(* Then a field the invariant does not speak of.                           *)
LEMMA ThenOther ==
  ASSUME NEW c, NEW d, NEW st, NEW tm, NEW ces, NEW ps, NEW li,
         Turns(c, d, st, tm, ces, ps, li), NEW v
  PROVE  /\ Turns(c, [d EXCEPT !.f303 = v], st, tm, ces, ps, li)
         /\ Turns(c, [d EXCEPT !.f308 = v], st, tm, ces, ps, li)
         /\ Turns(c, [d EXCEPT !.rcr = v], st, tm, ces, ps, li)
         /\ Turns(c, [d EXCEPT !.senq = v], st, tm, ces, ps, li)
         /\ Turns(c, [d EXCEPT !.dlc = v], st, tm, ces, ps, li)
<1>1. Shaped(d)
  BY TurnsFacts
<1>2. /\ Calm(d, [d EXCEPT !.f303 = v]) /\ Calm(d, [d EXCEPT !.f308 = v])
      /\ Calm(d, [d EXCEPT !.rcr = v]) /\ Calm(d, [d EXCEPT !.senq = v])
      /\ Calm(d, [d EXCEPT !.dlc = v])
  BY <1>1, OtherFieldCalm
<1> QED BY <1>2, TurnsOn

(* Then a suffix is freed.                                                 *)
LEMMA ThenFree ==
  ASSUME NEW c, NEW d, NEW st, NEW tm, NEW ces, NEW ps, NEW li,
         Turns(c, d, st, tm, ces, ps, li), NEW t
  PROVE  Turns(c, CesFree(d, t), st, tm, [ces EXCEPT ![t] = NoCes], ps, li)
<1>1. /\ Shaped(d) /\ d.st = st /\ d.tm = tm /\ d.ces = ces
      /\ d.presel = ps /\ d.listed = li
  BY TurnsFacts
<1>2. Turns(d, CesFree(d, t), st, tm, [ces EXCEPT ![t] = NoCes], ps, li)
  BY <1>1, CesFreeTurns
<1> QED BY <1>2, TurnsTwice

(* q931_setup_complete_request: the preselected terminal's suffix is       *)
(* freed, all others are released.                                         *)
LEMMA SetupCompleteAfter ==
  ASSUME NEW c, Good(c)
  PROVE  After(c, N_setup_complete_request(c))
<1>1. /\ c.tm \in SUBSET NetTimers /\ c.ces \in Suffixes /\ NoneIsIdle(c.ces)
      /\ c.bc = TRUE /\ ChanOK(c)
      /\ Turns(c, c, c.st, c.tm, c.ces, c.presel, c.listed)
      /\ c.presel \in TEs \cup {NoTe}
  BY GoodFacts
<1>2. CASE c.st # "N8"
  BY <1>1, <1>2, CalmAfter DEF N_setup_complete_request
<1>3. CASE c.st = "N8"
  <2> DEFINE d == ChanConnect(c)
             f == Send([d EXCEPT !.dlc = TRUE], "CONNECT_ACKNOWLEDGE")
             n == [c.ces EXCEPT ![c.presel] = NoCes]
             e == CesReleaseAll(CesFree(f, c.presel))
  <2>1. Turns(c, d, c.st, c.tm, c.ces, c.presel, c.listed)
    BY <1>1, ThenChan
  <2>2. d.bc = TRUE /\ d.presel = c.presel
    BY <1>1, <2>1, TurnsFacts
  <2>3. N_setup_complete_request(c) = SetState(e, "N10")
    BY <1>3, <2>2 DEF N_setup_complete_request
  <2> HIDE DEF d
  <2>4. Turns(c, f, c.st, c.tm, c.ces, c.presel, c.listed)
    BY <2>1, ThenOther, ThenSend
  <2> HIDE DEF f
  <2>5. Turns(c, CesFree(f, c.presel), c.st, c.tm, n, c.presel, c.listed)
    BY <2>4, ThenFree
  <2>6. c.presel \in TEs
    BY <1>3 DEF Good, Phase
  <2>7. n \in Suffixes /\ NoneIsIdle(n)
    BY <1>1, <2>6, PutFacts, NoCesFacts
  <2> HIDE DEF n
  <2>8. Turns(c, e, c.st, c.tm, RelAll(n), c.presel, c.listed)
    BY <2>5, ThenReleaseAll
  <2>9. RelAll(n) \in Suffixes /\ NoneIsIdle(RelAll(n)) /\ AllGoing(RelAll(n))
    BY <2>7, RelAllFacts
  <2> HIDE DEF e
  <2>10. Turns(c, SetState(e, "N10"), "N10", c.tm, RelAll(n), c.presel, c.listed)
    BY <2>8, ThenSetState
  <2>11. After(c, SetState(e, "N10"))
    BY <1>1, <2>9, <2>10, ListedAfter DEF Reached, Offering
  <2> QED BY <2>3, <2>11
<1> QED BY <1>2, <1>3

(* Every terminal's suffix is asked for its status.                        *)
Enquired(c) == [t \in TEs |-> ces_status_enquiry_request(c, t).ces[t]]

(* Only T322 is started, in suffixes that are there.                       *)
LEMMA EnquiredFacts ==
  ASSUME NEW c, Core(c)
  PROVE  LET n == Enquired(c)
             d == [c EXCEPT !.ces = n]
         IN  /\ n \in Suffixes /\ NoneIsIdle(n)
             /\ \A t \in TEs : n[t].st = c.ces[t].st
             /\ Watched(c.ces) => Watched(n)
             /\ Turns(c, d, c.st, c.tm, n, c.presel, c.listed) /\ d.up = c.up
<1> DEFINE n == Enquired(c)
           d == [c EXCEPT !.ces = n]
<1>1. c.ces \in Suffixes /\ NoneIsIdle(c.ces) /\ Shaped(c)
  BY DEF Core
<1>2. ASSUME NEW t \in TEs
      PROVE  \/ n[t] = c.ces[t]
             \/ n[t] = [c.ces[t] EXCEPT !.tm = @ \cup {"T322"}] /\ c.ces[t].st # "none"
  BY <1>1 DEF Enquired, ces_status_enquiry_request, CesStates, Shaped, CallFields, Suffixes
<1>3. ASSUME NEW t \in TEs
      PROVE  /\ n[t] \in OneCes /\ n[t].st = c.ces[t].st
             /\ n[t].st = "none" => n[t].tm = {}
             /\ \A x \in c.ces[t].tm : x \in n[t].tm
  <2>1. c.ces[t] \in OneCes /\ (c.ces[t].st = "none" => c.ces[t].tm = {})
    BY <1>1 DEF Suffixes, OneCes, NoneIsIdle
  <2>2. ASSUME NEW s \in OneCes
        PROVE  LET r == [s EXCEPT !.tm = @ \cup {"T322"}]
               IN  /\ r \in OneCes /\ r.st = s.st
                   /\ \A x \in s.tm : x \in r.tm
    BY DEF OneCes
  <2> HIDE DEF n
  <2>3. CASE n[t] = c.ces[t]
    BY <2>1, <2>3
  <2>4. CASE /\ n[t] = [c.ces[t] EXCEPT !.tm = @ \cup {"T322"}]
             /\ c.ces[t].st # "none"
    BY <2>1, <2>2, <2>4
  <2> QED BY <1>2, <2>3, <2>4
<1>4. DOMAIN n = TEs /\ n = [t \in TEs |-> n[t]]
  BY DEF Enquired
<1>5. Turns(c, d, c.st, c.tm, n, c.presel, c.listed) /\ d.up = c.up
  BY <1>1 DEF Turns, Shaped, CallFields, Lives, Ends, ChanOK
<1> HIDE DEF n, d
<1>6. n \in Suffixes /\ NoneIsIdle(n)
  BY <1>3, <1>4 DEF Suffixes, NoneIsIdle, OneCes
<1>7. Watched(c.ces) => Watched(n)
  BY <1>3 DEF Watched
<1> QED BY <1>3, <1>5, <1>6, <1>7 DEF n, d

(* q931_status_enquiry_request.                                            *)
LEMMA StatusEnquiryAfter ==
  ASSUME NEW c, Good(c)
  PROVE  After(c, N_status_enquiry_request(c))
<1>1. /\ c.tm \in SUBSET NetTimers /\ c.ces \in Suffixes /\ NoneIsIdle(c.ces)
      /\ c.bc = TRUE /\ ChanOK(c) /\ Shaped(c) /\ c.st \in Reached \ {"N0"}
      /\ Turns(c, c, c.st, c.tm, c.ces, c.presel, c.listed)
      /\ c.presel \in TEs \cup {NoTe} /\ Core(c)
  BY GoodFacts
<1>2. CASE c.st \in {"N7", "N8", "N9", "N19", "N25"}
  <2> DEFINE n == Enquired(c)
             d == [c EXCEPT !.ces = n]
  <2>1. N_status_enquiry_request(c) = d
    BY <1>1, <1>2 DEF N_status_enquiry_request, Enquired
  <2>2. /\ n \in Suffixes /\ NoneIsIdle(n)
        /\ \A t \in TEs : n[t].st = c.ces[t].st
        /\ Watched(c.ces) => Watched(n)
        /\ Turns(c, d, c.st, c.tm, n, c.presel, c.listed)
    BY <1>1, EnquiredFacts
  <2> HIDE DEF n, d
  <2>3. c.st = "N8" => c.presel \in TEs /\ n[c.presel].st = "I8"
    BY <2>2 DEF Good, Phase
  <2>4. c.st # "N19" => Watched(c.ces)
    BY <1>2 DEF Good, Phase, Offering
  <2>5. After(c, d)
    BY <1>1, <1>2, <2>2, <2>3, <2>4, ListedAfter DEF Offering
  <2> QED BY <2>1, <2>5
<1>3. CASE c.st = "N6"
  BY <1>1, <1>3, CalmAfter DEF N_status_enquiry_request
<1>4. CASE c.st \notin {"N6", "N7", "N8", "N9", "N19", "N25"}
  <2> DEFINE d == Start([Send(c, "STATUS_ENQUIRY") EXCEPT !.senq = 0], "T322")
  <2>1. Turns(c, d, c.st, c.tm \cup {"T322"}, c.ces, c.presel, c.listed)
    BY <1>1, ThenSend, ThenOther, ThenStart
  <2>2. c.tm \cup {"T322"} \in SUBSET NetTimers
    BY <1>1 DEF NetTimers, Timers
  <2> HIDE DEF d
  <2>3. After(c, d)
    BY <2>1, <2>2, StayAfter
  <2>4. N_status_enquiry_request(c) \in {c, d}
    BY <1>1, <1>4 DEF N_status_enquiry_request, StatusEnquiry, d
  <2> QED BY <1>1, <2>3, <2>4, CalmAfter
<1> QED BY <1>2, <1>3, <1>4

(* A call that is suspended leaves the list, as the CCB has asked.         *)
Suspended(c, d) == Core(d) /\ d.listed = FALSE /\ d.st = "N0" /\ d.bc = c.bc

(* In N15 the response to a SUSPEND ends the call.                         *)
LEMMA SuspendedN15 ==
  ASSUME NEW c, Good(c), c.st = "N15"
  PROVE  Suspended(c, N_suspend_response(c))
<1>1. /\ c.tm \in SUBSET NetTimers /\ c.ces \in Suffixes /\ NoneIsIdle(c.ces)
      /\ Turns(c, c, c.st, c.tm, c.ces, c.presel, c.listed) /\ Core(c)
      /\ c.presel \in TEs \cup {NoTe}
  BY GoodFacts
<1> DEFINE d == SetState(ReleaseReference(Send(c, "SUSPEND_ACKNOWLEDGE")), "N0")
<1>2. Turns(c, d, "N0", c.tm, c.ces, c.presel, FALSE)
  BY <1>1, ThenSend, ThenRelease, ThenSetState
<1> HIDE DEF d
<1>3. Core(d)
  BY <1>1, <1>2, CoreOf DEF Reached
<1>4. Suspended(c, d)
  BY <1>2, <1>3 DEF Suspended, Turns
<1> QED BY <1>4 DEF N_suspend_response, d

(* In any other state it is unexpected.                                    *)
LEMMA SuspendResponse ==
  ASSUME NEW c, Good(c)
  PROVE  \/ c.st # "N15" /\ After(c, N_suspend_response(c))
         \/ c.st = "N15" /\ Suspended(c, N_suspend_response(c))
<1>1. CASE c.st # "N15"
  BY <1>1, GoodFacts, CalmAfter DEF N_suspend_response
<1>2. CASE c.st = "N15"
  BY <1>2, SuspendedN15
<1> QED BY <1>1, <1>2

(* q931_ccb_dispatch: any request the CCB may make of a call it has set    *)
(* up.                                                                     *)
LEMMA RequestAfter ==
  ASSUME NEW c, Good(c), NEW r \in CcbRequests
  PROVE  \/ After(c, ccb_dispatch(c, r))
         \/ r = "SUSPEND_RESPONSE" /\ c.st = "N15" /\ Suspended(c, ccb_dispatch(c, r))
<1> DEFINE d == ccb_dispatch(c, r)
<1>1. c.st \in NStates
  BY GoodFacts DEF Reached, NStates
<1>2. d = N_ccb_dispatch(c, r)
  BY <1>1 DEF ccb_dispatch
<1>3. r \in Requests \ {"SETUP", "RESUME"}
  BY CcbAssumption
<1> HIDE DEF d
<1>4. After(c, c)
  BY GoodFacts, CalmAfter
<1>5. CASE r \in {"ALERTING", "MORE_INFO", "PROCEEDING", "PROGRESS", "REJECT",
                  "RESUME_REJECT", "RESUME_RESPONSE", "SETUP_RESPONSE", "SUSPEND"}
  <2>1. d = c
    BY <1>2, <1>5, IdleRequests DEF N_ccb_dispatch
  <2> QED BY <1>4, <2>1 DEF d
<1>6. CASE r = "DISCONNECT"
  BY <1>2, <1>6, DisconnectRequestAfter DEF N_ccb_dispatch, d
<1>7. CASE r \in {"INFO", "NOTIFY"}
  BY <1>2, <1>7, InfoAfter DEF N_ccb_dispatch, d
<1>8. CASE r = "RELEASE"
  BY <1>2, <1>8, ReleaseRequestAfter DEF N_ccb_dispatch, d
<1>9. CASE r = "SETUP_COMPLETE"
  BY <1>2, <1>9, SetupCompleteAfter DEF N_ccb_dispatch, d
<1>10. CASE r = "STATUS_ENQUIRY"
  BY <1>2, <1>10, StatusEnquiryAfter DEF N_ccb_dispatch, d
<1>11. CASE r = "SUSPEND_REJECT"
  BY <1>2, <1>11, SuspendAfter DEF N_ccb_dispatch, d
<1>12. CASE r = "SUSPEND_RESPONSE"
  BY <1>2, <1>12, SuspendResponse DEF N_ccb_dispatch, d
<1> QED BY <1>3, <1>5, <1>6, <1>7, <1>8, <1>9, <1>10, <1>11, <1>12 DEF Requests

-----------------------------------------------------------------------------
(* Timers of the call.                                                     *)

(* A timer has expired, and nothing comes of it.                           *)
LEMMA TickAfter ==
  ASSUME NEW c, Good(c), NEW d, NEW tm \in SUBSET NetTimers,
         Turns(c, d, c.st, tm, c.ces, c.presel, c.listed),
         c.st = "N6" => {"T303", "T312"} \subseteq tm,
         c.st = "N22" => "T312" \in tm \/ AnyLeft(c.ces)
  PROVE  After(c, d)
<1>1. /\ c.st \in Reached /\ c.ces \in Suffixes /\ NoneIsIdle(c.ces)
      /\ c.presel \in TEs \cup {NoTe}
  BY GoodFacts
<1>2. Phase(c)
  BY DEF Good
<1> QED BY <1>1, <1>2, ListedAfter DEF Phase

(* T301, T304 and T310: the terminals have taken too long.                 *)
LEMMA OfferTimersAfter ==
  ASSUME NEW c, Good(c), NEW d, NEW tm \in SUBSET NetTimers,
         \A t \in {"T303", "T312"} : t \in c.tm => t \in tm,
         Turns(c, d, c.st, tm, c.ces, c.presel, c.listed)
  PROVE  /\ After(c, N_timer_T301(d)) /\ After(c, N_timer_T304(d))
         /\ After(c, N_timer_T310(d))
<1>1. /\ c.ces \in Suffixes /\ NoneIsIdle(c.ces) /\ c.bc = TRUE
  BY GoodFacts
<1>2. d.st = c.st /\ d.bc = TRUE
  BY <1>1, TurnsFacts
<1>3. After(c, d)
  BY StayAfter
<1>4. c.st \in {"N7", "N9", "N25"} => After(c, Tell(AbortBroadcast(d), "RELEASE_IND"))
  <2>1. c.st \in {"N7", "N9", "N25"} => Watched(c.ces)
    BY DEF Good, Phase, Offering
  <2> QED BY <1>1, <2>1, AbortAfter
<1> QED BY <1>2, <1>3, <1>4 DEF N_timer_T301, N_timer_T304, N_timer_T310

(* T303: the SETUP is repeated once with both timers started again; then   *)
(* the call is given up with T312 still running.                           *)
LEMMA T303After ==
  ASSUME NEW c, Good(c), NEW d, NEW tm \in SUBSET NetTimers,
         "T312" \in c.tm => "T312" \in tm,
         Turns(c, d, c.st, tm, c.ces, c.presel, c.listed)
  PROVE  After(c, N_timer_T303(d))
<1>1. /\ c.ces \in Suffixes /\ NoneIsIdle(c.ces) /\ c.bc = TRUE /\ ChanOK(c)
      /\ c.presel \in TEs \cup {NoTe}
  BY GoodFacts
<1>2. d.st = c.st /\ d.bc = TRUE
  BY <1>1, TurnsFacts
<1>3. CASE c.st # "N6"
  <2>1. N_timer_T303(d) = [d EXCEPT !.f303 = TRUE]
    BY <1>2, <1>3 DEF N_timer_T303
  <2>2. Turns(c, [d EXCEPT !.f303 = TRUE], c.st, tm, c.ces, c.presel, c.listed)
    BY ThenOther
  <2>3. c.st = "N22" => "T312" \in tm \/ AnyLeft(c.ces)
    BY DEF Good, Phase
  <2> QED BY <1>3, <2>1, <2>2, <2>3, TickAfter
<1>4. CASE c.st = "N6"
  <2> DEFINE e == Tell(SetState(ChanRelease(d), "N22"), "RELEASE_IND")
             f == Go(d, {}, {"T303", "T312"}, "N6")
             tm2 == (tm \ {}) \cup {"T303", "T312"}
             e3 == [e EXCEPT !.f303 = TRUE]
             f3 == [f EXCEPT !.f303 = TRUE]
  <2>1. N_timer_T303(d) \in {e3, f3}
    BY <1>2, <1>4 DEF N_timer_T303
  <2>2. Turns(c, e, "N22", tm, c.ces, c.presel, c.listed)
    BY <1>1, ThenChan, ThenSetState, ThenTell
  <2>3. Ends(e)
    <3>1. Turns(c, SetState(ChanRelease(d), "N22"), "N22", tm, c.ces, c.presel, c.listed)
      BY <1>1, ThenChan, ThenSetState
    <3> QED BY <3>1, ThenTell DEF EndPrimitives
  <2>4. Turns(c, f, "N6", tm2, c.ces, c.presel, c.listed)
    BY ThenGo
  <2> HIDE DEF e, f
  <2>5. Turns(c, e3, "N22", tm, c.ces, c.presel, c.listed)
    BY <2>2, ThenOther
  <2>6. Ends(e3)
    <3>1. Calm(e, e3)
      BY <2>2, TurnsFacts, OtherFieldCalm
    <3> QED BY <2>3, <3>1, CalmShaped
  <2>7. Turns(c, f3, "N6", tm2, c.ces, c.presel, c.listed)
    BY <2>4, ThenOther
  <2>8. AllGoing(c.ces) /\ Watched(c.ces) /\ "T312" \in tm
    BY <1>4 DEF Good, Phase, Offering
  <2>9. tm2 \in SUBSET NetTimers /\ {"T303", "T312"} \subseteq tm2
    BY DEF NetTimers, Timers
  <2> HIDE DEF e3, f3, tm2
  <2>10. After(c, e3)
    BY <1>1, <2>5, <2>6, <2>8, ListedAfter DEF Reached
  <2>11. After(c, f3)
    BY <1>1, <2>7, <2>8, <2>9, ListedAfter DEF Reached
  <2> QED BY <2>1, <2>10, <2>11
<1> QED BY <1>3, <1>4

(* T302, T305, T306 and T309.                                              *)
LEMMA ClearTimersAfter ==
  ASSUME NEW c, Good(c), NEW d, NEW tm \in SUBSET NetTimers,
         \A t \in {"T303", "T312"} : t \in c.tm => t \in tm,
         Turns(c, d, c.st, tm, c.ces, c.presel, c.listed)
  PROVE  /\ After(c, N_timer_T302(d)) /\ After(c, N_timer_T305(d))
         /\ After(c, N_timer_T306(d)) /\ After(c, N_timer_T309(d))
<1>1. /\ c.ces \in Suffixes /\ NoneIsIdle(c.ces) /\ c.st # "N2"
  BY GoodFacts DEF Reached
<1>2. d.st = c.st
  BY TurnsFacts
<1>3. After(c, d)
  BY StayAfter
<1>4. {"T308"} \in SUBSET NetTimers /\ "RELEASE_IND" \in EndPrimitives
  BY DEF NetTimers, Timers, EndPrimitives
<1>5. /\ Turns(c, Send(d, "RELEASE"), c.st, tm, c.ces, c.presel, c.listed)
      /\ Turns(c, Send(StopTone(d), "RELEASE"), c.st, tm, c.ces, c.presel, c.listed)
  BY ThenTone, ThenSend
<1>6. /\ After(c, Go(Send(d, "RELEASE"), {}, {"T308"}, "N19"))
      /\ After(c, Go(Send(StopTone(d), "RELEASE"), {}, {"T308"}, "N19"))
  BY <1>1, <1>4, <1>5, AwayGo
<1>7. After(c, Tell(ToN0(d), "RELEASE_IND"))
  BY <1>1, <1>4, ToN0After
<1> QED BY <1>1, <1>2, <1>3, <1>6, <1>7
        DEF N_timer_T302, N_timer_T305, N_timer_T306, N_timer_T309

(* T308 of the call.                                                       *)
LEMMA T308After ==
  ASSUME NEW c, Good(c), NEW d, NEW tm \in SUBSET NetTimers,
         \A t \in {"T303", "T312"} : t \in c.tm => t \in tm,
         Turns(c, d, c.st, tm, c.ces, c.presel, c.listed)
  PROVE  After(c, N_timer_T308(d))
<1>1. /\ c.ces \in Suffixes /\ NoneIsIdle(c.ces) /\ ChanOK(c)
      /\ c.presel \in TEs \cup {NoTe}
  BY GoodFacts
<1> DEFINE freed == IF d.ch = NoChan THEN d ELSE ChanRelease(d)
           e == Start(Send(d, "RELEASE"), "T308")
           g == ReleaseReference(SetState(freed, "N0"))
           f == Tell(g, "RELEASE_CFM")
           d8 == [d EXCEPT !.f308 = TRUE]
           e8 == [e EXCEPT !.f308 = TRUE]
           f8 == [f EXCEPT !.f308 = TRUE]
<1>2. N_timer_T308(d) \in {d8, e8, f8}
  BY BroadcastAssumption DEF N_timer_T308
<1>3. Turns(c, d8, c.st, tm, c.ces, c.presel, c.listed)
  BY ThenOther
<1>4. Turns(c, e, c.st, tm \cup {"T308"}, c.ces, c.presel, c.listed)
  BY ThenSend, ThenStart
<1>5. Turns(c, freed, c.st, tm, c.ces, c.presel, c.listed)
  BY <1>1, ThenChan
<1> HIDE DEF freed, e
<1>6. Turns(c, e8, c.st, tm \cup {"T308"}, c.ces, c.presel, c.listed)
  BY <1>4, ThenOther
<1>7. Turns(c, g, "N0", tm, c.ces, c.presel, FALSE)
  BY <1>5, ThenSetState, ThenRelease
<1> HIDE DEF g
<1>8. Turns(c, f, "N0", tm, c.ces, c.presel, FALSE) /\ Ends(f)
  BY <1>7, ThenTell DEF EndPrimitives
<1> HIDE DEF f
<1>9. Turns(c, f8, "N0", tm, c.ces, c.presel, FALSE)
  BY <1>8, ThenOther
<1>10. Ends(f8)
  <2>1. Calm(f, f8)
    BY <1>8, TurnsFacts, OtherFieldCalm
  <2> QED BY <1>8, <2>1, CalmShaped
<1>11. tm \cup {"T308"} \in SUBSET NetTimers
  BY DEF NetTimers, Timers
<1> HIDE DEF d8, e8, f8
<1>12. After(c, d8) /\ After(c, e8)
  BY <1>3, <1>6, <1>11, StayAfter
<1>13. After(c, f8)
  BY <1>1, <1>9, <1>10, OverAfter
<1> QED BY <1>2, <1>12, <1>13

(* T312: a call nobody answers ends; one given up ends if no suffix is     *)
(* left, and is otherwise left to the last suffix.                         *)
LEMMA T312After ==
  ASSUME NEW c, Good(c), NEW d, c.st # "N6",
         Turns(c, d, c.st, c.tm \ {"T312"}, c.ces, c.presel, c.listed)
  PROVE  After(c, N_timer_T312(d))
<1> DEFINE tm == c.tm \ {"T312"}
<1>1. /\ c.ces \in Suffixes /\ NoneIsIdle(c.ces) /\ ChanOK(c)
      /\ c.presel \in TEs \cup {NoTe} /\ tm \in SUBSET NetTimers
  BY GoodFacts
<1>2. d.st = c.st /\ d.ces = c.ces /\ d.dis = c.dis
  BY TurnsFacts
<1> HIDE DEF tm
<1>3. CASE c.st \in {"N7", "N9", "N25"}
  <2> DEFINE S == CASE d.st = "N7" -> {"T301"} [] d.st = "N9" -> {"T310"} [] OTHER -> {}
             e == Tell(ToN0(Stop(d, S)), "RELEASE_IND")
  <2>1. N_timer_T312(d) \in {d, e}
    BY <1>2, <1>3 DEF N_timer_T312
  <2> HIDE DEF S
  <2>2. Turns(c, Stop(d, S), c.st, tm \ S, c.ces, c.presel, c.listed)
    BY ThenStop DEF tm
  <2>3. tm \ S \in SUBSET NetTimers /\ "RELEASE_IND" \in EndPrimitives
    BY <1>1 DEF EndPrimitives
  <2>4. After(c, e)
    BY <1>1, <2>2, <2>3, ToN0After
  <2>5. After(c, d)
    BY <1>1, <1>3, TickAfter DEF tm
  <2> QED BY <2>1, <2>4, <2>5
<1>4. CASE c.st = "N22"
  <2> DEFINE b == IF d.dis THEN Tell(d, "RELEASE_IND") ELSE d
             e == ToN0(b)
  <2>1. CASE CesList(d) # {}
    <3>1. N_timer_T312(d) = d
      BY <1>2, <1>4, <2>1 DEF N_timer_T312
    <3>2. AnyLeft(c.ces)
      BY <1>2, <2>1 DEF CesList, AnyLeft
    <3> QED BY <1>1, <1>4, <3>1, <3>2, TickAfter DEF tm
  <2>2. CASE CesList(d) = {}
    <3>1. N_timer_T312(d) = e
      BY <1>2, <1>4, <2>2 DEF N_timer_T312
    <3>2. Turns(c, b, c.st, tm, c.ces, c.presel, c.listed)
      BY ThenTell DEF tm
    <3>3. d.dis => Ends(b)
      BY ThenTell DEF EndPrimitives
    <3> HIDE DEF b
    <3>4. Turns(c, e, "N0", tm, c.ces, c.presel, FALSE)
      BY <1>1, <3>2, ThenToN0
    <3>5. Turns(b, e, "N0", b.tm, b.ces, b.presel, FALSE)
      BY <1>1, <3>2, TurnsFacts, ToN0Turns
    <3>6. d.dis => Ends(e)
      BY <3>3, <3>5 DEF Turns
    <3> HIDE DEF e
    <3>7. After(c, e)
      BY <1>1, <1>2, <1>4, <3>4, <3>6, OverAfter
    <3> QED BY <3>1, <3>7
  <2> QED BY <2>1, <2>2
<1>5. CASE c.st \notin {"N7", "N9", "N25", "N22"}
  <2>1. N_timer_T312(d) = d
    BY <1>2, <1>5 DEF N_timer_T312
  <2> QED BY <1>1, <1>5, <2>1, TickAfter DEF tm
<1> QED BY <1>3, <1>4, <1>5

(* T322 of the call.                                                       *)
LEMMA T322After ==
  ASSUME NEW c, Good(c), NEW d, NEW tm \in SUBSET NetTimers,
         \A t \in {"T303", "T312"} : t \in c.tm => t \in tm,
         Turns(c, d, c.st, tm, c.ces, c.presel, c.listed)
  PROVE  After(c, timer_T322(d))
<1>1. c.ces \in Suffixes /\ NoneIsIdle(c.ces)
  BY GoodFacts
<1> DEFINE e == Tell(Go(Send(d, "RELEASE"), {}, {"T308"}, "N19"), "RELEASE_IND")
           f == Start([Send(d, "STATUS_ENQUIRY") EXCEPT !.senq = @ + 1], "T322")
<1>2. timer_T322(d) \in {d, e, f}
  BY DEF timer_T322
<1>3. Turns(c, Send(d, "RELEASE"), c.st, tm, c.ces, c.presel, c.listed)
  BY ThenSend
<1>4. Turns(c, f, c.st, tm \cup {"T322"}, c.ces, c.presel, c.listed)
  BY ThenSend, ThenOther, ThenStart
<1>5. {"T308"} \in SUBSET NetTimers /\ tm \cup {"T322"} \in SUBSET NetTimers
  BY DEF NetTimers, Timers
<1> HIDE DEF f
<1>6. After(c, e)
  BY <1>1, <1>3, <1>5, AwayGo
<1>7. After(c, d) /\ After(c, f)
  BY <1>4, <1>5, StayAfter
<1> QED BY <1>2, <1>6, <1>7

(* Any timer of the call. T312 is never the first of the two: it is        *)
(* started with T303 and runs two seconds longer.                          *)
LEMMA TimerAfter ==
  ASSUME NEW c, Good(c), NEW t \in c.tm, t = "T312" => "T303" \notin c.tm
  PROVE  After(c, timer(c, t))
<1> DEFINE d == Stop(c, {t})
           tm == c.tm \ {t}
<1>1. c.tm \subseteq NetTimers /\ c.st \in NStates
  BY GoodFacts DEF Reached, NStates
<1>2. Turns(c, d, c.st, tm, c.ces, c.presel, c.listed)
  BY GoodFacts, ThenStop
<1>3. d.st \in NStates
  BY <1>1, <1>2, TurnsFacts
<1>4. t \in NetTimers /\ tm \in SUBSET NetTimers
  BY <1>1
<1>5. timer(c, t) = CASE t = "T301" -> N_timer_T301(d)
          [] t = "T302" -> N_timer_T302(d)
          [] t = "T303" -> N_timer_T303(d)
          [] t = "T304" -> N_timer_T304(d)
          [] t = "T305" -> N_timer_T305(d)
          [] t = "T306" -> N_timer_T306(d)
          [] t = "T308" -> N_timer_T308(d)
          [] t = "T309" -> N_timer_T309(d)
          [] t = "T310" -> N_timer_T310(d)
          [] t = "T312" -> N_timer_T312(d)
          [] t = "T322" -> timer_T322(d)
  BY <1>3, <1>4 DEF timer, NetTimers, Timers
<1> HIDE DEF d
<1>6. CASE t \notin {"T303", "T312"}
  <2>1. \A x \in {"T303", "T312"} : x \in c.tm => x \in tm
    BY <1>6
  <2> HIDE DEF tm
  <2>2. /\ After(c, N_timer_T301(d)) /\ After(c, N_timer_T304(d))
        /\ After(c, N_timer_T310(d))
    BY <1>2, <1>4, <2>1, OfferTimersAfter
  <2>3. /\ After(c, N_timer_T302(d)) /\ After(c, N_timer_T305(d))
        /\ After(c, N_timer_T306(d)) /\ After(c, N_timer_T309(d))
    BY <1>2, <1>4, <2>1, ClearTimersAfter
  <2>4. After(c, N_timer_T308(d)) /\ After(c, timer_T322(d))
    BY <1>2, <1>4, <2>1, T308After, T322After
  <2> QED BY <1>4, <1>5, <1>6, <2>2, <2>3, <2>4 DEF NetTimers, Timers
<1>7. CASE t = "T303"
  <2>1. After(c, N_timer_T303(d))
    BY <1>2, <1>4, <1>7, T303After
  <2> QED BY <1>5, <1>7, <2>1
<1>8. CASE t = "T312"
  <2>1. c.st # "N6"
    BY <1>8 DEF Good, Phase
  <2>2. After(c, N_timer_T312(d))
    BY <1>2, <1>8, <2>1, T312After
  <2> QED BY <1>5, <1>8, <2>2
<1> QED BY <1>6, <1>7, <1>8

-----------------------------------------------------------------------------
(* Messages of a terminal that has no suffix.                              *)

(* The message is from a terminal without a suffix.                        *)
Fresh(c, m) ==
    /\ m.te \in TEs /\ c.ces[m.te].st = "none"
    /\ m.ci \in (SUBSET Channels) \cup {NoCI}

(* What the CCB is told when a terminal answers: one primitive, or none.   *)
UpOK(up) == up = <<>> \/ \E p : up = <<p>>

(* They are told to the CCB.                                               *)
LEMMA UpCalm ==
  ASSUME NEW c, Shaped(c), NEW up, UpOK(up)
  PROVE  Calm(c, [c EXCEPT !.up = @ \o up])
<1> DEFINE d == [c EXCEPT !.up = @ \o up]
<1>1. /\ DOMAIN d = CallFields /\ (ChanOK(c) => ChanOK(d))
      /\ d.st = c.st /\ d.tm = c.tm /\ d.ces = c.ces /\ d.presel = c.presel
      /\ d.listed = c.listed /\ d.bc = c.bc /\ d.dis = c.dis
      /\ (Lives(d) => Lives(c)) /\ d.up = c.up \o up
  BY DEF Shaped, CallFields, Lives, ChanOK
<1> HIDE DEF d
<1>2. PICK S : c.up \in Seq(S)
  BY DEF Shaped
<1>3. PICK T : up \in Seq(T)
  <2>1. CASE up = <<>>
    BY <2>1
  <2>2. CASE \E p : up = <<p>>
    <3>1. PICK p : up = <<p>>
      BY <2>2
    <3>2. up \in Seq({p})
      BY <3>1
    <3> QED BY <3>2
  <2> QED BY <2>1, <2>2 DEF UpOK
<1>4. c.up \in Seq(S \cup T) /\ up \in Seq(S \cup T)
  BY <1>2, <1>3
<1>5. d.up \in Seq(S \cup T)
  BY <1>1, <1>4
<1>6. Ends(c) => Ends(d)
  <2> SUFFICES ASSUME NEW i \in 1..Len(c.up), c.up[i] \in EndPrimitives
               PROVE  Ends(d)
    BY DEF Ends
  <2>1. i \in 1..Len(d.up) /\ d.up[i] = c.up[i]
    BY <1>1, <1>4
  <2> QED BY <2>1 DEF Ends
<1> QED BY <1>1, <1>5, <1>6 DEF Calm, Turns, Shaped, d

(* A new suffix, as the allocator left it.                                 *)
Raw(junk) == [st |-> "I0", tm |-> {}, fired |-> "fired" \in junk,
              senq |-> IF "senq" \in junk THEN SenqMax ELSE 0]

(* q931_ces_alloc does not clear T308_fired and senq_cnt, but both have    *)
(* their type.                                                             *)
LEMMA RawFacts ==
  ASSUME NEW junk
  PROVE  /\ Raw(junk) \in OneCes /\ Raw(junk).st = "I0" /\ Raw(junk).tm = {}
         /\ Released(Raw(junk)) \in OneCes /\ Released(Raw(junk)).st = "I19"
         /\ "T308" \in Released(Raw(junk)).tm
<1>1. Raw(junk) \in OneCes /\ Raw(junk).st = "I0" /\ Raw(junk).tm = {}
  BY SenqAssumption DEF Raw, OneCes, CesStates
<1>2. ASSUME NEW s \in OneCes, s.st = "I0", s.tm = {}
      PROVE  /\ Released(s) \in OneCes /\ Released(s).st = "I19"
             /\ "T308" \in Released(s).tm
  BY <1>2 DEF OneCes, Released, CesStates
<1> QED BY <1>1, <1>2

(* A suffix is made for the terminal.                                      *)
LEMMA AllocTurns ==
  ASSUME NEW c, NEW d, NEW st, NEW tm, NEW ces \in Suffixes, NEW ps, NEW li,
         Turns(c, d, st, tm, ces, ps, li), NEW t \in TEs, NEW junk
  PROVE  /\ Turns(c, CesAlloc(d, t, junk), st, tm, [ces EXCEPT ![t] = Raw(junk)], ps, li)
         /\ CesAlloc(d, t, junk).ch = d.ch
<1>1. /\ Shaped(d) /\ d.st = st /\ d.tm = tm /\ d.ces = ces
      /\ d.presel = ps /\ d.listed = li
  BY TurnsFacts
<1>2. CesAlloc(d, t, junk) = [d EXCEPT !.ces[t] = Raw(junk)]
  BY DEF CesAlloc, Raw
<1>3. Turns(d, CesAlloc(d, t, junk), st, tm, [ces EXCEPT ![t] = Raw(junk)], ps, li)
  BY <1>1, <1>2, CesPutTurns
<1>4. CesAlloc(d, t, junk).ch = d.ch
  BY <1>1, <1>2 DEF Shaped, CallFields
<1> QED BY <1>3, <1>4, TurnsTwice

(* A terminal that is not wanted.                                          *)
LEMMA RefuseAfter ==
  ASSUME NEW c, Good(c), NEW d, Turns(c, d, c.st, c.tm, c.ces, c.presel, c.listed),
         NEW m, Fresh(c, m)
  PROVE  After(c, Refuse(d, m))
<1> DEFINE t == m.te
           a == CesAlloc(d, t, m.junk)
           n == [c.ces EXCEPT ![t] = Raw(m.junk)]
           s == Released(Raw(m.junk))
           e == Refuse(d, m)
<1>1. /\ c.st \in Reached \ {"N0"} /\ c.tm \in SUBSET NetTimers
      /\ c.ces \in Suffixes /\ NoneIsIdle(c.ces) /\ c.presel \in TEs \cup {NoTe}
      /\ t \in TEs
  BY GoodFacts DEF Fresh
<1>2. Turns(c, a, c.st, c.tm, n, c.presel, c.listed)
  BY <1>1, AllocTurns
<1>3. a.ces = n /\ Shaped(a)
  BY <1>2, TurnsFacts
<1>4. n[t] = Raw(m.junk) /\ [n EXCEPT ![t] = s] = [c.ces EXCEPT ![t] = s]
  BY <1>1 DEF Suffixes
<1>5. e = [a EXCEPT !.ces[t] = Released(@)]
  BY DEF Refuse, ces_release_request
<1>6. e = [a EXCEPT !.ces[t] = s]
  BY <1>3, <1>4, <1>5 DEF Shaped, CallFields
<1> HIDE DEF a, e
<1>7. Turns(a, e, a.st, a.tm, [a.ces EXCEPT ![t] = s], a.presel, a.listed)
  BY <1>3, <1>6, CesPutTurns
<1> DEFINE k == [c.ces EXCEPT ![t] = s]
<1>8. Turns(c, e, c.st, c.tm, k, c.presel, c.listed)
  <2>1. a.st = c.st /\ a.tm = c.tm /\ a.presel = c.presel /\ a.listed = c.listed
    BY <1>2, TurnsFacts
  <2>2. Turns(a, e, c.st, c.tm, k, c.presel, c.listed)
    BY <1>3, <1>4, <1>7, <2>1
  <2> QED BY <1>2, <2>2, TurnsTwice
<1>9. s \in OneCes /\ s.st = "I19" /\ "T308" \in s.tm
  BY RawFacts
<1> HIDE DEF s, n
<1>10. /\ k \in Suffixes /\ NoneIsIdle(k) /\ AnyLeft(k)
       /\ AllGoing(c.ces) => AllGoing(k)
       /\ Watched(c.ces) => Watched(k)
       /\ \A u \in TEs \ {t} : k[u] = c.ces[u]
  BY <1>1, <1>9, PutFacts
<1>11. c.st = "N8" => c.presel \in TEs \ {t} /\ c.ces[c.presel].st = "I8"
  BY DEF Good, Phase, Fresh
<1> HIDE DEF k
<1>12. /\ c.st = "N6" => {"T303", "T312"} \subseteq c.tm
       /\ c.st \in {"N6", "N22", "N10", "N15"} => AllGoing(k)
       /\ c.st = "N8" => c.presel \in TEs /\ k[c.presel].st = "I8"
       /\ c.st \in Offering => Watched(k)
  BY <1>10, <1>11 DEF Good, Phase
<1> QED BY <1>1, <1>8, <1>10, <1>12, ListedAfter DEF e

(* ... and its state and timers once it has answered.                      *)
Answered(junk, ist) ==
    Suffix(Raw(junk), (Raw(junk).tm \ {}) \cup (IF ist = "I25" THEN {"T304"} ELSE {}),
           ist)

(* A terminal answers with an acceptable channel, and gets a suffix.       *)
LEMMA BcAnswerTurns ==
  ASSUME NEW c, Good(c), NEW d, Turns(c, d, c.st, c.tm, c.ces, c.presel, c.listed),
         NEW m, Fresh(c, m), Selects(d, m), NEW ist \in {"I7", "I8", "I9", "I25"},
         NEW stop, NEW start, NEW st, NEW up, UpOK(up)
  PROVE  /\ Answered(m.junk, ist) \in OneCes /\ Answered(m.junk, ist).st = ist
         /\ Turns(c, BcAnswer(d, m, ist, stop, start, st, up), st,
                  (c.tm \ stop) \cup start,
                  [c.ces EXCEPT ![m.te] = Answered(m.junk, ist)],
                  c.presel, c.listed)
<1> DEFINE t == m.te
           r == Raw(m.junk)
           n == [c.ces EXCEPT ![t] = r]
           tm == (c.tm \ stop) \cup start
           a == CesAlloc(d, t, m.junk)
           b == SelectResponse(a, m)
           f == Go(b, stop, start, st)
           g == [f EXCEPT !.up = @ \o up]
           e == BcAnswer(d, m, ist, stop, start, st, up)
           x == IF ist = "I25" THEN {"T304"} ELSE {}
           s == Suffix(r, (r.tm \ {}) \cup x, ist)
<1>1. c.ces \in Suffixes /\ NoneIsIdle(c.ces) /\ t \in TEs /\ ChanOK(c)
  BY GoodFacts DEF Fresh
<1>2. Turns(c, a, c.st, c.tm, n, c.presel, c.listed) /\ a.ch = d.ch
  <2>1. Turns(c, a, c.st, c.tm, n, c.presel, c.listed)
    BY <1>1, AllocTurns
  <2>2. a.ch = d.ch
    <3>1. Shaped(d)
      BY TurnsFacts
    <3> QED BY <3>1 DEF CesAlloc, Shaped, CallFields
  <2> QED BY <2>1, <2>2
<1>3. Shaped(a) /\ ChanOK(a) /\ Selects(a, m)
  BY <1>1, <1>2, TurnsFacts DEF Selects
<1>4. e = CesAnswer(g, t, ist)
  BY DEF BcAnswer
<1> HIDE DEF a, e
<1>5. Calm(a, b)
  BY <1>3, SelectResponseCalm DEF Fresh
<1> HIDE DEF b
<1>6. Turns(c, b, c.st, c.tm, n, c.presel, c.listed)
  BY <1>2, <1>5, TurnsOn
<1>7. Turns(c, f, st, tm, n, c.presel, c.listed)
  BY <1>6, ThenGo
<1> HIDE DEF f
<1>8. Calm(f, g)
  <2>1. Shaped(f)
    BY <1>7, TurnsFacts
  <2> QED BY <2>1, UpCalm, Zenon
<1> HIDE DEF g
<1>9. Turns(c, g, st, tm, n, c.presel, c.listed)
  BY <1>7, <1>8, TurnsOn
<1>10. r \in OneCes /\ r.st = "I0" /\ r.tm = {}
  BY RawFacts
<1> HIDE DEF r
<1>11. n \in Suffixes /\ n[t] = r
  BY <1>1, <1>10, PutFacts
<1>12. [n EXCEPT ![t] = s] = [c.ces EXCEPT ![t] = s]
  BY <1>1 DEF Suffixes
<1>13. g.ces = n /\ Shaped(g) /\ g.st = st /\ g.tm = tm /\ g.presel = c.presel
       /\ g.listed = c.listed
  BY <1>9, TurnsFacts
<1> HIDE DEF n
<1>14. e = CesGo(g, t, {}, x, ist)
  BY <1>4, <1>10, <1>11, <1>13 DEF CesAnswer
<1>15. Turns(g, e, st, tm, [n EXCEPT ![t] = s], c.presel, c.listed)
  <2>1. g.ces[t] = r
    BY <1>11, <1>13
  <2>2. Turns(g, CesGo(g, t, {}, x, ist), g.st, g.tm,
              [g.ces EXCEPT ![t] = Suffix(g.ces[t], (g.ces[t].tm \ {}) \cup x, ist)],
              g.presel, g.listed)
    BY <1>1, <1>11, <1>13, CesGoTurns
  <2> QED BY <1>13, <1>14, <2>1, <2>2
<1>16. Turns(c, e, st, tm, [c.ces EXCEPT ![t] = s], c.presel, c.listed)
  BY <1>9, <1>12, <1>15, TurnsTwice
<1>17. s \in OneCes /\ s.st = ist
  <2>1. x \subseteq {"T304", "T308", "T322"} /\ ist \in CesStates
    BY DEF CesStates
  <2> HIDE DEF x
  <2> QED BY <1>10, <2>1 DEF Suffix, OneCes
<1>18. Answered(m.junk, ist) = s
  BY DEF Answered, r
<1> QED BY <1>16, <1>17, <1>18 DEF e

(* An answer that moves the call on: ALERTING, CALL PROCEEDING or SETUP    *)
(* ACKNOWLEDGE.                                                            *)
LEMMA BcAnswerAfter ==
  ASSUME NEW c, Good(c), NEW d, Turns(c, d, c.st, c.tm, c.ces, c.presel, c.listed),
         NEW m, Fresh(c, m), NEW ist \in {"I7", "I9", "I25"}, c.st \in Offering,
         NEW stop, NEW start \in SUBSET NetTimers, NEW st \in {"N7", "N9", "N25"},
         NEW up, UpOK(up)
  PROVE  After(c, BcAnswer(d, m, ist, stop, start, st, up))
<1> DEFINE e == BcAnswer(d, m, ist, stop, start, st, up)
           tm == (c.tm \ stop) \cup start
<1>1. CASE ~Selects(d, m)
  BY <1>1, RefuseAfter DEF BcAnswer
<1>2. CASE Selects(d, m)
  <2> DEFINE s == Answered(m.junk, ist)
  <2>1. /\ s \in OneCes /\ s.st = ist
        /\ Turns(c, e, st, tm, [c.ces EXCEPT ![m.te] = s], c.presel, c.listed)
    <3>1. ist \in {"I7", "I8", "I9", "I25"}
      OBVIOUS
    <3> QED BY <1>2, <3>1, BcAnswerTurns
  <2> HIDE DEF s
  <2> DEFINE k == [c.ces EXCEPT ![m.te] = s]
  <2>2. /\ tm \in SUBSET NetTimers /\ c.ces \in Suffixes /\ NoneIsIdle(c.ces)
        /\ c.presel \in TEs \cup {NoTe} /\ m.te \in TEs
    BY GoodFacts DEF Fresh
  <2>3. Watched(c.ces)
    BY DEF Good, Phase
  <2>4. k \in Suffixes /\ NoneIsIdle(k) /\ Watched(k)
    BY <2>1, <2>2, <2>3, PutFacts
  <2> HIDE DEF k, tm, e
  <2>5. Turns(c, e, st, tm, k, c.presel, c.listed)
    BY <2>1 DEF k
  <2>6. After(c, e)
    BY <2>2, <2>4, <2>5, ListedAfter DEF Reached
  <2> QED BY <2>6 DEF e
<1> QED BY <1>1, <1>2

(* The terminal that asks for the connection is preselected.               *)
LEMMA PreselTurns ==
  ASSUME NEW c, NEW d, NEW st, NEW tm, NEW ces, NEW ps, NEW li,
         Turns(c, d, st, tm, ces, ps, li), NEW t
  PROVE  Turns(c, [d EXCEPT !.presel = t], st, tm, ces, t, li)
  BY DEF Turns, Shaped, CallFields, Lives, Ends, ChanOK

(* A CONNECT: the terminal is preselected and its suffix is in I8, in the  *)
(* same step as the call goes to N8.                                       *)
LEMMA BcAwardAfter ==
  ASSUME NEW c, Good(c), NEW d, Turns(c, d, c.st, c.tm, c.ces, c.presel, c.listed),
         NEW m, Fresh(c, m), c.st \in Offering, NEW stop, NEW p
  PROVE  LET e == BcAnswer(d, m, "I8", stop, {}, "N8", <<p>>)
         IN  After(c, IF Selects(d, m) THEN [e EXCEPT !.presel = m.te] ELSE e)
<1> DEFINE e == BcAnswer(d, m, "I8", stop, {}, "N8", <<p>>)
           f == [e EXCEPT !.presel = m.te]
           tm == (c.tm \ stop) \cup {}
<1>1. CASE ~Selects(d, m)
  BY <1>1, RefuseAfter DEF BcAnswer
<1>2. CASE Selects(d, m)
  <2> DEFINE s == Answered(m.junk, "I8")
  <2>1. /\ s \in OneCes /\ s.st = "I8"
        /\ Turns(c, e, "N8", tm, [c.ces EXCEPT ![m.te] = s], c.presel, c.listed)
    <3>1. UpOK(<<p>>)
      BY DEF UpOK
    <3> QED BY <1>2, <3>1, BcAnswerTurns
  <2> HIDE DEF s
  <2> DEFINE k == [c.ces EXCEPT ![m.te] = s]
  <2>2. /\ tm \in SUBSET NetTimers /\ c.ces \in Suffixes /\ NoneIsIdle(c.ces)
        /\ m.te \in TEs /\ m.te \in TEs \cup {NoTe}
    BY GoodFacts DEF Fresh
  <2>3. Watched(c.ces)
    BY DEF Good, Phase
  <2>4. k \in Suffixes /\ NoneIsIdle(k) /\ Watched(k) /\ k[m.te] = s
    BY <2>1, <2>2, <2>3, PutFacts
  <2> HIDE DEF k, tm, e
  <2>5. Turns(c, f, "N8", tm, k, m.te, c.listed)
    BY <2>1, PreselTurns DEF k
  <2> HIDE DEF f
  <2>6. After(c, f)
    BY <2>1, <2>2, <2>4, <2>5, ListedAfter DEF Reached
  <2> QED BY <1>2, <2>6 DEF e, f
<1> QED BY <1>1, <1>2

(* A message that does not fit is answered with a STATUS.                  *)
LEMMA NotCompatibleAfter ==
  ASSUME NEW c, Good(c), NEW st
  PROVE  /\ After(c, c) /\ After(c, SendStatus(c, st))
         /\ After(c, NotCompatible(c)) /\ After(c, NotCompatibleAs(c, "N6"))
<1>1. Turns(c, c, c.st, c.tm, c.ces, c.presel, c.listed) /\ c.st \notin {"N0", "U0"}
  BY GoodFacts DEF Reached
<1>2. \A s : After(c, SendStatus(c, s))
  BY <1>1, ThenSendStatus, CalmAfter
<1> QED BY <1>1, <1>2, CalmAfter DEF NotCompatible, NotCompatibleAs

(* A message that cannot be decoded.                                       *)
LEMMA DecodeAfter ==
  ASSUME NEW c, Good(c), NEW m
  PROVE  /\ Turns(c, Decode(c, m), c.st, c.tm, c.ces, c.presel, c.listed)
         /\ After(c, Decode(c, m))
<1>1. Turns(c, Decode(c, m), c.st, c.tm, c.ces, c.presel, c.listed)
  BY GoodFacts, ThenDecode
<1> QED BY <1>1, CalmAfter

(* q931_handle_alerting.                                                   *)
LEMMA AlertingAfter ==
  ASSUME NEW c, Good(c), NEW m, Fresh(c, m)
  PROVE  After(c, N_handle_alerting(c, m))
<1> DEFINE d == Decode(c, m)
           e == N_handle_alerting(c, m)
           up == <<"ALERTING_IND">>
<1>1. c.bc = TRUE /\ Turns(c, c, c.st, c.tm, c.ces, c.presel, c.listed)
  BY GoodFacts
<1>2. Turns(c, d, c.st, c.tm, c.ces, c.presel, c.listed) /\ After(c, d)
  BY DecodeAfter
<1>3. {"T301"} \in SUBSET NetTimers /\ {} \in SUBSET NetTimers
  BY DEF NetTimers, Timers
<1>4. /\ After(c, Refuse(c, m)) /\ After(c, Refuse(d, m)) /\ After(c, NotCompatible(c))
  BY <1>1, <1>2, RefuseAfter, NotCompatibleAfter
<1>5. ASSUME c.st \in Offering, NEW stop
      PROVE  /\ After(c, BcAnswer(d, m, "I7", stop, {"T301"}, "N7", up))
             /\ After(c, BcAnswer(d, m, "I7", stop, {}, "N7", <<>>))
  <2>1. UpOK(up) /\ UpOK(<<>>)
    BY DEF UpOK
  <2> HIDE DEF d, up
  <2> QED BY <1>2, <1>3, <1>5, <2>1, BcAnswerAfter
<1> HIDE DEF d
<1>6. \/ e \in {d, Refuse(c, m), Refuse(d, m), NotCompatible(c)}
      \/ c.st \in Offering /\
             \E stop \in {{"T303"}, {"T310"}, {}} :
               e \in {BcAnswer(d, m, "I7", stop, {"T301"}, "N7", up),
                      BcAnswer(d, m, "I7", stop, {}, "N7", <<>>)}
  BY <1>1 DEF N_handle_alerting, d, Offering
<1> QED BY <1>2, <1>4, <1>5, <1>6

(* q931_handle_call_proceeding.                                            *)
LEMMA ProceedingAfter ==
  ASSUME NEW c, Good(c), NEW m, Fresh(c, m)
  PROVE  After(c, N_handle_call_proceeding(c, m))
<1> DEFINE d == Decode(c, m)
           e == N_handle_call_proceeding(c, m)
           up == <<"PROCEEDING_IND">>
<1>1. c.bc = TRUE /\ Turns(c, c, c.st, c.tm, c.ces, c.presel, c.listed)
  BY GoodFacts
<1>2. Turns(c, d, c.st, c.tm, c.ces, c.presel, c.listed) /\ After(c, d)
  BY DecodeAfter
<1>3. {"T310"} \in SUBSET NetTimers /\ {} \in SUBSET NetTimers
  BY DEF NetTimers, Timers
<1>4. /\ After(c, Refuse(c, m)) /\ After(c, NotCompatible(c))
  BY <1>1, <1>2, RefuseAfter, NotCompatibleAfter
<1>5. ASSUME c.st \in Offering, NEW stop
      PROVE  /\ After(c, BcAnswer(d, m, "I9", stop, {"T310"}, "N9", up))
             /\ c.st \in {"N7", "N9"} =>
                  After(c, BcAnswer(d, m, "I9", stop, {}, c.st, <<>>))
  <2>1. UpOK(up) /\ UpOK(<<>>)
    BY DEF UpOK
  <2> HIDE DEF d, up
  <2> QED BY <1>2, <1>3, <1>5, <2>1, BcAnswerAfter
<1> HIDE DEF d
<1>6. \/ e \in {d, Refuse(c, m), NotCompatible(c)}
      \/ c.st \in Offering /\
             \E stop \in {{"T303"}, {}} :
               \/ e = BcAnswer(d, m, "I9", stop, {"T310"}, "N9", up)
               \/ c.st \in {"N7", "N9"} /\ e = BcAnswer(d, m, "I9", stop, {}, c.st, <<>>)
  BY <1>1 DEF N_handle_call_proceeding, d, Offering
<1> QED BY <1>2, <1>4, <1>5, <1>6

(* q931_handle_setup_acknowledge.                                          *)
LEMMA SetupAcknowledgeAfter ==
  ASSUME NEW c, Good(c), NEW m, Fresh(c, m)
  PROVE  After(c, N_handle_setup_acknowledge(c, m))
<1> DEFINE d == Decode(c, m)
           e == N_handle_setup_acknowledge(c, m)
           up == <<"MORE_INFO_IND">>
<1>1. c.bc = TRUE /\ Turns(c, c, c.st, c.tm, c.ces, c.presel, c.listed)
  BY GoodFacts
<1>2. Turns(c, d, c.st, c.tm, c.ces, c.presel, c.listed) /\ After(c, d)
  BY DecodeAfter
<1>3. {"T304"} \in SUBSET NetTimers /\ {} \in SUBSET NetTimers
  BY DEF NetTimers, Timers
<1>4. /\ After(c, Refuse(c, m)) /\ After(c, Refuse(d, m)) /\ After(c, NotCompatible(c))
  BY <1>1, <1>2, RefuseAfter, NotCompatibleAfter
<1>5. ASSUME c.st \in Offering, NEW stop
      PROVE  /\ After(c, BcAnswer(d, m, "I25", stop, {"T304"}, "N25", up))
             /\ c.st \in {"N7", "N9", "N25"} =>
                  After(c, BcAnswer(d, m, "I25", stop, {}, c.st, <<>>))
  <2>1. UpOK(up) /\ UpOK(<<>>)
    BY DEF UpOK
  <2> HIDE DEF d, up
  <2> QED BY <1>2, <1>3, <1>5, <2>1, BcAnswerAfter
<1> HIDE DEF d
<1>6. \/ e \in {d, Refuse(c, m), Refuse(d, m), NotCompatible(c)}
      \/ c.st \in Offering /\
             \E stop \in {{"T303"}, {}} :
               \/ e = BcAnswer(d, m, "I25", stop, {"T304"}, "N25", up)
               \/ /\ c.st \in {"N7", "N9", "N25"}
                  /\ e = BcAnswer(d, m, "I25", stop, {}, c.st, <<>>)
  BY <1>1 DEF N_handle_setup_acknowledge, d, Offering
<1> QED BY <1>2, <1>4, <1>5, <1>6

(* q931_handle_connect.                                                    *)
LEMMA ConnectAfter ==
  ASSUME NEW c, Good(c), NEW m, Fresh(c, m)
  PROVE  After(c, N_handle_connect(c, m))
<1> DEFINE d == Decode(c, m)
           S == [N6 |-> {"T303"}, N7 |-> {"T301"}, N9 |-> {"T310"}]
           stop == IF c.st = "N25" THEN {} ELSE S[c.st]
           p == IF c.st = "N6" THEN "SETUP_CFM" ELSE "CONNECT_IND"
           b == BcAnswer(d, m, "I8", stop, {}, "N8", <<p>>)
           f == IF Selects(d, m) THEN [b EXCEPT !.presel = m.te] ELSE b
           e == N_handle_connect(c, m)
<1>1. c.bc = TRUE /\ Turns(c, c, c.st, c.tm, c.ces, c.presel, c.listed)
  BY GoodFacts
<1>2. Turns(c, d, c.st, c.tm, c.ces, c.presel, c.listed) /\ After(c, d)
  BY DecodeAfter
<1>3. /\ After(c, Refuse(c, m)) /\ After(c, NotCompatible(c))
  BY <1>1, <1>2, RefuseAfter, NotCompatibleAfter
<1>4. e \in {d, Refuse(c, m), NotCompatible(c)} \/ (c.st \in Offering /\ e = f)
  BY <1>1 DEF N_handle_connect, Offering
<1> HIDE DEF d, stop, p
<1>5. c.st \in Offering => After(c, f)
  BY <1>2, BcAwardAfter
<1> QED BY <1>2, <1>3, <1>4, <1>5

(* q931_handle_disconnect.                                                 *)
LEMMA HandleDisconnectAfter ==
  ASSUME NEW c, Good(c), NEW m
  PROVE  After(c, N_handle_disconnect(c, m))
<1> DEFINE d == Decode(c, m)
           e == Tell(Go(ChanDisconnect(d), {}, {}, "N11"), "DISCONNECT_IND")
           f == Go(Send(StopTone(c), "RELEASE"), {"T305", "T306"}, {"T308"}, "N19")
<1>1. /\ c.bc = TRUE /\ c.st \in Reached \ {"N0"} /\ c.tm \in SUBSET NetTimers
      /\ c.ces \in Suffixes /\ NoneIsIdle(c.ces) /\ ChanOK(c)
      /\ Turns(c, c, c.st, c.tm, c.ces, c.presel, c.listed)
  BY GoodFacts
<1>2. N_handle_disconnect(c, m) \in {c, NotCompatible(c), NotCompatibleAs(c, "N6"), e, f}
  BY <1>1 DEF N_handle_disconnect, Reached
<1>3. Turns(c, ChanDisconnect(d), c.st, c.tm, c.ces, c.presel, c.listed)
  BY <1>1, DecodeAfter, ThenChan
<1>4. Turns(c, Send(StopTone(c), "RELEASE"), c.st, c.tm, c.ces, c.presel, c.listed)
  BY <1>1, ThenTone, ThenSend
<1>5. {} \in SUBSET NetTimers /\ {"T308"} \in SUBSET NetTimers
  BY DEF NetTimers, Timers
<1> HIDE DEF d
<1>6. After(c, e)
  BY <1>1, <1>3, <1>5, AwayGo
<1>7. After(c, f)
  BY <1>1, <1>4, <1>5, AwayGo
<1> QED BY <1>2, <1>6, <1>7, NotCompatibleAfter

(* q931_handle_release.                                                    *)
LEMMA HandleReleaseAfter ==
  ASSUME NEW c, Good(c), NEW m
  PROVE  After(c, N_handle_release(c, m))
<1> DEFINE d == Decode(c, m)
           b == IF c.st = "N12" THEN StopTone(d) ELSE d
           S == ClearStops(c, "RELEASE")
           e == Stop(b, S)
           f == Tell(ToN0(e), "RELEASE_CFM")
           g == Tell(ToN0(Send(e, "RELEASE_COMPLETE")), "RELEASE_IND")
<1>1. /\ c.st # "N0" /\ c.tm \in SUBSET NetTimers
      /\ c.ces \in Suffixes /\ NoneIsIdle(c.ces)
      /\ Turns(c, c, c.st, c.tm, c.ces, c.presel, c.listed)
  BY GoodFacts
<1>2. N_handle_release(c, m) \in {d, NotCompatible(c), Send(c, "RELEASE_COMPLETE"),
                                  Send(d, "RELEASE_COMPLETE"), f, g}
  BY <1>1 DEF N_handle_release
<1>3. Turns(c, d, c.st, c.tm, c.ces, c.presel, c.listed) /\ After(c, d)
  BY DecodeAfter
<1> HIDE DEF d, S
<1>4. Turns(c, b, c.st, c.tm, c.ces, c.presel, c.listed)
  BY <1>3, ThenTone
<1> HIDE DEF b
<1>5. Turns(c, e, c.st, c.tm \ S, c.ces, c.presel, c.listed)
  BY <1>4, ThenStop
<1> HIDE DEF e
<1>6. Turns(c, Send(e, "RELEASE_COMPLETE"), c.st, c.tm \ S, c.ces, c.presel, c.listed)
  BY <1>5, ThenSend
<1>7. /\ c.tm \ S \in SUBSET NetTimers
      /\ "RELEASE_CFM" \in EndPrimitives /\ "RELEASE_IND" \in EndPrimitives
  BY <1>1 DEF EndPrimitives
<1>8. After(c, f) /\ After(c, g)
  BY <1>1, <1>5, <1>6, <1>7, ToN0After
<1>9. After(c, Send(c, "RELEASE_COMPLETE")) /\ After(c, Send(d, "RELEASE_COMPLETE"))
  BY <1>1, <1>3, ThenSend, CalmAfter
<1> QED BY <1>2, <1>3, <1>8, <1>9, NotCompatibleAfter

(* q931_handle_release_complete.                                           *)
LEMMA HandleReleaseCompleteAfter ==
  ASSUME NEW c0, Good(c0), NEW m
  PROVE  After(c0, N_handle_release_complete(c0, m))
<1> DEFINE c == [c0 EXCEPT !.rcr = TRUE]
           d == Decode(c, m)
           b == IF c.st = "N12" THEN StopTone(d) ELSE d
           S == ClearStops(c, "RELEASE_COMPLETE")
           e == Stop(b, S)
           x == SendStatus(c, c.st)
<1>1. /\ c0.bc = TRUE /\ c0.st \in Reached \ {"N0"} /\ c0.tm \in SUBSET NetTimers
      /\ c0.ces \in Suffixes /\ NoneIsIdle(c0.ces)
      /\ Turns(c0, c0, c0.st, c0.tm, c0.ces, c0.presel, c0.listed)
  BY GoodFacts
<1>2. Turns(c0, c, c0.st, c0.tm, c0.ces, c0.presel, c0.listed)
  BY <1>1, ThenOther
<1>3. c.st = c0.st /\ c.bc = TRUE
  BY <1>1, <1>2, TurnsFacts
<1>4. N_handle_release_complete(c0, m) \in
        {c, d, x, Tell(ToN0(e), "RELEASE_CFM"), Tell(ToN0(e), "RELEASE_IND")}
  BY <1>1, <1>3 DEF N_handle_release_complete, NotCompatible, NotCompatibleAs, Reached
<1> HIDE DEF c
<1>5. Turns(c0, d, c0.st, c0.tm, c0.ces, c0.presel, c0.listed)
  BY <1>2, ThenDecode
<1>6. Turns(c0, x, c0.st, c0.tm, c0.ces, c0.presel, c0.listed)
  BY <1>2, ThenSendStatus
<1> HIDE DEF d, S, x
<1>7. Turns(c0, b, c0.st, c0.tm, c0.ces, c0.presel, c0.listed)
  BY <1>5, ThenTone
<1> HIDE DEF b
<1>8. Turns(c0, e, c0.st, c0.tm \ S, c0.ces, c0.presel, c0.listed)
  BY <1>7, ThenStop
<1> HIDE DEF e
<1>9. /\ c0.tm \ S \in SUBSET NetTimers
      /\ "RELEASE_CFM" \in EndPrimitives /\ "RELEASE_IND" \in EndPrimitives
  BY <1>1 DEF EndPrimitives
<1>10. After(c0, Tell(ToN0(e), "RELEASE_CFM")) /\ After(c0, Tell(ToN0(e), "RELEASE_IND"))
  BY <1>1, <1>8, <1>9, ToN0After
<1>11. After(c0, c) /\ After(c0, d) /\ After(c0, x)
  BY <1>2, <1>5, <1>6, CalmAfter
<1> QED BY <1>4, <1>10, <1>11

(* q931_handle_status.                                                     *)
LEMMA HandleStatusAfter ==
  ASSUME NEW c, Good(c), NEW m
  PROVE  After(c, N_handle_status(c, m))
<1> DEFINE d == Decode(c, m)
           e == IF m.resp THEN Stop(d, {"T322"}) ELSE d
           R(f) == Go(Send(f, "RELEASE"), {}, {"T308"}, "N19")
           g == Tell(ToN0(Stop(d, {"T308"})), "STATUS_IND")
           h == Tell(Tell(ToN0(StopAnyTimer(e)), "STATUS_IND"), "RELEASE_IND")
           k == Tell(Tell(R(StopAnyTimer(e)), "STATUS_IND"), "RELEASE_IND")
           tm == IF m.resp THEN c.tm \ {"T322"} ELSE c.tm
<1>1. /\ c.st # "N0" /\ c.tm \in SUBSET NetTimers
      /\ c.ces \in Suffixes /\ NoneIsIdle(c.ces)
      /\ Turns(c, c, c.st, c.tm, c.ces, c.presel, c.listed)
  BY GoodFacts
<1>2. N_handle_status(c, m) \in {d, e, g, h, k}
  BY <1>1 DEF N_handle_status
<1>3. Turns(c, d, c.st, c.tm, c.ces, c.presel, c.listed) /\ After(c, d)
  BY DecodeAfter
<1> HIDE DEF d
<1>4. Turns(c, e, c.st, tm, c.ces, c.presel, c.listed)
  BY <1>3, ThenStop
<1>5. /\ tm \in SUBSET NetTimers /\ c.tm \ {"T308"} \in SUBSET NetTimers
      /\ {"T308"} \in SUBSET NetTimers /\ {} \in SUBSET NetTimers
      /\ \A t \in {"T303", "T312"} : t \in c.tm => t \in tm
      /\ "STATUS_IND" \in EndPrimitives /\ "RELEASE_IND" \in EndPrimitives
  BY <1>1 DEF EndPrimitives, NetTimers, Timers
<1> HIDE DEF e, tm
<1>6. After(c, e)
  BY <1>4, <1>5, StayAfter
<1>7. After(c, g)
  <2>1. Turns(c, Stop(d, {"T308"}), c.st, c.tm \ {"T308"}, c.ces, c.presel, c.listed)
    BY <1>3, ThenStop
  <2> QED BY <1>1, <1>5, <2>1, ToN0After
<1>8. Turns(c, StopAnyTimer(e), c.st, {}, c.ces, c.presel, c.listed)
  BY <1>4, ThenStop
<1>9. After(c, h)
  BY <1>1, <1>5, <1>8, ToN0After
<1>10. Turns(c, Send(StopAnyTimer(e), "RELEASE"), c.st, {}, c.ces, c.presel, c.listed)
  BY <1>8, ThenSend
<1>11. After(c, k)
  BY <1>1, <1>5, <1>10, AwayGo
<1> QED BY <1>2, <1>3, <1>6, <1>7, <1>9, <1>11

(* q931_handle_suspend.                                                    *)
LEMMA HandleSuspendAfter ==
  ASSUME NEW c, Good(c), NEW m
  PROVE  After(c, N_handle_suspend(c, m))
<1> DEFINE d == Decode(c, m)
           e == Tell(SetState(d, "N15"), "SUSPEND_IND")
<1>1. c.tm \in SUBSET NetTimers /\ c.ces \in Suffixes /\ NoneIsIdle(c.ces)
      /\ c.presel \in TEs \cup {NoTe}
  BY GoodFacts
<1>2. Turns(c, d, c.st, c.tm, c.ces, c.presel, c.listed) /\ After(c, d)
  BY DecodeAfter
<1>3. \/ N_handle_suspend(c, m) \in {NotCompatible(c), d}
      \/ c.st = "N10" /\ N_handle_suspend(c, m) = e
  BY DEF N_handle_suspend
<1> HIDE DEF d
<1>4. Turns(c, e, "N15", c.tm, c.ces, c.presel, c.listed)
  BY <1>2, ThenSetState, ThenTell
<1> HIDE DEF e
<1>5. c.st = "N10" => After(c, e)
  <2>1. c.st = "N10" => AllGoing(c.ces)
    BY DEF Good, Phase
  <2> QED BY <1>1, <1>4, <2>1, ListedAfter DEF Reached, Offering
<1> QED BY <1>2, <1>3, <1>5, NotCompatibleAfter

(* The messages that change nothing in the call.                           *)
LEMMA OtherMessagesAfter ==
  ASSUME NEW c, Good(c), NEW m
  PROVE  /\ After(c, N_handle_connect_acknowledge(c)) /\ After(c, N_handle_progress(c, m))
         /\ After(c, N_handle_setup(c, m)) /\ After(c, handle_status_enquiry(c))
         /\ After(c, N_handle_info(c, m)) /\ After(c, N_handle_notify(c, m))
         /\ After(c, N_handle_resume(c, m)) /\ After(c, N_handle_unknown(c))
<1> DEFINE d == Decode(c, m)
<1>1. c.bc = TRUE /\ c.st \in Reached \ {"N0"}
  BY GoodFacts
<1>2. Turns(c, d, c.st, c.tm, c.ces, c.presel, c.listed) /\ After(c, d)
  BY DecodeAfter
<1>3. /\ After(c, c) /\ After(c, SendStatus(c, c.st))
      /\ After(c, NotCompatible(c)) /\ After(c, NotCompatibleAs(c, "N6"))
  BY NotCompatibleAfter
<1>4. After(c, Tell(d, "INFO_IND")) /\ After(c, Tell(d, "NOTIFY_IND"))
  <2> HIDE DEF d
  <2> QED BY <1>2, ThenTell, CalmAfter
<1>5. N_handle_connect_acknowledge(c) \in {c, NotCompatible(c)}
  BY DEF N_handle_connect_acknowledge
<1>6. N_handle_progress(c, m) = NotCompatible(c)
  BY <1>1 DEF N_handle_progress
<1>7. N_handle_setup(c, m) = c
  BY <1>1 DEF N_handle_setup
<1>8. handle_status_enquiry(c) = SendStatus(c, c.st)
  BY DEF handle_status_enquiry
<1>9. N_handle_info(c, m) \in {d, NotCompatibleAs(c, "N6"), NotCompatible(c),
                               Tell(d, "INFO_IND")}
  BY <1>1 DEF N_handle_info, Reached
<1>10. N_handle_notify(c, m) \in {c, d, Tell(d, "NOTIFY_IND")}
  BY DEF N_handle_notify
<1>11. N_handle_resume(c, m) = NotCompatible(c)
  BY <1>1 DEF N_handle_resume
<1>12. N_handle_unknown(c) = SendStatus(c, c.st)
  BY <1>1 DEF N_handle_unknown
<1> HIDE DEF d
<1> QED BY <1>2, <1>3, <1>4, <1>5, <1>6, <1>7, <1>8, <1>9, <1>10, <1>11, <1>12

(* q931_dispatch_message: any message from a terminal without a suffix.    *)
LEMMA MessageAfter ==
  ASSUME NEW c, Good(c), NEW m, Fresh(c, m)
  PROVE  After(c, dispatch_message(c, m))
<1> DEFINE e == dispatch_message(c, m)
<1>1. c.st \in NStates
  BY GoodFacts DEF Reached, NStates
<1>2. e = N_dispatch_message(c, m)
  BY <1>1 DEF dispatch_message
<1>3. \/ e \in {N_handle_alerting(c, m), N_handle_call_proceeding(c, m),
             N_handle_connect(c, m), N_handle_setup_acknowledge(c, m)}
      \/ e \in {N_handle_disconnect(c, m), N_handle_release(c, m),
                N_handle_release_complete(c, m), N_handle_status(c, m),
                N_handle_suspend(c, m)}
      \/ e \in {N_handle_connect_acknowledge(c), N_handle_progress(c, m),
                N_handle_setup(c, m), handle_status_enquiry(c), N_handle_info(c, m),
                N_handle_notify(c, m), N_handle_resume(c, m), N_handle_unknown(c)}
      \/ e = NotCompatible(c)
  BY <1>2 DEF N_dispatch_message
<1> HIDE DEF e
<1>4. CASE e \in {N_handle_alerting(c, m), N_handle_call_proceeding(c, m),
                  N_handle_connect(c, m), N_handle_setup_acknowledge(c, m)}
  BY <1>4, AlertingAfter, ProceedingAfter, ConnectAfter, SetupAcknowledgeAfter DEF e
<1>5. CASE e \in {N_handle_disconnect(c, m), N_handle_release(c, m),
                  N_handle_release_complete(c, m), N_handle_status(c, m),
                  N_handle_suspend(c, m)}
  BY <1>5, HandleDisconnectAfter, HandleReleaseAfter, HandleReleaseCompleteAfter,
     HandleStatusAfter, HandleSuspendAfter DEF e
<1>6. CASE e \in {N_handle_connect_acknowledge(c), N_handle_progress(c, m),
                  N_handle_setup(c, m), handle_status_enquiry(c), N_handle_info(c, m),
                  N_handle_notify(c, m), N_handle_resume(c, m), N_handle_unknown(c)}
  BY <1>6, OtherMessagesAfter DEF e
<1>7. CASE e = NotCompatible(c)
  BY <1>7, NotCompatibleAfter DEF e
<1> QED BY <1>3, <1>4, <1>5, <1>6, <1>7

-----------------------------------------------------------------------------
(* The suffix of terminal t is s, and nothing else has changed in c.       *)

(* ... not even what other terminals' suffixes are.                        *)
At(c, d, t, s) ==
    /\ s \in OneCes
    /\ Turns(c, d, c.st, c.tm, [c.ces EXCEPT ![t] = s], c.presel, c.listed)

(* Before the handler.                                                     *)
LEMMA AtStart ==
  ASSUME NEW c, Good(c), NEW t \in TEs
  PROVE  At(c, c, t, c.ces[t])
<1>1. /\ c.ces \in Suffixes
      /\ Turns(c, c, c.st, c.tm, c.ces, c.presel, c.listed)
  BY GoodFacts
<1>2. c.ces[t] \in OneCes /\ [c.ces EXCEPT ![t] = c.ces[t]] = c.ces
  BY <1>1 DEF Suffixes, OneCes
<1> QED BY <1>1, <1>2 DEF At

(* The call, part by part.                                                 *)
LEMMA AtFields ==
  ASSUME NEW c, Good(c), NEW t \in TEs, NEW d, NEW s, At(c, d, t, s)
  PROVE  /\ s \in OneCes /\ Shaped(d) /\ ChanOK(d) /\ d.st = c.st /\ d.tm = c.tm
         /\ d.ces = [c.ces EXCEPT ![t] = s] /\ d.ces[t] = s /\ d.ces \in Suffixes
         /\ d.presel = c.presel /\ d.listed = c.listed /\ d.dis = c.dis
<1>1. c.ces \in Suffixes /\ ChanOK(c)
  BY GoodFacts
<1>2. /\ s \in OneCes /\ Shaped(d) /\ ChanOK(d) /\ d.st = c.st /\ d.tm = c.tm
      /\ d.ces = [c.ces EXCEPT ![t] = s]
      /\ d.presel = c.presel /\ d.listed = c.listed /\ d.dis = c.dis
  BY <1>1, TurnsFacts DEF At
<1>3. [c.ces EXCEPT ![t] = s] \in Suffixes /\ [c.ces EXCEPT ![t] = s][t] = s
  BY <1>1, <1>2 DEF Suffixes, OneCes
<1> QED BY <1>2, <1>3

(* A calm step.                                                            *)
LEMMA AtCalm ==
  ASSUME NEW c, NEW t, NEW d, NEW s, At(c, d, t, s), NEW e, Calm(d, e)
  PROVE  At(c, e, t, s)
  BY TurnsOn DEF At

(* A message is decoded, the CCB is told.                                  *)
LEMMA AtSteps ==
  ASSUME NEW c, Good(c), NEW t \in TEs, NEW d, NEW s, At(c, d, t, s), NEW m, NEW p
  PROVE  At(c, Decode(d, m), t, s) /\ At(c, Tell(d, p), t, s)
<1>1. Calm(d, Decode(d, m)) /\ Calm(d, Tell(d, p))
  BY AtFields, DecodeCalm, TellCalm
<1> QED BY <1>1, AtCalm

(* A suffix with other timers and another state.                           *)
LEMMA SuffixFacts ==
  ASSUME NEW s \in OneCes, NEW tm \in SUBSET {"T304", "T308", "T322"},
         NEW st \in CesStates \cup {"none"}
  PROVE  /\ Suffix(s, tm, st) \in OneCes /\ Suffix(s, tm, st).tm = tm
         /\ Suffix(s, tm, st).st = st
  BY DEF Suffix, OneCes

(* The suffix starts and stops timers and changes its state.               *)
LEMMA AtGo ==
  ASSUME NEW c, Good(c), NEW t \in TEs, NEW d, NEW s, At(c, d, t, s),
         NEW stop, NEW start \in SUBSET {"T304", "T308", "T322"}, NEW st \in CesStates
  PROVE  At(c, CesGo(d, t, stop, start, st), t, Suffix(s, (s.tm \ stop) \cup start, st))
<1> DEFINE e == CesGo(d, t, stop, start, st)
           r == Suffix(s, (s.tm \ stop) \cup start, st)
           k == [c.ces EXCEPT ![t] = r]
<1>1. /\ s \in OneCes /\ Shaped(d) /\ d.st = c.st /\ d.tm = c.tm
      /\ d.ces = [c.ces EXCEPT ![t] = s] /\ d.ces[t] = s /\ d.ces \in Suffixes
      /\ d.presel = c.presel /\ d.listed = c.listed
  BY AtFields
<1>2. Turns(d, e, d.st, d.tm, [d.ces EXCEPT ![t] = r], d.presel, d.listed)
  BY <1>1, CesGoTurns
<1>3. [d.ces EXCEPT ![t] = r] = k
  <2>1. DOMAIN c.ces = TEs
    BY GoodFacts DEF Suffixes
  <2> HIDE DEF r
  <2> QED BY <1>1, <2>1
<1>4. r \in OneCes
  <2>1. (s.tm \ stop) \cup start \in SUBSET {"T304", "T308", "T322"}
    BY <1>1 DEF OneCes
  <2> QED BY <1>1, <2>1, SuffixFacts
<1> HIDE DEF e, r
<1>5. Turns(d, e, c.st, c.tm, k, c.presel, c.listed)
  BY <1>1, <1>2, <1>3
<1>6. Turns(c, e, c.st, c.tm, k, c.presel, c.listed)
  BY <1>5, TurnsTwice DEF At
<1> QED BY <1>4, <1>6 DEF At, e, r

(* Only its timers.                                                        *)
LEMMA AtTimers ==
  ASSUME NEW c, Good(c), NEW t \in TEs, NEW d, NEW s, At(c, d, t, s),
         NEW tm \in SUBSET {"T304", "T308", "T322"}
  PROVE  At(c, [d EXCEPT !.ces[t].tm = tm], t, Suffix(s, tm, s.st))
<1> DEFINE e == [d EXCEPT !.ces[t].tm = tm]
           r == Suffix(s, tm, s.st)
           k == [c.ces EXCEPT ![t] = r]
<1>1. /\ s \in OneCes /\ Shaped(d) /\ d.st = c.st /\ d.tm = c.tm
      /\ d.ces = [c.ces EXCEPT ![t] = s] /\ d.ces[t] = s /\ d.ces \in Suffixes
      /\ d.presel = c.presel /\ d.listed = c.listed
  BY AtFields
<1>2. Turns(d, e, d.st, d.tm, [d.ces EXCEPT ![t] = r], d.presel, d.listed)
  BY <1>1, CesTimersTurns
<1>3. [d.ces EXCEPT ![t] = r] = k
  <2>1. DOMAIN c.ces = TEs
    BY GoodFacts DEF Suffixes
  <2> HIDE DEF r
  <2> QED BY <1>1, <2>1
<1>4. r \in OneCes
  <2>1. s.st \in CesStates \cup {"none"}
    BY <1>1 DEF OneCes
  <2> QED BY <1>1, <2>1, SuffixFacts
<1> HIDE DEF e, r
<1>5. Turns(d, e, c.st, c.tm, k, c.presel, c.listed)
  BY <1>1, <1>2, <1>3
<1>6. Turns(c, e, c.st, c.tm, k, c.presel, c.listed)
  BY <1>5, TurnsTwice DEF At
<1> QED BY <1>4, <1>6 DEF At, e, r

(* ... with timers taken away.                                             *)
Less(d, t, X) == [d EXCEPT !.ces[t].tm = @ \ X]

(* ... in the suffix itself.                                               *)
Fewer(s, X) == Suffix(s, s.tm \ X, s.st)

(* Only some of its timers are stopped.                                    *)
LEMMA AtLess ==
  ASSUME NEW c, Good(c), NEW t \in TEs, NEW d, NEW s, At(c, d, t, s), NEW X
  PROVE  /\ At(c, Less(d, t, X), t, Fewer(s, X))
         /\ Fewer(s, X).st = s.st /\ Fewer(s, X).tm = s.tm \ X
         /\ Fewer(s, X) \in OneCes
<1>1. /\ s \in OneCes /\ Shaped(d) /\ d.st = c.st /\ d.tm = c.tm
      /\ d.ces = [c.ces EXCEPT ![t] = s] /\ d.ces[t] = s /\ d.ces \in Suffixes
  BY AtFields
<1>2. /\ s.tm \ X \in SUBSET {"T304", "T308", "T322"}
      /\ s.st \in CesStates \cup {"none"}
  BY <1>1 DEF OneCes
<1>3. Less(d, t, X) = [d EXCEPT !.ces[t].tm = s.tm \ X]
  BY <1>1 DEF Less, Shaped, CallFields, Suffixes
<1>4. At(c, [d EXCEPT !.ces[t].tm = s.tm \ X], t, Suffix(s, s.tm \ X, s.st))
  BY <1>2, AtTimers
<1>5. /\ Suffix(s, s.tm \ X, s.st).st = s.st
      /\ Suffix(s, s.tm \ X, s.st).tm = s.tm \ X
      /\ Suffix(s, s.tm \ X, s.st) \in OneCes
  BY <1>1, <1>2, SuffixFacts
<1> QED BY <1>3, <1>4, <1>5 DEF Fewer

(* The suffix may become s.                                                *)
LEMMA PutAfter ==
  ASSUME NEW c, Good(c), NEW t \in TEs, NEW d, NEW s, At(c, d, t, s), s.st # "none",
         c.st \in {"N6", "N22", "N10", "N15"} => s.st = "I19",
         c.st = "N8" /\ t = c.presel => s.st = "I8",
         c.st \in Offering => (s.st = "I19" => "T308" \in s.tm)
  PROVE  After(c, d)
<1> DEFINE k == [c.ces EXCEPT ![t] = s]
<1>1. /\ c.st \in Reached \ {"N0"} /\ c.tm \in SUBSET NetTimers
      /\ c.ces \in Suffixes /\ NoneIsIdle(c.ces) /\ c.presel \in TEs \cup {NoTe}
  BY GoodFacts
<1>2. s \in OneCes /\ Turns(c, d, c.st, c.tm, k, c.presel, c.listed)
  BY DEF At
<1>3. /\ k \in Suffixes /\ NoneIsIdle(k) /\ AnyLeft(k) /\ k[t] = s
      /\ AllGoing(c.ces) /\ s.st = "I19" => AllGoing(k)
      /\ Watched(c.ces) /\ (s.st = "I19" => "T308" \in s.tm) => Watched(k)
      /\ \A u \in TEs \ {t} : k[u] = c.ces[u]
  BY <1>1, <1>2, PutFacts
<1> HIDE DEF k
<1>4. /\ c.st = "N6" => {"T303", "T312"} \subseteq c.tm
      /\ c.st \in {"N6", "N22", "N10", "N15"} => AllGoing(k)
      /\ c.st = "N8" => c.presel \in TEs /\ k[c.presel].st = "I8"
      /\ c.st \in Offering => Watched(k)
  BY <1>3 DEF Good, Phase
<1> QED BY <1>1, <1>2, <1>3, <1>4, ListedAfter

(* The terminal's suffix is being released, or T322 has given up.          *)
LEMMA IntReleaseAfter ==
  ASSUME NEW c, Good(c), NEW t \in TEs, NEW d, NEW s, At(c, d, t, s),
         c.ces[t].st # "none", s.st \in {c.ces[t].st, "I19"},
         s.st = "I19" => "T308" \in s.tm
  PROVE  After(c, N_int_release_indication(d, t))
<1> DEFINE k == [c.ces EXCEPT ![t] = s]
           S == CASE d.st = "N7" -> {"T301"} [] d.st = "N9" -> {"T310"} [] OTHER -> {}
           f == Tell(ToN0(Stop(d, S)), "RELEASE_IND")
           g == Tell(AbortBroadcast(d), "RELEASE_IND")
<1>1. /\ c.tm \in SUBSET NetTimers /\ c.ces \in Suffixes /\ NoneIsIdle(c.ces)
  BY GoodFacts
<1>2. d.st = c.st /\ d.presel = c.presel /\ s \in OneCes
  BY DEF At, Turns
<1>3. Turns(c, d, c.st, c.tm, k, c.presel, c.listed)
  BY DEF At
<1>4. s.st # "none"
  OBVIOUS
<1>5. /\ k \in Suffixes /\ NoneIsIdle(k) /\ (Watched(c.ces) => Watched(k))
  BY <1>1, <1>2, <1>4, PutFacts
<1>6. c.st # "N8" => After(c, d)
  <2>1. c.st \in {"N6", "N22", "N10", "N15"} => s.st = "I19"
    BY <1>4 DEF Good, Phase, AllGoing
  <2> QED BY <1>4, <2>1, PutAfter
<1> HIDE DEF k, S
<1>7. After(c, f)
  <2>1. Turns(c, Stop(d, S), c.st, c.tm \ S, k, c.presel, c.listed)
    BY <1>3, ThenStop
  <2>2. c.tm \ S \in SUBSET NetTimers /\ "RELEASE_IND" \in EndPrimitives
    BY <1>1 DEF EndPrimitives
  <2> QED BY <1>5, <2>1, <2>2, ToN0After
<1>8. c.st = "N8" => After(c, g) /\ d.presel # NoTe
  <2>1. c.st = "N8" => Watched(c.ces) /\ c.presel \in TEs
    BY DEF Good, Phase, Offering
  <2> QED BY <1>1, <1>2, <1>3, <1>5, <2>1, AbortAfter, TEsAssumption
<1>9. N_int_release_indication(d, t) =
        IF c.st = "N8" /\ d.presel # NoTe THEN g
        ELSE IF c.st \in {"N7", "N9", "N25"}
                /\ ~(AbleToProceed(d, TEs \ {t}) \/ "T312" \in d.tm) THEN f
        ELSE d
  BY <1>2 DEF N_int_release_indication, S
<1> QED BY <1>6, <1>7, <1>8, <1>9

(* The suffix is freed while the call goes on.                             *)
LEMMA FreeAfter ==
  ASSUME NEW c, Good(c), NEW t \in TEs, NEW d, NEW s, At(c, d, t, s), c.st # "N22",
         c.st = "N8" => t # c.presel
  PROVE  After(c, CesFree(d, t))
<1> DEFINE k == [c.ces EXCEPT ![t] = NoCes]
           e == CesFree(d, t)
<1>1. /\ c.st \in Reached \ {"N0"} /\ c.tm \in SUBSET NetTimers
      /\ c.ces \in Suffixes /\ NoneIsIdle(c.ces) /\ c.presel \in TEs \cup {NoTe}
  BY GoodFacts
<1>2. Turns(c, e, c.st, c.tm, k, c.presel, c.listed)
  <2>1. Turns(c, e, c.st, c.tm, [[c.ces EXCEPT ![t] = s] EXCEPT ![t] = NoCes],
              c.presel, c.listed)
    BY ThenFree DEF At
  <2>2. [[c.ces EXCEPT ![t] = s] EXCEPT ![t] = NoCes] = k
    BY <1>1 DEF Suffixes
  <2> QED BY <2>1, <2>2
<1>3. /\ k \in Suffixes /\ NoneIsIdle(k)
      /\ AllGoing(c.ces) => AllGoing(k)
      /\ Watched(c.ces) => Watched(k)
      /\ \A u \in TEs \ {t} : k[u] = c.ces[u]
  BY <1>1, NoCesFacts, PutFacts
<1> HIDE DEF k, e
<1>4. /\ c.st = "N6" => {"T303", "T312"} \subseteq c.tm
      /\ c.st \in {"N6", "N22", "N10", "N15"} => AllGoing(k)
      /\ c.st = "N8" => c.presel \in TEs /\ k[c.presel].st = "I8"
      /\ c.st \in Offering => Watched(k)
  BY <1>3 DEF Good, Phase
<1>5. After(c, e)
  BY <1>1, <1>2, <1>3, <1>4, ListedAfter
<1> QED BY <1>5 DEF e

(* The last suffix of a call that was given up ends the call.              *)
LEMMA LastOfN22 ==
  ASSUME NEW c, Good(c), NEW t \in TEs, NEW d, NEW tm \in SUBSET NetTimers,
         NEW k, [k EXCEPT ![t] = NoCes] \in Suffixes,
         NoneIsIdle([k EXCEPT ![t] = NoCes]), AllGoing([k EXCEPT ![t] = NoCes]),
         Watched([k EXCEPT ![t] = NoCes]),
         Turns(c, d, "N22", tm, k, c.presel, c.listed), c.st = "N22" \/ Ends(d)
  PROVE  After(c, N_int_release_complete_indication(d, t))
<1> DEFINE n == [k EXCEPT ![t] = NoCes]
           e == CesFree(d, t)
           b == IF e.dis THEN Tell(e, "RELEASE_IND") ELSE e
           f == ToN0(b)
<1>1. Turns(c, e, "N22", tm, n, c.presel, c.listed)
  BY ThenFree
<1>2. d.st = "N22" /\ e.ces = n /\ e.dis = c.dis
  BY <1>1, TurnsFacts
<1>3. Ends(d) => Ends(e)
  <2>1. Shaped(d)
    BY TurnsFacts
  <2>2. Turns(d, e, d.st, d.tm, [d.ces EXCEPT ![t] = NoCes], d.presel, d.listed)
    BY <2>1, CesFreeTurns
  <2> QED BY <2>2, TurnsFacts
<1>4. c.presel \in TEs \cup {NoTe} /\ ChanOK(c)
  BY GoodFacts
<1>5. N_int_release_complete_indication(d, t) = IF CesList(e) # {} THEN e ELSE f
  BY <1>2 DEF N_int_release_complete_indication
<1> HIDE DEF e, n
<1>6. CesList(e) # {} => After(c, e)
  <2>1. CesList(e) # {} => AnyLeft(n)
    BY <1>2 DEF CesList, AnyLeft
  <2>2. n \in Suffixes /\ NoneIsIdle(n) /\ AllGoing(n) /\ Watched(n)
    BY DEF n
  <2> QED BY <1>1, <1>3, <1>4, <2>1, <2>2, ListedAfter DEF Reached
<1>7. After(c, f)
  <2>1. Turns(c, b, "N22", tm, n, c.presel, c.listed)
    BY <1>1, ThenTell
  <2>2. (e.dis => Ends(b)) /\ (Ends(e) => Ends(b))
    BY <1>1, TurnsFacts, TellCalm, CalmShaped DEF EndPrimitives
  <2> HIDE DEF b
  <2>3. Turns(c, f, "N0", tm, n, c.presel, FALSE)
    BY <1>4, <2>1, ThenToN0
  <2>4. Ends(b) => Ends(f)
    <3>1. Shaped(b) /\ ChanOK(b)
      BY <1>4, <2>1, TurnsFacts
    <3>2. Turns(b, f, "N0", b.tm, b.ces, b.presel, FALSE)
      BY <3>1, ToN0Turns
    <3> QED BY <3>2 DEF Turns
  <2>5. Ends(f) \/ (c.st = "N22" /\ ~c.dis)
    BY <1>2, <1>3, <2>2, <2>4
  <2>6. n \in Suffixes /\ NoneIsIdle(n)
    BY DEF n
  <2> HIDE DEF f
  <2> QED BY <1>4, <2>3, <2>5, <2>6, OverAfter
<1> QED BY <1>5, <1>6, <1>7

(* The suffix has gone, and the call is told.                              *)
LEMMA IntGoneAfter ==
  ASSUME NEW c, Good(c), NEW t \in TEs, NEW d, NEW s, At(c, d, t, s),
         s.st # "none", s.st = c.ces[t].st, c.st = "N8" => t # c.presel
  PROVE  After(c, N_int_release_complete_indication(d, t))
<1> DEFINE k == [c.ces EXCEPT ![t] = s]
<1>1. /\ c.st \in Reached \ {"N0"} /\ c.tm \in SUBSET NetTimers
      /\ c.ces \in Suffixes /\ NoneIsIdle(c.ces)
  BY GoodFacts
<1>2. d.st = c.st
  BY DEF At, Turns
<1>3. CASE c.st \in {"N6", "N7", "N8", "N9", "N10", "N19", "N25"}
  <2>1. N_int_release_complete_indication(d, t) = CesFree(d, t)
    BY <1>2, <1>3 DEF N_int_release_complete_indication
  <2> QED BY <1>3, <2>1, FreeAfter
<1>4. CASE c.st = "N22"
  <2>1. [k EXCEPT ![t] = NoCes] = [c.ces EXCEPT ![t] = NoCes]
    BY <1>1 DEF Suffixes
  <2>2. AllGoing(c.ces) /\ Watched(c.ces)
    BY <1>4 DEF Good, Phase, Offering
  <2> DEFINE n == [c.ces EXCEPT ![t] = NoCes]
  <2>3. n \in Suffixes /\ NoneIsIdle(n) /\ AllGoing(n) /\ Watched(n)
    BY <1>1, <2>2, NoCesFacts, PutFacts
  <2>4. Turns(c, d, "N22", c.tm, k, c.presel, c.listed)
    BY <1>4 DEF At
  <2> HIDE DEF k, n
  <2>5. [k EXCEPT ![t] = NoCes] = n
    BY <2>1 DEF n
  <2> QED BY <1>1, <1>4, <2>3, <2>4, <2>5, LastOfN22
<1>5. CASE c.st \in {"N11", "N12", "N15"}
  <2>1. N_int_release_complete_indication(d, t) = d
    BY <1>2, <1>5 DEF N_int_release_complete_indication
  <2>2. c.st \in {"N6", "N22", "N10", "N15"} => s.st = "I19"
    BY DEF Good, Phase, AllGoing
  <2>3. c.st \notin Offering /\ c.st # "N8"
    BY <1>5 DEF Offering
  <2> QED BY <2>1, <2>2, <2>3, PutAfter
<1> QED BY <1>1, <1>3, <1>4, <1>5 DEF Reached

(* A suffix freed after the call has ended.                                *)
LEMMA FreeOver ==
  ASSUME NEW c, Good(c), NEW t \in TEs, NEW d, NEW tm \in SUBSET NetTimers,
         NEW k, [k EXCEPT ![t] = NoCes] \in Suffixes,
         NoneIsIdle([k EXCEPT ![t] = NoCes]),
         Turns(c, d, "N0", tm, k, c.presel, FALSE), Ends(d)
  PROVE  After(c, N_int_release_complete_indication(d, t))
<1> DEFINE n == [k EXCEPT ![t] = NoCes]
           e == CesFree(d, t)
<1>1. d.st = "N0" /\ Shaped(d)
  BY DEF Turns
<1>2. N_int_release_complete_indication(d, t) = e
  BY <1>1 DEF N_int_release_complete_indication
<1>3. Turns(c, e, "N0", tm, n, c.presel, FALSE)
  BY ThenFree
<1>4. Ends(e)
  <2>1. Turns(d, e, d.st, d.tm, [d.ces EXCEPT ![t] = NoCes], d.presel, d.listed)
    BY <1>1, CesFreeTurns
  <2> QED BY <2>1, TurnsFacts
<1>5. c.presel \in TEs \cup {NoTe} /\ n \in Suffixes /\ NoneIsIdle(n)
  BY GoodFacts
<1> HIDE DEF e, n
<1>6. After(c, e)
  BY <1>3, <1>4, <1>5, OverAfter
<1> QED BY <1>2, <1>6

(* Releasing all suffixes, one of which has just become s.                 *)
LEMMA RelAllPut ==
  ASSUME NEW ces \in Suffixes, NEW t \in TEs, NEW s
  PROVE  [RelAll([ces EXCEPT ![t] = s]) EXCEPT ![t] = NoCes]
           = RelAll([ces EXCEPT ![t] = NoCes])
<1>1. Released(NoCes) = NoCes
  BY NoCesFacts DEF Released
<1>2. ces \in [TEs -> OneCes]
  BY DEF Suffixes, OneCes
<1> DEFINE a == [ces EXCEPT ![t] = s]
           b == [ces EXCEPT ![t] = NoCes]
<1>3. b[t] = NoCes /\ \A u \in TEs \ {t} : a[u] = b[u]
  BY <1>2
<1> HIDE DEF a, b
<1>4. [RelAll(a) EXCEPT ![t] = NoCes] = RelAll(b)
  BY <1>1, <1>3 DEF RelAll
<1> QED BY <1>4 DEF a, b

(* The suffix goes at once: the call hears of the release and of its end.  *)
LEMMA CesGoneAfter ==
  ASSUME NEW c, Good(c), NEW t \in TEs, NEW d, NEW s, At(c, d, t, s),
         s.st # "none", s.st = c.ces[t].st
  PROVE  After(c, CesGone(d, t))
<1> DEFINE k == [c.ces EXCEPT ![t] = s]
           n == [c.ces EXCEPT ![t] = NoCes]
           S == CASE d.st = "N7" -> {"T301"} [] d.st = "N9" -> {"T310"} [] OTHER -> {}
           f == Tell(ToN0(Stop(d, S)), "RELEASE_IND")
           g == Tell(AbortBroadcast(d), "RELEASE_IND")
           R(x) == N_int_release_complete_indication(x, t)
<1>1. /\ c.tm \in SUBSET NetTimers /\ c.ces \in Suffixes /\ NoneIsIdle(c.ces)
      /\ ChanOK(c)
  BY GoodFacts
<1>2. d.st = c.st /\ d.presel = c.presel /\ s \in OneCes
  BY DEF At, Turns
<1>3. Turns(c, d, c.st, c.tm, k, c.presel, c.listed)
  BY DEF At
<1>4. /\ n \in Suffixes /\ NoneIsIdle(n) /\ (Watched(c.ces) => Watched(n))
  BY <1>1, NoCesFacts, PutFacts
<1>5. [k EXCEPT ![t] = NoCes] = n
  BY <1>1 DEF Suffixes
<1>6. N_int_release_indication(d, t) =
        IF c.st = "N8" /\ d.presel # NoTe THEN g
        ELSE IF c.st \in {"N7", "N9", "N25"}
                /\ ~(AbleToProceed(d, TEs \ {t}) \/ "T312" \in d.tm) THEN f
        ELSE d
  BY <1>2 DEF N_int_release_indication
<1>7. "RELEASE_IND" \in EndPrimitives
  BY DEF EndPrimitives
<1>8. CASE c.st # "N8"
  <2>1. After(c, R(d))
    BY <1>8, IntGoneAfter
  <2> HIDE DEF S, k, n
  <2>2. After(c, R(f))
    <3>1. Turns(c, Stop(d, S), c.st, c.tm \ S, k, c.presel, c.listed)
      BY <1>3, ThenStop
    <3>2. Turns(c, ToN0(Stop(d, S)), "N0", c.tm \ S, k, c.presel, FALSE)
      BY <1>1, <3>1, ThenToN0
    <3>3. Turns(c, f, "N0", c.tm \ S, k, c.presel, FALSE) /\ Ends(f)
      BY <1>7, <3>2, ThenTell
    <3>4. c.tm \ S \in SUBSET NetTimers
      BY <1>1
    <3> HIDE DEF f
    <3> QED BY <1>4, <1>5, <3>3, <3>4, FreeOver
  <2>3. CesGone(d, t) \in {R(d), R(f)}
    BY <1>6, <1>8 DEF CesGone
  <2> QED BY <2>1, <2>2, <2>3
<1>9. CASE c.st = "N8"
  <2>1. Watched(c.ces) /\ d.presel # NoTe
    BY <1>2, <1>9, TEsAssumption DEF Good, Phase, Offering
  <2>2. CesGone(d, t) = R(g)
    BY <1>6, <1>9, <2>1 DEF CesGone
  <2> DEFINE a == RelAll(k)
             b == RelAll(n)
  <2>3. [a EXCEPT ![t] = NoCes] = b
    BY <1>1, RelAllPut
  <2> HIDE DEF n, k
  <2>4. b \in Suffixes /\ NoneIsIdle(b) /\ AllGoing(b) /\ Watched(b)
    BY <1>4, <2>1, RelAllFacts
  <2> HIDE DEF a, b
  <2>5. CASE "T312" \in c.tm
    <3>1. Turns(c, AbortBroadcast(d), "N22", c.tm, a, c.presel, c.listed)
      BY <1>1, <1>3, <2>5, AbortTurns DEF a
    <3>2. Turns(c, g, "N22", c.tm, a, c.presel, c.listed) /\ Ends(g)
      BY <1>7, <3>1, ThenTell
    <3> HIDE DEF g
    <3>3. After(c, R(g))
      BY <1>1, <2>3, <2>4, <3>2, LastOfN22
    <3> QED BY <2>2, <3>3
  <2>6. CASE "T312" \notin c.tm
    <3>1. Turns(c, AbortBroadcast(d), "N0", c.tm, a, c.presel, FALSE)
      BY <1>1, <1>3, <2>6, AbortTurns DEF a
    <3>2. Turns(c, g, "N0", c.tm, a, c.presel, FALSE) /\ Ends(g)
      BY <1>7, <3>1, ThenTell
    <3> HIDE DEF g
    <3>3. After(c, R(g))
      BY <1>1, <2>3, <2>4, <3>2, FreeOver
    <3> QED BY <2>2, <3>3
  <2> QED BY <2>5, <2>6
<1> QED BY <1>8, <1>9

-----------------------------------------------------------------------------
(* Messages of a terminal that has a suffix.                               *)

(* A terminal that is still answering is not the preselected one, and the  *)
(* call is not one that only releases terminals.                           *)
LEMMA Answering ==
  ASSUME NEW c, Good(c), NEW t \in TEs, c.ces[t].st \in {"I7", "I9", "I25"}
  PROVE  c.st \notin {"N6", "N22", "N10", "N15"} /\ (c.st = "N8" => t # c.presel)
  BY DEF Good, Phase, AllGoing

(* The suffix has answered and the call moves on.                          *)
LEMMA MoveAfter ==
  ASSUME NEW c, Good(c), NEW t \in TEs, NEW d, NEW s, At(c, d, t, s),
         s.st \notin {"none", "I19"}, c.st \in {"N7", "N9", "N25"},
         NEW stop, NEW start \in SUBSET NetTimers, NEW st \in {"N7", "N9"}, NEW p
  PROVE  After(c, Tell(Go(d, stop, start, st), p))
<1> DEFINE k == [c.ces EXCEPT ![t] = s]
           tm == (c.tm \ stop) \cup start
           e == Tell(Go(d, stop, start, st), p)
<1>1. /\ tm \in SUBSET NetTimers /\ c.ces \in Suffixes /\ NoneIsIdle(c.ces)
      /\ c.presel \in TEs \cup {NoTe}
  BY GoodFacts
<1>2. Watched(c.ces)
  BY DEF Good, Phase, Offering
<1>3. s \in OneCes /\ Turns(c, d, c.st, c.tm, k, c.presel, c.listed)
  BY DEF At
<1>4. k \in Suffixes /\ NoneIsIdle(k) /\ Watched(k)
  BY <1>1, <1>2, <1>3, PutFacts
<1> HIDE DEF k
<1>5. Turns(c, e, st, tm, k, c.presel, c.listed)
  BY <1>3, ThenGo, ThenTell
<1> HIDE DEF e, tm
<1>6. After(c, e)
  BY <1>1, <1>4, <1>5, ListedAfter DEF Reached
<1> QED BY <1>6 DEF e

(* The suffix asks for the connection and is preselected.                  *)
LEMMA AwardAfter ==
  ASSUME NEW c, Good(c), NEW t \in TEs, NEW d, NEW s, At(c, d, t, s), s.st = "I8",
         c.st \in {"N7", "N9", "N25"}, NEW stop
  PROVE  After(c, Tell(Go([d EXCEPT !.presel = t], stop, {}, "N8"), "CONNECT_IND"))
<1> DEFINE k == [c.ces EXCEPT ![t] = s]
           tm == (c.tm \ stop) \cup {}
           b == [d EXCEPT !.presel = t]
           e == Tell(Go(b, stop, {}, "N8"), "CONNECT_IND")
<1>1. /\ tm \in SUBSET NetTimers /\ c.ces \in Suffixes /\ NoneIsIdle(c.ces)
      /\ t \in TEs \cup {NoTe}
  BY GoodFacts
<1>2. Watched(c.ces)
  BY DEF Good, Phase, Offering
<1>3. s \in OneCes /\ Turns(c, d, c.st, c.tm, k, c.presel, c.listed)
  BY DEF At
<1>4. k \in Suffixes /\ NoneIsIdle(k) /\ Watched(k) /\ k[t] = s
  BY <1>1, <1>2, <1>3, PutFacts
<1> HIDE DEF k
<1>5. Turns(c, b, c.st, c.tm, k, t, c.listed)
  BY <1>3, PreselTurns
<1> HIDE DEF b
<1>6. Turns(c, e, "N8", tm, k, t, c.listed)
  BY <1>5, ThenGo, ThenTell
<1> HIDE DEF e, tm
<1>7. After(c, e)
  BY <1>1, <1>4, <1>6, ListedAfter DEF Reached
<1> QED BY <1>7 DEF e, b

(* q931_ces_handle_alerting.                                               *)
LEMMA CesAlertingAfter ==
  ASSUME NEW c, Good(c), NEW t \in TEs, NEW m
  PROVE  After(c, ces_handle_alerting(c, t, m))
<1> DEFINE d == Decode(c, m)
           s0 == c.ces[t]
           b == CesGo(d, t, {"T304"}, {}, "I7")
           s == Suffix(s0, (s0.tm \ {"T304"}) \cup {}, "I7")
           S == IF b.st = "N9" THEN {"T310"} ELSE {"T304"}
           e == Tell(Go(b, S, {"T301"}, "N7"), "ALERTING_IND")
<1>1. At(c, c, t, s0) /\ At(c, d, t, s0)
  BY AtStart, AtSteps
<1>2. "I7" \in CesStates /\ {} \in SUBSET {"T304", "T308", "T322"}
      /\ {"T301"} \in SUBSET NetTimers
  BY DEF CesStates, NetTimers, Timers
<1> HIDE DEF d, s0
<1>3. At(c, b, t, s)
  BY <1>1, <1>2, AtGo
<1>4. s.st = "I7"
  <2>1. s0 \in OneCes
    BY <1>1 DEF At
  <2> QED BY <2>1, SuffixFacts DEF OneCes, CesStates, Suffix
<1>5. b.st = c.st
  BY <1>3 DEF At, Turns
<1> HIDE DEF b, s, S
<1>6. c.st \in {"N9", "N25"} => After(c, e)
  BY <1>2, <1>3, <1>4, MoveAfter
<1>7. s0.st \in {"I9", "I25"} => After(c, b)
  BY <1>3, <1>4, Answering, PutAfter DEF s0
<1>8. After(c, c) /\ After(c, d)
  BY NotCompatibleAfter, DecodeAfter DEF d
<1>9. \/ ces_handle_alerting(c, t, m) \in {c, d}
      \/ s0.st \in {"I9", "I25"} /\ ces_handle_alerting(c, t, m) = b
      \/ c.st \in {"N9", "N25"} /\ ces_handle_alerting(c, t, m) = e
  BY <1>5 DEF ces_handle_alerting, N_int_alerting_indication, b, S, d, s0
<1> QED BY <1>6, <1>7, <1>8, <1>9

(* q931_ces_handle_call_proceeding.                                        *)
LEMMA CesProceedingAfter ==
  ASSUME NEW c, Good(c), NEW t \in TEs, NEW m
  PROVE  After(c, ces_handle_call_proceeding(c, t, m))
<1> DEFINE d == Decode(c, m)
           s0 == c.ces[t]
           b == CesGo(d, t, {"T304"}, {}, "I9")
           s == Suffix(s0, (s0.tm \ {"T304"}) \cup {}, "I9")
           e == Tell(Go(b, {"T304"}, {"T310"}, "N9"), "PROCEEDING_IND")
<1>1. At(c, c, t, s0) /\ At(c, d, t, s0)
  BY AtStart, AtSteps
<1>2. "I9" \in CesStates /\ {} \in SUBSET {"T304", "T308", "T322"}
      /\ {"T310"} \in SUBSET NetTimers
  BY DEF CesStates, NetTimers, Timers
<1> HIDE DEF d, s0
<1>3. At(c, b, t, s)
  BY <1>1, <1>2, AtGo
<1>4. s.st = "I9"
  <2>1. s0 \in OneCes
    BY <1>1 DEF At
  <2> QED BY <2>1 DEF OneCes, Suffix
<1>5. b.st = c.st
  BY <1>3 DEF At, Turns
<1> HIDE DEF b, s
<1>6. c.st = "N25" => After(c, e)
  BY <1>2, <1>3, <1>4, MoveAfter
<1>7. s0.st = "I25" => After(c, b)
  BY <1>3, <1>4, Answering, PutAfter DEF s0
<1>8. After(c, c) /\ After(c, d)
  BY NotCompatibleAfter, DecodeAfter DEF d
<1>9. \/ ces_handle_call_proceeding(c, t, m) \in {c, d}
      \/ s0.st = "I25" /\ ces_handle_call_proceeding(c, t, m) = b
      \/ c.st = "N25" /\ ces_handle_call_proceeding(c, t, m) = e
  BY <1>5 DEF ces_handle_call_proceeding, N_int_call_proceeding_indication, b, d, s0
<1> QED BY <1>6, <1>7, <1>8, <1>9

(* q931_ces_handle_connect: in N7 a CONNECT whose channel is not           *)
(* acceptable releases the suffix.                                         *)
LEMMA CesConnectAfter ==
  ASSUME NEW c, Good(c), NEW t \in TEs, NEW m, m.ci \in (SUBSET Channels) \cup {NoCI}
  PROVE  After(c, ces_handle_connect(c, t, m))
<1> DEFINE d == Decode(c, m)
           s0 == c.ces[t]
           b == CesGo(d, t, {"T304"}, {}, "I8")
           s == Suffix(s0, (s0.tm \ {"T304"}) \cup {}, "I8")
           r == SelectResponse(b, m)
           x == ces_release_request(b, t)
           A(y, stop) == Tell(Go([y EXCEPT !.presel = t], stop, {}, "N8"), "CONNECT_IND")
           h == ces_handle_connect(c, t, m)
<1>1. At(c, c, t, s0) /\ At(c, d, t, s0)
  BY AtStart, AtSteps
<1>2. "I8" \in CesStates /\ {} \in SUBSET {"T304", "T308", "T322"}
  BY DEF CesStates
<1> HIDE DEF d, s0
<1>3. At(c, b, t, s)
  BY <1>1, <1>2, AtGo
<1>4. s.st = "I8" /\ s \in OneCes
  <2>1. s0 \in OneCes
    BY <1>1 DEF At
  <2>2. s.st = "I8"
    BY <2>1 DEF OneCes, Suffix
  <2> QED BY <1>3, <2>2 DEF At
<1>5. b.st = c.st
  BY <1>3 DEF At, Turns
<1> HIDE DEF b, s
<1>6. c.st \in {"N9", "N25"} => After(c, A(b, {"T310"})) /\ After(c, A(b, {"T304"}))
  BY <1>3, <1>4, AwardAfter
<1>7. c.st = "N7" /\ Selects(b, m) => After(c, A(r, {"T301"}))
  <2>1. Shaped(b) /\ ChanOK(b)
    <3>1. ChanOK(c)
      BY GoodFacts
    <3> QED BY <1>3, <3>1 DEF At, Turns
  <2>2. Selects(b, m) => Calm(b, r)
    BY <2>1, SelectResponseCalm
  <2> HIDE DEF r
  <2>3. Selects(b, m) => At(c, r, t, s)
    BY <1>3, <2>2, AtCalm
  <2> QED BY <1>4, <2>3, AwardAfter
<1>8. c.st = "N7" => After(c, x)
  <2>1. /\ b.ces = [c.ces EXCEPT ![t] = s] /\ b.ces[t] = s /\ Shaped(b)
        /\ b.st = c.st /\ b.tm = c.tm /\ b.presel = c.presel /\ b.listed = c.listed
    BY <1>3, AtFields
  <2> DEFINE q == Released(s)
  <2>2. q \in OneCes /\ q.st = "I19" /\ "T308" \in q.tm
    BY <1>4 DEF Released, OneCes, CesStates
  <2>3. x = [b EXCEPT !.ces[t] = q]
    BY <2>1 DEF ces_release_request, Shaped, CallFields
  <2> HIDE DEF x, q
  <2>4. Turns(b, x, b.st, b.tm, [b.ces EXCEPT ![t] = q], b.presel, b.listed)
    BY <2>1, <2>3, CesPutTurns
  <2>5. [b.ces EXCEPT ![t] = q] = [c.ces EXCEPT ![t] = q]
    <3>1. DOMAIN c.ces = TEs
      BY GoodFacts DEF Suffixes
    <3> QED BY <2>1, <3>1
  <2>6. Turns(b, x, c.st, c.tm, [c.ces EXCEPT ![t] = q], c.presel, c.listed)
    BY <2>1, <2>4, <2>5
  <2>7. At(c, x, t, q)
    BY <1>3, <2>2, <2>6, TurnsTwice DEF At
  <2> QED BY <2>2, <2>7, PutAfter
<1>9. s0.st \in {"I7", "I9", "I25"} => After(c, b)
  BY <1>3, <1>4, Answering, PutAfter DEF s0
<1>10. After(c, c) /\ After(c, d)
  BY NotCompatibleAfter, DecodeAfter DEF d
<1>11. \/ h \in {c, d}
       \/ s0.st \in {"I7", "I9", "I25"} /\ h = b
       \/ c.st \in {"N9", "N25"} /\ h \in {A(b, {"T310"}), A(b, {"T304"})}
       \/ c.st = "N7" /\ Selects(b, m) /\ h = A(r, {"T301"})
       \/ c.st = "N7" /\ h = x
  BY <1>5 DEF ces_handle_connect, N_int_connect_indication, b, d, s0
<1> HIDE DEF r, x, h
<1>12. After(c, h)
  BY <1>6, <1>7, <1>8, <1>9, <1>10, <1>11
<1> QED BY <1>12 DEF h

(* q931_ces_handle_progress.                                               *)
LEMMA CesProgressAfter ==
  ASSUME NEW c, Good(c), NEW t \in TEs, NEW m
  PROVE  After(c, ces_handle_progress(c, t, m))
<1> DEFINE d == Decode(c, m)
           s0 == c.ces[t]
           b == Less(d, t, {"T304"})
           s == Fewer(s0, {"T304"})
           k == [c.ces EXCEPT ![t] = s]
           e == Tell(b, "PROGRESS_IND")
           f == Tell(Stop(b, {"T310"}), "PROGRESS_IND")
           h == ces_handle_progress(c, t, m)
<1>1. At(c, c, t, s0) /\ At(c, d, t, s0)
  BY AtStart, AtSteps
<1> HIDE DEF d, s0
<1>2. At(c, b, t, s) /\ s.st = s0.st
  BY <1>1, AtLess
<1>3. b.st = c.st
  BY <1>2 DEF At, Turns
<1> HIDE DEF b, s
<1>4. At(c, e, t, s)
  BY <1>2, AtSteps
<1> HIDE DEF e
<1>5. CASE s0.st \in {"I7", "I9", "I25"}
  <2>1. c.st \notin {"N6", "N22", "N10", "N15"} /\ (c.st = "N8" => t # c.presel)
    BY <1>5, Answering DEF s0
  <2>2. After(c, b) /\ After(c, e)
    BY <1>2, <1>4, <1>5, <2>1, PutAfter
  <2>3. c.st = "N9" => After(c, f)
    <3>1. /\ c.tm \ {"T310"} \in SUBSET NetTimers /\ c.ces \in Suffixes
          /\ NoneIsIdle(c.ces) /\ c.presel \in TEs \cup {NoTe}
      BY GoodFacts
    <3>2. s \in OneCes /\ Turns(c, b, c.st, c.tm, k, c.presel, c.listed)
      BY <1>2 DEF At
    <3>3. k \in Suffixes /\ NoneIsIdle(k) /\ (Watched(c.ces) => Watched(k))
      BY <1>2, <1>5, <3>1, <3>2, PutFacts
    <3>4. c.st = "N9" => Watched(c.ces)
      BY DEF Good, Phase, Offering
    <3> HIDE DEF k
    <3>5. Turns(c, f, c.st, c.tm \ {"T310"}, k, c.presel, c.listed)
      BY <3>2, ThenStop, ThenTell
    <3> HIDE DEF f
    <3> QED BY <3>1, <3>3, <3>4, <3>5, ListedAfter DEF Reached
  <2>4. h \in {d, b, e} \/ (c.st = "N9" /\ h = f)
    BY <1>3, <1>5
       DEF ces_handle_progress, N_int_progress_indication, Less, b, d, e, s0
  <2>5. After(c, d)
    BY DecodeAfter DEF d
  <2> QED BY <2>2, <2>3, <2>4, <2>5
<1>6. CASE s0.st \notin {"I7", "I9", "I25"}
  <2>1. h = c
    BY <1>6 DEF ces_handle_progress, s0
  <2> QED BY <2>1, NotCompatibleAfter
<1> QED BY <1>5, <1>6

(* q931_ces_handle_disconnect.                                             *)
LEMMA CesDisconnectAfter ==
  ASSUME NEW c, Good(c), NEW t \in TEs, NEW m
  PROVE  After(c, ces_handle_disconnect(c, t, m))
<1> DEFINE d == Decode(c, m)
           s0 == c.ces[t]
           b == CesGo(d, t, {"T304"}, {"T308"}, "I19")
           s == Suffix(s0, (s0.tm \ {"T304"}) \cup {"T308"}, "I19")
<1>1. At(c, c, t, s0) /\ At(c, d, t, s0)
  BY AtStart, AtSteps
<1>2. "I19" \in CesStates /\ {"T308"} \in SUBSET {"T304", "T308", "T322"}
  BY DEF CesStates
<1> HIDE DEF d, s0
<1>3. At(c, b, t, s)
  BY <1>1, <1>2, AtGo
<1>4. s.st = "I19" /\ "T308" \in s.tm
  <2>1. s0 \in OneCes
    BY <1>1 DEF At
  <2> QED BY <2>1 DEF OneCes, Suffix
<1> HIDE DEF b, s
<1>5. s0.st # "none" => After(c, N_int_release_indication(b, t))
  BY <1>3, <1>4, IntReleaseAfter DEF s0
<1>6. \/ ces_handle_disconnect(c, t, m) = c
      \/ s0.st # "none" /\ ces_handle_disconnect(c, t, m) = N_int_release_indication(b, t)
  BY DEF ces_handle_disconnect, b, d, s0
<1> QED BY <1>5, <1>6, NotCompatibleAfter

(* q931_ces_handle_release and _release_complete.                          *)
LEMMA CesReleaseAfter ==
  ASSUME NEW c, Good(c), NEW t \in TEs, c.ces[t].st # "none", NEW m
  PROVE  After(c, ces_handle_release(c, t, m))
<1> DEFINE d == Decode(c, m)
           s0 == c.ces[t]
           b == Less(d, t, {"T304"})
           s == Fewer(s0, {"T304"})
           e == Less(b, t, {"T308"})
           r == Fewer(s, {"T308"})
           h == ces_handle_release(c, t, m)
<1>1. At(c, c, t, s0) /\ At(c, d, t, s0)
  BY AtStart, AtSteps
<1> HIDE DEF d, s0
<1>2. At(c, b, t, s) /\ s.st = s0.st
  BY <1>1, AtLess
<1> HIDE DEF b, s
<1>3. At(c, e, t, r) /\ r.st = s.st
  BY <1>2, AtLess
<1> HIDE DEF e, r
<1>4. s0.st = "I19" => After(c, N_int_release_complete_indication(e, t))
  <2>1. s0.st = "I19" => (c.st = "N8" => t # c.presel)
    BY DEF Good, Phase, s0
  <2> QED BY <1>2, <1>3, <2>1, IntGoneAfter DEF s0
<1>5. After(c, CesGone(b, t))
  BY <1>2, CesGoneAfter DEF s0
<1>6. After(c, c) /\ After(c, d)
  BY NotCompatibleAfter, DecodeAfter DEF d
<1>7. \/ h \in {c, d, CesGone(b, t)}
      \/ s0.st = "I19" /\ h = N_int_release_complete_indication(e, t)
  BY DEF ces_handle_release, Less, b, d, e, s0
<1> QED BY <1>4, <1>5, <1>6, <1>7

(* q931_ces_handle_status.                                                 *)
LEMMA CesStatusAfter ==
  ASSUME NEW c, Good(c), NEW t \in TEs, c.ces[t].st # "none", NEW m
  PROVE  After(c, ces_handle_status(c, t, m))
<1> DEFINE s0 == c.ces[t]
           d == Decode(c, m)
           x == m.resp /\ "T322" \in c.tm
           e == IF x THEN Less(d, t, {"T322"}) ELSE d
           s == IF x THEN Fewer(s0, {"T322"}) ELSE s0
           b == Less(d, t, {"T308"})
           r == Fewer(s0, {"T308"})
           f == [e EXCEPT !.ces[t].tm = {}]
           q == Suffix(s, {}, s.st)
           y == CesGo(e, t, s0.tm, {"T308"}, "I19")
           g == Tell(y, "STATUS_IND")
           z == Suffix(s, (s.tm \ s0.tm) \cup {"T308"}, "I19")
           h == ces_handle_status(c, t, m)
<1>1. At(c, c, t, s0) /\ At(c, d, t, s0)
  BY AtStart, AtSteps
<1>2. s0 \in OneCes
  BY <1>1 DEF At
<1>3. \/ h \in {c, d}
      \/ s0.st = "I19" /\ h = N_int_release_complete_indication(b, t)
      \/ s0.st \notin {"I0", "I19"} /\
           h \in {e, CesGone(f, t), N_int_release_indication(g, t)}
  BY DEF ces_handle_status, Less
<1> HIDE DEF d, s0, x
<1>4. At(c, b, t, r) /\ r.st = s0.st
  BY <1>1, AtLess
<1>5. At(c, e, t, s) /\ s.st = s0.st
  <2>1. CASE x
    BY <1>1, <2>1, AtLess
  <2>2. CASE ~x
    BY <1>1, <2>2
  <2> QED BY <2>1, <2>2
<1> HIDE DEF b, r, e, s
<1>6. s \in OneCes /\ s.st \in CesStates \cup {"none"}
  BY <1>5 DEF At, OneCes
<1>7. At(c, f, t, q) /\ q.st = s0.st
  <2>1. {} \in SUBSET {"T304", "T308", "T322"}
    OBVIOUS
  <2>2. At(c, f, t, q)
    BY <1>5, <2>1, AtTimers
  <2> QED BY <1>5, <1>6, <2>1, <2>2, SuffixFacts
<1>8. At(c, g, t, z) /\ z.st = "I19" /\ "T308" \in z.tm
  <2>1. "I19" \in CesStates /\ {"T308"} \in SUBSET {"T304", "T308", "T322"}
    BY DEF CesStates
  <2>2. At(c, y, t, z)
    BY <1>5, <2>1, AtGo
  <2>3. z.st = "I19" /\ "T308" \in z.tm
    BY <1>6 DEF Suffix, OneCes
  <2> HIDE DEF y, z
  <2>4. At(c, g, t, z)
    BY <2>2, AtSteps
  <2> QED BY <2>3, <2>4
<1> HIDE DEF f, q, g, z
<1>9. s0.st = "I19" => After(c, N_int_release_complete_indication(b, t))
  <2>1. s0.st = "I19" => (c.st = "N8" => t # c.presel)
    BY DEF Good, Phase, s0
  <2> QED BY <1>4, <2>1, IntGoneAfter DEF s0
<1>10. After(c, CesGone(f, t))
  BY <1>7, CesGoneAfter DEF s0
<1>11. After(c, N_int_release_indication(g, t))
  BY <1>8, IntReleaseAfter DEF s0
<1>12. s0.st \notin {"I0", "I19"} => After(c, e)
  <2>1. c.st \in {"N6", "N22", "N10", "N15"} => s0.st = "I19"
    BY DEF Good, Phase, AllGoing, s0
  <2>2. c.st = "N8" /\ t = c.presel => s0.st = "I8"
    BY DEF Good, Phase, s0
  <2>3. s.st # "none"
    BY <1>5 DEF s0
  <2> QED BY <1>5, <2>1, <2>2, <2>3, PutAfter
<1>13. After(c, c) /\ After(c, d)
  BY NotCompatibleAfter, DecodeAfter DEF d
<1> QED BY <1>3, <1>9, <1>10, <1>11, <1>12, <1>13

(* q931_ces_handle_info.                                                   *)
LEMMA CesInfoAfter ==
  ASSUME NEW c, Good(c), NEW t \in TEs, NEW m
  PROVE  After(c, ces_handle_info(c, t, m))
<1> DEFINE d == Decode(c, m)
<1>1. Turns(c, d, c.st, c.tm, c.ces, c.presel, c.listed) /\ After(c, d)
  BY DecodeAfter
<1>2. ces_handle_info(c, t, m) \in {c, d, Tell(d, "INFO_IND")}
  BY DEF ces_handle_info, N_int_info_indication
<1> HIDE DEF d
<1>3. After(c, Tell(d, "INFO_IND"))
  BY <1>1, ThenTell, CalmAfter
<1> QED BY <1>1, <1>2, <1>3, NotCompatibleAfter

(* q931_ces_dispatch_message: any message from a terminal with a suffix.   *)
LEMMA CesMessageAfter ==
  ASSUME NEW c, Good(c), NEW t \in TEs, c.ces[t].st # "none",
         NEW m, m.ci \in (SUBSET Channels) \cup {NoCI}
  PROVE  After(c, ces_dispatch_message(c, t, m))
<1> DEFINE h == ces_dispatch_message(c, t, m)
<1>1. \/ h \in {ces_handle_alerting(c, t, m), ces_handle_call_proceeding(c, t, m),
                ces_handle_connect(c, t, m), ces_handle_progress(c, t, m)}
      \/ h \in {ces_handle_disconnect(c, t, m), ces_handle_release(c, t, m),
                ces_handle_status(c, t, m), ces_handle_info(c, t, m)}
      \/ h = c
  BY DEF ces_dispatch_message, ces_handle_release_complete
<1> HIDE DEF h
<1>2. CASE h \in {ces_handle_alerting(c, t, m), ces_handle_call_proceeding(c, t, m),
                  ces_handle_connect(c, t, m), ces_handle_progress(c, t, m)}
  BY <1>2, CesAlertingAfter, CesProceedingAfter, CesConnectAfter, CesProgressAfter DEF h
<1>3. CASE h \in {ces_handle_disconnect(c, t, m), ces_handle_release(c, t, m),
                  ces_handle_status(c, t, m), ces_handle_info(c, t, m)}
  BY <1>3, CesDisconnectAfter, CesReleaseAfter, CesStatusAfter, CesInfoAfter DEF h
<1>4. CASE h = c
  BY <1>4, NotCompatibleAfter DEF h
<1> QED BY <1>1, <1>2, <1>3, <1>4

-----------------------------------------------------------------------------
(* Timers and the data link of a suffix.                                   *)

(* The suffix becomes any other.                                           *)
LEMMA AtPut ==
  ASSUME NEW c, Good(c), NEW t \in TEs, NEW d, NEW s, At(c, d, t, s), NEW r \in OneCes
  PROVE  At(c, [d EXCEPT !.ces[t] = r], t, r)
<1> DEFINE x == [d EXCEPT !.ces[t] = r]
<1>1. /\ s \in OneCes /\ Shaped(d) /\ d.st = c.st /\ d.tm = c.tm
      /\ d.ces = [c.ces EXCEPT ![t] = s] /\ d.ces[t] = s /\ d.ces \in Suffixes
      /\ d.presel = c.presel /\ d.listed = c.listed
  BY AtFields
<1>2. Turns(d, x, d.st, d.tm, [d.ces EXCEPT ![t] = r], d.presel, d.listed)
  BY <1>1, CesPutTurns
<1>3. [d.ces EXCEPT ![t] = r] = [c.ces EXCEPT ![t] = r]
  <2>1. DOMAIN c.ces = TEs
    BY GoodFacts DEF Suffixes
  <2> QED BY <1>1, <2>1
<1> HIDE DEF x
<1>4. Turns(d, x, c.st, c.tm, [c.ces EXCEPT ![t] = r], c.presel, c.listed)
  BY <1>1, <1>2, <1>3
<1>5. At(c, x, t, r)
  BY <1>4, TurnsTwice DEF At
<1> QED BY <1>5 DEF x

(* The suffix keeps its state, and T308 if it is being released.           *)
LEMMA SameAfter ==
  ASSUME NEW c, Good(c), NEW t \in TEs, c.ces[t].st # "none", NEW d, NEW s,
         At(c, d, t, s), s.st = c.ces[t].st,
         s.st = "I19" /\ "T308" \in c.ces[t].tm => "T308" \in s.tm
  PROVE  After(c, d)
<1>1. c.st \in {"N6", "N22", "N10", "N15"} => s.st = "I19"
  BY DEF Good, Phase, AllGoing
<1>2. c.st = "N8" /\ t = c.presel => s.st = "I8"
  BY DEF Good, Phase
<1>3. c.st \in Offering => (s.st = "I19" => "T308" \in s.tm)
  BY DEF Good, Phase, Watched
<1> QED BY <1>1, <1>2, <1>3, PutAfter

(* T304 and T322 of a suffix.                                              *)
LEMMA CesT304After ==
  ASSUME NEW c, Good(c), NEW t \in TEs, c.ces[t].st # "none", NEW d, NEW s,
         At(c, d, t, s), s.st = c.ces[t].st,
         "T308" \in c.ces[t].tm => "T308" \in s.tm
  PROVE  After(c, ces_timer_T304(d, t)) /\ After(c, ces_timer_T322(d, t))
<1> DEFINE b == CesGo(d, t, {}, {"T308"}, "I19")
           z == Suffix(s, (s.tm \ {}) \cup {"T308"}, "I19")
           e == CesGo(d, t, {}, {"T308"}, s.st)
           y == Suffix(s, (s.tm \ {}) \cup {"T308"}, s.st)
           f == CesGo(d, t, {}, {"T322"}, s.st)
           w == Suffix(s, (s.tm \ {}) \cup {"T322"}, s.st)
           v == [w EXCEPT !.senq = @ + 1]
           g == [f EXCEPT !.ces[t].senq = @ + 1]
<1>1. /\ s \in OneCes /\ Shaped(d) /\ d.st = c.st /\ d.tm = c.tm
      /\ d.ces = [c.ces EXCEPT ![t] = s] /\ d.ces[t] = s /\ d.ces \in Suffixes
  BY AtFields
<1>2. /\ "I19" \in CesStates /\ s.st \in CesStates
      /\ {"T308"} \in SUBSET {"T304", "T308", "T322"}
      /\ {"T322"} \in SUBSET {"T304", "T308", "T322"}
  BY <1>1 DEF CesStates, OneCes
<1>3. At(c, b, t, z) /\ At(c, e, t, y) /\ At(c, f, t, w)
  BY <1>2, AtGo
<1>4. z.st = "I19" /\ "T308" \in z.tm /\ y.st = s.st /\ "T308" \in y.tm
  BY <1>1 DEF Suffix, OneCes
<1>5. After(c, d)
  BY SameAfter
<1>6. /\ ces_timer_T304(d, t) \in {d, N_int_release_indication(b, t)}
      /\ \/ ces_timer_T322(d, t) \in {d, N_int_release_indication(e, t)}
         \/ ~(s.senq >= SenqMax) /\ ces_timer_T322(d, t) = g
  BY <1>1 DEF ces_timer_T304, ces_timer_T322
<1>7. ~(s.senq >= SenqMax) => After(c, g)
  <2> SUFFICES ASSUME ~(s.senq >= SenqMax) PROVE After(c, g)
    OBVIOUS
  <2>0. w \in OneCes /\ w.st = s.st /\ w.tm = s.tm \cup {"T322"} /\ w.senq = s.senq
    BY <1>1 DEF Suffix, OneCes
  <2> HIDE DEF f, w
  <2>1. v \in OneCes /\ v.st = s.st /\ v.tm = s.tm \cup {"T322"}
    <3>1. w.senq + 1 \in 0..SenqMax
      BY <1>1, <2>0, SenqAssumption DEF OneCes
    <3> DEFINE n == w.senq + 1
    <3>2. v = [w EXCEPT !.senq = n]
      OBVIOUS
    <3> HIDE DEF n, v
    <3> QED BY <2>0, <3>1, <3>2 DEF OneCes, n
  <2>2. /\ w \in OneCes /\ Shaped(f) /\ f.st = c.st /\ f.tm = c.tm
        /\ f.ces = [c.ces EXCEPT ![t] = w] /\ f.ces[t] = w /\ f.ces \in Suffixes
    BY <1>3, AtFields
  <2>3. g = [f EXCEPT !.ces[t] = v]
    BY <2>2 DEF Shaped, CallFields, Suffixes
  <2> HIDE DEF v
  <2>4. At(c, [f EXCEPT !.ces[t] = v], t, v)
    BY <1>3, <2>1, AtPut
  <2> HIDE DEF g
  <2>5. At(c, g, t, v)
    BY <2>3, <2>4
  <2> QED BY <2>1, <2>5, SameAfter
<1> HIDE DEF b, z, e, y, g
<1>8. After(c, N_int_release_indication(b, t)) /\ After(c, N_int_release_indication(e, t))
  BY <1>3, <1>4, IntReleaseAfter
<1> QED BY <1>5, <1>6, <1>7, <1>8

(* T308 of a suffix: its RELEASE is repeated, or the suffix is gone.       *)
LEMMA CesT308After ==
  ASSUME NEW c, Good(c), NEW t \in TEs, c.ces[t].st # "none", NEW d, NEW s,
         At(c, d, t, s), s.st = c.ces[t].st
  PROVE  After(c, ces_timer_T308(d, t))
<1> DEFINE f == CesGo(d, t, {}, {"T308"}, "I19")
           w == Suffix(s, (s.tm \ {}) \cup {"T308"}, "I19")
           v == [w EXCEPT !.fired = TRUE]
           g == [f EXCEPT !.ces[t].fired = TRUE]
<1>1. /\ s \in OneCes /\ Shaped(d) /\ d.st = c.st /\ d.tm = c.tm
      /\ d.ces = [c.ces EXCEPT ![t] = s] /\ d.ces[t] = s /\ d.ces \in Suffixes
  BY AtFields
<1>2. "I19" \in CesStates /\ {"T308"} \in SUBSET {"T304", "T308", "T322"}
  BY DEF CesStates
<1>3. At(c, f, t, w)
  BY <1>2, AtGo
<1>4. CASE s.st # "I19"
  <2>1. ces_timer_T308(d, t) = d
    BY <1>1, <1>4 DEF ces_timer_T308
  <2> QED BY <1>4, <2>1, SameAfter
<1>5. CASE s.st = "I19"
  <2>1. v \in OneCes /\ v.st = "I19" /\ "T308" \in v.tm
    BY <1>1 DEF Suffix, OneCes, CesStates
  <2>3. ces_timer_T308(d, t) \in {g, N_int_release_complete_indication(d, t)}
    BY <1>1, <1>5 DEF ces_timer_T308
  <2> HIDE DEF f, w
  <2>2. /\ w \in OneCes /\ Shaped(f) /\ f.st = c.st /\ f.tm = c.tm
        /\ f.ces = [c.ces EXCEPT ![t] = w] /\ f.ces[t] = w /\ f.ces \in Suffixes
    BY <1>3, AtFields
  <2>4. g = [f EXCEPT !.ces[t] = v]
    BY <2>2 DEF Shaped, CallFields, Suffixes
  <2> HIDE DEF v
  <2>5. At(c, [f EXCEPT !.ces[t] = v], t, v)
    BY <1>3, <2>1, AtPut
  <2> HIDE DEF g
  <2>6. At(c, g, t, v)
    BY <2>4, <2>5
  <2>7. After(c, g)
    BY <1>5, <2>1, <2>6, SameAfter
  <2>8. c.st = "N8" => t # c.presel
    BY <1>5 DEF Good, Phase
  <2>9. After(c, N_int_release_complete_indication(d, t))
    BY <1>5, <2>8, IntGoneAfter
  <2> QED BY <2>3, <2>7, <2>9
<1> QED BY <1>4, <1>5

(* Any timer of a suffix.                                                  *)
LEMMA CesTimerAfter ==
  ASSUME NEW c, Good(c), NEW t \in TEs, NEW x \in c.ces[t].tm
  PROVE  After(c, ces_timer(c, t, x))
<1> DEFINE d == Less(c, t, {x})
           s0 == c.ces[t]
           s == Fewer(s0, {x})
<1>1. At(c, c, t, s0)
  BY AtStart
<1>2. s0 \in OneCes /\ s0.st # "none" /\ x \in {"T304", "T308", "T322"}
  <2>1. c.ces \in Suffixes /\ NoneIsIdle(c.ces)
    BY GoodFacts
  <2> QED BY <1>1, <2>1 DEF At, NoneIsIdle, OneCes
<1> HIDE DEF s0
<1>3. At(c, d, t, s) /\ s.st = s0.st /\ s.tm = s0.tm \ {x}
  BY <1>1, AtLess
<1>4. ces_timer(c, t, x) = CASE x = "T304" -> ces_timer_T304(d, t)
                             [] x = "T308" -> ces_timer_T308(d, t)
                             [] x = "T322" -> ces_timer_T322(d, t)
  BY <1>2 DEF ces_timer, Less
<1> HIDE DEF d, s
<1>5. x # "T308" => After(c, ces_timer_T304(d, t)) /\ After(c, ces_timer_T322(d, t))
  BY <1>2, <1>3, CesT304After DEF s0
<1>6. After(c, ces_timer_T308(d, t))
  BY <1>2, <1>3, CesT308After DEF s0
<1> QED BY <1>2, <1>4, <1>5, <1>6

(* The data link of a suffix is established again, or released.            *)
LEMMA CesDlAfter ==
  ASSUME NEW c, Good(c), NEW t \in TEs
  PROVE  /\ After(c, ces_dl_establish_indication(c, t))
         /\ After(c, ces_dl_release_indication(c, t))
<1> DEFINE s0 == c.ces[t]
           b == CesGo(c, t, {"T304"}, {"T308"}, "I19")
           z == Suffix(s0, (s0.tm \ {"T304"}) \cup {"T308"}, "I19")
           e == [c EXCEPT !.ces[t].tm = {}]
           y == Suffix(s0, {}, s0.st)
<1>1. At(c, c, t, s0)
  BY AtStart
<1>2. s0 \in OneCes /\ s0.st \in CesStates \cup {"none"}
  BY <1>1 DEF At, OneCes
<1>3. After(c, c)
  BY NotCompatibleAfter
<1>4. \/ ces_dl_establish_indication(c, t) = c
      \/ s0.st = "I25" /\ ces_dl_establish_indication(c, t) = N_int_release_indication(b, t)
  BY DEF ces_dl_establish_indication
<1>5. \/ ces_dl_release_indication(c, t) = c
      \/ s0.st # "none" /\ ces_dl_release_indication(c, t) = CesGone(e, t)
  BY DEF ces_dl_release_indication
<1> HIDE DEF s0
<1>6. At(c, b, t, z) /\ z.st = "I19" /\ "T308" \in z.tm
  <2>1. "I19" \in CesStates /\ {"T308"} \in SUBSET {"T304", "T308", "T322"}
    BY DEF CesStates
  <2>2. At(c, b, t, z)
    BY <1>1, <2>1, AtGo
  <2>3. z.st = "I19" /\ "T308" \in z.tm
    BY <1>2 DEF Suffix, OneCes
  <2> QED BY <2>2, <2>3
<1>7. At(c, e, t, y) /\ y.st = s0.st
  <2>1. {} \in SUBSET {"T304", "T308", "T322"}
    OBVIOUS
  <2>2. At(c, e, t, y)
    BY <1>1, <2>1, AtTimers
  <2> QED BY <1>2, <2>1, <2>2, SuffixFacts
<1> HIDE DEF b, z, e, y
<1>8. s0.st # "none" => After(c, N_int_release_indication(b, t))
  BY <1>6, IntReleaseAfter DEF s0
<1>9. s0.st # "none" => After(c, CesGone(e, t))
  BY <1>7, CesGoneAfter DEF s0
<1> QED BY <1>3, <1>4, <1>5, <1>8, <1>9

-----------------------------------------------------------------------------
(* The data link of the call.                                              *)

(* The data link of the call is established again: nothing for a broadcast *)
(* call; or released: T309, or the end.                                    *)
LEMMA DlCore ==
  ASSUME NEW c, Core(c), c.bc = TRUE
  PROVE  LET d == dl_establish_indication(c)
             e == dl_release_indication(c)
         IN  /\ d = c
             /\ Core(e) /\ e.bc = c.bc /\ e.dis = c.dis
             /\ (Lives(e) => Lives(c)) /\ (Ends(c) => Ends(e))
             /\ c.st = "N0" => e = c
             /\ Good(c) => After(c, e)
<1> DEFINE e == dl_release_indication(c)
           f == Tell(ToN0(Stop(c, {"T309"})), "RELEASE_IND")
           g == Start(c, "T309")
           h == Tell(ToN0(StopAnyTimer(c)), "RELEASE_IND")
<1>1. /\ c.st \in Reached /\ c.tm \in SUBSET NetTimers /\ c.ces \in Suffixes
      /\ NoneIsIdle(c.ces) /\ c.presel \in TEs \cup {NoTe} /\ c.listed \in BOOLEAN
      /\ Shaped(c) /\ ChanOK(c)
  BY DEF Core
<1>2. c.st \in NStates
  BY <1>1 DEF Reached, NStates
<1>3. dl_establish_indication(c) = c
  BY <1>1, <1>2 DEF dl_establish_indication, N_dl_establish_indication, Reached
<1>4. \/ e = c
      \/ c.st = "N10" /\ e \in {f, g}
      \/ c.st = "N6" /\ e = h
  BY <1>2 DEF dl_release_indication, N_dl_release_indication
<1>5. Turns(c, c, c.st, c.tm, c.ces, c.presel, c.listed)
  BY <1>1, TurnsSelf
<1>6. /\ c.tm \ {"T309"} \in SUBSET NetTimers /\ c.tm \cup {"T309"} \in SUBSET NetTimers
      /\ {} \in SUBSET NetTimers /\ "RELEASE_IND" \in EndPrimitives
      /\ "N0" \in Reached /\ FALSE \in BOOLEAN
  BY <1>1 DEF NetTimers, Timers, EndPrimitives, Reached
<1>7. /\ Turns(c, Stop(c, {"T309"}), c.st, c.tm \ {"T309"}, c.ces, c.presel, c.listed)
      /\ Turns(c, StopAnyTimer(c), c.st, {}, c.ces, c.presel, c.listed)
  BY <1>5, ThenStop
<1>8. Turns(c, g, c.st, c.tm \cup {"T309"}, c.ces, c.presel, c.listed)
  BY <1>5, ThenStart
<1>9. /\ Turns(c, f, "N0", c.tm \ {"T309"}, c.ces, c.presel, FALSE)
      /\ Turns(c, h, "N0", {}, c.ces, c.presel, FALSE)
  BY <1>1, <1>7, ThenToN0, ThenTell
<1>10. Good(c) => After(c, f) /\ After(c, h)
  BY <1>1, <1>6, <1>7, ToN0After
<1> HIDE DEF f, g, h
<1>11. Good(c) => After(c, g) /\ After(c, c)
  BY <1>6, <1>8, StayAfter, NotCompatibleAfter
<1>12. Core(f) /\ Core(g) /\ Core(h)
  BY <1>1, <1>6, <1>8, <1>9, CoreOf
<1>13. /\ f.bc = c.bc /\ f.dis = c.dis /\ (Lives(f) => Lives(c)) /\ (Ends(c) => Ends(f))
       /\ g.bc = c.bc /\ g.dis = c.dis /\ (Lives(g) => Lives(c)) /\ (Ends(c) => Ends(g))
       /\ h.bc = c.bc /\ h.dis = c.dis /\ (Lives(h) => Lives(c)) /\ (Ends(c) => Ends(h))
  BY <1>8, <1>9 DEF Turns
<1> HIDE DEF e
<1>14. /\ Core(e) /\ e.bc = c.bc /\ e.dis = c.dis
       /\ (Lives(e) => Lives(c)) /\ (Ends(c) => Ends(e))
       /\ c.st = "N0" => e = c
       /\ Good(c) => After(c, e)
  BY <1>4, <1>10, <1>11, <1>12, <1>13
<1> QED BY <1>3, <1>14 DEF e

(* A suffix hears of the data link first, then the call.                   *)
LEMMA DlAfter ==
  ASSUME NEW c, Good(c), NEW d, After(c, d)
  PROVE  After(c, dl_establish_indication(d)) /\ After(c, dl_release_indication(d))
<1> DEFINE e == dl_release_indication(d)
<1>1. Core(d) /\ d.bc = TRUE /\ (c.dis => d.dis)
  BY GoodFacts DEF After
<1>2. /\ dl_establish_indication(d) = d
      /\ Core(e) /\ e.bc = d.bc /\ e.dis = d.dis
      /\ (Lives(e) => Lives(d)) /\ (Ends(d) => Ends(e))
      /\ d.st = "N0" => e = d
      /\ Good(d) => After(d, e)
  BY <1>1, DlCore
<1> SUFFICES After(c, e)
  BY <1>2
<1> HIDE DEF e
<1>3. CASE ~Lives(d)
  BY <1>1, <1>2, <1>3 DEF After
<1>4. CASE Lives(d) /\ ~d.listed
  <2>1. e = d
    BY <1>2, <1>4 DEF After
  <2> QED BY <2>1
<1>5. CASE Lives(d) /\ d.listed
  <2>1. Good(d)
    BY <1>1, <1>5 DEF After, Good
  <2>2. d.st = "N22" => c.st = "N22" \/ d.dis \/ Ends(d)
    BY <1>5 DEF After
  <2>3. After(d, e)
    BY <1>2, <2>1
  <2>4. After(c, e)
    BY <1>1, <1>2, <2>2, <2>3 DEF After
  <2> QED BY <2>4
<1> QED BY <1>3, <1>4, <1>5

(* The data link is up again.                                              *)
LEMMA DlConfirmAfter ==
  ASSUME NEW c, Good(c)
  PROVE  After(c, dl_establish_confirm(c))
<1> DEFINE e == SendStatus(Stop(c, {"T309"}), "N10")
<1>1. /\ c.st \in NStates /\ c.tm \ {"T309"} \in SUBSET NetTimers
      /\ Turns(c, c, c.st, c.tm, c.ces, c.presel, c.listed)
  BY GoodFacts DEF Reached, NStates
<1>2. dl_establish_confirm(c) \in {c, e}
  BY <1>1 DEF dl_establish_confirm, N_dl_establish_confirm
<1>3. Turns(c, e, c.st, c.tm \ {"T309"}, c.ces, c.presel, c.listed)
  BY <1>1, ThenStop, ThenSendStatus
<1> HIDE DEF e
<1>4. After(c, e)
  BY <1>1, <1>3, StayAfter
<1> QED BY <1>2, <1>4, NotCompatibleAfter

-----------------------------------------------------------------------------
(* A call that has left the list.                                          *)

(* It stays where it is and the CCB hears nothing.                         *)
Still(c, d) ==
    Core(d) /\ d.st = c.st /\ d.listed = c.listed /\ d.bc = c.bc /\ d.up = c.up

(* Two such steps.                                                         *)
LEMMA StillOn ==
  ASSUME NEW c, NEW d, NEW e, Still(c, d), Still(d, e)
  PROVE  Still(c, e)
  BY DEF Still

(* Nothing done.                                                           *)
LEMMA StillSelf == ASSUME NEW c, Core(c) PROVE Still(c, c)
  BY DEF Still

(* A step that changes only timers and suffixes.                           *)
LEMMA StillTurns ==
  ASSUME NEW c, Core(c), NEW d, NEW tm \in SUBSET NetTimers, NEW ces \in Suffixes,
         NoneIsIdle(ces), Turns(c, d, c.st, tm, ces, c.presel, c.listed), d.up = c.up
  PROVE  Still(c, d)
<1>1. /\ c.st \in Reached /\ c.presel \in TEs \cup {NoTe} /\ c.listed \in BOOLEAN
  BY DEF Core
<1>2. Core(d)
  BY <1>1, CoreOf
<1> QED BY <1>2 DEF Still, Turns

(* A suffix that outlived the call changes, or is freed.                   *)
LEMMA StillPut ==
  ASSUME NEW c, Core(c), NEW t \in TEs, NEW s \in OneCes, s.st = "none" => s.tm = {}
  PROVE  /\ Still(c, [c EXCEPT !.ces[t] = s])
         /\ s = NoCes => Still(c, CesFree(c, t))
<1> DEFINE n == [c.ces EXCEPT ![t] = s]
           d == [c EXCEPT !.ces[t] = s]
           e == CesFree(c, t)
<1>1. c.ces \in Suffixes /\ NoneIsIdle(c.ces) /\ Shaped(c) /\ c.tm \in SUBSET NetTimers
  BY DEF Core
<1>2. n \in Suffixes /\ NoneIsIdle(n)
  BY <1>1 DEF Suffixes, NoneIsIdle, OneCes
<1>3. d.up = c.up /\ e.up = c.up
  BY <1>1 DEF Shaped, CallFields, CesFree
<1>4. Turns(c, d, c.st, c.tm, n, c.presel, c.listed)
  BY <1>1, CesPutTurns
<1>5. s = NoCes => Turns(c, e, c.st, c.tm, n, c.presel, c.listed)
  BY <1>1, CesFreeTurns
<1> HIDE DEF n, d, e
<1>6. Still(c, d) /\ (s = NoCes => Still(c, e))
  BY <1>1, <1>2, <1>3, <1>4, <1>5, StillTurns
<1> QED BY <1>6 DEF d, e

(* ... or loses timers,                                                    *)
LEMMA StillLess ==
  ASSUME NEW c, Core(c), NEW t \in TEs, NEW X
  PROVE  Still(c, Less(c, t, X))
<1> DEFINE s == Fewer(c.ces[t], X)
<1>1. c.ces \in Suffixes /\ NoneIsIdle(c.ces) /\ Shaped(c)
  BY DEF Core
<1>2. Less(c, t, X) = [c EXCEPT !.ces[t] = s]
  BY <1>1 DEF Less, Fewer, Suffix, Shaped, CallFields, Suffixes
<1>3. c.ces[t] \in OneCes /\ (c.ces[t].st = "none" => c.ces[t].tm = {})
  BY <1>1 DEF Suffixes, OneCes, NoneIsIdle
<1>4. s \in OneCes /\ (s.st = "none" => s.tm = {})
  BY <1>3 DEF Fewer, Suffix, OneCes
<1> HIDE DEF s
<1> QED BY <1>2, <1>4, StillPut

(* ... or changes its state.                                               *)
LEMMA StillGo ==
  ASSUME NEW c, Core(c), NEW t \in TEs, NEW stop,
         NEW start \in SUBSET {"T304", "T308", "T322"}, NEW st \in CesStates
  PROVE  Still(c, CesGo(c, t, stop, start, st))
<1> DEFINE s == Suffix(c.ces[t], (c.ces[t].tm \ stop) \cup start, st)
<1>1. c.ces \in Suffixes /\ Shaped(c)
  BY DEF Core
<1>2. CesGo(c, t, stop, start, st) = [c EXCEPT !.ces[t] = s]
  BY <1>1 DEF CesGo, Suffix, Shaped, CallFields, Suffixes
<1>3. c.ces[t] \in OneCes /\ st # "none"
  BY <1>1 DEF Suffixes, OneCes, CesStates
<1>4. (c.ces[t].tm \ stop) \cup start \in SUBSET {"T304", "T308", "T322"}
  BY <1>3 DEF OneCes
<1>5. s \in OneCes /\ s.st # "none"
  BY <1>3, <1>4, SuffixFacts
<1> HIDE DEF s
<1> QED BY <1>2, <1>5, StillPut

(* A request of the CCB.                                                   *)
LEMMA StillRequest ==
  ASSUME NEW c, Core(c), c.st = "N0", c.bc = TRUE, NEW r \in CcbRequests
  PROVE  Still(c, ccb_dispatch(c, r))
<1> DEFINE d == [c EXCEPT !.dis = TRUE]
           e == [c EXCEPT !.ces = Enquired(c)]
<1>1. r \in Requests \ {"SETUP", "RESUME"} /\ c.st \in NStates
  BY CcbAssumption DEF NStates
<1>2. /\ Shaped(c) /\ d.st = "N0" /\ c.tm \in SUBSET NetTimers
  BY DEF Core, Shaped, CallFields
<1>3. N_disconnect_request(c) = d
  BY <1>2 DEF N_disconnect_request
<1>4. N_status_enquiry_request(c) = e
  BY DEF N_status_enquiry_request, Enquired
<1>5. ccb_dispatch(c, r) \in {c, d, e}
  <2>1. ccb_dispatch(c, r) = N_ccb_dispatch(c, r)
    BY <1>1 DEF ccb_dispatch
  <2>2. r \notin {"DISCONNECT", "STATUS_ENQUIRY"} => N_ccb_dispatch(c, r) = c
    BY <1>1
    DEF Requests, N_ccb_dispatch, N_alerting_request, N_info_request,
        N_more_info_request, N_notify_request, N_proceeding_request,
        N_progress_request, N_reject_request, N_release_request,
        N_resume_reject_request, N_resume_response, N_setup_complete_request,
        N_setup_response, N_suspend_reject_request, N_suspend_response
  <2>3. r = "DISCONNECT" => N_ccb_dispatch(c, r) = d
    BY <1>3 DEF N_ccb_dispatch
  <2>4. r = "STATUS_ENQUIRY" => N_ccb_dispatch(c, r) = e
    BY <1>4 DEF N_ccb_dispatch
  <2> QED BY <2>1, <2>2, <2>3, <2>4
<1>6. Still(c, d)
  BY DEF Still, Core, Shaped, CallFields, ChanOK
<1>7. Still(c, e)
  <2>1. /\ Enquired(c) \in Suffixes /\ NoneIsIdle(Enquired(c)) /\ e.up = c.up
        /\ Turns(c, e, c.st, c.tm, Enquired(c), c.presel, c.listed)
    BY EnquiredFacts
  <2> HIDE DEF e
  <2> QED BY <1>2, <2>1, StillTurns
<1> QED BY <1>5, <1>6, <1>7, StillSelf

(* A timer of the call.                                                    *)
LEMMA StillTimer ==
  ASSUME NEW c, Core(c), c.st = "N0", NEW t \in c.tm
  PROVE  Still(c, timer(c, t))
<1> DEFINE d == Stop(c, {t})
           e == [d EXCEPT !.f303 = TRUE]
           f == [d EXCEPT !.f308 = TRUE]
<1>1. /\ Shaped(c) /\ c.tm \in SUBSET NetTimers /\ c.ces \in Suffixes
      /\ NoneIsIdle(c.ces)
  BY DEF Core
<1>2. /\ d.st = "N0" /\ d.up = c.up /\ d.st \in NStates /\ Shaped(d)
  BY <1>1 DEF Stop, Shaped, CallFields, NStates
<1>3. /\ Turns(c, d, c.st, c.tm \ {t}, c.ces, c.presel, c.listed)
      /\ Calm(d, e) /\ Calm(d, f)
  BY <1>1, <1>2, StopTurns, OtherFieldCalm
<1>4. e.up = c.up /\ f.up = c.up
  BY <1>1, <1>2 DEF Shaped, CallFields
<1>5. timer(c, t) \in {d, e, f}
  <2>1. t \in NetTimers
    BY <1>1
  <2> HIDE DEF d
  <2>2. N_timer_T303(d) = e /\ N_timer_T308(d) = f
    BY <1>2 DEF N_timer_T303, N_timer_T308
  <2>3. /\ N_timer_T301(d) = d /\ N_timer_T302(d) = d /\ N_timer_T304(d) = d
        /\ N_timer_T305(d) = d /\ N_timer_T306(d) = d /\ N_timer_T309(d) = d
        /\ N_timer_T310(d) = d /\ N_timer_T312(d) = d /\ timer_T322(d) = d
    BY <1>2 DEF N_timer_T301, N_timer_T302, N_timer_T304, N_timer_T305, N_timer_T306,
                N_timer_T309, N_timer_T310, N_timer_T312, timer_T322, NullStates
  <2> HIDE DEF e, f
  <2> QED BY <1>2, <2>1, <2>2, <2>3 DEF timer, NetTimers, Timers, d
<1> HIDE DEF d, e, f
<1>6. c.tm \ {t} \in SUBSET NetTimers
  BY <1>1
<1>7. /\ Turns(c, e, c.st, c.tm \ {t}, c.ces, c.presel, c.listed)
      /\ Turns(c, f, c.st, c.tm \ {t}, c.ces, c.presel, c.listed)
  BY <1>3, TurnsOn
<1> QED BY <1>1, <1>2, <1>3, <1>4, <1>5, <1>6, <1>7, StillTurns

(* A timer of a suffix.                                                    *)
LEMMA StillCesTimer ==
  ASSUME NEW c, Core(c), c.st = "N0", NEW t \in TEs, NEW x \in c.ces[t].tm
  PROVE  Still(c, ces_timer(c, t, x))
<1> DEFINE d == Less(c, t, {x})
           s == d.ces[t]
           f == CesGo(d, t, {}, {"T308"}, "I19")
           g == [f EXCEPT !.ces[t].fired = TRUE]
           h == CesGo(d, t, {}, {"T308"}, s.st)
           k == CesGo(d, t, {}, {"T322"}, s.st)
           l == [k EXCEPT !.ces[t].senq = @ + 1]
<1>1. Still(c, d)
  BY StillLess
<1>2. /\ c.ces \in Suffixes /\ NoneIsIdle(c.ces) /\ Shaped(c)
  BY DEF Core
<1>3. c.ces[t].st # "none" /\ x \in {"T304", "T308", "T322"}
  BY <1>2 DEF NoneIsIdle, Suffixes
<1>4. s.st = c.ces[t].st
  BY <1>2 DEF Less, Shaped, CallFields, Suffixes
<1>5. ces_timer(c, t, x) = CASE x = "T304" -> ces_timer_T304(d, t)
                             [] x = "T308" -> ces_timer_T308(d, t)
                             [] x = "T322" -> ces_timer_T322(d, t)
  BY <1>3 DEF ces_timer, Less
<1> HIDE DEF d
<1>6. Core(d) /\ d.st = "N0" /\ Shaped(d) /\ d.ces \in Suffixes
  BY <1>1 DEF Still, Core
<1>7. s \in OneCes /\ s.st \in CesStates
  BY <1>3, <1>4, <1>6 DEF Suffixes, OneCes
<1>8. /\ {"T308"} \in SUBSET {"T304", "T308", "T322"} /\ "I19" \in CesStates
      /\ {"T322"} \in SUBSET {"T304", "T308", "T322"}
  BY DEF CesStates
<1>9. Still(d, f) /\ Still(d, h) /\ Still(d, k)
  BY <1>6, <1>7, <1>8, StillGo
<1>10. f.ces[t].st = "I19" /\ k.ces[t].st = s.st /\ k.ces[t].senq = s.senq
  BY <1>6 DEF CesGo, Suffixes, Shaped, CallFields
<1>11. N_int_release_indication(f, t) = f /\ N_int_release_indication(h, t) = h
  BY <1>6, <1>9 DEF N_int_release_indication, Still
<1>12. N_int_release_complete_indication(d, t) = CesFree(d, t)
  BY <1>6 DEF N_int_release_complete_indication
<1>13. /\ ces_timer_T304(d, t) \in {d, f}
       /\ ces_timer_T308(d, t) \in {d, CesFree(d, t), g}
       /\ \/ ces_timer_T322(d, t) \in {d, h}
          \/ ~(s.senq >= SenqMax) /\ ces_timer_T322(d, t) = l
  BY <1>11, <1>12 DEF ces_timer_T304, ces_timer_T308, ces_timer_T322
<1> HIDE DEF f, h, k
<1>14. Still(d, CesFree(d, t))
  BY <1>6, NoCesFacts, StillPut
<1>15. Still(f, g)
  <2> DEFINE r == [f.ces[t] EXCEPT !.fired = TRUE]
  <2>1. Core(f) /\ Shaped(f) /\ f.ces \in Suffixes
    BY <1>9 DEF Still, Core
  <2>2. f.ces[t] \in OneCes
    BY <2>1 DEF Suffixes, OneCes
  <2>3. r \in OneCes /\ r.st = "I19"
    BY <1>10, <2>2 DEF OneCes
  <2>4. g = [f EXCEPT !.ces[t] = r]
    BY <2>1 DEF Shaped, CallFields, Suffixes
  <2> HIDE DEF r, g
  <2> QED BY <2>1, <2>3, <2>4, StillPut
<1>16. ~(s.senq >= SenqMax) => Still(k, l)
  <2> SUFFICES ASSUME ~(s.senq >= SenqMax) PROVE Still(k, l)
    OBVIOUS
  <2> DEFINE n == s.senq + 1
             r == [k.ces[t] EXCEPT !.senq = n]
  <2>1. Core(k) /\ Shaped(k) /\ k.ces \in Suffixes
    BY <1>9 DEF Still, Core
  <2>2. k.ces[t] \in OneCes /\ k.ces[t].st # "none"
    BY <1>7, <1>10, <2>1 DEF Suffixes, OneCes, CesStates
  <2>3. n \in 0..SenqMax
    BY <1>7, SenqAssumption DEF OneCes
  <2>4. l = [k EXCEPT !.ces[t] = r]
    BY <1>10, <2>1 DEF Shaped, CallFields, Suffixes
  <2> HIDE DEF n, l
  <2>5. r \in OneCes /\ r.st # "none"
    BY <2>2, <2>3 DEF OneCes
  <2> HIDE DEF r
  <2> QED BY <2>1, <2>4, <2>5, StillPut
<1> HIDE DEF g, l, s
<1>17. Still(d, g) /\ (~(s.senq >= SenqMax) => Still(d, l)) /\ Still(d, d)
  BY <1>6, <1>9, <1>15, <1>16, StillOn, StillSelf
<1>18. /\ Still(d, ces_timer_T304(d, t)) /\ Still(d, ces_timer_T308(d, t))
       /\ Still(d, ces_timer_T322(d, t))
  BY <1>9, <1>13, <1>14, <1>17
<1> QED BY <1>1, <1>3, <1>5, <1>18, StillOn

-----------------------------------------------------------------------------
(* The call is offered.                                                    *)

(* q931_channel_acquire asserts that the call has no channel yet.          *)
LEMMA AcquireCalm ==
  ASSUME NEW c, Shaped(c), ChanOK(c)
  PROVE  Calm(c, ChanAcquire(c))
<1> DEFINE a == Assert_(c, c.ch = NoChan)
           ch == First(Available(c))
<1>1. Calm(c, a) /\ (a.ok => a.ch = NoChan)
  <2>1. a.ok => a.ch = NoChan
    BY DEF Assert_, Shaped, CallFields
  <2> QED BY <2>1, AssertCalm
<1>2. CASE Available(c) = {}
  BY <1>1, <1>2 DEF ChanAcquire
<1>3. CASE Available(c) # {}
  <2>1. ch \in Channels
    BY <1>3, FirstIn DEF Available
  <2>2. ChanAcquire(c) = ChanSelect(a, ch, "SELECTED")
    BY <1>3 DEF ChanAcquire
  <2> HIDE DEF a, ch
  <2>3. Calm(a, ChanSelect(a, ch, "SELECTED"))
    BY <1>1, <2>1, CalmShaped, ChanSelectCalm DEF ChanStates
  <2> QED BY <1>1, <2>2, <2>3, CalmOn
<1> QED BY <1>2, <1>3

(* q931_setup_request on a multipoint interface: N6, T303 and T312, and no *)
(* suffix.                                                                 *)
LEMMA OriginateBegins ==
  ASSUME NEW c, Core(c), NotBegun(c)
  PROVE  LET d == ccb_dispatch(c, "SETUP")
         IN  /\ Core(d) /\ Begun(d) /\ d.listed /\ d.st = "N6"
             /\ Lives(d) => Lives(c)
<1> DEFINE a == ChanAcquire(c)
           b == [a EXCEPT !.bc = TRUE]
           d == Go(b, {}, {"T303", "T312"}, "N6")
<1>1. /\ c.st = "N0" /\ c.tm = {} /\ c.listed = TRUE /\ ~AnyLeft(c.ces) /\ Shaped(c)
      /\ ChanOK(c) /\ c.ces \in Suffixes /\ NoneIsIdle(c.ces)
      /\ c.presel \in TEs \cup {NoTe} /\ c.dis \in BOOLEAN
  BY DEF Core, NotBegun
<1>2. ccb_dispatch(c, "SETUP") = d
  <2>1. ccb_dispatch(c, "SETUP") = N_setup_request(c)
    BY <1>1 DEF ccb_dispatch, N_ccb_dispatch, NStates
  <2> QED BY <1>1, <2>1, BroadcastAssumption DEF N_setup_request
<1>3. Calm(c, a)
  BY <1>1, AcquireCalm
<1> HIDE DEF a
<1>4. /\ Shaped(a) /\ ChanOK(a) /\ a.tm = {} /\ a.ces = c.ces /\ a.presel = c.presel
      /\ a.listed = TRUE /\ a.dis = c.dis /\ (Lives(a) => Lives(c))
  BY <1>1, <1>3, CalmShaped
<1>5. /\ Shaped(b) /\ ChanOK(b) /\ b.tm = {} /\ b.ces = c.ces /\ b.presel = c.presel
      /\ b.listed = TRUE /\ b.dis = c.dis /\ b.bc = TRUE /\ (Lives(b) => Lives(c))
  BY <1>4 DEF Shaped, CallFields, ChanOK, Lives
<1> HIDE DEF b
<1>6. Turns(b, d, "N6", {"T303", "T312"}, c.ces, c.presel, TRUE)
  <2>1. Turns(b, d, "N6", (b.tm \ {}) \cup {"T303", "T312"}, b.ces, b.presel, b.listed)
    BY <1>5, GoTurns
  <2>2. (b.tm \ {}) \cup {"T303", "T312"} = {"T303", "T312"}
    BY <1>5
  <2> QED BY <1>5, <2>1, <2>2
<1> HIDE DEF d
<1>7. /\ Shaped(d) /\ ChanOK(d) /\ d.st = "N6" /\ d.tm = {"T303", "T312"}
      /\ d.ces = c.ces /\ d.presel = c.presel /\ d.listed = TRUE /\ d.bc = TRUE
      /\ d.dis = c.dis /\ (Lives(d) => Lives(c))
  BY <1>5, <1>6 DEF Turns
<1>8. Core(d)
  <2>1. {"T303", "T312"} \subseteq NetTimers /\ "N6" \in Reached
    BY DEF NetTimers, Timers, Reached
  <2> QED BY <1>1, <1>7, <2>1 DEF Core
<1>9. Begun(d)
  <2>1. AllGoing(d.ces) /\ Watched(d.ces)
    BY <1>1, <1>7 DEF AnyLeft, AllGoing, Watched
  <2> QED BY <1>7, <2>1 DEF Begun, Phase
<1> QED BY <1>2, <1>7, <1>8, <1>9

-----------------------------------------------------------------------------
(* Before a step what was sent and told is forgotten.                      *)

(* That changes nothing else.                                              *)
LEMMA QuietFacts ==
  ASSUME NEW c, Core(c)
  PROVE  LET q == Quiet(c)
         IN  /\ Core(q) /\ q.st = c.st /\ q.tm = c.tm /\ q.ces = c.ces
             /\ q.listed = c.listed /\ q.bc = c.bc /\ q.dis = c.dis
             /\ q.presel = c.presel /\ q.up = <<>> /\ (Lives(q) <=> Lives(c))
<1> DEFINE q == Quiet(c)
<1>1. /\ q.st = c.st /\ q.tm = c.tm /\ q.ces = c.ces
      /\ q.listed = c.listed /\ q.bc = c.bc /\ q.dis = c.dis
      /\ q.presel = c.presel /\ q.up = <<>> /\ (Lives(q) <=> Lives(c))
      /\ q.ch = c.ch /\ q.chans = c.chans /\ q.ok = c.ok /\ DOMAIN q = CallFields
  BY DEF Quiet, Core, Shaped, CallFields, Lives
<1> HIDE DEF q
<1>2. Shaped(q)
  <2>1. q.up \in Seq({})
    BY <1>1
  <2> QED BY <1>1, <2>1 DEF Shaped
<1>3. ChanOK(q)
  BY <1>1 DEF Core, ChanOK
<1>4. Core(q)
  BY <1>1, <1>2, <1>3 DEF Core
<1> QED BY <1>1, <1>4 DEF q

(* After a step that a listed call allows the call has begun and the CCB   *)
(* knows what it must.                                                     *)
LEMMA AfterKnows ==
  ASSUME NEW c, Good(c), NEW d, After(c, d), NEW kn, Told(c, kn), NEW new,
         new = (kn \/ Ends(d)), Lives(d)
  PROVE  Begun(d) /\ Told(d, new)
<1>1. c.bc = TRUE /\ d.listed \in BOOLEAN /\ kn \in BOOLEAN /\ new \in BOOLEAN
  BY GoodFacts DEF After, Core, Told
<1> QED BY <1>1 DEF After, Begun, Told

(* A message names its terminal and, perhaps, channels of the interface.   *)
LEMMA MessageFacts ==
  ASSUME NEW t, NEW m \in Messages(t)
  PROVE  m.te = t /\ m.ci \in (SUBSET Channels) \cup {NoCI}
  BY DEF Messages

-----------------------------------------------------------------------------
(* The steps of the specification.                                         *)

(* A call that q931_call_alloc_out has made satisfies the invariant.       *)
LEMMA Initially == Init => IInv
<1> SUFFICES ASSUME Init PROVE IInv
  OBVIOUS
<1> DEFINE none == [t \in TEs |-> NoCes]
<1>1. /\ call = NewCall("NT", Free, FALSE) /\ told = FALSE
  BY DEF Init
<1>2. /\ call.st = "N0" /\ call.tm = {} /\ call.ch = NoChan /\ call.chans = Free
      /\ call.dis = FALSE /\ call.bc = FALSE /\ call.listed = TRUE /\ call.ces = none
      /\ call.presel = NoTe /\ call.up = <<>> /\ DOMAIN call = CallFields
  BY <1>1 DEF NewCall, CallFields
<1>3. none \in Suffixes /\ NoneIsIdle(none) /\ ~AnyLeft(none)
  BY NoCesFacts DEF Suffixes, OneCes, NoneIsIdle, AnyLeft
<1>4. ChanOK(call)
  BY <1>2, ChannelsAssumption DEF ChanOK, Free, ChanStates
<1> HIDE DEF none
<1>5. Shaped(call)
  <2>1. call.up \in Seq({})
    BY <1>2
  <2> QED BY <1>2, <2>1 DEF Shaped
<1>6. Core(call)
  BY <1>2, <1>3, <1>4, <1>5 DEF Core, Reached
<1>7. NotBegun(call) /\ Told(call, told)
  BY <1>1, <1>2, <1>3 DEF NotBegun, Told
<1> QED BY <1>6, <1>7 DEF IInv

(* What a step may find: a call that has not begun, one that goes on, or   *)
(* one that has left the list.                                             *)
LEMMA Situation ==
  ASSUME IInv, Alive
  PROVE  LET q == Quiet(call)
         IN  /\ Core(q) /\ q.up = <<>> /\ Lives(q) /\ Told(q, told) /\ Core(call)
             /\ q.st = call.st /\ q.tm = call.tm /\ q.ces = call.ces
             /\ q.listed = call.listed /\ q.bc = call.bc /\ q.presel = call.presel
             /\ \/ Good(q) /\ call.listed /\ call.bc
                \/ q.st = "N0" /\ q.bc = TRUE /\ ~call.listed
                \/ /\ NotBegun(q) /\ ~call.bc /\ call.listed
                   /\ \A t \in TEs : q.ces[t].tm = {}
<1> DEFINE q == Quiet(call)
<1>1. Core(call) /\ Told(call, told) /\ Lives(call) /\ (Begun(call) \/ NotBegun(call))
  BY DEF IInv, Alive, Lives
<1>2. /\ Core(q) /\ q.st = call.st /\ q.tm = call.tm /\ q.ces = call.ces
      /\ q.listed = call.listed /\ q.bc = call.bc /\ q.dis = call.dis
      /\ q.presel = call.presel /\ q.up = <<>> /\ (Lives(q) <=> Lives(call))
  BY <1>1, QuietFacts
<1> HIDE DEF q
<1>3. Told(q, told)
  BY <1>1, <1>2 DEF Told
<1>4. call.bc \in BOOLEAN /\ call.listed \in BOOLEAN
  BY <1>1 DEF Core
<1>5. CASE Begun(call) /\ call.listed
  <2>1. Phase(q)
    BY <1>2, <1>5 DEF Begun, Phase
  <2>2. Good(q) /\ call.bc
    BY <1>1, <1>2, <1>5, <2>1 DEF Good, Begun
  <2> QED BY <1>1, <1>2, <1>3, <1>5, <2>2 DEF q
<1>6. CASE Begun(call) /\ ~call.listed
  <2>1. q.st = "N0" /\ q.bc = TRUE
    BY <1>2, <1>4, <1>6 DEF Begun
  <2> QED BY <1>1, <1>2, <1>3, <1>6, <2>1 DEF q
<1>7. CASE NotBegun(call)
  <2>1. NotBegun(q) /\ ~call.bc /\ call.listed
    BY <1>2, <1>7 DEF NotBegun
  <2>2. \A t \in TEs : q.ces[t].tm = {}
    BY <1>2, <2>1 DEF NotBegun, AnyLeft, Core, NoneIsIdle
  <2> QED BY <1>1, <1>2, <1>3, <2>1, <2>2 DEF q
<1> QED BY <1>1, <1>5, <1>6, <1>7

(* What a step does: the listed call goes on as After says, or the call is *)
(* suspended; the call that has left the list stays where it is.           *)
Kept ==
    LET q == Quiet(call)
    IN  /\ Told(q, told) /\ Core(call')
        /\ \/ /\ Good(q) /\ call.listed /\ told' = (told \/ Ends(call'))
              /\ After(q, call')
           \/ call.listed /\ told' = TRUE /\ Suspended(q, call') /\ q.bc = TRUE
           \/ /\ ~call.listed /\ q.st = "N0" /\ q.bc = TRUE /\ Still(q, call')
              /\ q.up = <<>> /\ q.listed = call.listed /\ q.st = call.st
              /\ told' = (told \/ Ends(call'))
           \/ /\ call.listed /\ told' = (told \/ Ends(call'))
              /\ Begun(call') /\ call'.listed /\ call'.st = "N6"

(* Then the invariant holds again.                                         *)
LEMMA KeptInv ==
  ASSUME IInv, Kept
  PROVE  IInv'
<1> DEFINE q == Quiet(call)
<1>1. Core(call') /\ Told(q, told) /\ Core(call)
  BY DEF Kept, IInv
<1>2. Alive' <=> Lives(call')
  BY DEF Alive, Lives
<1> HIDE DEF q
<1>3. ASSUME Lives(call')
      PROVE  Begun(call') /\ Told(call', told')
  <2>1. CASE /\ Good(q) /\ call.listed /\ told' = (told \/ Ends(call'))
             /\ After(q, call')
    BY <1>1, <1>3, <2>1, AfterKnows
  <2>2. CASE call.listed /\ told' = TRUE /\ Suspended(q, call') /\ q.bc = TRUE
    BY <2>2 DEF Suspended, Begun, Told
  <2>3. CASE /\ ~call.listed /\ q.st = "N0" /\ q.bc = TRUE /\ Still(q, call')
             /\ q.listed = call.listed /\ told' = (told \/ Ends(call'))
    BY <1>1, <2>3 DEF Still, Begun, Told
  <2>4. CASE /\ told' = (told \/ Ends(call'))
             /\ Begun(call') /\ call'.listed /\ call'.st = "N6"
    BY <1>1, <2>4 DEF Told
  <2> QED BY <2>1, <2>2, <2>3, <2>4 DEF Kept, q
<1> QED BY <1>1, <1>2, <1>3 DEF IInv

(* The CCB sets up the call.                                               *)
LEMMA OriginateKept ==
  ASSUME IInv, Originate
  PROVE  Kept
<1> DEFINE q == Quiet(call)
           d == ccb_dispatch(q, "SETUP")
<1>1. /\ Alive /\ call.listed /\ ~call.bc /\ call' = d
      /\ told' = (told \/ Ends(call'))
  BY DEF Originate, Becomes, Hears, Ends
<1>2. Core(q) /\ Told(q, told) /\ NotBegun(q)
  BY <1>1, Situation
<1> HIDE DEF q
<1>3. Core(d) /\ Begun(d) /\ d.listed /\ d.st = "N6"
  BY <1>2, OriginateBegins
<1> QED BY <1>1, <1>2, <1>3 DEF Kept, q

(* The CCB asks something of it. A call that is suspended needs no         *)
(* primitive: the CCB has asked for it.                                    *)
LEMMA RequestKept ==
  ASSUME IInv, NEW r \in CcbRequests, Request(r)
  PROVE  Kept
<1> DEFINE q == Quiet(call)
           d == ccb_dispatch(q, r)
<1>1. /\ Alive /\ call.bc /\ call' = d
      /\ told' = (told \/ (r = "SUSPEND_RESPONSE" /\ call.st = "N15") \/ Ends(call'))
  BY DEF Request, Ends
<1>2. /\ Core(q) /\ Told(q, told) /\ q.up = <<>> /\ q.st = call.st /\ told \in BOOLEAN
      /\ q.listed = call.listed
      /\ (Good(q) /\ call.listed) \/ (q.st = "N0" /\ q.bc = TRUE /\ ~call.listed)
  BY <1>1, Situation DEF Told
<1> HIDE DEF q
<1>3. CASE Good(q) /\ call.listed
  <2>1. \/ After(q, d)
        \/ r = "SUSPEND_RESPONSE" /\ q.st = "N15" /\ Suspended(q, d)
    BY <1>3, RequestAfter
  <2>2. q.bc = TRUE
    BY <1>3, GoodFacts
  <2> HIDE DEF d
  <2>3. Core(d)
    BY <2>1 DEF After, Suspended
  <2>4. CASE r = "SUSPEND_RESPONSE" /\ q.st = "N15" /\ Suspended(q, d)
    BY <1>1, <1>2, <1>3, <2>2, <2>3, <2>4 DEF Kept, q
  <2>5. CASE After(q, d) /\ ~(r = "SUSPEND_RESPONSE" /\ q.st = "N15")
    <3>1. told' = (told \/ Ends(call'))
      BY <1>1, <1>2, <2>5
    <3> QED BY <1>1, <1>2, <1>3, <2>3, <2>5, <3>1 DEF Kept, q
  <2>6. CASE After(q, d) /\ r = "SUSPEND_RESPONSE" /\ q.st = "N15"
    <3>1. d = N_suspend_response(q)
      BY <2>6 DEF d, ccb_dispatch, N_ccb_dispatch, NStates
    <3>2. Suspended(q, d)
      BY <1>3, <2>6, <3>1, SuspendedN15
    <3> QED BY <2>4, <2>6, <3>2
  <2> QED BY <2>1, <2>4, <2>5, <2>6
<1>4. CASE q.st = "N0" /\ q.bc = TRUE /\ ~call.listed
  <2>1. Still(q, d)
    BY <1>2, <1>4, StillRequest
  <2> HIDE DEF d
  <2>2. Core(d) /\ told' = (told \/ Ends(call'))
    BY <1>1, <1>2, <1>4, <2>1 DEF Still
  <2> QED BY <1>1, <1>2, <1>4, <2>1, <2>2 DEF Kept, q
<1> QED BY <1>2, <1>3, <1>4

(* A terminal's message: for its suffix if it has one, else for the call.  *)
LEMMA ReceiveKept ==
  ASSUME IInv, NEW t \in TEs, NEW m \in Messages(t), Receive(t, m)
  PROVE  Kept
<1> DEFINE q == Quiet(call)
<1>1. /\ Alive /\ call.listed /\ call.bc /\ told' = (told \/ Ends(call'))
      /\ call' = IF t \in CesList(call) THEN ces_dispatch_message(q, t, m)
                 ELSE dispatch_message(q, m)
  BY DEF Receive, Becomes, Hears, Ends
<1>2. Told(q, told) /\ Good(q) /\ q.ces = call.ces
  BY <1>1, Situation
<1>3. m.te = t /\ m.ci \in (SUBSET Channels) \cup {NoCI}
  BY MessageFacts
<1> HIDE DEF q
<1>4. After(q, call')
  <2>1. CASE t \in CesList(call)
    <3>1. q.ces[t].st # "none"
      BY <1>2, <2>1 DEF CesList
    <3>2. After(q, ces_dispatch_message(q, t, m))
      BY <1>2, <1>3, <3>1, CesMessageAfter
    <3> QED BY <1>1, <2>1, <3>2
  <2>2. CASE t \notin CesList(call)
    <3>1. Fresh(q, m)
      BY <1>2, <1>3, <2>2 DEF CesList, Fresh
    <3>2. After(q, dispatch_message(q, m))
      BY <1>2, <3>1, MessageAfter
    <3> QED BY <1>1, <2>2, <3>2
  <2> QED BY <2>1, <2>2
<1>5. Core(call')
  BY <1>4 DEF After
<1> QED BY <1>1, <1>2, <1>4, <1>5 DEF Kept, q

(* A timer of the call expires, also of one off the list.                  *)
LEMMA TimeoutKept ==
  ASSUME IInv, NEW t, Timeout(t)
  PROVE  Kept
<1> DEFINE q == Quiet(call)
           d == timer(q, t)
<1>1. /\ Alive /\ t \in call.tm /\ (t = "T312" => "T303" \notin call.tm)
      /\ call' = d /\ told' = (told \/ Ends(call'))
  BY DEF Timeout, Becomes, Hears, Ends
<1>2. /\ Core(q) /\ Told(q, told) /\ q.up = <<>> /\ q.st = call.st /\ q.tm = call.tm
      /\ q.listed = call.listed
      /\ \/ Good(q) /\ call.listed
         \/ q.st = "N0" /\ q.bc = TRUE /\ ~call.listed
         \/ NotBegun(q)
  BY <1>1, Situation
<1> HIDE DEF q
<1>3. ~NotBegun(q)
  BY <1>1, <1>2 DEF NotBegun
<1>4. CASE Good(q) /\ call.listed
  <2>1. After(q, d)
    BY <1>1, <1>2, <1>4, TimerAfter
  <2> HIDE DEF d
  <2>2. Core(d)
    BY <2>1 DEF After
  <2> QED BY <1>1, <1>2, <1>4, <2>1, <2>2 DEF Kept, q
<1>5. CASE q.st = "N0" /\ q.bc = TRUE /\ ~call.listed
  <2>1. Still(q, d)
    BY <1>1, <1>2, <1>5, StillTimer
  <2> HIDE DEF d
  <2>2. Core(d)
    BY <2>1 DEF Still
  <2> QED BY <1>1, <1>2, <1>5, <2>1, <2>2 DEF Kept, q
<1> QED BY <1>2, <1>3, <1>4, <1>5

(* A timer of a suffix expires, also after the call has ended.             *)
LEMMA CesTimeoutKept ==
  ASSUME IInv, NEW t \in TEs, NEW x, CesTimeout(t, x)
  PROVE  Kept
<1> DEFINE q == Quiet(call)
           d == ces_timer(q, t, x)
<1>1. /\ Alive /\ x \in call.ces[t].tm /\ call' = d /\ told' = (told \/ Ends(call'))
  BY DEF CesTimeout, Becomes, Hears, Ends
<1>2. /\ Core(q) /\ Told(q, told) /\ q.up = <<>> /\ q.st = call.st /\ q.ces = call.ces
      /\ q.listed = call.listed
      /\ \/ Good(q) /\ call.listed
         \/ q.st = "N0" /\ q.bc = TRUE /\ ~call.listed
         \/ q.ces[t].tm = {}
  BY <1>1, Situation
<1> HIDE DEF q
<1>3. CASE Good(q) /\ call.listed
  <2>1. After(q, d)
    BY <1>1, <1>2, <1>3, CesTimerAfter
  <2> HIDE DEF d
  <2>2. Core(d)
    BY <2>1 DEF After
  <2> QED BY <1>1, <1>2, <1>3, <2>1, <2>2 DEF Kept, q
<1>4. CASE q.st = "N0" /\ q.bc = TRUE /\ ~call.listed
  <2>1. Still(q, d)
    BY <1>1, <1>2, <1>4, StillCesTimer
  <2> HIDE DEF d
  <2>2. Core(d)
    BY <2>1 DEF Still
  <2> QED BY <1>1, <1>2, <1>4, <2>1, <2>2 DEF Kept, q
<1> QED BY <1>1, <1>2, <1>3, <1>4

(* A data link comes or goes: first for the suffix, then for the call.     *)
LEMMA DlKept ==
  ASSUME IInv, NEW t \in TEs,
         DlEstablishIndication(t) \/ DlEstablishConfirm(t) \/ DlReleaseIndication(t)
  PROVE  Kept
<1> DEFINE q == Quiet(call)
           a == ces_dl_establish_indication(q, t)
           b == ces_dl_release_indication(q, t)
<1>1. /\ Alive /\ call.listed /\ call.bc /\ told' = (told \/ Ends(call'))
      /\ call' \in {a, dl_establish_indication(a), dl_establish_confirm(q),
                    b, dl_release_indication(b)}
  BY DEF DlEstablishIndication, DlEstablishConfirm, DlReleaseIndication, Becomes, Hears, Ends
<1>2. Told(q, told) /\ Good(q)
  BY <1>1, Situation
<1> HIDE DEF q
<1>3. After(q, a) /\ After(q, b)
  BY <1>2, CesDlAfter
<1> HIDE DEF a, b
<1>4. After(q, dl_establish_indication(a)) /\ After(q, dl_release_indication(b))
  BY <1>2, <1>3, DlAfter
<1>5. After(q, dl_establish_confirm(q))
  BY <1>2, DlConfirmAfter
<1>6. After(q, call')
  BY <1>1, <1>3, <1>4, <1>5
<1>7. Core(call')
  BY <1>6 DEF After
<1> QED BY <1>1, <1>2, <1>6, <1>7 DEF Kept, q

(* Every step of the specification.                                        *)
LEMMA StepKept ==
  ASSUME IInv, Next
  PROVE  Kept
<1>1. CASE Originate
  BY <1>1, OriginateKept
<1>2. CASE \E r \in CcbRequests : Request(r)
  BY <1>2, RequestKept
<1>3. CASE \E t \in TEs : \E m \in Messages(t) : Receive(t, m)
  BY <1>3, ReceiveKept
<1>4. CASE \E t \in Timers : Timeout(t)
  BY <1>4, TimeoutKept
<1>5. CASE \E t \in TEs, x \in {"T304", "T308", "T322"} : CesTimeout(t, x)
  BY <1>5, CesTimeoutKept
<1>6. CASE \E t \in TEs : DlEstablishIndication(t)
  BY <1>6, DlKept
<1>7. CASE \E t \in TEs : DlEstablishConfirm(t)
  BY <1>7, DlKept
<1>8. CASE \E t \in TEs : DlReleaseIndication(t)
  BY <1>8, DlKept
<1> QED BY <1>1, <1>2, <1>3, <1>4, <1>5, <1>6, <1>7, <1>8 DEF Next

(* The invariant is inductive.                                             *)
LEMMA StepInv ==
  ASSUME IInv, [Next]_vars
  PROVE  IInv'
<1>1. CASE Next
  BY <1>1, StepKept, KeptInv
<1>2. CASE UNCHANGED vars
  BY <1>2 DEF vars, IInv, Alive
<1> QED BY <1>1, <1>2

(* The invariant gives the properties.                                     *)
LEMMA Implied ==
  ASSUME IInv
  PROVE  TypeOK /\ ChannelTied /\ OneTerminalWins /\ GivingUpIsSupervised /\ EndIsTold
<1>1. Core(call) /\ ChanOK(call)
  BY DEF IInv, Core
<1>2. TypeOK
  BY <1>1 DEF Core, ChanOK, TypeOK, Reached, NStates, NetTimers, Suffixes, Owners
<1>3. ChannelTied
  BY <1>1 DEF ChannelTied, Alive, ChanOK
<1>4. EndIsTold
  BY DEF IInv, EndIsTold, Told
<1>5. Alive /\ call.listed /\ call.st # "N0" => Phase(call)
  BY DEF IInv, Begun, NotBegun
<1>6. OneTerminalWins
  BY <1>5 DEF OneTerminalWins, PreselectedConnects, LosersAreReleased, Phase,
              AllGoing, CesList
<1>7. GivingUpIsSupervised
  <2>1. ReleaseIsSupervised
    BY <1>5 DEF ReleaseIsSupervised, Phase, Watched, Offering
  <2>2. AbortIsSupervised
    BY <1>5 DEF AbortIsSupervised, Phase, AllGoing, Watched, AnyLeft, Offering
  <2> QED BY <2>1, <2>2 DEF GivingUpIsSupervised
<1> QED BY <1>2, <1>3, <1>4, <1>6, <1>7

(* A call that has left the list stays where it is and tells nothing.      *)
LEMMA StepFinal ==
  ASSUME IInv, Next
  PROVE  EndIsTold' /\ (~call.listed => call'.up = <<>> /\ call'.st = call.st)
<1>1. Kept
  BY StepKept
<1>2. IInv'
  BY <1>1, KeptInv
<1>3. EndIsTold'
  BY <1>2 DEF IInv, EndIsTold, Told
<1>4. ~call.listed => call'.up = <<>> /\ call'.st = call.st
  BY <1>1 DEF Kept, Still
<1> QED BY <1>3, <1>4

(* The inductive invariant holds, for any terminals, channels, requests of *)
(* the CCB and contents of uninitialised suffixes.                         *)
THEOREM Invariance == Spec => []IInv
<1>1. Init => IInv
  BY Initially
<1>2. IInv /\ [Next]_vars => IInv'
  BY StepInv
<1> QED BY <1>1, <1>2, PTL DEF Spec

(* The state of a broadcast call has its type: in particular no handler    *)
(* puts it into a state, or starts a timer, that does not exist.           *)
THEOREM TypeCorrect == Spec => []TypeOK
  BY Invariance, Implied, PTL

(* While the call is listed, the channel it holds is the one channel that  *)
(* belongs to it, whatever channels the terminals answer with and however  *)
(* often q931_channel_select_response changes it.                          *)
THEOREM ChannelStaysTied == Spec => []ChannelTied
  BY Invariance, Implied, PTL

(* One terminal wins: in N8 the preselected terminal has the suffix that   *)
(* asked for the connection, and in N10 every suffix that is left is being *)
(* released, whatever terminals connect, vanish or answer late in between. *)
THEOREM OneWinner == Spec => []OneTerminalWins
  BY Invariance, Implied, PTL

(* A terminal the network releases has T308 running as long as the call    *)
(* goes on, and a call given up in N22 has T312 or such a terminal to end  *)
(* it.                                                                     *)
THEOREM NothingForgotten == Spec => []GivingUpIsSupervised
  BY Invariance, Implied, PTL

(* A broadcast call leaves the interface's list only if the CCB knows, and *)
(* after that no request, timer or suffix brings it back or tells the CCB  *)
(* anything.                                                               *)
THEOREM TheEnd == Spec => EndIsFinal
<1>1. IInv /\ [Next]_vars =>
        [/\ EndIsTold'
         /\ ~call.listed => call'.up = <<>> /\ call'.st = call.st]_vars
  BY StepFinal
<1> QED BY <1>1, Invariance, PTL DEF Spec, EndIsFinal

=============================================================================
