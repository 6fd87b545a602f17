---------------------------- MODULE Q931LegProofs ----------------------------
(***************************************************************************)
(* Proofs about Q931Leg: a point-to-point call of a user or of a network,  *)
(* for any number of channels and anything the CCB, the peer, the data     *)
(* link and the other calls of the interface may do.                       *)
(*                                                                         *)
(* A handler is an operator from call to call, built of small steps.  The  *)
(* first lemmas say what a small step leaves alone (Turns); those named    *)
(* Then... chain them.  A lemma named ...After says that a handler takes a *)
(* good call (Good) to a good call, or to one that is over and known to be *)
(* (After).  The loop of a RESTART is an induction over the channels.      *)
(***************************************************************************)
EXTENDS Q931Leg, WellFoundedInduction, TLAPS

(* The fields of a call.                                                   *)
CallFields ==
    {"st", "tm", "ch", "chans", "f303", "f308", "rcr", "dis", "senq", "bc",
     "dlc", "listed", "ces", "presel", "stale", "ok", "tx", "up"}

(* The call is a record; what it sends and tells are sequences.            *)
Shaped(c) ==
    DOMAIN c = CallFields /\ (\E S : c.up \in Seq(S)) /\ (\E S : c.tx \in Seq(S))

(* A channel that points to the call is the call's, and one that points to *)
(* no call is not in use; at the network the call's channel also points to *)
(* it, and is not offered to anyone else.                                  *)
Owned(r, c) ==
    \A ch \in Channels :
        /\ c.chans[ch].own = "call" => c.ch = ch
        /\ c.chans[ch].own = "none" => c.chans[ch].st \in {"AVAILABLE", "MAINTAINANCE"}
        /\ r = "NT" /\ c.ch = ch =>
              c.chans[ch].own = "call" /\ c.chans[ch].st # "AVAILABLE"

(* The call and the channels, for a call of role r.                        *)
Fit(r, c) ==
    /\ c.ch \in Channels \cup {NoChan}
    /\ c.chans \in [Channels -> [st : ChanStates, own : Owners]]
    /\ c.ok => Owned(r, c)

(* The primitives that tell the CCB that a call is over.                   *)
EndPrimitives == {"RELEASE_IND", "RELEASE_CFM", "REJECT_IND", "STATUS_IND",
                  "SUSPEND_CFM", "RESUME_CFM"}

(* The CCB is told that the call is over.                                  *)
Ends(c) == \E i \in 1..Len(c.up) : c.up[i] \in EndPrimitives

(* Something is sent to the peer.                                          *)
Sent(c) == c.tx # <<>>

(* Flags are flags and the enquiries are counted within bounds.            *)
Typed(c) ==
    /\ c.f303 \in BOOLEAN /\ c.f308 \in BOOLEAN /\ c.rcr \in BOOLEAN
    /\ c.dis \in BOOLEAN /\ c.ok \in BOOLEAN /\ c.senq \in 0..SenqMax

(* The call c has become d, in this state, with these timers, listed or    *)
(* not.  What Turns does not fix may change, as long as the channel stays  *)
(* fit, a failed assertion stays failed, and what was told and sent stays  *)
(* so.                                                                     *)
Turns(r, c, d, st, tm, li) ==
    /\ Shaped(d) /\ (Fit(r, c) => Fit(r, d)) /\ (Typed(c) => Typed(d))
    /\ d.st = st /\ d.tm = tm /\ d.listed = li /\ d.bc = c.bc
    /\ (d.ok => c.ok) /\ (Ends(c) => Ends(d)) /\ (Sent(c) => Sent(d))

(* ... with nothing changed that the invariant speaks of.                  *)
Calm(r, c, d) == Turns(r, c, d, c.st, c.tm, c.listed)

-----------------------------------------------------------------------------
(* Small steps.                                                            *)

(* A nonempty set of naturals has a least element.                         *)
LEMMA LeastNumber ==
  ASSUME NEW T, T \subseteq Nat, T # {}
  PROVE  \E i \in T : \A j \in T : i <= j
<1>1. PICK i \in T : \A j \in T : ~ (<< j, i >> \in OpToRel(<, Nat))
  BY NatLessThanWellFounded, WFMin
<1>2. ASSUME NEW j \in T
      PROVE  i <= j
  <2>1. << j, i >> \in Nat \X Nat /\ i \in Nat /\ j \in Nat
    OBVIOUS
  <2>2. ~ (j < i)
    BY <1>1, <2>1, Zenon DEF OpToRel
  <2> QED BY <2>1, <2>2
<1> QED BY <1>2

(* Nothing done.                                                           *)
LEMMA TurnsSelf ==
  ASSUME NEW r, NEW c, Shaped(c)
  PROVE  Turns(r, c, c, c.st, c.tm, c.listed)
  BY DEF Turns

(* A step after another.                                                   *)
LEMMA TurnsTwice ==
  ASSUME NEW r, NEW c, NEW d, NEW e, NEW st, NEW tm, NEW li, NEW st2, NEW tm2, NEW li2,
         Turns(r, c, d, st, tm, li), Turns(r, d, e, st2, tm2, li2)
  PROVE  Turns(r, c, e, st2, tm2, li2)
  BY DEF Turns

(* What a step leaves behind.                                              *)
LEMMA TurnsFacts ==
  ASSUME NEW r, NEW c, NEW d, NEW st, NEW tm, NEW li, Turns(r, c, d, st, tm, li)
  PROVE  /\ Shaped(d) /\ (Fit(r, c) => Fit(r, d)) /\ (Ends(c) => Ends(d))
         /\ (Typed(c) => Typed(d))
         /\ (Sent(c) => Sent(d)) /\ d.st = st /\ d.tm = tm /\ d.listed = li
         /\ d.bc = c.bc /\ (d.ok => c.ok)
  BY DEF Turns

(* A calm step after another step.                                         *)
LEMMA TurnsOn ==
  ASSUME NEW r, NEW c, NEW d, NEW e, NEW st, NEW tm, NEW li,
         Turns(r, c, d, st, tm, li), Calm(r, d, e)
  PROVE  Turns(r, c, e, st, tm, li)
  BY DEF Calm, Turns

(* assert() changes nothing but ok.                                        *)
LEMMA AssertCalm ==
  ASSUME NEW r, NEW c, Shaped(c), NEW b
  PROVE  Calm(r, c, Assert_(c, b))
  BY DEF Calm, Turns, Assert_, Shaped, CallFields, Ends, Sent, Fit, Owned, Typed

(* A primitive for the CCB; it ends the call if it is one that does.       *)
LEMMA TellCalm ==
  ASSUME NEW r, NEW c, Shaped(c), NEW p
  PROVE  Calm(r, c, Tell(c, p)) /\ (p \in EndPrimitives => Ends(Tell(c, p)))
<1> DEFINE d == Tell(c, p)
<1>1. /\ DOMAIN d = CallFields /\ (Fit(r, c) => Fit(r, d)) /\ (Typed(c) => Typed(d))
      /\ d.st = c.st /\ d.tm = c.tm /\ d.listed = c.listed /\ d.bc = c.bc
      /\ d.ok = c.ok /\ d.tx = c.tx /\ d.up = Append(c.up, p)
  BY DEF Tell, Shaped, CallFields, Fit, Owned, Typed
<1> HIDE DEF d
<1>2. PICK S : c.up \in Seq(S)
  BY DEF Shaped
<1>3. Ends(c) => Ends(d)
  BY <1>1, <1>2 DEF Ends
<1>4. p \in EndPrimitives => Ends(d)
  BY <1>1, <1>2 DEF Ends
<1>5. d.up \in Seq(S \cup {p})
  BY <1>1, <1>2
<1>6. Calm(r, c, d)
  BY <1>1, <1>3, <1>5 DEF Calm, Turns, Shaped, Sent
<1> QED BY <1>4, <1>6 DEF d

(* A message handed to the data link asserts that there is one.            *)
LEMMA SendMsgCalm ==
  ASSUME NEW r, NEW c, Shaped(c), NEW m
  PROVE  /\ Calm(r, c, SendMsg(c, m)) /\ Sent(SendMsg(c, m))
         /\ SendMsg(c, m).ch = c.ch
<1> DEFINE d == SendMsg(c, m)
<1>1. /\ DOMAIN d = CallFields /\ (Fit(r, c) => Fit(r, d)) /\ (Typed(c) => Typed(d))
      /\ d.st = c.st /\ d.tm = c.tm /\ d.listed = c.listed /\ d.bc = c.bc
      /\ (d.ok => c.ok) /\ d.up = c.up /\ d.tx = Append(c.tx, m) /\ d.ch = c.ch
  BY DEF SendMsg, Assert_, Shaped, CallFields, Fit, Owned, Typed
<1> HIDE DEF d
<1>2. PICK S : c.tx \in Seq(S)
  BY DEF Shaped
<1>3. d.tx \in Seq(S \cup {m}) /\ d.tx # <<>>
  <2>1. d.tx \in Seq(S \cup {m})
    BY <1>1, <1>2
  <2>2. Len(d.tx) = Len(c.tx) + 1 /\ Len(c.tx) \in Nat
    BY <1>1, <1>2
  <2>3. d.tx # <<>>
    <3>1. SUFFICES ASSUME d.tx = <<>> PROVE FALSE
      OBVIOUS
    <3>2. Len(d.tx) = 0
      BY <3>1
    <3> QED BY <2>2, <3>2
  <2> QED BY <2>1, <2>3
<1>4. Calm(r, c, d)
  BY <1>1, <1>3 DEF Calm, Turns, Shaped, Sent, Ends
<1> QED BY <1>1, <1>3, <1>4 DEF d, Sent

(* A message without a channel, with one, and a STATUS.                    *)
LEMMA SendCalm ==
  ASSUME NEW r, NEW c, Shaped(c), NEW mt, NEW st
  PROVE  /\ Calm(r, c, Send(c, mt)) /\ Sent(Send(c, mt)) /\ Send(c, mt).ch = c.ch
         /\ Calm(r, c, SendStatus(c, st)) /\ SendStatus(c, st).ch = c.ch
         /\ Calm(r, c, SendWithChannel(c, mt))
<1>1. Calm(r, c, Send(c, mt)) /\ Sent(Send(c, mt)) /\ Send(c, mt).ch = c.ch
  BY SendMsgCalm DEF Send
<1>2. Calm(r, c, SendStatus(c, st)) /\ SendStatus(c, st).ch = c.ch
  BY SendMsgCalm DEF SendStatus
<1>3. Calm(r, c, SendWithChannel(c, mt))
  <2> DEFINE a == Assert_(c, c.ch # NoChan)
             m == [Message(mt) EXCEPT !.ci = {c.ch}]
  <2>1. Calm(r, c, a) /\ Shaped(a)
    BY AssertCalm, TurnsFacts DEF Calm
  <2>2. SendWithChannel(c, mt) = SendMsg(a, m)
    BY DEF SendWithChannel
  <2> HIDE DEF a, m
  <2>3. Calm(r, a, SendMsg(a, m))
    BY <2>1, SendMsgCalm
  <2> QED BY <2>1, <2>2, <2>3, TurnsOn DEF Calm
<1> QED BY <1>1, <1>2, <1>3

(* Decoding a message may send a STATUS or a RELEASE COMPLETE.             *)
LEMMA DecodeCalm ==
  ASSUME NEW r, NEW c, Shaped(c), NEW m
  PROVE  Calm(r, c, Decode(c, m)) /\ Decode(c, m).ch = c.ch
  BY SendCalm, TurnsSelf DEF Decode, Calm

(* Tones assert that there is a channel.                                   *)
LEMMA ToneCalm ==
  ASSUME NEW r, NEW c, Shaped(c)
  PROVE  Calm(r, c, StartTone(c)) /\ Calm(r, c, StopTone(c))
<1> DEFINE a == Assert_(c, c.ch # NoChan)
<1>1. Calm(r, c, a) /\ Shaped(a)
  BY AssertCalm, TurnsFacts DEF Calm
<1>2. StartTone(c) = Tell(a, "START_TONE") /\ StopTone(c) = Tell(a, "STOP_TONE")
  BY DEF StartTone, StopTone
<1> HIDE DEF a
<1>3. Calm(r, a, Tell(a, "START_TONE")) /\ Calm(r, a, Tell(a, "STOP_TONE"))
  BY <1>1, TellCalm
<1> QED BY <1>1, <1>2, <1>3, TurnsOn DEF Calm

-----------------------------------------------------------------------------
(* Channels.                                                               *)

(* q931_channel_release: the channel is nobody's, and no channel is left   *)
(* pointing to the call.                                                   *)
LEMMA ChanReleaseCalm ==
  ASSUME NEW r, NEW c, Shaped(c), Fit(r, c)
  PROVE  /\ Calm(r, c, ChanRelease(c))
         /\ ChanRelease(c).ok =>
              \A x \in Channels : ChanRelease(c).chans[x].own # "call"
<1>1. CASE c.ch = NoChan
  <2>1. ChanRelease(c) = c
    BY <1>1 DEF ChanRelease
  <2>2. c.ok => \A x \in Channels : c.chans[x].own # "call"
    BY <1>1, ChannelsAssumption DEF Fit, Owned
  <2> QED BY <2>1, <2>2, TurnsSelf DEF Calm
<1>2. CASE c.ch # NoChan /\ c.chans[c.ch].own = "none"
  <2>1. ChanRelease(c) = Assert_(c, FALSE)
    BY <1>2 DEF ChanRelease
  <2>2. ~Assert_(c, FALSE).ok
    BY DEF Assert_, Shaped, CallFields
  <2> QED BY <2>1, <2>2, AssertCalm
<1>3. CASE c.ch # NoChan /\ c.chans[c.ch].own # "none"
  <2> DEFINE b == IF c.chans[c.ch].st = "CONNECTED"
                  THEN Tell(c, "DISCONNECT_CHANNEL") ELSE c
             d == [b EXCEPT !.chans[c.ch] = [st |-> "AVAILABLE", own |-> "none"],
                            !.ch = IF c.chans[c.ch].own = "call" THEN NoChan ELSE @]
  <2>1. ChanRelease(c) = d
    BY <1>3 DEF ChanRelease
  <2>2. Calm(r, c, b) /\ b.ch = c.ch /\ b.chans = c.chans /\ b.ok = c.ok
    <3>1. Calm(r, c, b)
      BY TurnsSelf, TellCalm DEF Calm
    <3>2. b.ch = c.ch /\ b.chans = c.chans /\ b.ok = c.ok
      BY DEF Tell, Shaped, CallFields
    <3> QED BY <3>1, <3>2
  <2> HIDE DEF b
  <2>3. Shaped(b) /\ Fit(r, b)
    BY <2>2, TurnsFacts DEF Calm
  <2>4. /\ d.ch = (IF c.chans[c.ch].own = "call" THEN NoChan ELSE c.ch)
        /\ d.chans = [c.chans EXCEPT ![c.ch] = [st |-> "AVAILABLE", own |-> "none"]]
        /\ d.ok = c.ok
    BY <2>2, <2>3 DEF Shaped, CallFields
  <2>5. c.ch \in Channels
    BY <1>3 DEF Fit
  <2>6. Calm(r, b, d) \/ ~Fit(r, d)
    BY <2>3 DEF Calm, Turns, Shaped, CallFields, Ends, Sent, Typed
  <2> HIDE DEF d
  <2>7. d.chans \in [Channels -> [st : ChanStates, own : Owners]]
    BY <2>4, <2>5 DEF Fit, ChanStates, Owners
  <2>8. ASSUME c.ok, NEW x \in Channels
        PROVE  d.chans[x].own # "call" /\ (r = "NT" => d.ch # x)
    BY <2>4, <2>5, <2>8, ChannelsAssumption DEF Fit, Owned
  <2>9. Fit(r, d)
    <3>1. d.ch \in Channels \cup {NoChan}
      BY <2>4, <2>5
    <3> QED BY <2>4, <2>7, <2>8, <3>1 DEF Fit, Owned
  <2> QED BY <2>1, <2>2, <2>4, <2>6, <2>8, <2>9, TurnsOn DEF Calm
<1> QED BY <1>1, <1>2, <1>3

(* A channel in use may change its state.                                  *)
LEMMA ChanSetCalm ==
  ASSUME NEW r, NEW c, Shaped(c), Fit(r, c), c.ch \in Channels,
         NEW st \in ChanStates \ {"AVAILABLE"},
         st # "MAINTAINANCE" => c.chans[c.ch].own # "none"
  PROVE  Calm(r, c, ChanSet(c, c.ch, st))
<1> DEFINE d == ChanSet(c, c.ch, st)
<1>1. /\ d.ch = c.ch /\ d.ok = c.ok
      /\ d.chans = [c.chans EXCEPT ![c.ch] = [@ EXCEPT !.st = st]]
  BY DEF ChanSet, Shaped, CallFields
<1>2. Calm(r, c, d) \/ ~Fit(r, d)
  BY DEF Calm, Turns, ChanSet, Shaped, CallFields, Ends, Sent, Typed
<1> HIDE DEF d
<1>3. d.chans \in [Channels -> [st : ChanStates, own : Owners]]
  BY <1>1 DEF Fit
<1>4. ASSUME NEW x \in Channels
      PROVE  /\ d.chans[x].own = c.chans[x].own
             /\ d.chans[x].st = IF x = c.ch THEN st ELSE c.chans[x].st
  BY <1>1 DEF Fit
<1>5. Fit(r, d)
  BY <1>1, <1>3, <1>4 DEF Fit, Owned
<1> QED BY <1>2, <1>5 DEF d

(* q931_channel_connect.                                                   *)
LEMMA ChanConnectCalm ==
  ASSUME NEW r, NEW c, Shaped(c), Fit(r, c)
  PROVE  Calm(r, c, ChanConnect(c))
<1>1. CASE c.ch = NoChan \/ c.chans[c.ch].own = "none"
  BY <1>1, AssertCalm DEF ChanConnect
<1>2. CASE ~(c.ch = NoChan \/ c.chans[c.ch].own = "none")
  <2> DEFINE b == ChanSet(c, c.ch, "CONNECTED")
  <2>1. /\ c.ch \in Channels /\ "CONNECTED" \in ChanStates \ {"AVAILABLE"}
        /\ c.chans[c.ch].own # "none"
    BY <1>2 DEF Fit, ChanStates
  <2>2. Calm(r, c, b) /\ Shaped(b)
    BY <2>1, ChanSetCalm, TurnsFacts DEF Calm
  <2> HIDE DEF b
  <2>3. Calm(r, b, Tell(b, "CONNECT_CHANNEL"))
    BY <2>2, TellCalm
  <2>4. ChanConnect(c) \in {c, Tell(b, "CONNECT_CHANNEL")}
    BY <1>2 DEF ChanConnect, b
  <2> QED BY <2>2, <2>3, <2>4, TurnsOn, TurnsSelf DEF Calm
<1> QED BY <1>1, <1>2

(* q931_channel_disconnect.                                                *)
LEMMA ChanDisconnectCalm ==
  ASSUME NEW r, NEW c, Shaped(c), Fit(r, c)
  PROVE  Calm(r, c, ChanDisconnect(c))
<1>1. CASE c.ch = NoChan
  BY <1>1, TurnsSelf DEF ChanDisconnect, Calm
<1>2. CASE c.ch # NoChan /\ c.chans[c.ch].own = "none"
  BY <1>2, AssertCalm DEF ChanDisconnect
<1>3. CASE c.ch # NoChan /\ c.chans[c.ch].own # "none"
  <2> DEFINE b == ChanSet(c, c.ch, "DISCONNECTED")
  <2>1. /\ c.ch \in Channels /\ "DISCONNECTED" \in ChanStates \ {"AVAILABLE"}
        /\ c.chans[c.ch].own # "none"
    BY <1>3 DEF Fit, ChanStates
  <2>2. Calm(r, c, b) /\ Shaped(b)
    BY <2>1, ChanSetCalm, TurnsFacts DEF Calm
  <2> HIDE DEF b
  <2>3. Calm(r, b, Tell(b, "DISCONNECT_CHANNEL"))
    BY <2>2, TellCalm
  <2>4. ChanDisconnect(c) \in {c, Tell(b, "DISCONNECT_CHANNEL")}
    BY <1>3 DEF ChanDisconnect, b
  <2> QED BY <2>2, <2>3, <2>4, TurnsOn, TurnsSelf DEF Calm
<1> QED BY <1>1, <1>2, <1>3

(* A call to which no channel points gets one.                             *)
LEMMA ChanSelectCalm ==
  ASSUME NEW r, NEW c, Shaped(c), Fit(r, c),
         c.ok => \A x \in Channels : c.chans[x].own # "call",
         NEW ch \in Channels, NEW st \in ChanStates, r = "NT" => st # "AVAILABLE"
  PROVE  Calm(r, c, ChanSelect(c, ch, st))
<1> DEFINE d == ChanSelect(c, ch, st)
<1>1. /\ d.ch = ch /\ d.ok = c.ok
      /\ d.chans = [c.chans EXCEPT ![ch] = [st |-> st, own |-> "call"]]
  BY DEF ChanSelect, Shaped, CallFields
<1>2. Calm(r, c, d) \/ ~Fit(r, d)
  BY DEF Calm, Turns, ChanSelect, Shaped, CallFields, Ends, Sent, Typed
<1> HIDE DEF d
<1>3. d.chans \in [Channels -> [st : ChanStates, own : Owners]]
  BY <1>1 DEF Fit, Owners
<1>4. ASSUME c.ok, NEW x \in Channels
      PROVE  /\ d.chans[x].own = "call" => d.ch = x
             /\ r = "NT" /\ d.ch = x =>
                   d.chans[x].own = "call" /\ d.chans[x].st # "AVAILABLE"
  BY <1>1, <1>4 DEF Fit
<1>5. Fit(r, d)
  BY <1>1, <1>3, <1>4 DEF Fit, Owned
<1> QED BY <1>2, <1>5 DEF d

(* The scan for a channel finds one if there is one.                       *)
LEMMA FirstIn ==
  ASSUME NEW chs, chs \subseteq Channels, chs # {}
  PROVE  First(chs) \in chs
<1>1. \E x \in chs : \A o \in chs : x <= o
  <2>1. chs \subseteq Nat
    BY ChannelsAssumption
  <2> QED BY <2>1, LeastNumber
<1> QED BY <1>1 DEF First

(* q931_channel_select_response: the old channel is released before the    *)
(* new one is taken.                                                       *)
LEMMA SelectResponseCalm ==
  ASSUME NEW r, NEW c, Shaped(c), Fit(r, c), NEW m, Selects(c, m),
         m.ci \in (SUBSET Channels) \cup {NoCI}
  PROVE  Calm(r, c, SelectResponse(c, m))
<1>1. CASE m.ci = NoCI
  <2> DEFINE d == [c EXCEPT !.chans[c.ch].own = "call"]
  <2>1. SelectResponse(c, m) = d
    BY <1>1 DEF SelectResponse
  <2>2. c.ch \in Channels
    BY <1>1 DEF Selects, Fit
  <2>3. /\ d.ch = c.ch /\ d.ok = c.ok
        /\ d.chans = [c.chans EXCEPT ![c.ch] = [@ EXCEPT !.own = "call"]]
    BY DEF Shaped, CallFields
  <2>4. Calm(r, c, d) \/ ~Fit(r, d)
    BY DEF Calm, Turns, Shaped, CallFields, Ends, Sent, Typed
  <2> HIDE DEF d
  <2>5. d.chans \in [Channels -> [st : ChanStates, own : Owners]]
    BY <2>2, <2>3 DEF Fit, Owners
  <2>6. ASSUME NEW x \in Channels
        PROVE  /\ d.chans[x].st = c.chans[x].st
               /\ d.chans[x].own = IF x = c.ch THEN "call" ELSE c.chans[x].own
    BY <2>2, <2>3 DEF Fit
  <2>7. Fit(r, d)
    BY <2>2, <2>3, <2>5, <2>6 DEF Fit, Owned
  <2> QED BY <2>1, <2>4, <2>7
<1>2. CASE m.ci # NoCI /\ c.ch \in m.ci
  BY <1>2, TurnsSelf DEF SelectResponse, Calm
<1>3. CASE m.ci # NoCI /\ c.ch \notin m.ci /\ m.ci \cap Available(c) = {}
  BY <1>3, AssertCalm DEF SelectResponse
<1>4. CASE m.ci # NoCI /\ c.ch \notin m.ci /\ m.ci \cap Available(c) # {}
  <2> DEFINE b == ChanRelease(c)
             ch == First(m.ci \cap Available(c))
  <2>1. SelectResponse(c, m) = ChanSelect(b, ch, "SELECTED")
    BY <1>4 DEF SelectResponse
  <2>2. Calm(r, c, b) /\ (b.ok => \A x \in Channels : b.chans[x].own # "call")
    BY ChanReleaseCalm
  <2>3. ch \in Channels
    BY <1>4, FirstIn DEF Available
  <2> HIDE DEF b, ch
  <2>4. Shaped(b) /\ Fit(r, b)
    BY <2>2, TurnsFacts DEF Calm
  <2>5. Calm(r, b, ChanSelect(b, ch, "SELECTED"))
    BY <2>2, <2>3, <2>4, ChanSelectCalm DEF ChanStates
  <2> QED BY <2>1, <2>2, <2>5, TurnsOn DEF Calm
<1> QED BY <1>1, <1>2, <1>3, <1>4


-----------------------------------------------------------------------------
(* One step after what has been done to c so far.                          *)

(* Then a primitive.                                                       *)
LEMMA ThenTell ==
  ASSUME NEW r, NEW c, NEW d, NEW st, NEW tm, NEW li,
         Turns(r, c, d, st, tm, li), NEW p
  PROVE  /\ Turns(r, c, Tell(d, p), st, tm, li)
         /\ p \in EndPrimitives => Ends(Tell(d, p))
  BY TurnsFacts, TellCalm, TurnsOn

(* Then a message.                                                         *)
LEMMA ThenSend ==
  ASSUME NEW r, NEW c, NEW d, NEW st, NEW tm, NEW li,
         Turns(r, c, d, st, tm, li), NEW mt
  PROVE  Turns(r, c, Send(d, mt), st, tm, li) /\ Sent(Send(d, mt))
  BY TurnsFacts, SendCalm, TurnsOn

(* ... with a channel.                                                     *)
LEMMA ThenSendWithChannel ==
  ASSUME NEW r, NEW c, NEW d, NEW st, NEW tm, NEW li,
         Turns(r, c, d, st, tm, li), NEW mt
  PROVE  Turns(r, c, SendWithChannel(d, mt), st, tm, li)
  BY TurnsFacts, SendCalm, TurnsOn

(* ... of any other kind.                                                  *)
LEMMA ThenSendMsg ==
  ASSUME NEW r, NEW c, NEW d, NEW st, NEW tm, NEW li,
         Turns(r, c, d, st, tm, li), NEW m
  PROVE  Turns(r, c, SendMsg(d, m), st, tm, li)
  BY TurnsFacts, SendMsgCalm, TurnsOn

(* Then a STATUS.                                                          *)
LEMMA ThenSendStatus ==
  ASSUME NEW r, NEW c, NEW d, NEW st, NEW tm, NEW li,
         Turns(r, c, d, st, tm, li), NEW s
  PROVE  Turns(r, c, SendStatus(d, s), st, tm, li)
  BY TurnsFacts, SendCalm, TurnsOn

(* Then a message is decoded.                                              *)
LEMMA ThenDecode ==
  ASSUME NEW r, NEW c, NEW d, NEW st, NEW tm, NEW li,
         Turns(r, c, d, st, tm, li), NEW m
  PROVE  Turns(r, c, Decode(d, m), st, tm, li)
  BY TurnsFacts, DecodeCalm, TurnsOn

(* Then a tone.                                                            *)
LEMMA ThenTone ==
  ASSUME NEW r, NEW c, NEW d, NEW st, NEW tm, NEW li,
         Turns(r, c, d, st, tm, li)
  PROVE  Turns(r, c, StartTone(d), st, tm, li) /\ Turns(r, c, StopTone(d), st, tm, li)
  BY TurnsFacts, ToneCalm, TurnsOn

(* Then the channel is released, cut or connected.                         *)
LEMMA ThenChan ==
  ASSUME NEW r, NEW c, NEW d, NEW st, NEW tm, NEW li,
         Turns(r, c, d, st, tm, li), Fit(r, c)
  PROVE  /\ Turns(r, c, ChanRelease(d), st, tm, li)
         /\ Turns(r, c, ChanDisconnect(d), st, tm, li)
         /\ Turns(r, c, ChanConnect(d), st, tm, li)
         /\ Turns(r, c, ChanControl(d), st, tm, li)
  BY TurnsFacts, ChanReleaseCalm, ChanDisconnectCalm, ChanConnectCalm, TurnsOn
  DEF ChanControl

(* Then the channel of an answer is taken.                                 *)
LEMMA ThenSelect ==
  ASSUME NEW r, NEW c, NEW d, NEW st, NEW tm, NEW li,
         Turns(r, c, d, st, tm, li), Fit(r, c), NEW m, Selects(d, m),
         m.ci \in (SUBSET Channels) \cup {NoCI}
  PROVE  Turns(r, c, SelectResponse(d, m), st, tm, li)
  BY TurnsFacts, SelectResponseCalm, TurnsOn

(* Then timers and a state.                                                *)
LEMMA ThenGo ==
  ASSUME NEW r, NEW c, NEW d, NEW st, NEW tm, NEW li,
         Turns(r, c, d, st, tm, li), NEW stop, NEW start, NEW st2
  PROVE  Turns(r, c, Go(d, stop, start, st2), st2, (tm \ stop) \cup start, li)
  BY DEF Turns, Go, Shaped, CallFields, Ends, Sent, Fit, Owned, Typed

(* Then a timer is started.                                                *)
LEMMA ThenStart ==
  ASSUME NEW r, NEW c, NEW d, NEW st, NEW tm, NEW li,
         Turns(r, c, d, st, tm, li), NEW t
  PROVE  Turns(r, c, Start(d, t), st, tm \cup {t}, li)
  BY DEF Turns, Start, Shaped, CallFields, Ends, Sent, Fit, Owned, Typed

(* Then timers are stopped.                                                *)
LEMMA ThenStop ==
  ASSUME NEW r, NEW c, NEW d, NEW st, NEW tm, NEW li,
         Turns(r, c, d, st, tm, li), NEW ts
  PROVE  Turns(r, c, Stop(d, ts), st, tm \ ts, li)
  BY DEF Turns, Stop, Shaped, CallFields, Ends, Sent, Fit, Owned, Typed

(* Then all timers are stopped.                                            *)
LEMMA ThenStopAny ==
  ASSUME NEW r, NEW c, NEW d, NEW st, NEW tm, NEW li,
         Turns(r, c, d, st, tm, li)
  PROVE  Turns(r, c, StopAnyTimer(d), st, {}, li)
  BY DEF Turns, StopAnyTimer, Shaped, CallFields, Ends, Sent, Fit, Owned, Typed

(* Then a state.                                                           *)
LEMMA ThenSetState ==
  ASSUME NEW r, NEW c, NEW d, NEW st, NEW tm, NEW li,
         Turns(r, c, d, st, tm, li), NEW st2
  PROVE  Turns(r, c, SetState(d, st2), st2, tm, li)
  BY DEF Turns, SetState, Shaped, CallFields, Ends, Sent, Fit, Owned, Typed

(* Then off the list.                                                      *)
LEMMA ThenRelease ==
  ASSUME NEW r, NEW c, NEW d, NEW st, NEW tm, NEW li,
         Turns(r, c, d, st, tm, li)
  PROVE  Turns(r, c, ReleaseReference(d), st, tm, FALSE)
  BY DEF Turns, ReleaseReference, Shaped, CallFields, Ends, Sent, Fit, Owned, Typed

(* Then a field the invariant does not speak of.                           *)
LEMMA ThenField ==
  ASSUME NEW r, NEW c, NEW d, NEW st, NEW tm, NEW li,
         Turns(r, c, d, st, tm, li), NEW v \in BOOLEAN, NEW n \in 0..SenqMax
  PROVE  /\ Turns(r, c, [d EXCEPT !.f303 = v], st, tm, li)
         /\ Turns(r, c, [d EXCEPT !.f308 = v], st, tm, li)
         /\ Turns(r, c, [d EXCEPT !.rcr = v], st, tm, li)
         /\ Turns(r, c, [d EXCEPT !.senq = n], st, tm, li)
         /\ Turns(r, c, [d EXCEPT !.dis = v], st, tm, li)
<1>1. /\ Turns(r, c, [d EXCEPT !.f303 = v], st, tm, li)
      /\ Turns(r, c, [d EXCEPT !.f308 = v], st, tm, li)
  BY DEF Turns, Shaped, CallFields, Ends, Sent, Fit, Owned, Typed
<1>2. /\ Turns(r, c, [d EXCEPT !.rcr = v], st, tm, li)
      /\ Turns(r, c, [d EXCEPT !.senq = n], st, tm, li)
  BY DEF Turns, Shaped, CallFields, Ends, Sent, Fit, Owned, Typed
<1>3. Turns(r, c, [d EXCEPT !.dis = v], st, tm, li)
  BY DEF Turns, Shaped, CallFields, Ends, Sent, Fit, Owned, Typed
<1> QED BY <1>1, <1>2, <1>3

(* Then the null state, with the channel freed or not.                     *)
LEMMA ThenNull ==
  ASSUME NEW r, NEW c, NEW d, NEW st, NEW tm, NEW li,
         Turns(r, c, d, st, tm, li), Fit(r, c)
  PROVE  /\ Turns(r, c, ToN0(d), "N0", tm, FALSE)
         /\ Turns(r, c, ToU0(d), "U0", tm, FALSE)
         /\ Turns(r, c, DropU(d), "U0", tm, FALSE)
<1>1. Turns(r, c, ChanRelease(d), st, tm, li)
  BY ThenChan
<1>2. /\ Turns(r, c, SetState(ChanRelease(d), "N0"), "N0", tm, li)
      /\ Turns(r, c, SetState(ChanRelease(d), "U0"), "U0", tm, li)
      /\ Turns(r, c, SetState(d, "U0"), "U0", tm, li)
  BY <1>1, ThenSetState
<1> QED BY <1>2, ThenRelease DEF ToN0, ToU0, DropU

(* Then a DISCONNECT of the network, with a tone and T306 or with the      *)
(* channel cut and T305.                                                   *)
LEMMA ThenDisconnectN ==
  ASSUME NEW r, NEW c, NEW d, NEW st, NEW tm, NEW li,
         Turns(r, c, d, st, tm, li), Fit(r, c)
  PROVE  \E t \in {"T305", "T306"} :
           Turns(r, c, DisconnectN(d), "N12", (tm \ {}) \cup {t}, li)
<1>1. CASE Tones
  <2> DEFINE a == StartTone(Send(d, "DISCONNECT"))
  <2>1. Turns(r, c, a, st, tm, li)
    BY ThenSend, ThenTone
  <2>2. DisconnectN(d) = Go(a, {}, {"T306"}, "N12")
    BY <1>1 DEF DisconnectN
  <2> QED BY <2>1, <2>2, ThenGo
<1>2. CASE ~Tones
  <2> DEFINE a == Send(ChanDisconnect(d), "DISCONNECT")
  <2>1. Turns(r, c, a, st, tm, li)
    BY ThenSend, ThenChan
  <2>2. DisconnectN(d) = Go(a, {}, {"T305"}, "N12")
    BY <1>2 DEF DisconnectN
  <2> QED BY <2>1, <2>2, ThenGo
<1> QED BY <1>1, <1>2


-----------------------------------------------------------------------------
(* Good calls.                                                             *)

(* The states of a call of role r.  A user's call may come to states of    *)
(* the network; N22 is for calls offered by broadcast.                     *)
StatesOf(r) == IF r = "NT" THEN NStates \ {"N22"} ELSE (UStates \cup NStates) \ {"N22"}

(* Its timers.  T319, which would take N15 to U10, is a user's.            *)
TimersOf(r) == IF r = "NT" THEN Timers \ {"T319"} ELSE Timers

(* What holds of the call even after an assertion has failed.              *)
Core(r, c) ==
    /\ r \in {"NT", "TE"}
    /\ Shaped(c) /\ Fit(r, c) /\ Typed(c)
    /\ c.st \in StatesOf(r) /\ c.tm \in SUBSET TimersOf(r)
    /\ c.bc = FALSE /\ c.listed \in BOOLEAN

(* The states in which a call waits for its peer, each with its timer.     *)
Watched(st, tm) ==
    /\ st = "U8" => "T313" \in tm
    /\ st = "U11" => "T305" \in tm
    /\ st = "U17" => "T318" \in tm
    /\ st = "U19" => "T308" \in tm
    /\ st = "N6" => "T303" \in tm
    /\ st = "N7" => "T301" \in tm
    /\ st = "N12" => "T305" \in tm \/ "T306" \in tm
    /\ st = "N19" => "T308" \in tm
    /\ st = "N25" => "T304" \in tm

(* The states a call may be in while its data link is not established.     *)
Off(st, tm) ==
    \/ st \in {"N0", "N6", "N12", "N19", "U0", "U1", "U11", "U15", "U17", "U19"}
    \/ st \in {"U10", "N10"} /\ "T309" \in tm

(* What each state of a listed call means for its timers and its channel;  *)
(* w says that the data link is not established.                           *)
Phase(w, c) ==
    /\ Watched(c.st, c.tm)
    /\ c.st \in NullStates => c.ch = NoChan
    /\ w => Off(c.st, c.tm)

(* A listed call, as a handler finds it.                                   *)
Good(r, w, c) ==
    Core(r, c) /\ c.ok /\ c.listed /\ Phase(w, c) /\ w \in BOOLEAN

(* The states in which a call offered to the CCB may be refused by it.     *)
Refusable == {"U6", "N1", "N15", "N17"}

(* The CCB knows that the call c, now d, is over: it is told, or it has    *)
(* itself refused the call, or the call had not begun.                     *)
Known(c, d) == Ends(d) \/ c.st \in NullStates \/ (c.st \in Refusable /\ Sent(d))

(* What a handler makes of a good call: it goes on in a state that means   *)
(* what it says, or it is off the list, in the null state, and known to    *)
(* be.  A clearing is not undone.                                          *)
After(r, w, c, d) ==
    /\ Core(r, d)
    /\ c.st \in Clearing => d.st \in Clearing \cup NullStates
    /\ d.ok => IF d.listed THEN Phase(w, d) ELSE d.st \in NullStates /\ Known(c, d)

(* What is known of a good call.                                           *)
LEMMA GoodFacts ==
  ASSUME NEW r, NEW w, NEW c, Good(r, w, c)
  PROVE  /\ Shaped(c) /\ Fit(r, c) /\ c.st \in StatesOf(r)
         /\ c.st \in (UStates \cup NStates) \ {"N22"}
         /\ c.tm \in SUBSET TimersOf(r) /\ c.bc = FALSE /\ c.listed = TRUE
         /\ Turns(r, c, c, c.st, c.tm, c.listed)
         /\ Watched(c.st, c.tm) /\ (c.st \in NullStates => c.ch = NoChan)
         /\ (w => Off(c.st, c.tm)) /\ (r = "NT" => c.st \in NStates) /\ Core(r, c)
         /\ r \in {"NT", "TE"}
<1>1. Core(r, c) /\ c.listed = TRUE /\ Phase(w, c)
  BY DEF Good, Core
<1>2. Turns(r, c, c, c.st, c.tm, c.listed)
  BY <1>1, TurnsSelf DEF Core
<1> QED BY <1>1, <1>2 DEF Core, Phase, StatesOf

(* A step into a legal state with legal timers keeps the core.             *)
LEMMA CoreOf ==
  ASSUME NEW r, NEW c, Core(r, c), NEW d, NEW st \in StatesOf(r),
         NEW tm \in SUBSET TimersOf(r), NEW li \in BOOLEAN,
         Turns(r, c, d, st, tm, li)
  PROVE  Core(r, d)
  BY TurnsFacts DEF Core

(* The call goes on in a state other than the null state.                  *)
LEMMA MoveAfter ==
  ASSUME NEW r, NEW w, NEW c, Good(r, w, c), NEW d,
         NEW st \in StatesOf(r) \ NullStates, NEW tm \in SUBSET TimersOf(r),
         Turns(r, c, d, st, tm, c.listed),
         c.st \in Clearing => st \in Clearing, Watched(st, tm), w => Off(st, tm)
  PROVE  After(r, w, c, d)
<1>1. Core(r, c) /\ c.listed \in BOOLEAN
  BY GoodFacts
<1>2. Core(r, d)
  BY <1>1, CoreOf
<1>3. d.st = st /\ d.tm = tm /\ d.listed = c.listed /\ c.listed = TRUE
  BY DEF Good, Core, Turns
<1> QED BY <1>2, <1>3 DEF After, Phase

(* The call stays in its state, and so do the timers that count there.     *)
LEMMA StayAfter ==
  ASSUME NEW r, NEW w, NEW c, Good(r, w, c), NEW d, NEW tm \in SUBSET TimersOf(r),
         Turns(r, c, d, c.st, tm, c.listed), c.st \in NullStates => d.ch = c.ch,
         Watched(c.st, tm), w => Off(c.st, tm)
  PROVE  After(r, w, c, d)
<1>1. Core(r, c) /\ c.listed \in BOOLEAN /\ c.st \in StatesOf(r)
  BY GoodFacts
<1>2. Core(r, d)
  BY <1>1, CoreOf
<1>3. d.st = c.st /\ d.tm = tm /\ d.listed = c.listed /\ c.listed = TRUE
  BY DEF Good, Core, Turns
<1>4. c.st \in NullStates => d.ch = NoChan
  BY GoodFacts
<1> QED BY <1>2, <1>3, <1>4 DEF After, Phase

(* Nothing that matters changes.                                           *)
LEMMA CalmAfter ==
  ASSUME NEW r, NEW w, NEW c, Good(r, w, c), NEW d,
         Turns(r, c, d, c.st, c.tm, c.listed), c.st \in NullStates => d.ch = c.ch
  PROVE  After(r, w, c, d)
  BY GoodFacts, StayAfter

(* Nothing at all changes.                                                 *)
LEMMA SelfAfter ==
  ASSUME NEW r, NEW w, NEW c, Good(r, w, c)
  PROVE  After(r, w, c, c)
  BY GoodFacts, CalmAfter

(* The call is over and known to be.                                       *)
LEMMA OverAfter ==
  ASSUME NEW r, NEW w, NEW c, Good(r, w, c), NEW d,
         NEW st \in NullStates, r = "NT" => st = "N0", NEW tm \in SUBSET TimersOf(r),
         Turns(r, c, d, st, tm, FALSE), Known(c, d)
  PROVE  After(r, w, c, d)
<1>1. st \in StatesOf(r)
  BY DEF StatesOf, NullStates, UStates, NStates
<1>2. Core(r, d)
  BY <1>1, GoodFacts, CoreOf
<1>3. d.st = st /\ d.listed = FALSE
  BY TurnsFacts
<1> QED BY <1>2, <1>3 DEF After

(* Timers stopped and started, a new state, and the CCB told or not.       *)
LEMMA GoAfter ==
  ASSUME NEW r, NEW w, NEW c, Good(r, w, c), NEW d, NEW st,
         NEW tm \in SUBSET TimersOf(r), Turns(r, c, d, st, tm, c.listed),
         NEW stop, NEW start \in SUBSET TimersOf(r),
         NEW st2 \in StatesOf(r) \ NullStates,
         c.st \in Clearing => st2 \in Clearing, Watched(st2, start),
         w => Off(st2, start), NEW p, NEW q
  PROVE  /\ After(r, w, c, Go(d, stop, start, st2))
         /\ After(r, w, c, Tell(Go(d, stop, start, st2), p))
         /\ After(r, w, c, Tell(Tell(Go(d, stop, start, st2), p), q))
<1> DEFINE e == Go(d, stop, start, st2)
           tm2 == (tm \ stop) \cup start
<1>1. Turns(r, c, e, st2, tm2, c.listed)
  BY ThenGo
<1>2. tm2 \in SUBSET TimersOf(r) /\ Watched(st2, tm2) /\ (w => Off(st2, tm2))
  BY DEF Watched, Off
<1> HIDE DEF e, tm2
<1>3. /\ Turns(r, c, Tell(e, p), st2, tm2, c.listed)
      /\ Turns(r, c, Tell(Tell(e, p), q), st2, tm2, c.listed)
  BY <1>1, ThenTell
<1>4. After(r, w, c, e) /\ After(r, w, c, Tell(e, p)) /\ After(r, w, c, Tell(Tell(e, p), q))
  BY <1>1, <1>2, <1>3, MoveAfter
<1> QED BY <1>4 DEF e

(* Back to the null state, and the CCB is told.                            *)
LEMMA NullAfter ==
  ASSUME NEW r, NEW w, NEW c, Good(r, w, c), NEW d, NEW st,
         NEW tm \in SUBSET TimersOf(r), NEW li, Turns(r, c, d, st, tm, li),
         NEW p \in EndPrimitives, NEW q \in EndPrimitives
  PROVE  /\ After(r, w, c, Tell(ToN0(d), p))
         /\ After(r, w, c, Tell(Tell(ToN0(d), q), p))
         /\ r # "NT" => /\ After(r, w, c, Tell(ToU0(d), p))
                        /\ After(r, w, c, Tell(DropU(d), p))
<1> DEFINE e == ToN0(d)
           f == ToU0(d)
           g == DropU(d)
<1>1. /\ Turns(r, c, e, "N0", tm, FALSE) /\ Turns(r, c, f, "U0", tm, FALSE)
      /\ Turns(r, c, g, "U0", tm, FALSE)
  BY GoodFacts, ThenNull
<1> HIDE DEF e, f, g
<1>2. Turns(r, c, Tell(e, p), "N0", tm, FALSE) /\ Ends(Tell(e, p))
  BY <1>1, ThenTell
<1>3. Turns(r, c, Tell(e, q), "N0", tm, FALSE)
  BY <1>1, ThenTell
<1>4. Turns(r, c, Tell(Tell(e, q), p), "N0", tm, FALSE) /\ Ends(Tell(Tell(e, q), p))
  BY <1>3, ThenTell
<1>5. Turns(r, c, Tell(f, p), "U0", tm, FALSE) /\ Ends(Tell(f, p))
  BY <1>1, ThenTell
<1>6. Turns(r, c, Tell(g, p), "U0", tm, FALSE) /\ Ends(Tell(g, p))
  BY <1>1, ThenTell
<1>7. "N0" \in NullStates /\ "U0" \in NullStates
  BY DEF NullStates
<1>8. After(r, w, c, Tell(e, p)) /\ After(r, w, c, Tell(Tell(e, q), p))
  BY <1>2, <1>4, <1>7, OverAfter DEF Known
<1>9. r # "NT" => After(r, w, c, Tell(f, p)) /\ After(r, w, c, Tell(g, p))
  BY <1>5, <1>6, <1>7, OverAfter DEF Known
<1> QED BY <1>8, <1>9 DEF e, f, g

(* Back to the null state because the CCB has refused the call.            *)
LEMMA RefusedAfter ==
  ASSUME NEW r, NEW w, NEW c, Good(r, w, c), NEW d, NEW st,
         NEW tm \in SUBSET TimersOf(r), NEW li, Turns(r, c, d, st, tm, li),
         c.st \in Refusable \cup NullStates, NEW mt
  PROVE  /\ After(r, w, c, ToN0(Send(d, mt)))
         /\ After(r, w, c, SetState(ReleaseReference(Send(d, mt)), "N0"))
         /\ r # "NT" => After(r, w, c, DropU(Send(d, mt)))
<1> DEFINE e == Send(d, mt)
<1>1. Turns(r, c, e, st, tm, li) /\ Sent(e)
  BY ThenSend
<1> HIDE DEF e
<1>2. Turns(r, e, e, e.st, e.tm, e.listed) /\ e.tm = tm /\ Fit(r, e) /\ Fit(r, c)
  <2>1. Fit(r, c)
    BY DEF Good, Core
  <2>2. Shaped(e) /\ e.tm = tm /\ Fit(r, e)
    BY <1>1, <2>1 DEF Turns
  <2> QED BY <2>1, <2>2, TurnsSelf
<1>3. /\ Turns(r, e, ToN0(e), "N0", tm, FALSE) /\ Turns(r, e, DropU(e), "U0", tm, FALSE)
      /\ Turns(r, e, SetState(ReleaseReference(e), "N0"), "N0", tm, FALSE)
  <2>1. Turns(r, e, ToN0(e), "N0", tm, FALSE) /\ Turns(r, e, DropU(e), "U0", tm, FALSE)
    BY <1>2, ThenNull
  <2>2. Turns(r, e, ReleaseReference(e), e.st, tm, FALSE)
    BY <1>2, ThenRelease
  <2> QED BY <2>1, <2>2, ThenSetState
<1>4. Sent(ToN0(e)) /\ Sent(DropU(e)) /\ Sent(SetState(ReleaseReference(e), "N0"))
  BY <1>1, <1>3, TurnsFacts
<1>5. /\ Turns(r, c, ToN0(e), "N0", tm, FALSE) /\ Turns(r, c, DropU(e), "U0", tm, FALSE)
      /\ Turns(r, c, SetState(ReleaseReference(e), "N0"), "N0", tm, FALSE)
  BY <1>1, <1>3, TurnsTwice
<1>6. "N0" \in NullStates /\ "U0" \in NullStates
  BY DEF NullStates
<1>7. /\ After(r, w, c, ToN0(e)) /\ After(r, w, c, SetState(ReleaseReference(e), "N0"))
      /\ r # "NT" => After(r, w, c, DropU(e))
  BY <1>4, <1>5, <1>6, OverAfter DEF Known
<1> QED BY <1>7 DEF e


(* More timers do no harm.                                                 *)
LEMMA MoreTimers ==
  ASSUME NEW r, NEW w, NEW c, Good(r, w, c), NEW X \in SUBSET (Timers \ {"T319"})
  PROVE  /\ c.tm \cup X \in SUBSET TimersOf(r) /\ Watched(c.st, c.tm \cup X)
         /\ w => Off(c.st, c.tm \cup X)
<1>1. c.tm \in SUBSET TimersOf(r) /\ Watched(c.st, c.tm) /\ (w => Off(c.st, c.tm))
  BY GoodFacts
<1>2. c.tm \cup X \in SUBSET TimersOf(r)
  BY <1>1 DEF TimersOf
<1>3. Watched(c.st, c.tm \cup X)
  BY <1>1 DEF Watched
<1>4. w => Off(c.st, c.tm \cup X)
  BY <1>1 DEF Off
<1> QED BY <1>2, <1>3, <1>4

(* A call goes to a state of the network.                                  *)
LEMMA GoN ==
  ASSUME NEW r, NEW w, NEW c, Good(r, w, c), NEW d, NEW st,
         NEW tm \in SUBSET TimersOf(r), Turns(r, c, d, st, tm, c.listed),
         NEW stop, NEW start \in SUBSET (Timers \ {"T319"}),
         NEW st2 \in NStates \ {"N0", "N22"},
         c.st \in Clearing => st2 \in Clearing, Watched(st2, start),
         w => Off(st2, start), NEW p, NEW q
  PROVE  /\ After(r, w, c, Go(d, stop, start, st2))
         /\ After(r, w, c, Tell(Go(d, stop, start, st2), p))
         /\ After(r, w, c, Tell(Tell(Go(d, stop, start, st2), p), q))
<1>1. st2 \in StatesOf(r) \ NullStates /\ start \in SUBSET TimersOf(r)
  BY DEF StatesOf, NullStates, TimersOf, NStates, UStates
<1> QED BY <1>1, GoAfter

(* A call of a user goes to a state of a user.                             *)
LEMMA GoU ==
  ASSUME NEW r, NEW w, NEW c, Good(r, w, c), r # "NT", NEW d, NEW st,
         NEW tm \in SUBSET TimersOf(r), Turns(r, c, d, st, tm, c.listed),
         NEW stop, NEW start \in SUBSET Timers,
         NEW st2 \in UStates \ {"U0"},
         c.st \in Clearing => st2 \in Clearing, Watched(st2, start),
         w => Off(st2, start), NEW p, NEW q
  PROVE  /\ After(r, w, c, Go(d, stop, start, st2))
         /\ After(r, w, c, Tell(Go(d, stop, start, st2), p))
         /\ After(r, w, c, Tell(Tell(Go(d, stop, start, st2), p), q))
<1>1. st2 \in StatesOf(r) \ NullStates /\ start \in SUBSET TimersOf(r)
  BY DEF StatesOf, NullStates, TimersOf, NStates, UStates
<1> QED BY <1>1, GoAfter

(* A RELEASE is sent, under T308.                                          *)
LEMMA ReleasingAfter ==
  ASSUME NEW r, NEW w, NEW c, Good(r, w, c), NEW d, NEW st,
         NEW tm \in SUBSET TimersOf(r), Turns(r, c, d, st, tm, c.listed),
         NEW stop, NEW p, NEW q, NEW s
  PROVE  /\ After(r, w, c, Go(d, stop, {"T308"}, "N19"))
         /\ After(r, w, c, Tell(Go(d, stop, {"T308"}, "N19"), p))
         /\ After(r, w, c, Tell(Tell(Go(d, stop, {"T308"}, "N19"), p), q))
         /\ After(r, w, c, SendStatus(Go(d, stop, {"T308"}, "N19"), s))
<1>1. /\ {"T308"} \in SUBSET (Timers \ {"T319"}) /\ "N19" \in NStates \ {"N0", "N22"}
      /\ "N19" \in Clearing /\ Watched("N19", {"T308"}) /\ Off("N19", {"T308"})
  BY DEF Timers, NStates, Clearing, Watched, Off
<1>2. /\ After(r, w, c, Go(d, stop, {"T308"}, "N19"))
      /\ After(r, w, c, Tell(Go(d, stop, {"T308"}, "N19"), p))
      /\ After(r, w, c, Tell(Tell(Go(d, stop, {"T308"}, "N19"), p), q))
  BY <1>1, GoN
<1>3. After(r, w, c, SendStatus(Go(d, stop, {"T308"}, "N19"), s))
  <2> DEFINE e == Go(d, stop, {"T308"}, "N19")
             tm2 == (tm \ stop) \cup {"T308"}
  <2>1. Turns(r, c, e, "N19", tm2, c.listed)
    BY ThenGo
  <2>2. /\ tm2 \in SUBSET TimersOf(r) /\ "N19" \in StatesOf(r) \ NullStates
        /\ Watched("N19", tm2) /\ Off("N19", tm2)
    BY <1>1 DEF Watched, Off, TimersOf, StatesOf, NullStates
  <2> HIDE DEF e, tm2
  <2>3. Turns(r, c, SendStatus(e, s), "N19", tm2, c.listed)
    BY <2>1, ThenSendStatus
  <2>4. After(r, w, c, SendStatus(e, s))
    BY <1>1, <2>2, <2>3, MoveAfter
  <2> QED BY <2>4 DEF e
<1> QED BY <1>2, <1>3

(* ... by a user.                                                          *)
LEMMA ReleaseUAfter ==
  ASSUME NEW r, NEW w, NEW c, Good(r, w, c), r # "NT", NEW d, NEW st,
         NEW tm \in SUBSET TimersOf(r), Turns(r, c, d, st, tm, c.listed),
         NEW stop, NEW p, NEW q
  PROVE  /\ After(r, w, c, ReleaseU(d, stop))
         /\ After(r, w, c, Tell(ReleaseU(d, stop), p))
         /\ After(r, w, c, Tell(Tell(ReleaseU(d, stop), p), q))
<1>1. /\ {"T308"} \in SUBSET Timers /\ "U19" \in UStates \ {"U0"}
      /\ "U19" \in Clearing /\ Watched("U19", {"T308"}) /\ Off("U19", {"T308"})
  BY DEF Timers, UStates, Clearing, Watched, Off
<1>2. Turns(r, c, Send(d, "RELEASE"), st, tm, c.listed)
  BY ThenSend
<1> QED BY <1>1, <1>2, GoU DEF ReleaseU

(* A DISCONNECT is sent by a user, under T305.                             *)
LEMMA DisconnectUAfter ==
  ASSUME NEW r, NEW w, NEW c, Good(r, w, c), r # "NT", NEW d, NEW st,
         NEW tm \in SUBSET TimersOf(r), Turns(r, c, d, st, tm, c.listed),
         NEW stop, NEW p
  PROVE  /\ After(r, w, c, DisconnectU(d, stop))
         /\ After(r, w, c, Tell(DisconnectU(d, stop), p))
         /\ After(r, w, c, Go(Send(d, "DISCONNECT"), stop, {"T305"}, "U11"))
         /\ After(r, w, c, Tell(Go(Send(ChanRelease(d), "DISCONNECT"), stop,
                                   {"T305"}, "U11"), p))
<1>1. /\ {"T305"} \in SUBSET Timers /\ "U11" \in UStates \ {"U0"}
      /\ "U11" \in Clearing /\ Watched("U11", {"T305"}) /\ Off("U11", {"T305"})
  BY DEF Timers, UStates, Clearing, Watched, Off
<1>2. Fit(r, c)
  BY GoodFacts
<1>3. /\ Turns(r, c, ChanDisconnect(d), st, tm, c.listed)
      /\ Turns(r, c, ChanRelease(d), st, tm, c.listed)
  BY <1>2, ThenChan
<1>4. /\ Turns(r, c, Send(ChanDisconnect(d), "DISCONNECT"), st, tm, c.listed)
      /\ Turns(r, c, Send(ChanRelease(d), "DISCONNECT"), st, tm, c.listed)
      /\ Turns(r, c, Send(d, "DISCONNECT"), st, tm, c.listed)
  BY <1>3, ThenSend
<1> QED BY <1>1, <1>4, GoU DEF DisconnectU

(* A DISCONNECT is sent by the network, under T305 or T306.                *)
LEMMA DisconnectingAfter ==
  ASSUME NEW r, NEW w, NEW c, Good(r, w, c), NEW d, NEW st,
         NEW tm \in SUBSET TimersOf(r), Turns(r, c, d, st, tm, c.listed),
         NEW stop, NEW p
  PROVE  /\ After(r, w, c, DisconnectN(d))
         /\ After(r, w, c, Tell(DisconnectN(d), p))
         /\ After(r, w, c, Go(d, stop, {"T305"}, "N12"))
         /\ After(r, w, c, Tell(Go(d, stop, {"T305"}, "N12"), p))
         /\ After(r, w, c, ChanRelease(Go(d, stop, {"T305"}, "N12")))
         /\ After(r, w, c, ChanDisconnect(Go(d, stop, {"T305"}, "N12")))
<1>1. /\ {"T305", "T306"} \in SUBSET (Timers \ {"T319"})
      /\ "N12" \in NStates \ {"N0", "N22"} /\ "N12" \in Clearing
      /\ Watched("N12", {"T305"}) /\ Off("N12", {"T305"})
      /\ "N12" \in StatesOf(r) \ NullStates /\ {"T305", "T306"} \in SUBSET TimersOf(r)
  BY DEF Timers, NStates, Clearing, Watched, Off, StatesOf, NullStates, TimersOf
<1>2. /\ After(r, w, c, Go(d, stop, {"T305"}, "N12"))
      /\ After(r, w, c, Tell(Go(d, stop, {"T305"}, "N12"), p))
  BY <1>1, GoN
<1>3. Fit(r, c)
  BY GoodFacts
<1>4. /\ After(r, w, c, ChanRelease(Go(d, stop, {"T305"}, "N12")))
      /\ After(r, w, c, ChanDisconnect(Go(d, stop, {"T305"}, "N12")))
  <2> DEFINE e == Go(d, stop, {"T305"}, "N12")
             tm2 == (tm \ stop) \cup {"T305"}
  <2>1. Turns(r, c, e, "N12", tm2, c.listed)
    BY ThenGo
  <2>2. tm2 \in SUBSET TimersOf(r) /\ Watched("N12", tm2) /\ Off("N12", tm2)
    BY <1>1 DEF Watched, Off
  <2> HIDE DEF e, tm2
  <2>3. /\ Turns(r, c, ChanRelease(e), "N12", tm2, c.listed)
        /\ Turns(r, c, ChanDisconnect(e), "N12", tm2, c.listed)
    BY <1>3, <2>1, ThenChan
  <2>4. After(r, w, c, ChanRelease(e)) /\ After(r, w, c, ChanDisconnect(e))
    BY <1>1, <2>2, <2>3, MoveAfter
  <2> QED BY <2>4 DEF e
<1>5. After(r, w, c, DisconnectN(d)) /\ After(r, w, c, Tell(DisconnectN(d), p))
  <2> DEFINE e == DisconnectN(d)
  <2>1. PICK t \in {"T305", "T306"} :
          Turns(r, c, e, "N12", (tm \ {}) \cup {t}, c.listed)
    BY <1>3, ThenDisconnectN
  <2> DEFINE tm2 == (tm \ {}) \cup {t}
  <2>2. tm2 \in SUBSET TimersOf(r) /\ Watched("N12", tm2) /\ Off("N12", tm2)
    BY <1>1 DEF Watched, Off
  <2> HIDE DEF e, tm2
  <2>3. /\ Turns(r, c, e, "N12", tm2, c.listed)
        /\ Turns(r, c, Tell(e, p), "N12", tm2, c.listed)
    BY <2>1, ThenTell DEF tm2
  <2>4. After(r, w, c, e) /\ After(r, w, c, Tell(e, p))
    BY <1>1, <2>2, <2>3, MoveAfter
  <2> QED BY <2>4 DEF e
<1> QED BY <1>2, <1>4, <1>5


-----------------------------------------------------------------------------
(* Requests of the CCB to a call in a network state.                       *)

(* A message that changes nothing.                                         *)
LEMMA SendAfter ==
  ASSUME NEW r, NEW w, NEW c, Good(r, w, c), NEW mt, NEW s
  PROVE  After(r, w, c, Send(c, mt)) /\ After(r, w, c, SendStatus(c, s))
<1>1. Shaped(c) /\ Turns(r, c, c, c.st, c.tm, c.listed)
  BY GoodFacts
<1>2. Send(c, mt).ch = c.ch /\ SendStatus(c, s).ch = c.ch
  BY <1>1, SendCalm
<1>3. Turns(r, c, Send(c, mt), c.st, c.tm, c.listed)
  BY <1>1, ThenSend
<1>4. Turns(r, c, SendStatus(c, s), c.st, c.tm, c.listed)
  BY <1>1, ThenSendStatus
<1> QED BY <1>2, <1>3, <1>4, CalmAfter

(* q931_info_request, q931_notify_request and q931_progress_request.       *)
LEMMA N_InfoAfter ==
  ASSUME NEW r, NEW w, NEW c, Good(r, w, c)
  PROVE  /\ After(r, w, c, N_info_request(c)) /\ After(r, w, c, N_notify_request(c))
         /\ After(r, w, c, N_progress_request(c))
  BY SelfAfter, SendAfter DEF N_info_request, N_notify_request, N_progress_request

(* q931_alerting_request and q931_setup_response.                          *)
LEMMA N_AlertingAfter ==
  ASSUME NEW r, NEW w, NEW c, Good(r, w, c)
  PROVE  /\ After(r, w, c, N_alerting_request(c))
         /\ After(r, w, c, N_setup_response(c))
<1> DEFINE stop == IF c.st = "N2" THEN {"T302"} ELSE {}
<1>1. CASE c.st \in {"N2", "N3", "N4"}
  <2>1. /\ Turns(r, c, Send(c, "ALERTING"), c.st, c.tm, c.listed)
        /\ Turns(r, c, Send(c, "CONNECT"), c.st, c.tm, c.listed)
    BY GoodFacts, ThenSend
  <2>2. ~w /\ c.st \notin Clearing /\ c.tm \in SUBSET TimersOf(r)
    BY <1>1, GoodFacts DEF Off, Clearing, Good
  <2>3. /\ {} \in SUBSET (Timers \ {"T319"}) /\ {"N4", "N10"} \subseteq NStates \ {"N0", "N22"}
        /\ Watched("N4", {}) /\ Watched("N10", {})
    BY DEF Watched, NStates
  <2>4. /\ After(r, w, c, Go(Send(c, "ALERTING"), stop, {}, "N4"))
        /\ After(r, w, c, Go(Send(c, "CONNECT"), stop, {}, "N10"))
    BY <2>1, <2>2, <2>3, GoN
  <2> QED BY <1>1, <2>4, SelfAfter DEF N_alerting_request, N_setup_response
<1>2. CASE c.st \notin {"N2", "N3", "N4"}
  BY <1>2, SelfAfter DEF N_alerting_request, N_setup_response
<1> QED BY <1>1, <1>2

(* Only the dis flag differs.                                              *)
LEMMA DisGood ==
  ASSUME NEW r, NEW w, NEW c, Good(r, w, c)
  PROVE  LET d == [c EXCEPT !.dis = TRUE]
         IN  /\ Good(r, w, d) /\ d.st = c.st
             /\ \A e : After(r, w, d, e) => After(r, w, c, e)
<1> DEFINE d == [c EXCEPT !.dis = TRUE]
<1>1. Turns(r, c, d, c.st, c.tm, c.listed) /\ d.ch = c.ch /\ d.ok = c.ok
  <2>1. Shaped(c) /\ Turns(r, c, c, c.st, c.tm, c.listed)
    BY GoodFacts
  <2>2. 0 \in 0..SenqMax
    BY SenqAssumption
  <2>3. Turns(r, c, d, c.st, c.tm, c.listed)
    BY <2>1, <2>2, ThenField
  <2> QED BY <2>1, <2>3 DEF Shaped, CallFields
<1> HIDE DEF d
<1>2. /\ Core(r, c) /\ c.st \in StatesOf(r) /\ c.tm \in SUBSET TimersOf(r)
      /\ c.listed \in BOOLEAN
  BY GoodFacts
<1>3. Core(r, d) /\ d.st = c.st /\ d.tm = c.tm /\ d.listed = c.listed
  BY <1>1, <1>2, CoreOf, TurnsFacts
<1>4. Good(r, w, d)
  BY <1>1, <1>3 DEF Good, Phase
<1>5. ASSUME NEW e, After(r, w, d, e)
      PROVE  After(r, w, c, e)
  BY <1>3, <1>5 DEF After, Known
<1> QED BY <1>3, <1>4, <1>5 DEF d

(* q931_disconnect_request.                                                *)
LEMMA N_DisconnectAfter ==
  ASSUME NEW r, NEW w, NEW c0, Good(r, w, c0)
  PROVE  After(r, w, c0, N_disconnect_request(c0))
<1> DEFINE c == [c0 EXCEPT !.dis = TRUE]
           S == [N2 |-> {"T302"}, N6 |-> {"T303"}, N7 |-> {"T301"},
                 N8 |-> {}, N9 |-> {"T310"}, N25 |-> {"T304"}]
           d == N_disconnect_request(c0)
           g == Go(Send(c, "DISCONNECT"), S[c.st], {"T305"}, "N12")
<1>1. Good(r, w, c) /\ (After(r, w, c, d) => After(r, w, c0, d))
  BY DisGood
<1>2. c.bc = FALSE /\ c.tm \in SUBSET TimersOf(r)
      /\ Turns(r, c, c, c.st, c.tm, c.listed)
  BY <1>1, GoodFacts
<1>3. d = CASE c.st \in {"N3", "N4", "N10", "N15"} -> DisconnectN(c)
            [] c.st = "N2" -> DisconnectN(Stop(c, {"T302"}))
            [] c.st = "N6" -> DisconnectN(Stop(c, {"T303"}))
            [] c.st = "N9" -> ChanRelease(g)
            [] c.st = "N25" -> ChanDisconnect(g)
            [] c.st \in {"N7", "N8"} -> g
            [] OTHER -> c
  BY <1>2 DEF N_disconnect_request
<1> SUFFICES After(r, w, c, d)
  BY <1>1
<1> HIDE DEF c, d, S
<1>4. /\ Turns(r, c, Stop(c, {"T302"}), c.st, c.tm \ {"T302"}, c.listed)
      /\ Turns(r, c, Stop(c, {"T303"}), c.st, c.tm \ {"T303"}, c.listed)
  BY <1>2, ThenStop
<1>5. /\ After(r, w, c, DisconnectN(c)) /\ After(r, w, c, DisconnectN(Stop(c, {"T302"})))
      /\ After(r, w, c, DisconnectN(Stop(c, {"T303"})))
  <2>1. c.tm \ {"T302"} \in SUBSET TimersOf(r) /\ c.tm \ {"T303"} \in SUBSET TimersOf(r)
    BY <1>2
  <2> QED BY <1>1, <1>2, <1>4, <2>1, DisconnectingAfter
<1>6. /\ After(r, w, c, g) /\ After(r, w, c, ChanRelease(g))
      /\ After(r, w, c, ChanDisconnect(g))
  <2>1. Turns(r, c, Send(c, "DISCONNECT"), c.st, c.tm, c.listed)
    BY <1>2, ThenSend
  <2> QED BY <1>1, <1>2, <2>1, DisconnectingAfter
<1> HIDE DEF g
<1> QED BY <1>1, <1>3, <1>5, <1>6, SelfAfter

(* q931_more_info_request.                                                 *)
LEMMA N_MoreInfoAfter ==
  ASSUME NEW r, NEW w, NEW c, Good(r, w, c)
  PROVE  After(r, w, c, N_more_info_request(c))
<1>1. CASE c.st = "N1"
  <2> DEFINE d == ChanConnect(SendWithChannel(c, "SETUP_ACKNOWLEDGE"))
             e == IF Tones THEN StartTone(d) ELSE d
  <2>1. Turns(r, c, SendWithChannel(c, "SETUP_ACKNOWLEDGE"), c.st, c.tm, c.listed)
    BY GoodFacts, ThenSendWithChannel
  <2>2. Fit(r, c)
    BY GoodFacts
  <2>3. Turns(r, c, d, c.st, c.tm, c.listed)
    BY <2>1, <2>2, ThenChan
  <2> HIDE DEF d
  <2>4. Turns(r, c, e, c.st, c.tm, c.listed)
    BY <2>3, ThenTone
  <2>5. ~w /\ c.st \notin Clearing /\ c.tm \in SUBSET TimersOf(r)
    BY <1>1, GoodFacts DEF Off, Clearing, Good
  <2>6. /\ {"T302"} \in SUBSET (Timers \ {"T319"}) /\ "N2" \in NStates \ {"N0", "N22"}
        /\ Watched("N2", {"T302"})
    BY DEF Watched, NStates, Timers
  <2> HIDE DEF e
  <2>7. After(r, w, c, Go(e, {}, {"T302"}, "N2"))
    BY <2>4, <2>5, <2>6, GoN
  <2> QED BY <1>1, <2>7 DEF N_more_info_request, d, e
<1>2. CASE c.st = "N25"
  <2> DEFINE tm == c.tm \cup {"T304"}
  <2>1. Turns(r, c, Start(Send(c, "INFORMATION"), "T304"), c.st, tm, c.listed)
    BY GoodFacts, ThenSend, ThenStart
  <2>2. /\ tm \in SUBSET TimersOf(r) /\ Watched(c.st, tm) /\ ~w
        /\ c.st \notin NullStates /\ c.bc = FALSE
    <3>1. {"T304"} \in SUBSET (Timers \ {"T319"})
      BY DEF Timers
    <3>2. tm \in SUBSET TimersOf(r) /\ Watched(c.st, tm)
      BY <3>1, MoreTimers
    <3>3. ~w /\ c.st \notin NullStates /\ c.bc = FALSE
      BY <1>2, GoodFacts DEF Off, Good, NullStates
    <3> QED BY <3>2, <3>3
  <2> HIDE DEF tm
  <2>3. After(r, w, c, Start(Send(c, "INFORMATION"), "T304"))
    BY <2>1, <2>2, StayAfter
  <2> QED BY <1>2, <2>2, <2>3 DEF N_more_info_request
<1>3. CASE c.st \notin {"N1", "N25"}
  BY <1>3, SelfAfter DEF N_more_info_request
<1> QED BY <1>1, <1>2, <1>3

(* q931_proceeding_request.                                                *)
LEMMA N_ProceedingAfter ==
  ASSUME NEW r, NEW w, NEW c, Good(r, w, c)
  PROVE  After(r, w, c, N_proceeding_request(c))
<1>0. /\ {} \in SUBSET (Timers \ {"T319"}) /\ "N3" \in NStates \ {"N0", "N22"}
      /\ Watched("N3", {}) /\ Watched("N3", c.tm) /\ "N3" \in StatesOf(r) \ NullStates
  BY DEF Watched, NStates, StatesOf, NullStates
<1>1. CASE c.st = "N1"
  <2> DEFINE d == SetState(ChanConnect(SendWithChannel(c, "CALL_PROCEEDING")), "N3")
  <2>1. Turns(r, c, SendWithChannel(c, "CALL_PROCEEDING"), c.st, c.tm, c.listed)
    BY GoodFacts, ThenSendWithChannel
  <2>2. Fit(r, c)
    BY GoodFacts
  <2>3. Turns(r, c, d, "N3", c.tm, c.listed)
    BY <2>1, <2>2, ThenChan, ThenSetState
  <2>4. ~w /\ c.st \notin Clearing /\ c.tm \in SUBSET TimersOf(r)
    BY <1>1, GoodFacts DEF Off, Clearing, Good
  <2> HIDE DEF d
  <2>5. After(r, w, c, d)
    BY <1>0, <2>3, <2>4, MoveAfter
  <2> QED BY <1>1, <2>5 DEF N_proceeding_request, d
<1>2. CASE c.st = "N2"
  <2>1. Turns(r, c, Send(c, "CALL_PROCEEDING"), c.st, c.tm, c.listed)
    BY GoodFacts, ThenSend
  <2>2. ~w /\ c.st \notin Clearing /\ c.tm \in SUBSET TimersOf(r)
    BY <1>2, GoodFacts DEF Off, Clearing, Good
  <2>3. After(r, w, c, Go(Send(c, "CALL_PROCEEDING"), {"T302"}, {}, "N3"))
    BY <1>0, <2>1, <2>2, GoN
  <2> QED BY <1>2, <2>3 DEF N_proceeding_request
<1>3. CASE c.st \notin {"N1", "N2"}
  BY <1>3, SelfAfter DEF N_proceeding_request
<1> QED BY <1>1, <1>2, <1>3

(* q931_reject_request, q931_resume_reject_request and                     *)
(* q931_suspend_response: the CCB lets go of the call.                     *)
LEMMA N_RejectAfter ==
  ASSUME NEW r, NEW w, NEW c, Good(r, w, c)
  PROVE  /\ After(r, w, c, N_reject_request(c))
         /\ After(r, w, c, N_resume_reject_request(c))
         /\ After(r, w, c, N_suspend_response(c))
<1>1. CASE c.st \in {"N1", "N15", "N17"}
  <2>1. /\ c.st \in Refusable \cup NullStates /\ c.tm \in SUBSET TimersOf(r)
        /\ Turns(r, c, c, c.st, c.tm, c.listed)
    BY <1>1, GoodFacts DEF Refusable
  <2>2. /\ After(r, w, c, ToN0(Send(c, "RELEASE_COMPLETE")))
        /\ After(r, w, c, SetState(ReleaseReference(Send(c, "RESUME_REJECT")), "N0"))
        /\ After(r, w, c, SetState(ReleaseReference(Send(c, "SUSPEND_ACKNOWLEDGE")), "N0"))
    BY <2>1, RefusedAfter
  <2> QED BY <2>2, SelfAfter DEF N_reject_request, N_resume_reject_request,
             N_suspend_response
<1>2. CASE c.st \notin {"N1", "N15", "N17"}
  BY <1>2, SelfAfter DEF N_reject_request, N_resume_reject_request, N_suspend_response
<1> QED BY <1>1, <1>2

(* q931_release_request.                                                   *)
LEMMA N_ReleaseAfter ==
  ASSUME NEW r, NEW w, NEW c, Good(r, w, c)
  PROVE  After(r, w, c, N_release_request(c))
<1>1. c.tm \in SUBSET TimersOf(r) /\ Turns(r, c, c, c.st, c.tm, c.listed)
  BY GoodFacts
<1>2. Turns(r, c, Send(c, "RELEASE"), c.st, c.tm, c.listed)
  BY <1>1, ThenSend
<1>3. After(r, w, c, Go(Send(c, "RELEASE"), {}, {"T308"}, "N19"))
  BY <1>1, <1>2, ReleasingAfter
<1> QED BY <1>3, SelfAfter DEF N_release_request

(* q931_resume_response and q931_suspend_reject_request: the call is       *)
(* active.                                                                 *)
LEMMA N_ResumeAfter ==
  ASSUME NEW r, NEW w, NEW c, Good(r, w, c)
  PROVE  /\ After(r, w, c, N_resume_response(c))
         /\ After(r, w, c, N_suspend_reject_request(c))
<1>1. CASE c.st \in {"N15", "N17"}
  <2>1. /\ Turns(r, c, SetState(Send(c, "RESUME_ACKNOWLEDGE"), "N10"), "N10", c.tm, c.listed)
        /\ Turns(r, c, SetState(Send(c, "SUSPEND_REJECT"), "N10"), "N10", c.tm, c.listed)
    BY GoodFacts, ThenSend, ThenSetState
  <2>2. ~w /\ c.st \notin Clearing /\ c.tm \in SUBSET TimersOf(r)
    BY <1>1, GoodFacts DEF Off, Clearing, Good
  <2>3. Watched("N10", c.tm) /\ "N10" \in StatesOf(r) \ NullStates
    BY DEF Watched, NStates, StatesOf, NullStates
  <2>4. /\ After(r, w, c, SetState(Send(c, "RESUME_ACKNOWLEDGE"), "N10"))
        /\ After(r, w, c, SetState(Send(c, "SUSPEND_REJECT"), "N10"))
    BY <2>1, <2>2, <2>3, MoveAfter
  <2> QED BY <2>4, SelfAfter DEF N_resume_response, N_suspend_reject_request
<1>2. CASE c.st \notin {"N15", "N17"}
  BY <1>2, SelfAfter DEF N_resume_response, N_suspend_reject_request
<1> QED BY <1>1, <1>2

(* q931_setup_complete_request.                                            *)
LEMMA N_SetupCompleteAfter ==
  ASSUME NEW r, NEW w, NEW c, Good(r, w, c)
  PROVE  After(r, w, c, N_setup_complete_request(c))
<1>1. CASE c.st = "N8"
  <2> DEFINE d == ChanConnect(c)
             e == SetState(Send(d, "CONNECT_ACKNOWLEDGE"), "N10")
  <2>1. Fit(r, c) /\ Turns(r, c, c, c.st, c.tm, c.listed) /\ c.bc = FALSE
    BY GoodFacts
  <2>2. Turns(r, c, d, c.st, c.tm, c.listed)
    BY <2>1, ThenChan
  <2>3. d.bc = FALSE
    BY <2>1, <2>2, TurnsFacts
  <2>4. N_setup_complete_request(c) = e
    BY <1>1, <2>3 DEF N_setup_complete_request
  <2> HIDE DEF d
  <2>5. Turns(r, c, e, "N10", c.tm, c.listed)
    BY <2>2, ThenSend, ThenSetState
  <2>6. ~w /\ c.st \notin Clearing /\ c.tm \in SUBSET TimersOf(r)
    BY <1>1, GoodFacts DEF Off, Clearing, Good
  <2>7. Watched("N10", c.tm) /\ "N10" \in StatesOf(r) \ NullStates
    BY DEF Watched, NStates, StatesOf, NullStates
  <2> HIDE DEF e
  <2> QED BY <2>4, <2>5, <2>6, <2>7, MoveAfter
<1>2. CASE c.st # "N8"
  BY <1>2, SelfAfter DEF N_setup_complete_request
<1> QED BY <1>1, <1>2

(* q931_status_enquiry_request.                                            *)
LEMMA StatusEnquiryAfter ==
  ASSUME NEW r, NEW w, NEW c, Good(r, w, c)
  PROVE  /\ After(r, w, c, StatusEnquiry(c)) /\ After(r, w, c, N_status_enquiry_request(c))
         /\ After(r, w, c, U_status_enquiry_request(c))
<1> DEFINE a == Send(c, "STATUS_ENQUIRY")
           b == [a EXCEPT !.senq = 0]
           d == Start(b, "T322")
           tm == c.tm \cup {"T322"}
<1>1. Turns(r, c, a, c.st, c.tm, c.listed) /\ a.ch = c.ch /\ Shaped(a)
  <2>1. Shaped(c) /\ Turns(r, c, c, c.st, c.tm, c.listed)
    BY GoodFacts
  <2>2. Turns(r, c, a, c.st, c.tm, c.listed)
    BY <2>1, ThenSend
  <2> QED BY <2>1, <2>2, SendCalm, TurnsFacts
<1> HIDE DEF a
<1>2. Turns(r, c, b, c.st, c.tm, c.listed)
  <2>1. 0 \in 0..SenqMax /\ TRUE \in BOOLEAN
    BY SenqAssumption
  <2> QED BY <1>1, <2>1, ThenField
<1>3. d.ch = c.ch
  BY <1>1 DEF Start, Shaped, CallFields
<1> HIDE DEF b
<1>4. Turns(r, c, d, c.st, tm, c.listed)
  BY <1>2, ThenStart
<1> HIDE DEF d
<1>5. tm \in SUBSET TimersOf(r) /\ Watched(c.st, tm) /\ (w => Off(c.st, tm)) /\ c.bc = FALSE
  <2>1. {"T322"} \in SUBSET (Timers \ {"T319"})
    BY DEF Timers
  <2>2. c.bc = FALSE
    BY GoodFacts
  <2> QED BY <2>1, <2>2, MoreTimers
<1>6. After(r, w, c, d)
  BY <1>3, <1>4, <1>5, StayAfter
<1>7. After(r, w, c, StatusEnquiry(c))
  BY <1>6, SelfAfter DEF StatusEnquiry, d, b, a
<1> QED BY <1>5, <1>7 DEF N_status_enquiry_request, U_status_enquiry_request

(* Every request.                                                          *)
LEMMA N_RequestAfter ==
  ASSUME NEW r, NEW w, NEW c, Good(r, w, c), NEW q, q \notin {"SETUP", "RESUME"}
  PROVE  After(r, w, c, N_ccb_dispatch(c, q))
  BY N_InfoAfter, N_AlertingAfter, N_DisconnectAfter, N_MoreInfoAfter, N_ProceedingAfter,
     N_RejectAfter, N_ReleaseAfter, N_ResumeAfter, N_SetupCompleteAfter,
     StatusEnquiryAfter, SelfAfter
  DEF N_ccb_dispatch


-----------------------------------------------------------------------------
(* Requests of the CCB to a call in a user state.                          *)

(* Only a user's call is in a user state.                                  *)
LEMMA UserRole ==
  ASSUME NEW r, NEW w, NEW c, Good(r, w, c), c.st \notin NStates
  PROVE  r # "NT" /\ c.st \in UStates
  BY GoodFacts

(* A user's call moves on, set-up or active, with a message sent.          *)
LEMMA OnwardU ==
  ASSUME NEW r, NEW w, NEW c, Good(r, w, c), r # "NT", ~w, c.st \notin Clearing, NEW d,
         NEW tm \in SUBSET TimersOf(r), Turns(r, c, d, c.st, tm, c.listed),
         NEW stop, NEW start \in SUBSET Timers, NEW p,
         NEW st \in UStates \ {"U0", "U11", "U17", "U19"}, st = "U8" => "T313" \in start
  PROVE  /\ After(r, w, c, Go(d, stop, start, st))
         /\ After(r, w, c, Tell(Go(d, stop, start, st), p))
         /\ start = {} => /\ After(r, w, c, SetState(d, st))
                          /\ After(r, w, c, Tell(SetState(d, st), p))
<1>1. Watched(st, start) /\ st \in StatesOf(r) \ NullStates
  BY DEF Watched, UStates, StatesOf, NullStates
<1>2. After(r, w, c, Go(d, stop, start, st)) /\ After(r, w, c, Tell(Go(d, stop, start, st), p))
  BY <1>1, GoU
<1>3. ASSUME start = {}
      PROVE  After(r, w, c, SetState(d, st)) /\ After(r, w, c, Tell(SetState(d, st), p))
  <2>1. Turns(r, c, SetState(d, st), st, tm, c.listed)
    BY ThenSetState
  <2>2. Turns(r, c, Tell(SetState(d, st), p), st, tm, c.listed)
    BY <2>1, ThenTell
  <2>3. Watched(st, tm)
    BY <1>3 DEF Watched, UStates
  <2> QED BY <1>1, <2>1, <2>2, <2>3, MoveAfter
<1> QED BY <1>2, <1>3

(* q931_alerting_request, q931_more_info_request, q931_proceeding_request  *)
(* and q931_setup_response: the user answers a SETUP.                      *)
LEMMA U_AnswersAfter ==
  ASSUME NEW r, NEW w, NEW c, Good(r, w, c), r # "NT"
  PROVE  /\ After(r, w, c, U_alerting_request(c)) /\ After(r, w, c, U_more_info_request(c))
         /\ After(r, w, c, U_proceeding_request(c)) /\ After(r, w, c, U_setup_response(c))
<1>1. CASE c.st \in {"U6", "U7", "U8", "U9", "U25"}
  <2>1. /\ ~w /\ c.st \notin Clearing /\ c.tm \in SUBSET TimersOf(r)
        /\ Turns(r, c, c, c.st, c.tm, c.listed)
    BY <1>1, GoodFacts DEF Off, Clearing, Good
  <2>2. /\ Turns(r, c, SendWithChannel(c, "ALERTING"), c.st, c.tm, c.listed)
        /\ Turns(r, c, SendWithChannel(c, "SETUP_ACKNOWLEDGE"), c.st, c.tm, c.listed)
        /\ Turns(r, c, SendWithChannel(c, "CALL_PROCEEDING"), c.st, c.tm, c.listed)
        /\ Turns(r, c, SendWithChannel(c, "CONNECT"), c.st, c.tm, c.listed)
    BY <2>1, ThenSendWithChannel
  <2>3. /\ Turns(r, c, Send(c, "ALERTING"), c.st, c.tm, c.listed)
        /\ Turns(r, c, Send(c, "CALL_PROCEEDING"), c.st, c.tm, c.listed)
        /\ Turns(r, c, Send(c, "CONNECT"), c.st, c.tm, c.listed)
    BY <2>1, ThenSend
  <2>4. /\ {} \in SUBSET Timers /\ {"T302"} \in SUBSET Timers /\ {"T313"} \in SUBSET Timers
        /\ {"U7", "U8", "U9", "U25"} \subseteq UStates \ {"U0", "U11", "U17", "U19"}
    BY DEF Timers, UStates
  <2>5. /\ After(r, w, c, SetState(SendWithChannel(c, "ALERTING"), "U7"))
        /\ After(r, w, c, SetState(Send(c, "ALERTING"), "U7"))
        /\ After(r, w, c, Go(Send(c, "ALERTING"), {"T302"}, {}, "U7"))
    BY <2>1, <2>2, <2>3, <2>4, OnwardU
  <2>6. After(r, w, c, Go(SendWithChannel(c, "SETUP_ACKNOWLEDGE"), {}, {"T302"}, "U25"))
    BY <2>1, <2>2, <2>4, OnwardU
  <2>7. /\ After(r, w, c, SetState(SendWithChannel(c, "CALL_PROCEEDING"), "U9"))
        /\ After(r, w, c, Go(Send(c, "CALL_PROCEEDING"), {"T302"}, {}, "U9"))
    BY <2>1, <2>2, <2>3, <2>4, OnwardU
  <2>8. /\ After(r, w, c, Go(SendWithChannel(c, "CONNECT"), {}, {"T313"}, "U8"))
        /\ After(r, w, c, Go(Send(c, "CONNECT"), {}, {"T313"}, "U8"))
        /\ After(r, w, c, Go(Send(c, "CONNECT"), {"T302"}, {"T313"}, "U8"))
    BY <2>1, <2>2, <2>3, <2>4, OnwardU
  <2> QED BY <1>1, <2>5, <2>6, <2>7, <2>8, SelfAfter DEF U_alerting_request,
             U_more_info_request, U_proceeding_request, U_setup_response
<1>2. CASE c.st \notin {"U6", "U7", "U8", "U9", "U25"}
  BY <1>2, SelfAfter DEF U_alerting_request, U_more_info_request, U_proceeding_request,
     U_setup_response
<1> QED BY <1>1, <1>2

(* q931_disconnect_request.                                                *)
LEMMA U_DisconnectAfter ==
  ASSUME NEW r, NEW w, NEW c0, Good(r, w, c0), r # "NT"
  PROVE  After(r, w, c0, U_disconnect_request(c0))
<1> DEFINE c == [c0 EXCEPT !.dis = TRUE]
           d == U_disconnect_request(c0)
<1>1. Good(r, w, c) /\ (After(r, w, c, d) => After(r, w, c0, d))
  BY DisGood
<1>2. c.tm \in SUBSET TimersOf(r) /\ Turns(r, c, c, c.st, c.tm, c.listed)
  BY <1>1, GoodFacts
<1>3. d \in {Go(Send(c, "DISCONNECT"), {"T303"}, {"T305"}, "U11"),
             DisconnectU(c, {"T304"}), DisconnectU(c, {"T313"}),
             DisconnectU(c, {"T302"}), DisconnectU(c, {}), c}
  BY DEF U_disconnect_request
<1> SUFFICES After(r, w, c, d)
  BY <1>1
<1> HIDE DEF c, d
<1>4. After(r, w, c, Go(Send(c, "DISCONNECT"), {"T303"}, {"T305"}, "U11"))
  BY <1>1, <1>2, DisconnectUAfter
<1>5. /\ After(r, w, c, DisconnectU(c, {"T304"})) /\ After(r, w, c, DisconnectU(c, {"T313"}))
      /\ After(r, w, c, DisconnectU(c, {"T302"})) /\ After(r, w, c, DisconnectU(c, {}))
  BY <1>1, <1>2, DisconnectUAfter
<1> QED BY <1>1, <1>3, <1>4, <1>5, SelfAfter

(* q931_info_request, q931_notify_request and q931_progress_request.       *)
LEMMA U_InfoAfter ==
  ASSUME NEW r, NEW w, NEW c, Good(r, w, c), r # "NT"
  PROVE  /\ After(r, w, c, U_info_request(c)) /\ After(r, w, c, U_notify_request(c))
         /\ After(r, w, c, U_progress_request(c))
<1>1. After(r, w, c, U_info_request(c)) /\ After(r, w, c, U_notify_request(c))
  BY SelfAfter, SendAfter DEF U_info_request, U_notify_request
<1>2. CASE c.st = "U25"
  <2> DEFINE d == Send(Stop(c, {"T302"}), "PROGRESS")
             tm == c.tm \ {"T302"}
  <2>1. Turns(r, c, d, c.st, tm, c.listed)
    BY GoodFacts, ThenStop, ThenSend
  <2>2. /\ tm \in SUBSET TimersOf(r) /\ Watched(c.st, tm) /\ ~w
        /\ c.st \notin NullStates
    BY <1>2, GoodFacts DEF Off, Good, Watched, NullStates
  <2>3. After(r, w, c, d)
    BY <2>1, <2>2, StayAfter
  <2> QED BY <1>1, <1>2, <2>3 DEF U_progress_request
<1>3. CASE c.st # "U25"
  BY <1>1, <1>3, SelfAfter, SendAfter DEF U_progress_request
<1> QED BY <1>1, <1>2, <1>3

(* q931_reject_request and q931_release_request.                           *)
LEMMA U_RejectAfter ==
  ASSUME NEW r, NEW w, NEW c, Good(r, w, c), r # "NT"
  PROVE  After(r, w, c, U_reject_request(c)) /\ After(r, w, c, U_release_request(c))
<1>1. /\ c.tm \in SUBSET TimersOf(r) /\ Turns(r, c, c, c.st, c.tm, c.listed)
      /\ Fit(r, c)
  BY GoodFacts
<1>2. c.st = "U6" => After(r, w, c, DropU(Send(c, "RELEASE_COMPLETE")))
  BY <1>1, RefusedAfter DEF Refusable
<1>3. Turns(r, c, ChanDisconnect(c), c.st, c.tm, c.listed)
  BY <1>1, ThenChan
<1>4. After(r, w, c, ReleaseU(ChanDisconnect(c), {}))
  BY <1>1, <1>3, ReleaseUAfter
<1> QED BY <1>2, <1>4, SelfAfter DEF U_reject_request, U_release_request

(* q931_suspend_request.                                                   *)
LEMMA U_SuspendAfter ==
  ASSUME NEW r, NEW w, NEW c, Good(r, w, c), r # "NT"
  PROVE  After(r, w, c, U_suspend_request(c))
<1>1. CASE c.st = "U10"
  <2>1. /\ c.tm \in SUBSET TimersOf(r) /\ Turns(r, c, c, c.st, c.tm, c.listed)
        /\ c.st \notin Clearing
    BY <1>1, GoodFacts DEF Clearing
  <2>2. Turns(r, c, Send(c, "SUSPEND"), c.st, c.tm, c.listed)
    BY <2>1, ThenSend
  <2>3. /\ {"T319"} \in SUBSET Timers /\ "U15" \in UStates \ {"U0"}
        /\ Watched("U15", {"T319"}) /\ Off("U15", {"T319"})
    BY DEF Timers, UStates, Watched, Off
  <2>4. After(r, w, c, Go(Send(c, "SUSPEND"), {}, {"T319"}, "U15"))
    BY <2>1, <2>2, <2>3, GoU
  <2> QED BY <1>1, <2>4 DEF U_suspend_request
<1>2. CASE c.st # "U10"
  BY <1>2, SelfAfter DEF U_suspend_request
<1> QED BY <1>1, <1>2

(* Every request but the first.                                            *)
LEMMA U_RequestAfter ==
  ASSUME NEW r, NEW w, NEW c, Good(r, w, c), r # "NT", NEW q, q \notin {"SETUP", "RESUME"}
  PROVE  After(r, w, c, U_ccb_dispatch(c, q))
  BY U_AnswersAfter, U_DisconnectAfter, U_InfoAfter, U_RejectAfter, U_SuspendAfter,
     StatusEnquiryAfter, SelfAfter
  DEF U_ccb_dispatch

(* A request of the CCB to a call that has begun.                          *)
LEMMA RequestAfter ==
  ASSUME NEW r, NEW w, NEW c, Good(r, w, c), NEW q, q \notin {"SETUP", "RESUME"}
  PROVE  After(r, w, c, ccb_dispatch(c, q))
  BY N_RequestAfter, U_RequestAfter, UserRole DEF ccb_dispatch

(* The first request: q931_setup_request and q931_resume_request.          *)
LEMMA OriginateAfter ==
  ASSUME NEW r, NEW w, NEW c, Good(r, w, c), c.st \in NullStates,
         NEW q \in {"SETUP", "RESUME"}
  PROVE  After(r, w, c, ccb_dispatch(c, q))
<1>1. /\ c.tm \in SUBSET TimersOf(r) /\ Turns(r, c, c, c.st, c.tm, c.listed)
      /\ c.ch = NoChan /\ Shaped(c) /\ Fit(r, c) /\ c.st \notin Clearing
  BY GoodFacts DEF NullStates, Clearing
<1>2. CASE c.st = "U0"
  <2>1. r # "NT" /\ c.st \notin NStates
    BY <1>2, UserRole DEF NStates
  <2>2. /\ Turns(r, c, Send(c, "SETUP"), c.st, c.tm, c.listed)
        /\ Turns(r, c, Send(c, "RESUME"), c.st, c.tm, c.listed)
    BY <1>1, ThenSend
  <2>3. /\ {"T303"} \in SUBSET Timers /\ {"T318"} \in SUBSET Timers
        /\ {"U1", "U17"} \subseteq UStates \ {"U0"}
        /\ Watched("U1", {"T303"}) /\ Watched("U17", {"T318"})
        /\ Off("U1", {"T303"}) /\ Off("U17", {"T318"})
    BY DEF Timers, UStates, Watched, Off
  <2>4. /\ After(r, w, c, Go(Send(c, "SETUP"), {}, {"T303"}, "U1"))
        /\ After(r, w, c, Go(Send(c, "RESUME"), {}, {"T318"}, "U17"))
    BY <1>1, <2>1, <2>2, <2>3, GoU
  <2> QED BY <1>2, <2>1, <2>4 DEF ccb_dispatch, U_ccb_dispatch, U_setup_request,
             U_resume_request
<1>3. CASE c.st = "N0"
  <2> DEFINE d == ChanAcquire(c)
             m == [Message("SETUP") EXCEPT !.ci = IF d.ch = NoChan THEN {} ELSE {d.ch}]
  <2>1. Turns(r, c, d, c.st, c.tm, c.listed)
    <3> DEFINE a == Assert_(c, c.ch = NoChan)
    <3>1. Turns(r, c, a, c.st, c.tm, c.listed)
      BY <1>1, AssertCalm DEF Calm
    <3>2. /\ Available(c) = {} => d = a
          /\ Available(c) # {} => d = ChanSelect(a, First(Available(c)), "SELECTED")
      BY DEF ChanAcquire
    <3>3. a.chans = c.chans /\ (a.ok => c.ok)
      BY <1>1 DEF Assert_, Shaped, CallFields
    <3> HIDE DEF a, d
    <3>4. Shaped(a) /\ Fit(r, a) /\ a.st = c.st /\ a.tm = c.tm /\ a.listed = c.listed
      BY <1>1, <3>1 DEF Turns
    <3>5. a.ok => \A x \in Channels : a.chans[x].own # "call"
      BY <1>1, <3>3, ChannelsAssumption DEF Fit, Owned
    <3>6. CASE Available(c) # {}
      <4>1. First(Available(c)) \in Channels
        BY <3>6, FirstIn DEF Available
      <4>2. Calm(r, a, ChanSelect(a, First(Available(c)), "SELECTED"))
        BY <3>4, <3>5, <4>1, ChanSelectCalm DEF ChanStates
      <4> QED BY <3>1, <3>2, <3>6, <4>2, TurnsOn
    <3> QED BY <3>1, <3>2, <3>6
  <2> HIDE DEF d, m
  <2>2. Turns(r, c, SendMsg(d, m), c.st, c.tm, c.listed)
    BY <2>1, ThenSendMsg
  <2>3. /\ {"T303"} \in SUBSET (Timers \ {"T319"}) /\ "N6" \in NStates \ {"N0", "N22"}
        /\ Watched("N6", {"T303"}) /\ Off("N6", {"T303"})
    BY DEF Timers, NStates, Watched, Off
  <2>4. After(r, w, c, Go(SendMsg(d, m), {}, {"T303"}, "N6"))
    BY <1>1, <2>2, <2>3, GoN
  <2>5. N_setup_request(c) = Go(SendMsg(d, m), {}, {"T303"}, "N6")
    BY <1>3, PointToPoint DEF N_setup_request, d, m
  <2>6. c.st \in NStates
    BY <1>3 DEF NStates
  <2> QED BY <2>4, <2>5, <2>6, SelfAfter DEF ccb_dispatch, N_ccb_dispatch
<1> QED BY <1>2, <1>3 DEF NullStates


-----------------------------------------------------------------------------
(* Timers.                                                                 *)

(* The states each timer counts in.                                        *)
CountsIn(t) ==
    CASE t = "T301" -> {"N7"} [] t = "T303" -> {"N6"} [] t = "T304" -> {"N25"}
      [] t = "T305" -> {"N12", "U11"} [] t = "T306" -> {"N12"}
      [] t = "T308" -> {"N19", "U19"} [] t = "T309" -> {"N10", "U10"}
      [] t = "T313" -> {"U8"} [] t = "T318" -> {"U17"} [] OTHER -> {}

(* A call whose timer t has expired.                                       *)
LEMMA ExpiryFacts ==
  ASSUME NEW r, NEW w, NEW c, Good(r, w, c), NEW t
  PROVE  /\ Turns(r, c, Stop(c, {t}), c.st, c.tm \ {t}, c.listed)
         /\ Stop(c, {t}).st = c.st /\ Stop(c, {t}).ch = c.ch
         /\ Stop(c, {t}).bc = FALSE /\ Stop(c, {t}).senq = c.senq
         /\ c.tm \ {t} \in SUBSET TimersOf(r)
         /\ Shaped(Stop(c, {t})) /\ Fit(r, Stop(c, {t}))
         /\ c.senq \in 0..SenqMax
<1> DEFINE d == Stop(c, {t})
<1>1. /\ Shaped(c) /\ Turns(r, c, c, c.st, c.tm, c.listed) /\ c.bc = FALSE
      /\ c.tm \in SUBSET TimersOf(r)
  BY GoodFacts
<1>2. Turns(r, c, d, c.st, c.tm \ {t}, c.listed)
  BY <1>1, ThenStop
<1>3. /\ d.st = c.st /\ d.ch = c.ch /\ d.bc = c.bc /\ d.senq = c.senq
  BY <1>1 DEF Stop, Shaped, CallFields
<1> HIDE DEF d
<1>4. Shaped(d) /\ Fit(r, d)
  BY <1>2 DEF Turns, Good, Core
<1>5. c.senq \in 0..SenqMax
  BY DEF Good, Core, Typed
<1> QED BY <1>1, <1>2, <1>3, <1>4, <1>5 DEF d

(* ... is the same call otherwise.                                         *)
LEMMA ExpirySame ==
  ASSUME NEW c, Shaped(c), c.bc = FALSE, NEW t
  PROVE  /\ Stop(c, {t}).st = c.st /\ Stop(c, {t}).ch = c.ch
         /\ Stop(c, {t}).bc = FALSE /\ Stop(c, {t}).senq = c.senq
         /\ Stop(c, {t}).f303 = c.f303 /\ Stop(c, {t}).f308 = c.f308
  BY DEF Stop, Shaped, CallFields

(* Elsewhere its end changes nothing.                                      *)
LEMMA StopStays ==
  ASSUME NEW r, NEW w, NEW c, Good(r, w, c), NEW t, c.st \notin CountsIn(t)
  PROVE  Watched(c.st, c.tm \ {t}) /\ (w => Off(c.st, c.tm \ {t}))
<1>1. Watched(c.st, c.tm) /\ (w => Off(c.st, c.tm))
  BY GoodFacts
<1>2. Watched(c.st, c.tm \ {t})
  BY <1>1 DEF Watched, CountsIn
<1>3. w => Off(c.st, c.tm \ {t})
  BY <1>1 DEF Off, CountsIn
<1> QED BY <1>2, <1>3

(* ... and the call stays as it is.                                        *)
LEMMA IdleAfter ==
  ASSUME NEW r, NEW w, NEW c, Good(r, w, c), NEW t, c.st \notin CountsIn(t), NEW p
  PROVE  /\ After(r, w, c, Stop(c, {t}))
         /\ c.st \notin NullStates => After(r, w, c, Tell(Stop(c, {t}), p))
<1> DEFINE d == Stop(c, {t})
           tm == c.tm \ {t}
<1>1. /\ Turns(r, c, d, c.st, tm, c.listed) /\ d.ch = c.ch
      /\ tm \in SUBSET TimersOf(r)
  BY ExpiryFacts
<1>2. Watched(c.st, tm) /\ (w => Off(c.st, tm))
  BY StopStays
<1> HIDE DEF d, tm
<1>3. Turns(r, c, Tell(d, p), c.st, tm, c.listed)
  BY <1>1, ThenTell
<1> QED BY <1>1, <1>2, <1>3, StayAfter DEF d

(* The flags of T303 and T308 do not matter.                               *)
LEMMA FiredAfter ==
  ASSUME NEW r, NEW w, NEW c, NEW d, After(r, w, c, d)
  PROVE  /\ After(r, w, c, [d EXCEPT !.f303 = TRUE])
         /\ After(r, w, c, [d EXCEPT !.f308 = TRUE])
<1> DEFINE e == [d EXCEPT !.f303 = TRUE]
           f == [d EXCEPT !.f308 = TRUE]
<1>1. /\ Core(r, d) /\ (c.st \in Clearing => d.st \in Clearing \cup NullStates)
      /\ d.ok => IF d.listed THEN Phase(w, d) ELSE d.st \in NullStates /\ Known(c, d)
  BY DEF After
<1>2. Shaped(d) /\ Fit(r, d) /\ Typed(d)
  BY <1>1 DEF Core
<1>3. Turns(r, d, e, d.st, d.tm, d.listed) /\ Turns(r, d, f, d.st, d.tm, d.listed)
  <2>1. TRUE \in BOOLEAN /\ 0 \in 0..SenqMax
    BY SenqAssumption
  <2> QED BY <1>2, <2>1, TurnsSelf, ThenField
<1>4. e.ch = d.ch /\ f.ch = d.ch
  BY <1>2 DEF Shaped, CallFields
<1> HIDE DEF e, f
<1>5. ASSUME NEW x, Turns(r, d, x, d.st, d.tm, d.listed), x.ch = d.ch
      PROVE  After(r, w, c, x)
  <2>1. /\ x.st = d.st /\ x.tm = d.tm /\ x.listed = d.listed /\ (x.ok => d.ok)
        /\ (Ends(d) => Ends(x)) /\ (Sent(d) => Sent(x))
    BY <1>5, TurnsFacts
  <2>2. Core(r, x)
    BY <1>1, <1>5 DEF Core, Turns
  <2>3. Known(c, d) => Known(c, x)
    BY <2>1 DEF Known
  <2>4. Phase(w, d) => Phase(w, x)
    BY <1>5, <2>1 DEF Phase
  <2> QED BY <1>1, <2>1, <2>2, <2>3, <2>4 DEF After
<1>6. After(r, w, c, e) /\ After(r, w, c, f)
  BY <1>3, <1>4, <1>5
<1> QED BY <1>6 DEF e, f

(* A DISCONNECT is sent when a timer expires.                              *)
LEMMA GivesUpAfter ==
  ASSUME NEW r, NEW w, NEW c, Good(r, w, c), NEW t, NEW p
  PROVE  /\ After(r, w, c, Tell(Go(Send(Stop(c, {t}), "DISCONNECT"), {}, {"T305"}, "N12"), p))
         /\ After(r, w, c, Tell(Go(ChanDisconnect(Send(Stop(c, {t}), "DISCONNECT")), {},
                                   {"T305"}, "N12"), p))
         /\ After(r, w, c, Tell(Go(ChanRelease(Send(Stop(c, {t}), "DISCONNECT")), {},
                                   {"T305"}, "N12"), p))
<1> DEFINE d == Stop(c, {t})
           tm == c.tm \ {t}
           e == Send(d, "DISCONNECT")
<1>1. Turns(r, c, d, c.st, tm, c.listed) /\ tm \in SUBSET TimersOf(r)
  BY ExpiryFacts
<1>2. Fit(r, c)
  BY GoodFacts
<1> HIDE DEF d, tm
<1>3. Turns(r, c, e, c.st, tm, c.listed)
  BY <1>1, ThenSend
<1> HIDE DEF e
<1>4. /\ Turns(r, c, ChanDisconnect(e), c.st, tm, c.listed)
      /\ Turns(r, c, ChanRelease(e), c.st, tm, c.listed)
  BY <1>2, <1>3, ThenChan
<1>5. /\ After(r, w, c, Tell(Go(e, {}, {"T305"}, "N12"), p))
      /\ After(r, w, c, Tell(Go(ChanDisconnect(e), {}, {"T305"}, "N12"), p))
      /\ After(r, w, c, Tell(Go(ChanRelease(e), {}, {"T305"}, "N12"), p))
  BY <1>1, <1>3, <1>4, DisconnectingAfter
<1> QED BY <1>1, <1>5 DEF d, e

(* T301, T304 and T310: the network gives up the wait for an answer.       *)
LEMMA N_T301After ==
  ASSUME NEW r, NEW w, NEW c, Good(r, w, c)
  PROVE  /\ After(r, w, c, N_timer_T301(Stop(c, {"T301"})))
         /\ c.st \in NStates => After(r, w, c, N_timer_T304(Stop(c, {"T304"})))
         /\ After(r, w, c, N_timer_T310(Stop(c, {"T310"})))
<1>1. /\ Stop(c, {"T301"}).st = c.st /\ Stop(c, {"T301"}).bc = FALSE
      /\ Stop(c, {"T304"}).st = c.st /\ Stop(c, {"T304"}).bc = FALSE
      /\ Stop(c, {"T310"}).st = c.st /\ Stop(c, {"T310"}).bc = FALSE
  <2>1. Shaped(c) /\ c.bc = FALSE
    BY GoodFacts
  <2> QED BY <2>1, ExpirySame
<1>2. /\ c.st # "N7" => After(r, w, c, Stop(c, {"T301"}))
      /\ c.st \in NStates \ {"N25"} => After(r, w, c, Stop(c, {"T304"}))
      /\ After(r, w, c, Stop(c, {"T310"}))
  BY IdleAfter DEF CountsIn
<1>3. After(r, w, c, N_timer_T301(Stop(c, {"T301"})))
  BY <1>1, <1>2, GivesUpAfter DEF N_timer_T301
<1>4. c.st \in NStates => After(r, w, c, N_timer_T304(Stop(c, {"T304"})))
  BY <1>1, <1>2, GivesUpAfter DEF N_timer_T304
<1>5. After(r, w, c, N_timer_T310(Stop(c, {"T310"})))
  BY <1>1, <1>2, GivesUpAfter DEF N_timer_T310
<1> QED BY <1>3, <1>4, <1>5


(* T302: sending complete is simulated.  T312 is for broadcasts; here it   *)
(* would end the call.                                                     *)
LEMMA T302After ==
  ASSUME NEW r, NEW w, NEW c, Good(r, w, c)
  PROVE  /\ After(r, w, c, N_timer_T302(Stop(c, {"T302"})))
         /\ After(r, w, c, U_timer_T302(Stop(c, {"T302"})))
         /\ After(r, w, c, N_timer_T312(Stop(c, {"T312"})))
<1>1. Shaped(c) /\ c.bc = FALSE /\ c.st # "N22"
  BY GoodFacts
<1>2. Stop(c, {"T302"}).st = c.st /\ Stop(c, {"T312"}).st = c.st
  BY <1>1, ExpirySame
<1>3. /\ After(r, w, c, Stop(c, {"T302"})) /\ After(r, w, c, Stop(c, {"T312"}))
      /\ c.st \notin NullStates => After(r, w, c, Tell(Stop(c, {"T302"}), "INFO_IND"))
  BY IdleAfter DEF CountsIn
<1>4. After(r, w, c, N_timer_T302(Stop(c, {"T302"})))
  BY <1>2, <1>3 DEF N_timer_T302, NullStates
<1>5. After(r, w, c, U_timer_T302(Stop(c, {"T302"})))
  BY <1>2, <1>3 DEF U_timer_T302, NullStates
<1>6. After(r, w, c, N_timer_T312(Stop(c, {"T312"})))
  <2> DEFINE d == Stop(c, {"T312"})
             S == CASE c.st = "N7" -> {"T301"} [] c.st = "N9" -> {"T310"} [] OTHER -> {}
  <2>1. Turns(r, c, d, c.st, c.tm \ {"T312"}, c.listed) /\ c.tm \ {"T312"} \in SUBSET TimersOf(r)
    BY ExpiryFacts
  <2>2. N_timer_T312(d) \in {d, Tell(ToN0(Stop(d, S)), "RELEASE_IND")}
    BY <1>1, <1>2 DEF N_timer_T312
  <2> HIDE DEF d, S
  <2>3. /\ Turns(r, c, Stop(d, S), c.st, (c.tm \ {"T312"}) \ S, c.listed)
        /\ (c.tm \ {"T312"}) \ S \in SUBSET TimersOf(r) /\ "RELEASE_IND" \in EndPrimitives
    BY <2>1, ThenStop DEF EndPrimitives
  <2>4. After(r, w, c, Tell(ToN0(Stop(d, S)), "RELEASE_IND"))
    BY <2>3, NullAfter
  <2> QED BY <1>3, <2>2, <2>4 DEF d
<1> QED BY <1>4, <1>5, <1>6

(* A timer is started again, with a message sent.                          *)
LEMMA RestartAfter ==
  ASSUME NEW r, NEW w, NEW c, Good(r, w, c), NEW t \in Timers \ {"T319"}, NEW m
  PROVE  c.st \notin NullStates => After(r, w, c, Start(SendMsg(Stop(c, {t}), m), t))
<1> DEFINE d == Stop(c, {t})
           tm == (c.tm \ {t}) \cup {t}
<1>1. Turns(r, c, d, c.st, c.tm \ {t}, c.listed)
  BY ExpiryFacts
<1> HIDE DEF d
<1>2. Turns(r, c, SendMsg(d, m), c.st, c.tm \ {t}, c.listed)
  BY <1>1, ThenSendMsg
<1>3. Turns(r, c, Start(SendMsg(d, m), t), c.st, tm, c.listed)
  BY <1>2, ThenStart
<1>4. tm \in SUBSET TimersOf(r) /\ Watched(c.st, tm) /\ (w => Off(c.st, tm))
  <2>1. tm = c.tm \cup {t} /\ {t} \in SUBSET (Timers \ {"T319"})
    OBVIOUS
  <2> HIDE DEF tm
  <2> QED BY <2>1, MoreTimers
<1> HIDE DEF tm
<1>5. c.st \notin NullStates => After(r, w, c, Start(SendMsg(d, m), t))
  BY <1>3, <1>4, StayAfter
<1> QED BY <1>5 DEF d

(* T303: the SETUP is repeated once, then the call is given up.            *)
LEMMA N_T303After ==
  ASSUME NEW r, NEW w, NEW c, Good(r, w, c), c.st \in NStates
  PROVE  After(r, w, c, N_timer_T303(Stop(c, {"T303"})))
<1> DEFINE d == Stop(c, {"T303"})
           m == [Message("SETUP") EXCEPT !.ci = IF d.ch = NoChan THEN {} ELSE {d.ch}]
           x == Tell(Go(Send(d, "DISCONNECT"), {}, {"T305"}, "N12"), "DISCONNECT_IND")
           y == Start(SendMsg(d, m), "T303")
<1>1. d.st = c.st /\ d.bc = FALSE
  <2>1. Shaped(c) /\ c.bc = FALSE
    BY GoodFacts
  <2> QED BY <2>1, ExpirySame
<1>2. /\ c.st # "N6" => N_timer_T303(d) = [d EXCEPT !.f303 = TRUE]
      /\ c.st = "N6" /\ d.f303 => N_timer_T303(d) = [x EXCEPT !.f303 = TRUE]
      /\ c.st = "N6" /\ ~d.f303 => N_timer_T303(d) = [y EXCEPT !.f303 = TRUE]
  BY <1>1 DEF N_timer_T303
<1>3. c.st # "N6" => After(r, w, c, d)
  BY IdleAfter DEF CountsIn
<1>4. After(r, w, c, x)
  BY GivesUpAfter
<1>5. c.st = "N6" => After(r, w, c, y)
  <2>1. "T303" \in Timers \ {"T319"} /\ (c.st = "N6" => c.st \notin NullStates)
    BY DEF Timers, NullStates
  <2> QED BY <2>1, RestartAfter
<1> HIDE DEF d, x, y, m
<1>6. /\ c.st # "N6" => After(r, w, c, [d EXCEPT !.f303 = TRUE])
      /\ After(r, w, c, [x EXCEPT !.f303 = TRUE])
      /\ c.st = "N6" => After(r, w, c, [y EXCEPT !.f303 = TRUE])
  BY <1>3, <1>4, <1>5, FiredAfter
<1>7. After(r, w, c, N_timer_T303(d))
  BY <1>2, <1>6
<1> QED BY <1>7 DEF d

(* ... of a user.                                                          *)
LEMMA U_T303After ==
  ASSUME NEW r, NEW w, NEW c, Good(r, w, c), r # "NT", c.st \in UStates
  PROVE  After(r, w, c, U_timer_T303(Stop(c, {"T303"})))
<1> DEFINE d == Stop(c, {"T303"})
           x == DropU(Send(Tell(d, "RELEASE_IND"), "RELEASE_COMPLETE"))
           y == Start(Send(d, "SETUP"), "T303")
<1>1. d.st = c.st
  <2>1. Shaped(c) /\ c.bc = FALSE
    BY GoodFacts
  <2> QED BY <2>1, ExpirySame
<1>2. /\ c.st # "U1" => U_timer_T303(d) = [d EXCEPT !.f303 = TRUE]
      /\ c.st = "U1" /\ d.f303 => U_timer_T303(d) = [x EXCEPT !.f303 = TRUE]
      /\ c.st = "U1" /\ ~d.f303 => U_timer_T303(d) = [y EXCEPT !.f303 = TRUE]
  BY <1>1 DEF U_timer_T303
<1>3. After(r, w, c, d)
  BY IdleAfter DEF CountsIn, UStates
<1>4. After(r, w, c, x)
  <2> DEFINE e == Tell(d, "RELEASE_IND")
             f == Send(e, "RELEASE_COMPLETE")
             tm == c.tm \ {"T303"}
  <2>1. Turns(r, c, d, c.st, tm, c.listed) /\ tm \in SUBSET TimersOf(r)
    BY ExpiryFacts
  <2>2. Fit(r, c) /\ "RELEASE_IND" \in EndPrimitives /\ "U0" \in NullStates
    BY GoodFacts DEF EndPrimitives, NullStates
  <2> HIDE DEF d, tm
  <2>3. Turns(r, c, e, c.st, tm, c.listed) /\ Ends(e)
    BY <2>1, <2>2, ThenTell
  <2>4. Shaped(e) /\ Fit(r, e)
    BY <2>2, <2>3, TurnsFacts
  <2> HIDE DEF e
  <2>5. Turns(r, e, f, e.st, e.tm, e.listed)
    BY <2>4, TurnsSelf, ThenSend
  <2>6. Turns(r, e, x, "U0", e.tm, FALSE)
    BY <2>4, <2>5, ThenNull DEF e
  <2>7. Ends(x) /\ e.tm = tm
    BY <2>3, <2>6 DEF Turns
  <2>8. Turns(r, c, x, "U0", tm, FALSE)
    BY <2>3, <2>6, <2>7, TurnsTwice
  <2> QED BY <2>1, <2>2, <2>7, <2>8, OverAfter DEF Known
<1>5. c.st = "U1" => After(r, w, c, y)
  <2>1. "T303" \in Timers \ {"T319"} /\ (c.st = "U1" => c.st \notin NullStates)
    BY DEF Timers, NullStates
  <2> QED BY <2>1, RestartAfter DEF Send
<1> HIDE DEF d, x, y
<1>6. /\ c.st # "U1" => After(r, w, c, [d EXCEPT !.f303 = TRUE])
      /\ After(r, w, c, [x EXCEPT !.f303 = TRUE])
      /\ c.st = "U1" => After(r, w, c, [y EXCEPT !.f303 = TRUE])
  BY <1>3, <1>4, <1>5, FiredAfter
<1>7. After(r, w, c, U_timer_T303(d))
  BY <1>2, <1>6
<1> QED BY <1>7 DEF d


(* T305 and T306: a RELEASE follows the DISCONNECT.                        *)
LEMMA N_T305After ==
  ASSUME NEW r, NEW w, NEW c, Good(r, w, c)
  PROVE  /\ c.st \in NStates => After(r, w, c, N_timer_T305(Stop(c, {"T305"})))
         /\ After(r, w, c, N_timer_T306(Stop(c, {"T306"})))
<1>1. Shaped(c) /\ c.bc = FALSE
  BY GoodFacts
<1>2. Stop(c, {"T305"}).st = c.st /\ Stop(c, {"T306"}).st = c.st
  BY <1>1, ExpirySame
<1>3. /\ c.st \in NStates \ {"N12"} => After(r, w, c, Stop(c, {"T305"}))
      /\ c.st # "N12" => After(r, w, c, Stop(c, {"T306"}))
  BY IdleAfter DEF CountsIn, NStates
<1>4. /\ Turns(r, c, Stop(c, {"T305"}), c.st, c.tm \ {"T305"}, c.listed)
      /\ c.tm \ {"T305"} \in SUBSET TimersOf(r)
      /\ Turns(r, c, Stop(c, {"T306"}), c.st, c.tm \ {"T306"}, c.listed)
      /\ c.tm \ {"T306"} \in SUBSET TimersOf(r)
  BY ExpiryFacts
<1>5. After(r, w, c, Go(Send(Stop(c, {"T305"}), "RELEASE"), {}, {"T308"}, "N19"))
  BY <1>4, ThenSend, ReleasingAfter
<1>6. After(r, w, c, Go(Send(StopTone(Stop(c, {"T306"})), "RELEASE"), {}, {"T308"}, "N19"))
  <2>1. Turns(r, c, Send(StopTone(Stop(c, {"T306"})), "RELEASE"), c.st, c.tm \ {"T306"},
              c.listed)
    BY <1>4, ThenTone, ThenSend
  <2> QED BY <1>4, <2>1, ReleasingAfter
<1>7. c.st \in NStates => After(r, w, c, N_timer_T305(Stop(c, {"T305"})))
  BY <1>2, <1>3, <1>5 DEF N_timer_T305
<1>8. After(r, w, c, N_timer_T306(Stop(c, {"T306"})))
  BY <1>2, <1>3, <1>6 DEF N_timer_T306
<1> QED BY <1>7, <1>8

(* T304, T305, T313 and T318 of a user.                                    *)
LEMMA U_T304After ==
  ASSUME NEW r, NEW w, NEW c, Good(r, w, c)
  PROVE  /\ c.st \notin NStates => /\ After(r, w, c, U_timer_T304(Stop(c, {"T304"})))
                                   /\ After(r, w, c, U_timer_T305(Stop(c, {"T305"})))
         /\ After(r, w, c, U_timer_T313(Stop(c, {"T313"})))
         /\ After(r, w, c, U_timer_T318(Stop(c, {"T318"})))
<1>1. Shaped(c) /\ c.bc = FALSE
  BY GoodFacts
<1>2. /\ Stop(c, {"T304"}).st = c.st /\ Stop(c, {"T305"}).st = c.st
      /\ Stop(c, {"T313"}).st = c.st /\ Stop(c, {"T318"}).st = c.st
  BY <1>1, ExpirySame
<1>3. /\ c.st \notin NStates => After(r, w, c, Stop(c, {"T304"}))
      /\ c.st \notin NStates \cup {"U11"} => After(r, w, c, Stop(c, {"T305"}))
      /\ c.st # "U8" => After(r, w, c, Stop(c, {"T313"}))
      /\ c.st # "U17" => After(r, w, c, Stop(c, {"T318"}))
  BY IdleAfter DEF CountsIn, NStates
<1>4. /\ Turns(r, c, Stop(c, {"T304"}), c.st, c.tm \ {"T304"}, c.listed)
      /\ c.tm \ {"T304"} \in SUBSET TimersOf(r)
      /\ Turns(r, c, Stop(c, {"T305"}), c.st, c.tm \ {"T305"}, c.listed)
      /\ c.tm \ {"T305"} \in SUBSET TimersOf(r)
  BY ExpiryFacts
<1>5. /\ Turns(r, c, Stop(c, {"T313"}), c.st, c.tm \ {"T313"}, c.listed)
      /\ c.tm \ {"T313"} \in SUBSET TimersOf(r)
      /\ Turns(r, c, Stop(c, {"T318"}), c.st, c.tm \ {"T318"}, c.listed)
      /\ c.tm \ {"T318"} \in SUBSET TimersOf(r)
  BY ExpiryFacts
<1>6. r # "NT" =>
        /\ After(r, w, c, Tell(DisconnectU(Stop(c, {"T304"}), {}), "SETUP_CFM"))
        /\ After(r, w, c, Tell(DisconnectU(Stop(c, {"T313"}), {}), "SETUP_COMPLETE_IND"))
  BY <1>4, <1>5, DisconnectUAfter
<1>7. r # "NT" =>
        /\ After(r, w, c, ReleaseU(Stop(c, {"T305"}), {}))
        /\ After(r, w, c, Tell(ReleaseU(Stop(c, {"T318"}), {}), "RESUME_CFM"))
  BY <1>4, <1>5, ReleaseUAfter
<1>8. c.st \in {"U2", "U11", "U8", "U17"} => r # "NT"
  BY UserRole DEF NStates
<1>9. c.st \notin NStates => /\ After(r, w, c, U_timer_T304(Stop(c, {"T304"})))
                             /\ After(r, w, c, U_timer_T305(Stop(c, {"T305"})))
  BY <1>2, <1>3, <1>6, <1>7, <1>8 DEF U_timer_T304, U_timer_T305
<1>10. /\ After(r, w, c, U_timer_T313(Stop(c, {"T313"})))
       /\ After(r, w, c, U_timer_T318(Stop(c, {"T318"})))
  BY <1>2, <1>3, <1>6, <1>7, <1>8 DEF U_timer_T313, U_timer_T318
<1> QED BY <1>9, <1>10

(* T308 at the network: the first expiry ends the call; its channel goes   *)
(* out of service.                                                         *)
LEMMA N_T308After ==
  ASSUME NEW r, NEW w, NEW c, Good(r, w, c), c.st \in NStates
  PROVE  After(r, w, c, N_timer_T308(Stop(c, {"T308"})))
<1> DEFINE d == Stop(c, {"T308"})
           f == IF d.ch = NoChan THEN d ELSE ChanSet(d, d.ch, "MAINTAINANCE")
           x == Tell(ReleaseReference(SetState(f, "N0")), "RELEASE_CFM")
           y == Start(Send(d, "RELEASE"), "T308")
           tm == c.tm \ {"T308"}
<1>1. d.st = c.st
  <2>1. Shaped(c) /\ c.bc = FALSE
    BY GoodFacts
  <2> QED BY <2>1, ExpirySame
<1>2. /\ c.st # "N19" => N_timer_T308(d) = [d EXCEPT !.f308 = TRUE]
      /\ c.st = "N19" /\ d.f308 => N_timer_T308(d) = [y EXCEPT !.f308 = TRUE]
      /\ c.st = "N19" /\ ~d.f308 => N_timer_T308(d) = [x EXCEPT !.f308 = TRUE]
  BY <1>1, PointToPoint DEF N_timer_T308
<1>3. c.st # "N19" => After(r, w, c, d)
  BY IdleAfter DEF CountsIn, NStates
<1>4. After(r, w, c, x)
  <2>1. /\ Turns(r, c, d, c.st, tm, c.listed) /\ tm \in SUBSET TimersOf(r) /\ Shaped(d)
        /\ Fit(r, d)
    BY ExpiryFacts
  <2> HIDE DEF d, tm
  <2>2. d.ch # NoChan => Calm(r, d, ChanSet(d, d.ch, "MAINTAINANCE"))
    BY <2>1, ChanSetCalm DEF Fit, ChanStates
  <2>3. Turns(r, c, f, c.st, tm, c.listed)
    BY <2>1, <2>2, TurnsOn
  <2> HIDE DEF f
  <2>4. Turns(r, c, ReleaseReference(SetState(f, "N0")), "N0", tm, FALSE)
    BY <2>3, ThenSetState, ThenRelease
  <2>5. "N0" \in NullStates /\ "RELEASE_CFM" \in EndPrimitives
    BY DEF NullStates, EndPrimitives
  <2>6. Turns(r, c, x, "N0", tm, FALSE) /\ Ends(x)
    BY <2>4, <2>5, ThenTell
  <2> QED BY <2>1, <2>5, <2>6, OverAfter DEF Known
<1>5. c.st = "N19" => After(r, w, c, y)
  <2>1. "T308" \in Timers \ {"T319"} /\ (c.st = "N19" => c.st \notin NullStates)
    BY DEF Timers, NullStates
  <2> QED BY <2>1, RestartAfter DEF Send
<1> HIDE DEF d, x, y, f
<1>6. /\ c.st # "N19" => After(r, w, c, [d EXCEPT !.f308 = TRUE])
      /\ After(r, w, c, [x EXCEPT !.f308 = TRUE])
      /\ c.st = "N19" => After(r, w, c, [y EXCEPT !.f308 = TRUE])
  BY <1>3, <1>4, <1>5, FiredAfter
<1>7. After(r, w, c, N_timer_T308(d))
  BY <1>2, <1>6
<1> QED BY <1>7 DEF d

(* ... at the user: the RELEASE is repeated once.                          *)
LEMMA U_T308After ==
  ASSUME NEW r, NEW w, NEW c, Good(r, w, c), r # "NT", c.st \in UStates
  PROVE  After(r, w, c, U_timer_T308(Stop(c, {"T308"})))
<1> DEFINE d == Stop(c, {"T308"})
           x == Tell(ToU0(d), "RELEASE_CFM")
           y == Start(Send(d, "RELEASE"), "T308")
<1>1. d.st = c.st
  <2>1. Shaped(c) /\ c.bc = FALSE
    BY GoodFacts
  <2> QED BY <2>1, ExpirySame
<1>2. /\ c.st # "U19" => U_timer_T308(d) = [d EXCEPT !.f308 = TRUE]
      /\ c.st = "U19" /\ d.f308 => U_timer_T308(d) = [x EXCEPT !.f308 = TRUE]
      /\ c.st = "U19" /\ ~d.f308 => U_timer_T308(d) = [y EXCEPT !.f308 = TRUE]
  BY <1>1 DEF U_timer_T308
<1>3. c.st # "U19" => After(r, w, c, d)
  BY IdleAfter DEF CountsIn, UStates
<1>4. After(r, w, c, x)
  <2>1. /\ Turns(r, c, d, c.st, c.tm \ {"T308"}, c.listed)
        /\ c.tm \ {"T308"} \in SUBSET TimersOf(r) /\ "RELEASE_CFM" \in EndPrimitives
    BY ExpiryFacts DEF EndPrimitives
  <2> QED BY <2>1, NullAfter
<1>5. c.st = "U19" => After(r, w, c, y)
  <2>1. "T308" \in Timers \ {"T319"} /\ (c.st = "U19" => c.st \notin NullStates)
    BY DEF Timers, NullStates
  <2> QED BY <2>1, RestartAfter DEF Send
<1> HIDE DEF d, x, y
<1>6. /\ c.st # "U19" => After(r, w, c, [d EXCEPT !.f308 = TRUE])
      /\ After(r, w, c, [x EXCEPT !.f308 = TRUE])
      /\ c.st = "U19" => After(r, w, c, [y EXCEPT !.f308 = TRUE])
  BY <1>3, <1>4, <1>5, FiredAfter
<1>7. After(r, w, c, U_timer_T308(d))
  BY <1>2, <1>6
<1> QED BY <1>7 DEF d

(* T309: the data link did not come back.                                  *)
LEMMA T309After ==
  ASSUME NEW r, NEW w, NEW c, Good(r, w, c)
  PROVE  /\ c.st \in NStates => After(r, w, c, N_timer_T309(Stop(c, {"T309"})))
         /\ c.st \notin NStates => After(r, w, c, U_timer_T309(Stop(c, {"T309"})))
<1> DEFINE d == Stop(c, {"T309"})
<1>1. d.st = c.st
  <2>1. Shaped(c) /\ c.bc = FALSE
    BY GoodFacts
  <2> QED BY <2>1, ExpirySame
<1>2. c.st \notin {"N10", "U10"} => After(r, w, c, d)
  BY IdleAfter DEF CountsIn
<1>3. /\ Turns(r, c, d, c.st, c.tm \ {"T309"}, c.listed)
      /\ c.tm \ {"T309"} \in SUBSET TimersOf(r) /\ "RELEASE_IND" \in EndPrimitives
  BY ExpiryFacts DEF EndPrimitives
<1> HIDE DEF d
<1>4. /\ After(r, w, c, Tell(ToN0(d), "RELEASE_IND"))
      /\ r # "NT" => After(r, w, c, Tell(ToU0(d), "RELEASE_IND"))
  BY <1>3, NullAfter
<1>5. c.st \notin NStates => r # "NT"
  BY UserRole
<1>6. /\ c.st \in NStates => After(r, w, c, N_timer_T309(d))
      /\ c.st \notin NStates => After(r, w, c, U_timer_T309(d))
  BY <1>1, <1>2, <1>4, <1>5 DEF N_timer_T309, U_timer_T309, NStates
<1> QED BY <1>6 DEF d


(* T319, a user's timer, takes N15 to U10.                                 *)
LEMMA T319After ==
  ASSUME NEW r, NEW w, NEW c, Good(r, w, c), "T319" \in c.tm
  PROVE  After(r, w, c, N_timer_T319(Stop(c, {"T319"})))
<1> DEFINE d == Stop(c, {"T319"})
           tm == c.tm \ {"T319"}
<1>1. /\ d.st = c.st /\ r # "NT" /\ (c.st = "N15" => ~w /\ c.st \notin Clearing)
      /\ {} \in SUBSET Timers /\ "U10" \in UStates \ {"U0", "U11", "U17", "U19"}
  <2>1. Shaped(c) /\ c.bc = FALSE
    BY GoodFacts
  <2>2. d.st = c.st
    BY <2>1, ExpirySame
  <2>3. r # "NT"
    BY GoodFacts DEF TimersOf
  <2>4. c.st = "N15" => ~w /\ c.st \notin Clearing
    BY GoodFacts DEF Off, Clearing, Good
  <2> QED BY <2>2, <2>3, <2>4 DEF UStates
<1>2. After(r, w, c, d)
  BY IdleAfter DEF CountsIn
<1>3. Turns(r, c, d, c.st, tm, c.listed) /\ tm \in SUBSET TimersOf(r)
  BY ExpiryFacts
<1> HIDE DEF d, tm
<1>4. Turns(r, c, Tell(d, "SUSPEND_CFM"), c.st, tm, c.listed)
  BY <1>3, ThenTell
<1>5. c.st = "N15" => After(r, w, c, SetState(Tell(d, "SUSPEND_CFM"), "U10"))
  BY <1>1, <1>3, <1>4, OnwardU
<1>6. After(r, w, c, N_timer_T319(d))
  BY <1>1, <1>2, <1>5 DEF N_timer_T319
<1> QED BY <1>6 DEF d

(* T322: the peer does not answer the STATUS ENQUIRYs.                     *)
LEMMA T322After ==
  ASSUME NEW r, NEW w, NEW c, Good(r, w, c)
  PROVE  After(r, w, c, timer_T322(Stop(c, {"T322"})))
<1> DEFINE d == Stop(c, {"T322"})
           tm == c.tm \ {"T322"}
           a == Send(d, "STATUS_ENQUIRY")
           b == [a EXCEPT !.senq = @ + 1]
           x == Tell(Go(Send(d, "RELEASE"), {}, {"T308"}, "N19"), "RELEASE_IND")
           y == Start(b, "T322")
<1>1. /\ Turns(r, c, d, c.st, tm, c.listed) /\ tm \in SUBSET TimersOf(r)
      /\ d.st = c.st /\ d.senq = c.senq /\ c.senq \in 0..SenqMax /\ Shaped(d)
  <2>1. Shaped(c) /\ c.bc = FALSE
    BY GoodFacts
  <2>2. d.st = c.st /\ d.senq = c.senq
    BY <2>1, ExpirySame
  <2> QED BY <2>2, ExpiryFacts
<1>2. After(r, w, c, d)
  BY IdleAfter DEF CountsIn
<1>3. timer_T322(d) = IF c.st \in NullStates THEN d
                      ELSE IF c.senq >= SenqMax THEN x ELSE y
  BY <1>1 DEF timer_T322
<1> HIDE DEF d, tm
<1>4. After(r, w, c, x)
  <2>1. Turns(r, c, Send(d, "RELEASE"), c.st, tm, c.listed)
    BY <1>1, ThenSend
  <2> QED BY <1>1, <2>1, ReleasingAfter
<1>5. ASSUME c.st \notin NullStates, ~(c.senq >= SenqMax)
      PROVE  After(r, w, c, y)
  <2>1. Turns(r, c, a, c.st, tm, c.listed)
    BY <1>1, ThenSend
  <2>2. a.senq = c.senq /\ Shaped(a)
    <3>1. a.senq = c.senq
      BY <1>1 DEF Send, SendMsg, Assert_, Shaped, CallFields
    <3> QED BY <2>1, <3>1, TurnsFacts
  <2>3. b = [a EXCEPT !.senq = c.senq + 1] /\ c.senq + 1 \in 0..SenqMax
    BY <1>1, <1>5, <2>2, SenqAssumption DEF Shaped, CallFields
  <2> HIDE DEF a, b
  <2>4. Turns(r, c, b, c.st, tm, c.listed)
    BY <2>1, <2>3, ThenField
  <2>5. Turns(r, c, y, c.st, tm \cup {"T322"}, c.listed)
    BY <2>4, ThenStart
  <2>6. /\ tm \cup {"T322"} \in SUBSET TimersOf(r) /\ Watched(c.st, tm \cup {"T322"})
        /\ (w => Off(c.st, tm \cup {"T322"}))
    <3>1. tm \cup {"T322"} = c.tm \cup {"T322"} /\ {"T322"} \in SUBSET (Timers \ {"T319"})
      BY DEF tm, Timers
    <3> QED BY <3>1, MoreTimers
  <2> HIDE DEF y
  <2> QED BY <1>5, <2>5, <2>6, StayAfter
<1> HIDE DEF x, y
<1>6. After(r, w, c, timer_T322(d))
  BY <1>2, <1>3, <1>4, <1>5
<1> QED BY <1>6 DEF d

(* A timer of the call expires.                                            *)
LEMMA TimerAfter ==
  ASSUME NEW r, NEW w, NEW c, Good(r, w, c), NEW t \in c.tm
  PROVE  After(r, w, c, timer(c, t))
<1>1. t \in Timers /\ Shaped(c) /\ c.bc = FALSE
  BY GoodFacts DEF TimersOf
<1>2. Stop(c, {t}).st = c.st
  BY <1>1, ExpirySame
<1>3. c.st \notin NStates => r # "NT" /\ c.st \in UStates
  BY UserRole
<1>4. CASE t \in {"T301", "T304", "T310", "T302", "T312"}
  BY <1>2, <1>4, N_T301After, U_T304After, T302After DEF timer
<1>5. CASE t \in {"T303", "T308"}
  BY <1>2, <1>3, <1>5, N_T303After, U_T303After, N_T308After, U_T308After DEF timer
<1>6. CASE t \in {"T305", "T306", "T313", "T318"}
  BY <1>2, <1>6, N_T305After, U_T304After DEF timer
<1>7. CASE t \in {"T309", "T319", "T322"}
  BY <1>2, <1>7, T309After, T319After, T322After DEF timer
<1> QED BY <1>1, <1>4, <1>5, <1>6, <1>7 DEF Timers


-----------------------------------------------------------------------------
(* Messages for a call in a network state.  They arrive on a data link     *)
(* that is established.                                                    *)

(* The channel identification of a message, if there is one, names         *)
(* channels.                                                               *)
Channelled(m) == m.ci \in (SUBSET Channels) \cup {NoCI}

(* The call after a message was decoded.                                   *)
LEMMA DecodeFacts ==
  ASSUME NEW r, NEW w, NEW c, Good(r, w, c), NEW m
  PROVE  /\ Turns(r, c, Decode(c, m), c.st, c.tm, c.listed)
         /\ Decode(c, m).ch = c.ch /\ After(r, w, c, Decode(c, m))
         /\ c.tm \in SUBSET TimersOf(r) /\ Fit(r, c) /\ c.bc = FALSE
<1>1. /\ Shaped(c) /\ Turns(r, c, c, c.st, c.tm, c.listed)
      /\ c.tm \in SUBSET TimersOf(r) /\ Fit(r, c) /\ c.bc = FALSE
  BY GoodFacts
<1>2. Decode(c, m).ch = c.ch
  BY <1>1, DecodeCalm
<1>3. Turns(r, c, Decode(c, m), c.st, c.tm, c.listed)
  BY <1>1, ThenDecode
<1> QED BY <1>1, <1>2, <1>3, CalmAfter

(* A message the state does not expect is answered with a STATUS, or with  *)
(* a RELEASE if there is no such call.                                     *)
LEMMA NotCompatibleAfter ==
  ASSUME NEW r, NEW w, NEW c, Good(r, w, c), NEW s
  PROVE  After(r, w, c, NotCompatibleAs(c, s)) /\ After(r, w, c, NotCompatible(c))
<1>1. c.tm \in SUBSET TimersOf(r) /\ Turns(r, c, c, c.st, c.tm, c.listed)
  BY GoodFacts
<1>2. Turns(r, c, Send(c, "RELEASE"), c.st, c.tm, c.listed)
  BY <1>1, ThenSend
<1>3. ASSUME NEW x
      PROVE  /\ After(r, w, c, Go(Send(c, "RELEASE"), {}, {"T308"}, "N19"))
             /\ After(r, w, c, SendStatus(Go(Send(c, "RELEASE"), {}, {"T308"}, "N19"), x))
             /\ After(r, w, c, SendStatus(c, x))
  BY <1>1, <1>2, ReleasingAfter, SendAfter
<1>4. ASSUME NEW x
      PROVE  After(r, w, c, NotCompatibleAs(c, x))
  BY <1>3 DEF NotCompatibleAs
<1> QED BY <1>4 DEF NotCompatible

(* A set-up goes on at the network.                                        *)
LEMMA OnwardN ==
  ASSUME NEW r, NEW c, Good(r, FALSE, c), c.st \notin Clearing, NEW d, NEW st,
         NEW tm \in SUBSET TimersOf(r), Turns(r, c, d, st, tm, c.listed), NEW stop, NEW p
  PROVE  /\ After(r, FALSE, c, Tell(Go(d, stop, {"T301"}, "N7"), p))
         /\ After(r, FALSE, c, Tell(Go(d, stop, {}, "N8"), p))
         /\ After(r, FALSE, c, Tell(Go(d, stop, {"T310"}, "N9"), p))
         /\ After(r, FALSE, c, Tell(Go(d, stop, {"T304"}, "N25"), p))
<1>1. /\ {"T301"} \in SUBSET (Timers \ {"T319"}) /\ {"T310"} \in SUBSET (Timers \ {"T319"})
      /\ {"T304"} \in SUBSET (Timers \ {"T319"}) /\ {} \in SUBSET (Timers \ {"T319"})
      /\ "N7" \in NStates \ {"N0", "N22"} /\ "N8" \in NStates \ {"N0", "N22"}
      /\ "N9" \in NStates \ {"N0", "N22"} /\ "N25" \in NStates \ {"N0", "N22"}
      /\ Watched("N7", {"T301"}) /\ Watched("N8", {}) /\ Watched("N9", {"T310"})
      /\ Watched("N25", {"T304"})
  BY DEF Timers, NStates, Watched
<1> QED BY <1>1, GoN

(* The user answers a SETUP.                                               *)
LEMMA AnswerAfter ==
  ASSUME NEW r, NEW c, Good(r, FALSE, c), c.st \notin Clearing, NEW d,
         Turns(r, c, d, c.st, c.tm, c.listed), NEW m, Channelled(m), NEW p
  PROVE  /\ After(r, FALSE, c, Answer(d, m, {"T301"}, "N7", p))
         /\ After(r, FALSE, c, Answer(d, m, {}, "N8", p))
         /\ After(r, FALSE, c, Answer(d, m, {"T310"}, "N9", p))
         /\ After(r, FALSE, c, Answer(d, m, {"T304"}, "N25", p))
<1>1. c.tm \in SUBSET TimersOf(r) /\ Fit(r, c)
  BY GoodFacts
<1>2. CASE Selects(d, m)
  <2>1. Turns(r, c, SelectResponse(d, m), c.st, c.tm, c.listed)
    BY <1>1, <1>2, ThenSelect DEF Channelled
  <2> QED BY <1>1, <1>2, <2>1, OnwardN DEF Answer
<1>3. CASE ~Selects(d, m)
  <2>1. Turns(r, c, Send(d, "RELEASE"), c.st, c.tm, c.listed)
    BY ThenSend
  <2>2. After(r, FALSE, c, Tell(Go(Send(d, "RELEASE"), {"T303"}, {"T308"}, "N19"),
                                "RELEASE_IND"))
    BY <1>1, <2>1, ReleasingAfter
  <2> QED BY <1>3, <2>2 DEF Answer
<1> QED BY <1>2, <1>3

(* q931_handle_alerting, q931_handle_call_proceeding, q931_handle_connect  *)
(* and q931_handle_setup_acknowledge.                                      *)
LEMMA N_AnswersAfter ==
  ASSUME NEW r, NEW c, Good(r, FALSE, c), NEW m, Channelled(m)
  PROVE  /\ After(r, FALSE, c, N_handle_alerting(c, m))
         /\ After(r, FALSE, c, N_handle_call_proceeding(c, m))
         /\ After(r, FALSE, c, N_handle_connect(c, m))
         /\ After(r, FALSE, c, N_handle_setup_acknowledge(c, m))
<1> DEFINE d == Decode(c, m)
<1>1. /\ Turns(r, c, d, c.st, c.tm, c.listed) /\ After(r, FALSE, c, d)
      /\ c.tm \in SUBSET TimersOf(r) /\ c.bc = FALSE
  BY DecodeFacts
<1>2. c.st # "N22"
  BY GoodFacts
<1>3. After(r, FALSE, c, NotCompatible(c))
  BY NotCompatibleAfter
<1>4. c.st \in {"N6", "N7", "N9", "N25"} => c.st \notin Clearing
  BY DEF Clearing
<1> HIDE DEF d
<1>5. ASSUME c.st \in {"N6", "N7", "N9", "N25"}, NEW p, NEW S
      PROVE  /\ After(r, FALSE, c, Tell(Go(d, S, {"T301"}, "N7"), p))
             /\ After(r, FALSE, c, Tell(Go(d, S, {}, "N8"), p))
             /\ After(r, FALSE, c, Tell(Go(d, S, {"T310"}, "N9"), p))
  BY <1>1, <1>4, <1>5, OnwardN
<1>6. ASSUME c.st = "N6", NEW p
      PROVE  /\ After(r, FALSE, c, Answer(d, m, {"T301"}, "N7", p))
             /\ After(r, FALSE, c, Answer(d, m, {}, "N8", p))
             /\ After(r, FALSE, c, Answer(d, m, {"T310"}, "N9", p))
             /\ After(r, FALSE, c, Answer(d, m, {"T304"}, "N25", p))
  BY <1>1, <1>4, <1>6, AnswerAfter
<1>7. After(r, FALSE, c, N_handle_alerting(c, m))
  BY <1>1, <1>2, <1>3, <1>5, <1>6 DEF N_handle_alerting, d
<1>8. After(r, FALSE, c, N_handle_call_proceeding(c, m))
  BY <1>1, <1>2, <1>3, <1>5, <1>6 DEF N_handle_call_proceeding, d
<1>9. After(r, FALSE, c, N_handle_connect(c, m))
  BY <1>1, <1>2, <1>3, <1>5, <1>6 DEF N_handle_connect, d
<1>10. After(r, FALSE, c, N_handle_setup_acknowledge(c, m))
  BY <1>1, <1>2, <1>3, <1>6 DEF N_handle_setup_acknowledge, d
<1> QED BY <1>7, <1>8, <1>9, <1>10


(* A calm step and a primitive: the call stays as it is.                   *)
LEMMA ToldAfter ==
  ASSUME NEW r, NEW w, NEW c, Good(r, w, c), c.st \notin NullStates, NEW d,
         Turns(r, c, d, c.st, c.tm, c.listed), NEW p
  PROVE  After(r, w, c, Tell(d, p))
<1>1. Turns(r, c, Tell(d, p), c.st, c.tm, c.listed)
  BY ThenTell
<1> QED BY <1>1, CalmAfter

(* A timer that does not count is stopped.                                 *)
LEMMA StoppedAfter ==
  ASSUME NEW r, NEW w, NEW c, Good(r, w, c), NEW d, d.ch = c.ch,
         Turns(r, c, d, c.st, c.tm, c.listed), NEW t, c.st \notin CountsIn(t), NEW p
  PROVE  /\ After(r, w, c, Stop(d, {t}))
         /\ c.st \notin NullStates => After(r, w, c, Tell(Stop(d, {t}), p))
<1> DEFINE e == Stop(d, {t})
           tm == c.tm \ {t}
<1>1. Turns(r, c, e, c.st, tm, c.listed) /\ e.ch = c.ch
  <2>1. Shaped(d)
    BY TurnsFacts
  <2> QED BY <2>1, ThenStop DEF Stop, Shaped, CallFields
<1>2. tm \in SUBSET TimersOf(r) /\ Watched(c.st, tm) /\ (w => Off(c.st, tm))
  BY ExpiryFacts, StopStays
<1> HIDE DEF e, tm
<1>3. Turns(r, c, Tell(e, p), c.st, tm, c.listed)
  BY <1>1, ThenTell
<1> QED BY <1>1, <1>2, <1>3, StayAfter DEF e

(* q931_handle_connect_acknowledge, q931_handle_progress,                  *)
(* q931_handle_notify and q931_handle_status_enquiry.                      *)
LEMMA N_ProgressAfter ==
  ASSUME NEW r, NEW c, Good(r, FALSE, c), NEW m
  PROVE  /\ After(r, FALSE, c, N_handle_connect_acknowledge(c))
         /\ After(r, FALSE, c, N_handle_progress(c, m))
         /\ After(r, FALSE, c, N_handle_notify(c, m))
         /\ After(r, FALSE, c, handle_status_enquiry(c))
<1> DEFINE d == Decode(c, m)
<1>1. /\ Turns(r, c, d, c.st, c.tm, c.listed) /\ After(r, FALSE, c, d) /\ d.ch = c.ch
      /\ c.tm \in SUBSET TimersOf(r) /\ c.bc = FALSE
  BY DecodeFacts
<1>2. After(r, FALSE, c, NotCompatible(c)) /\ After(r, FALSE, c, SendStatus(c, c.st))
  BY NotCompatibleAfter, SendAfter
<1>3. After(r, FALSE, c, c)
  BY SelfAfter
<1> HIDE DEF d
<1>4. ASSUME c.st \in {"N7", "N9", "N10", "N25"}, NEW p
      PROVE  After(r, FALSE, c, Tell(d, p))
  <2>1. c.st \notin NullStates
    BY <1>4 DEF NullStates
  <2> QED BY <1>1, <2>1, ToldAfter
<1>5. ASSUME c.st = "N9"
      PROVE  After(r, FALSE, c, Tell(Stop(d, {"T310"}), "PROGRESS_IND"))
  <2>1. c.st \notin NullStates /\ c.st \notin CountsIn("T310")
    BY <1>5 DEF NullStates, CountsIn
  <2> QED BY <1>1, <2>1, StoppedAfter
<1>6. After(r, FALSE, c, N_handle_progress(c, m))
  BY <1>1, <1>2, <1>4, <1>5 DEF N_handle_progress, d
<1>7. After(r, FALSE, c, N_handle_notify(c, m))
  BY <1>1, <1>3, <1>4 DEF N_handle_notify, d
<1> QED BY <1>2, <1>3, <1>6, <1>7 DEF N_handle_connect_acknowledge, handle_status_enquiry

(* The channel a SETUP gets is a channel.                                  *)
LEMMA SelectSetupIn ==
  ASSUME NEW c, NEW m
  PROVE  SelectSetup(c, m) = NoChan \/ SelectSetup(c, m) \in Channels
<1>1. Available(c) \subseteq Channels
  BY DEF Available
<1>2. Available(c) # {} => First(Available(c)) \in Channels
  BY <1>1, FirstIn
<1>3. m.ci \cap Available(c) # {} => First(m.ci \cap Available(c)) \in Channels
  BY <1>1, FirstIn
<1> QED BY <1>2, <1>3 DEF SelectSetup

(* The call leaves the list before it has begun.                           *)
LEMMA UnlistedAfter ==
  ASSUME NEW r, NEW w, NEW c, Good(r, w, c), c.st \in NullStates, NEW d,
         Turns(r, c, d, c.st, c.tm, c.listed)
  PROVE  After(r, w, c, ReleaseReference(d))
<1>1. Turns(r, c, ReleaseReference(d), c.st, c.tm, FALSE)
  BY ThenRelease
<1>2. c.tm \in SUBSET TimersOf(r) /\ (r = "NT" => c.st = "N0")
  BY GoodFacts DEF NullStates, NStates
<1> QED BY <1>1, <1>2, OverAfter DEF Known

(* q931_handle_setup.                                                      *)
LEMMA N_SetupAfter ==
  ASSUME NEW r, NEW c, Good(r, FALSE, c), NEW m
  PROVE  After(r, FALSE, c, N_handle_setup(c, m))
<1> DEFINE d == Decode(c, m)
           ch == SelectSetup(d, m)
           x == ReleaseReference(Send(d, "RELEASE_COMPLETE"))
           y == Tell(SetState(ChanSelect(d, ch, "SELECTED"), "N1"), "SETUP_IND")
<1>1. /\ Turns(r, c, d, c.st, c.tm, c.listed) /\ After(r, FALSE, c, d) /\ d.ch = c.ch
      /\ c.tm \in SUBSET TimersOf(r) /\ Fit(r, c)
  BY DecodeFacts
<1>2. After(r, FALSE, c, c)
  BY SelfAfter
<1>3. N_handle_setup(c, m) = IF c.st # "N0" THEN c ELSE IF ~Decodes(m) THEN d
                             ELSE IF ch = NoChan THEN x ELSE y
  BY DEF N_handle_setup
<1>4. ch = NoChan \/ ch \in Channels
  BY SelectSetupIn
<1> HIDE DEF d, ch
<1>5. ASSUME c.st = "N0"
      PROVE  After(r, FALSE, c, x)
  <2>1. Turns(r, c, Send(d, "RELEASE_COMPLETE"), c.st, c.tm, c.listed)
    BY <1>1, ThenSend
  <2> QED BY <1>5, <2>1, UnlistedAfter DEF NullStates
<1>6. ASSUME c.st = "N0", ch # NoChan
      PROVE  After(r, FALSE, c, y)
  <2> DEFINE e == ChanSelect(d, ch, "SELECTED")
  <2>1. Shaped(d) /\ Fit(r, d) /\ d.ch = NoChan /\ d.st = c.st /\ d.tm = c.tm
    <3>1. c.ch = NoChan
      BY <1>6, GoodFacts DEF NullStates
    <3> QED BY <1>1, <3>1 DEF Turns
  <2>2. d.ok => \A z \in Channels : d.chans[z].own # "call"
    BY <2>1, ChannelsAssumption DEF Fit, Owned
  <2>3. Calm(r, d, e)
    BY <1>4, <1>6, <2>1, <2>2, ChanSelectCalm DEF ChanStates
  <2>4. Turns(r, c, e, c.st, c.tm, c.listed)
    BY <1>1, <2>3, TurnsOn
  <2> HIDE DEF e
  <2>5. Turns(r, c, y, "N1", c.tm, c.listed)
    BY <2>4, ThenSetState, ThenTell DEF e
  <2>6. Watched("N1", c.tm) /\ "N1" \in StatesOf(r) \ NullStates /\ c.st \notin Clearing
    BY <1>6 DEF Watched, NStates, StatesOf, NullStates, Clearing
  <2> HIDE DEF y
  <2> QED BY <1>1, <2>5, <2>6, MoveAfter
<1> HIDE DEF x, y
<1> QED BY <1>1, <1>2, <1>3, <1>5, <1>6

(* q931_handle_disconnect.                                                 *)
LEMMA N_DisconnectedAfter ==
  ASSUME NEW r, NEW c, Good(r, FALSE, c), NEW m
  PROVE  After(r, FALSE, c, N_handle_disconnect(c, m))
<1> DEFINE d == Decode(c, m)
           S == [N1 |-> {}, N2 |-> {"T302"}, N3 |-> {}, N4 |-> {},
                 N7 |-> {"T301"}, N8 |-> {}, N9 |-> {"T310"}, N10 |-> {},
                 N17 |-> {}, N25 |-> {"T304"}]
           x == Tell(Go(ChanRelease(d), S[c.st], {}, "N11"), "DISCONNECT_IND")
           y == Tell(Go(ChanDisconnect(d), S[c.st], {}, "N11"), "DISCONNECT_IND")
           z == Go(Send(StopTone(c), "RELEASE"), {"T305", "T306"}, {"T308"}, "N19")
<1>1. /\ Turns(r, c, d, c.st, c.tm, c.listed) /\ c.tm \in SUBSET TimersOf(r)
      /\ Fit(r, c) /\ c.bc = FALSE
  BY DecodeFacts
<1>2. After(r, FALSE, c, NotCompatible(c)) /\ After(r, FALSE, c, c)
  BY NotCompatibleAfter, SelfAfter
<1>3. N_handle_disconnect(c, m) \in {x, y, z, c, NotCompatible(c)}
  <2>1. DOMAIN S = {"N1", "N2", "N3", "N4", "N7", "N8", "N9", "N10", "N17", "N25"}
    OBVIOUS
  <2>2. N_handle_disconnect(c, m) =
          CASE c.st \in DOMAIN S ->
                 Tell(Go(IF c.st = "N8" THEN ChanRelease(d) ELSE ChanDisconnect(d),
                         S[c.st], {}, "N11"), "DISCONNECT_IND")
            [] c.st = "N12" -> z
            [] c.st = "N19" -> c
            [] OTHER -> NotCompatible(c)
    BY <1>1 DEF N_handle_disconnect
  <2> QED BY <2>1, <2>2
<1> HIDE DEF d, S
<1>4. After(r, FALSE, c, x) /\ After(r, FALSE, c, y)
  <2>1. /\ Turns(r, c, ChanRelease(d), c.st, c.tm, c.listed)
        /\ Turns(r, c, ChanDisconnect(d), c.st, c.tm, c.listed)
    BY <1>1, ThenChan
  <2>2. /\ {} \in SUBSET (Timers \ {"T319"}) /\ "N11" \in NStates \ {"N0", "N22"}
        /\ "N11" \in Clearing /\ Watched("N11", {})
    BY DEF NStates, Watched, Clearing
  <2> QED BY <1>1, <2>1, <2>2, GoN
<1>5. After(r, FALSE, c, z)
  <2>1. Turns(r, c, StopTone(c), c.st, c.tm, c.listed)
    BY GoodFacts, ThenTone
  <2>2. Turns(r, c, Send(StopTone(c), "RELEASE"), c.st, c.tm, c.listed)
    BY <2>1, ThenSend
  <2> QED BY <1>1, <2>2, ReleasingAfter
<1> HIDE DEF x, y, z
<1> QED BY <1>2, <1>3, <1>4, <1>5


(* The call is over after a message of the peer.                           *)
LEMMA PeerEndsAfter ==
  ASSUME NEW r, NEW w, NEW c, Good(r, w, c), NEW d,
         Turns(r, c, d, c.st, c.tm, c.listed), NEW S, NEW p \in EndPrimitives
  PROVE  /\ After(r, w, c, Tell(ToN0(Stop(d, S)), p))
         /\ After(r, w, c, Tell(ToN0(Send(Stop(d, S), "RELEASE_COMPLETE")), p))
         /\ r # "NT" =>
              /\ After(r, w, c, Tell(ToU0(Stop(d, S)), p))
              /\ After(r, w, c, Tell(DropU(Stop(d, S)), p))
              /\ After(r, w, c, Tell(ToU0(Send(Stop(d, S), "RELEASE_COMPLETE")), p))
              /\ After(r, w, c, Tell(DropU(Send(Stop(d, S), "RELEASE_COMPLETE")), p))
<1> DEFINE e == Stop(d, S)
           f == Send(e, "RELEASE_COMPLETE")
           tm == c.tm \ S
<1>1. tm \in SUBSET TimersOf(r)
  BY GoodFacts
<1>2. Turns(r, c, e, c.st, tm, c.listed)
  BY ThenStop
<1> HIDE DEF e, tm
<1>3. Turns(r, c, f, c.st, tm, c.listed)
  BY <1>2, ThenSend
<1> HIDE DEF f
<1>4. /\ After(r, w, c, Tell(ToN0(e), p))
      /\ r # "NT" => After(r, w, c, Tell(ToU0(e), p)) /\ After(r, w, c, Tell(DropU(e), p))
  BY <1>1, <1>2, NullAfter
<1>5. /\ After(r, w, c, Tell(ToN0(f), p))
      /\ r # "NT" => After(r, w, c, Tell(ToU0(f), p)) /\ After(r, w, c, Tell(DropU(f), p))
  BY <1>1, <1>3, NullAfter
<1> QED BY <1>4, <1>5 DEF e, f

(* q931_handle_release.                                                    *)
LEMMA N_ReleasedAfter ==
  ASSUME NEW r, NEW c, Good(r, FALSE, c), NEW m
  PROVE  After(r, FALSE, c, N_handle_release(c, m))
<1> DEFINE d == Decode(c, m)
           b == IF c.st = "N12" THEN StopTone(d) ELSE d
           e == Stop(b, ClearStops(c, "RELEASE"))
<1>1. /\ Turns(r, c, d, c.st, c.tm, c.listed) /\ After(r, FALSE, c, d)
      /\ c.tm \in SUBSET TimersOf(r) /\ c.bc = FALSE
  BY DecodeFacts
<1>2. c.st # "N22"
  BY GoodFacts
<1>3. After(r, FALSE, c, NotCompatible(c))
  BY NotCompatibleAfter
<1>4. N_handle_release(c, m) =
        IF c.st = "N0" THEN ReleaseReference(Send(c, "RELEASE_COMPLETE"))
        ELSE IF c.st \in {"N15", "N17"} THEN NotCompatible(c)
        ELSE IF ~Decodes(m) THEN d
        ELSE IF c.st = "N19" THEN Tell(ToN0(e), "RELEASE_CFM")
        ELSE Tell(ToN0(Send(e, "RELEASE_COMPLETE")), "RELEASE_IND")
  BY <1>1, <1>2 DEF N_handle_release
<1> HIDE DEF d
<1>5. Turns(r, c, b, c.st, c.tm, c.listed)
  BY <1>1, ThenTone
<1> HIDE DEF b
<1>6. /\ After(r, FALSE, c, Tell(ToN0(e), "RELEASE_CFM"))
      /\ After(r, FALSE, c, Tell(ToN0(Send(e, "RELEASE_COMPLETE")), "RELEASE_IND"))
  <2>1. "RELEASE_CFM" \in EndPrimitives /\ "RELEASE_IND" \in EndPrimitives
    BY DEF EndPrimitives
  <2> QED BY <1>5, <2>1, PeerEndsAfter
<1>7. c.st = "N0" => After(r, FALSE, c, ReleaseReference(Send(c, "RELEASE_COMPLETE")))
  <2>1. Turns(r, c, Send(c, "RELEASE_COMPLETE"), c.st, c.tm, c.listed)
    BY GoodFacts, ThenSend
  <2> QED BY <2>1, UnlistedAfter DEF NullStates
<1> HIDE DEF e
<1> QED BY <1>1, <1>3, <1>4, <1>6, <1>7

(* Only the rcr flag differs.                                              *)
LEMMA RcrGood ==
  ASSUME NEW r, NEW w, NEW c, Good(r, w, c)
  PROVE  LET d == [c EXCEPT !.rcr = TRUE]
         IN  /\ Good(r, w, d) /\ d.st = c.st
             /\ \A e : After(r, w, d, e) => After(r, w, c, e)
<1> DEFINE d == [c EXCEPT !.rcr = TRUE]
<1>1. Turns(r, c, d, c.st, c.tm, c.listed) /\ d.ch = c.ch /\ d.ok = c.ok
  <2>1. Shaped(c) /\ Turns(r, c, c, c.st, c.tm, c.listed)
    BY GoodFacts
  <2>2. 0 \in 0..SenqMax
    BY SenqAssumption
  <2>3. Turns(r, c, d, c.st, c.tm, c.listed)
    BY <2>1, <2>2, ThenField
  <2> QED BY <2>1, <2>3 DEF Shaped, CallFields
<1> HIDE DEF d
<1>2. /\ Core(r, c) /\ c.st \in StatesOf(r) /\ c.tm \in SUBSET TimersOf(r)
      /\ c.listed \in BOOLEAN
  BY GoodFacts
<1>3. Core(r, d) /\ d.st = c.st /\ d.tm = c.tm /\ d.listed = c.listed
  BY <1>1, <1>2, CoreOf, TurnsFacts
<1>4. Good(r, w, d)
  BY <1>1, <1>3 DEF Good, Phase
<1>5. ASSUME NEW e, After(r, w, d, e)
      PROVE  After(r, w, c, e)
  BY <1>3, <1>5 DEF After, Known
<1> QED BY <1>3, <1>4, <1>5 DEF d

(* q931_handle_release_complete.                                           *)
LEMMA N_ReleaseCompleteAfter ==
  ASSUME NEW r, NEW c0, Good(r, FALSE, c0), NEW m
  PROVE  After(r, FALSE, c0, N_handle_release_complete(c0, m))
<1> DEFINE c == [c0 EXCEPT !.rcr = TRUE]
           x == N_handle_release_complete(c0, m)
           d == Decode(c, m)
           b == IF c.st = "N12" THEN StopTone(d) ELSE d
           e == Stop(b, ClearStops(c, "RELEASE_COMPLETE"))
<1>1. Good(r, FALSE, c) /\ (After(r, FALSE, c, x) => After(r, FALSE, c0, x))
  BY RcrGood
<1>2. x \in {c, NotCompatible(c), d, Tell(ToN0(e), "REJECT_IND"),
             Tell(ToN0(e), "RELEASE_CFM"), Tell(ToN0(e), "RELEASE_IND")}
  BY DEF N_handle_release_complete
<1> SUFFICES After(r, FALSE, c, x)
  BY <1>1
<1> HIDE DEF c, x
<1>3. Turns(r, c, d, c.st, c.tm, c.listed) /\ After(r, FALSE, c, d)
  BY <1>1, DecodeFacts
<1>4. After(r, FALSE, c, NotCompatible(c)) /\ After(r, FALSE, c, c)
  BY <1>1, NotCompatibleAfter, SelfAfter
<1> HIDE DEF d
<1>5. Turns(r, c, b, c.st, c.tm, c.listed)
  BY <1>3, ThenTone
<1> HIDE DEF b
<1>6. /\ After(r, FALSE, c, Tell(ToN0(e), "REJECT_IND"))
      /\ After(r, FALSE, c, Tell(ToN0(e), "RELEASE_CFM"))
      /\ After(r, FALSE, c, Tell(ToN0(e), "RELEASE_IND"))
  <2>1. /\ "RELEASE_CFM" \in EndPrimitives /\ "RELEASE_IND" \in EndPrimitives
        /\ "REJECT_IND" \in EndPrimitives
    BY DEF EndPrimitives
  <2> QED BY <1>1, <1>5, <2>1, PeerEndsAfter
<1> HIDE DEF e
<1> QED BY <1>2, <1>3, <1>4, <1>6

(* What both sides make of a STATUS, T322 stopped if it answers an         *)
(* enquiry.                                                                *)
LEMMA StatusFacts ==
  ASSUME NEW r, NEW c, Good(r, FALSE, c), NEW m, NEW e,
         e = IF m.resp THEN Stop(Decode(c, m), {"T322"}) ELSE Decode(c, m)
  PROVE  /\ After(r, FALSE, c, e)
         /\ After(r, FALSE, c, Tell(Tell(ToN0(StopAnyTimer(e)), "STATUS_IND"), "RELEASE_IND"))
         /\ After(r, FALSE, c, Tell(Tell(Go(Send(StopAnyTimer(e), "RELEASE"), {}, {"T308"},
                                            "N19"), "STATUS_IND"), "RELEASE_IND"))
         /\ r # "NT" =>
              After(r, FALSE, c, Tell(Tell(ReleaseU(StopAnyTimer(e), {}), "STATUS_IND"),
                                      "RELEASE_IND"))
<1> DEFINE d == Decode(c, m)
<1>1. /\ Turns(r, c, d, c.st, c.tm, c.listed) /\ After(r, FALSE, c, d) /\ d.ch = c.ch
      /\ c.tm \in SUBSET TimersOf(r)
  BY DecodeFacts
<1> HIDE DEF d
<1>2. After(r, FALSE, c, Stop(d, {"T322"}))
  <2>1. c.st \notin CountsIn("T322")
    BY DEF CountsIn
  <2> QED BY <1>1, <2>1, StoppedAfter
<1>3. After(r, FALSE, c, e)
  BY <1>1, <1>2 DEF d
<1>4. \E tm : Turns(r, c, e, c.st, tm, c.listed)
  BY <1>1, ThenStop DEF d
<1>5. Turns(r, c, StopAnyTimer(e), c.st, {}, c.listed) /\ {} \in SUBSET TimersOf(r)
  BY <1>4, ThenStopAny
<1>6. Turns(r, c, Send(StopAnyTimer(e), "RELEASE"), c.st, {}, c.listed)
  BY <1>5, ThenSend
<1>7. "STATUS_IND" \in EndPrimitives /\ "RELEASE_IND" \in EndPrimitives
  BY DEF EndPrimitives
<1>8. After(r, FALSE, c, Tell(Tell(ToN0(StopAnyTimer(e)), "STATUS_IND"), "RELEASE_IND"))
  BY <1>5, <1>7, NullAfter
<1>9. After(r, FALSE, c, Tell(Tell(Go(Send(StopAnyTimer(e), "RELEASE"), {}, {"T308"},
                                      "N19"), "STATUS_IND"), "RELEASE_IND"))
  BY <1>5, <1>6, ReleasingAfter
<1>10. r # "NT" =>
         After(r, FALSE, c, Tell(Tell(ReleaseU(StopAnyTimer(e), {}), "STATUS_IND"),
                                 "RELEASE_IND"))
  BY <1>5, ReleaseUAfter
<1> QED BY <1>3, <1>8, <1>9, <1>10

(* q931_handle_status.                                                     *)
LEMMA N_StatusAfter ==
  ASSUME NEW r, NEW c, Good(r, FALSE, c), NEW m
  PROVE  After(r, FALSE, c, N_handle_status(c, m))
<1> DEFINE d == Decode(c, m)
           e == IF m.resp THEN Stop(d, {"T322"}) ELSE d
           x == Go(Send(d, "RELEASE"), {}, {"T308"}, "N19")
           y == Tell(ToN0(Stop(d, {"T308"})), "STATUS_IND")
           z == Tell(Tell(ToN0(StopAnyTimer(e)), "STATUS_IND"), "RELEASE_IND")
           u == Tell(Tell(Go(Send(StopAnyTimer(e), "RELEASE"), {}, {"T308"}, "N19"),
                          "STATUS_IND"), "RELEASE_IND")
<1>1. /\ Turns(r, c, d, c.st, c.tm, c.listed) /\ After(r, FALSE, c, d)
      /\ c.tm \in SUBSET TimersOf(r)
  BY DecodeFacts
<1>2. After(r, FALSE, c, e) /\ After(r, FALSE, c, z) /\ After(r, FALSE, c, u)
  BY StatusFacts
<1>3. N_handle_status(c, m) \in {d, e, x, y, z, u}
  BY DEF N_handle_status
<1> HIDE DEF d, e, z, u
<1>4. After(r, FALSE, c, x)
  BY <1>1, ThenSend, ReleasingAfter
<1>5. After(r, FALSE, c, y)
  <2>1. "STATUS_IND" \in EndPrimitives
    BY DEF EndPrimitives
  <2> QED BY <1>1, <2>1, PeerEndsAfter
<1> HIDE DEF x, y
<1> QED BY <1>1, <1>2, <1>3, <1>4, <1>5


(* q931_handle_info: in N2 the timer of the overlap sending starts anew.   *)
LEMMA N_InformedAfter ==
  ASSUME NEW r, NEW c, Good(r, FALSE, c), NEW m
  PROVE  After(r, FALSE, c, N_handle_info(c, m))
<1> DEFINE d == Decode(c, m)
           x == Tell(Start(StopTone(d), "T302"), "INFO_IND")
           y == Tell(d, "INFO_IND")
<1>1. /\ Turns(r, c, d, c.st, c.tm, c.listed) /\ After(r, FALSE, c, d) /\ c.bc = FALSE
  BY DecodeFacts
<1>2. After(r, FALSE, c, NotCompatible(c))
  BY NotCompatibleAfter
<1>3. \/ N_handle_info(c, m) \in {d, NotCompatible(c)}
      \/ c.st \notin NullStates /\ N_handle_info(c, m) \in {x, y}
  BY <1>1 DEF N_handle_info, NullStates
<1> HIDE DEF d
<1>4. c.st \notin NullStates => After(r, FALSE, c, y)
  BY <1>1, ToldAfter
<1>5. ASSUME c.st \notin NullStates
      PROVE  After(r, FALSE, c, x)
  <2> DEFINE tm == c.tm \cup {"T302"}
  <2>1. Turns(r, c, x, c.st, tm, c.listed)
    BY <1>1, ThenTone, ThenStart, ThenTell
  <2>2. tm \in SUBSET TimersOf(r) /\ Watched(c.st, tm)
    <3>1. {"T302"} \in SUBSET (Timers \ {"T319"})
      BY DEF Timers
    <3> QED BY <3>1, MoreTimers
  <2> HIDE DEF x, tm
  <2> QED BY <1>5, <2>1, <2>2, StayAfter
<1> HIDE DEF x, y
<1> QED BY <1>1, <1>2, <1>3, <1>4, <1>5

(* q931_handle_resume, q931_handle_suspend and an unknown message.         *)
LEMMA N_ResumedAfter ==
  ASSUME NEW r, NEW c, Good(r, FALSE, c), NEW m
  PROVE  /\ After(r, FALSE, c, N_handle_resume(c, m))
         /\ After(r, FALSE, c, N_handle_suspend(c, m))
         /\ After(r, FALSE, c, N_handle_unknown(c))
<1> DEFINE d == Decode(c, m)
           x == Tell(SetState(d, "N17"), "RESUME_IND")
           y == Tell(SetState(d, "N15"), "SUSPEND_IND")
<1>1. /\ Turns(r, c, d, c.st, c.tm, c.listed) /\ After(r, FALSE, c, d)
      /\ c.tm \in SUBSET TimersOf(r)
  BY DecodeFacts
<1>2. After(r, FALSE, c, NotCompatible(c))
  BY NotCompatibleAfter
<1>3. /\ N_handle_resume(c, m) = IF c.st # "N0" THEN NotCompatible(c)
                                 ELSE IF Decodes(m) THEN x ELSE d
      /\ N_handle_suspend(c, m) = IF c.st # "N10" THEN NotCompatible(c)
                                  ELSE IF Decodes(m) THEN y ELSE d
  BY DEF N_handle_resume, N_handle_suspend
<1> HIDE DEF d
<1>4. c.st \in {"N0", "N10"} => After(r, FALSE, c, x) /\ After(r, FALSE, c, y)
  <2>1. Turns(r, c, x, "N17", c.tm, c.listed) /\ Turns(r, c, y, "N15", c.tm, c.listed)
    BY <1>1, ThenSetState, ThenTell
  <2>2. /\ Watched("N17", c.tm) /\ "N17" \in StatesOf(r) \ NullStates
        /\ Watched("N15", c.tm) /\ "N15" \in StatesOf(r) \ NullStates
        /\ c.st \in {"N0", "N10"} => c.st \notin Clearing
    BY DEF Watched, NStates, StatesOf, NullStates, Clearing
  <2> HIDE DEF x, y
  <2> QED BY <1>1, <2>1, <2>2, MoveAfter
<1> HIDE DEF x, y
<1>5. After(r, FALSE, c, N_handle_unknown(c))
  <2>1. Turns(r, c, Send(c, "RELEASE"), c.st, c.tm, c.listed)
    BY GoodFacts, ThenSend
  <2>2. After(r, FALSE, c, SendStatus(Go(Send(c, "RELEASE"), {}, {"T308"}, "N19"), "N19"))
    BY <1>1, <2>1, ReleasingAfter
  <2> QED BY <2>2, SendAfter DEF N_handle_unknown
<1> QED BY <1>1, <1>2, <1>3, <1>4, <1>5

(* Every message to a call in a network state.                             *)
LEMMA N_MessageAfter ==
  ASSUME NEW r, NEW c, Good(r, FALSE, c), NEW m, Channelled(m)
  PROVE  After(r, FALSE, c, N_dispatch_message(c, m))
  BY N_AnswersAfter, N_ProgressAfter, N_SetupAfter, N_DisconnectedAfter, N_ReleasedAfter,
     N_ReleaseCompleteAfter, N_StatusAfter, N_InformedAfter, N_ResumedAfter,
     NotCompatibleAfter
  DEF N_dispatch_message

-----------------------------------------------------------------------------
(* Messages for a call in a user state.                                    *)

(* The first answer to a SETUP.                                            *)
LEMMA FirstAnswerAfter ==
  ASSUME NEW r, NEW c, Good(r, FALSE, c), r # "NT", c.st = "U1", NEW d,
         Turns(r, c, d, c.st, c.tm, c.listed), NEW m, Channelled(m), NEW p
  PROVE  /\ After(r, FALSE, c, FirstAnswer(d, m, {}, "U3", p))
         /\ After(r, FALSE, c, FirstAnswer(d, m, {"T304"}, "U2", p))
<1>1. c.tm \in SUBSET TimersOf(r) /\ Fit(r, c) /\ c.st \notin Clearing
  BY GoodFacts DEF Clearing
<1>2. /\ {} \in SUBSET Timers /\ {"T304"} \in SUBSET Timers /\ {"T308"} \in SUBSET Timers
      /\ Timers = TimersOf(r)
      /\ "U1" \in UStates \ {"U0", "U11", "U17", "U19"}
      /\ "U3" \in StatesOf(r) \ NullStates /\ "U2" \in StatesOf(r) \ NullStates
  BY DEF Timers, TimersOf, UStates, StatesOf, NullStates
<1>3. CASE Selects(d, m)
  <2> DEFINE e == SelectResponse(d, m)
             t1 == (c.tm \ {"T303"}) \cup {}
             t2 == (c.tm \ {"T303"}) \cup {"T304"}
             x == Tell(ChanControl(Go(e, {"T303"}, {}, "U3")), p)
             y == Tell(ChanControl(Go(e, {"T303"}, {"T304"}, "U2")), p)
  <2>1. Turns(r, c, e, c.st, c.tm, c.listed)
    BY <1>1, <1>3, ThenSelect DEF Channelled
  <2> HIDE DEF e
  <2>2. /\ Turns(r, c, Go(e, {"T303"}, {}, "U3"), "U3", t1, c.listed)
        /\ Turns(r, c, Go(e, {"T303"}, {"T304"}, "U2"), "U2", t2, c.listed)
    BY <2>1, ThenGo
  <2>3. /\ Turns(r, c, ChanControl(Go(e, {"T303"}, {}, "U3")), "U3", t1, c.listed)
        /\ Turns(r, c, ChanControl(Go(e, {"T303"}, {"T304"}, "U2")), "U2", t2, c.listed)
    BY <1>1, <2>2, ThenChan
  <2>4. Turns(r, c, x, "U3", t1, c.listed) /\ Turns(r, c, y, "U2", t2, c.listed)
    BY <2>3, ThenTell
  <2>5. /\ t1 \in SUBSET TimersOf(r) /\ t2 \in SUBSET TimersOf(r)
        /\ Watched("U3", t1) /\ Watched("U2", t2)
    BY <1>1, <1>2 DEF Watched
  <2> HIDE DEF x, y, t1, t2
  <2>6. After(r, FALSE, c, x) /\ After(r, FALSE, c, y)
    BY <1>1, <1>2, <2>4, <2>5, MoveAfter
  <2> QED BY <1>3, <2>6 DEF FirstAnswer, e, x, y
<1>4. CASE ~Selects(d, m)
  <2>1. Turns(r, c, Send(d, "RELEASE"), c.st, c.tm, c.listed)
    BY ThenSend
  <2>2. After(r, FALSE, c, Tell(Go(Send(d, "RELEASE"), {"T303"}, {"T308"}, "U1"),
                                "RELEASE_IND"))
    BY <1>1, <1>2, <2>1, OnwardU
  <2> QED BY <1>4, <2>2 DEF FirstAnswer
<1> QED BY <1>3, <1>4

(* q931_handle_alerting, q931_handle_call_proceeding, q931_handle_connect, *)
(* q931_handle_connect_acknowledge and q931_handle_setup_acknowledge.      *)
LEMMA U_AnsweredAfter ==
  ASSUME NEW r, NEW c, Good(r, FALSE, c), r # "NT", NEW m, Channelled(m)
  PROVE  /\ After(r, FALSE, c, U_handle_alerting(c, m))
         /\ After(r, FALSE, c, U_handle_call_proceeding(c, m))
         /\ After(r, FALSE, c, U_handle_connect(c, m))
         /\ After(r, FALSE, c, U_handle_connect_acknowledge(c, m))
         /\ After(r, FALSE, c, U_handle_setup_acknowledge(c, m))
<1> DEFINE d == Decode(c, m)
<1>1. /\ Turns(r, c, d, c.st, c.tm, c.listed) /\ After(r, FALSE, c, d)
      /\ c.tm \in SUBSET TimersOf(r) /\ Fit(r, c)
  BY DecodeFacts
<1>2. After(r, FALSE, c, NotCompatible(c))
  BY NotCompatibleAfter
<1> HIDE DEF d
<1>3. /\ Turns(r, c, ChanControl(d), c.st, c.tm, c.listed)
      /\ Turns(r, c, ChanConnect(d), c.st, c.tm, c.listed)
  BY <1>1, ThenChan
<1>4. Turns(r, c, Send(ChanConnect(d), "CONNECT_ACKNOWLEDGE"), c.st, c.tm, c.listed)
  BY <1>3, ThenSend
<1>5. /\ {} \in SUBSET Timers
      /\ {"U3", "U4", "U10"} \subseteq UStates \ {"U0", "U11", "U17", "U19"}
      /\ c.st \in {"U1", "U2", "U3", "U4", "U8"} => c.st \notin Clearing
  BY DEF UStates, Clearing
<1>6. ASSUME c.st \in {"U2", "U3", "U4", "U8"}, NEW T
      PROVE  /\ After(r, FALSE, c, Tell(Go(ChanControl(d), T, {}, "U4"), "ALERTING_IND"))
             /\ After(r, FALSE, c, Tell(Go(ChanControl(d), T, {}, "U3"), "PROCEEDING_IND"))
             /\ After(r, FALSE, c, Tell(Go(Send(ChanConnect(d), "CONNECT_ACKNOWLEDGE"),
                                           T, {}, "U10"), "SETUP_CFM"))
             /\ After(r, FALSE, c, Tell(Go(ChanConnect(d), T, {}, "U10"),
                                        "SETUP_COMPLETE_IND"))
  BY <1>1, <1>3, <1>4, <1>5, <1>6, OnwardU
<1>7. ASSUME c.st = "U1"
      PROVE  /\ After(r, FALSE, c, FirstAnswer(d, m, {}, "U3", "PROCEEDING_IND"))
             /\ After(r, FALSE, c, FirstAnswer(d, m, {"T304"}, "U2", "MORE_INFO_IND"))
  BY <1>1, <1>7, FirstAnswerAfter
<1>8. After(r, FALSE, c, U_handle_alerting(c, m))
  BY <1>1, <1>2, <1>6 DEF U_handle_alerting, d
<1>9. After(r, FALSE, c, U_handle_call_proceeding(c, m))
  BY <1>1, <1>2, <1>6, <1>7 DEF U_handle_call_proceeding, d
<1>10. After(r, FALSE, c, U_handle_connect(c, m))
  BY <1>1, <1>2, <1>6 DEF U_handle_connect, d
<1>11. After(r, FALSE, c, U_handle_connect_acknowledge(c, m))
  BY <1>1, <1>2, <1>6 DEF U_handle_connect_acknowledge, d
<1>12. After(r, FALSE, c, U_handle_setup_acknowledge(c, m))
  BY <1>1, <1>2, <1>7 DEF U_handle_setup_acknowledge, d
<1> QED BY <1>8, <1>9, <1>10, <1>11, <1>12


(* q931_handle_progress, q931_handle_info and q931_handle_notify.          *)
LEMMA U_ProgressedAfter ==
  ASSUME NEW r, NEW c, Good(r, FALSE, c), r # "NT", NEW m
  PROVE  /\ After(r, FALSE, c, U_handle_progress(c, m))
         /\ After(r, FALSE, c, U_handle_info(c, m))
         /\ After(r, FALSE, c, U_handle_notify(c, m))
<1> DEFINE d == Decode(c, m)
           S == IF c.st = "U2" /\ m.excl THEN {"T304"} ELSE {}
           x == Tell(Stop(ChanControl(d), S), "PROGRESS_IND")
           y == Tell(Start(d, "T302"), "INFO_IND")
<1>1. /\ Turns(r, c, d, c.st, c.tm, c.listed) /\ After(r, FALSE, c, d)
      /\ c.tm \in SUBSET TimersOf(r) /\ Fit(r, c)
  BY DecodeFacts
<1>2. After(r, FALSE, c, NotCompatible(c)) /\ After(r, FALSE, c, c)
  BY NotCompatibleAfter, SelfAfter
<1>3. /\ U_handle_progress(c, m) = IF c.st \in {"U2", "U3", "U4"}
                                   THEN IF ~Decodes(m) THEN d ELSE x
                                   ELSE NotCompatible(c)
      /\ \/ U_handle_info(c, m) \in {d, NotCompatible(c)}
         \/ c.st \notin NullStates /\ U_handle_info(c, m) \in {y, Tell(d, "INFO_IND")}
      /\ \/ U_handle_notify(c, m) \in {d, c}
         \/ c.st \notin NullStates /\ U_handle_notify(c, m) = Tell(d, "NOTIFY_IND")
  BY DEF U_handle_progress, U_handle_info, U_handle_notify, NullStates
<1> HIDE DEF d, S
<1>4. c.st \notin NullStates =>
        After(r, FALSE, c, Tell(d, "INFO_IND")) /\ After(r, FALSE, c, Tell(d, "NOTIFY_IND"))
  BY <1>1, ToldAfter
<1>5. ASSUME c.st \in {"U2", "U3", "U4"}
      PROVE  After(r, FALSE, c, x)
  <2> DEFINE tm == c.tm \ S
  <2>1. Turns(r, c, ChanControl(d), c.st, c.tm, c.listed)
    BY <1>1, ThenChan
  <2>2. Turns(r, c, x, c.st, tm, c.listed)
    BY <2>1, ThenStop, ThenTell
  <2>3. tm \in SUBSET TimersOf(r) /\ Watched(c.st, tm) /\ c.st \notin NullStates
    BY <1>1, <1>5 DEF Watched, NullStates
  <2> HIDE DEF x, tm
  <2> QED BY <2>2, <2>3, StayAfter
<1>6. ASSUME c.st \notin NullStates
      PROVE  After(r, FALSE, c, y)
  <2> DEFINE tm == c.tm \cup {"T302"}
  <2>1. Turns(r, c, y, c.st, tm, c.listed)
    BY <1>1, ThenStart, ThenTell
  <2>2. tm \in SUBSET TimersOf(r) /\ Watched(c.st, tm)
    <3>1. {"T302"} \in SUBSET (Timers \ {"T319"})
      BY DEF Timers
    <3> QED BY <3>1, MoreTimers
  <2> HIDE DEF y, tm
  <2> QED BY <1>6, <2>1, <2>2, StayAfter
<1> HIDE DEF x, y
<1> QED BY <1>1, <1>2, <1>3, <1>4, <1>5, <1>6

(* q931_handle_setup: the channel is the call's but stays available.       *)
LEMMA U_SetupAfter ==
  ASSUME NEW r, NEW c, Good(r, FALSE, c), r # "NT", c.st \notin NStates, NEW m
  PROVE  After(r, FALSE, c, U_handle_setup(c, m))
<1> DEFINE d == Decode(c, m)
           ch == SelectSetup(d, m)
           b == [d EXCEPT !.ch = NoChan]
           x == DropU(Send(b, "RELEASE_COMPLETE"))
           y == Tell(SetState(ChanSelect(d, ch, d.chans[ch].st), "U6"), "SETUP_IND")
<1>1. /\ Turns(r, c, d, c.st, c.tm, c.listed) /\ After(r, FALSE, c, d) /\ d.ch = c.ch
      /\ c.tm \in SUBSET TimersOf(r) /\ Fit(r, c)
  BY DecodeFacts
<1>2. After(r, FALSE, c, c)
  BY SelfAfter
<1>3. U_handle_setup(c, m) = IF c.st # "U0" THEN c ELSE IF ~Decodes(m) THEN d
                             ELSE IF ch = NoChan THEN x ELSE y
  BY DEF U_handle_setup
<1>4. ch = NoChan \/ ch \in Channels
  BY SelectSetupIn
<1> HIDE DEF d, ch
<1>5. Shaped(d) /\ Fit(r, d) /\ d.st = c.st /\ d.tm = c.tm
  BY <1>1 DEF Turns
<1>6. c.st = "U0" => d.ch = NoChan
  BY <1>1, GoodFacts DEF NullStates
<1>7. ASSUME c.st = "U0"
      PROVE  After(r, FALSE, c, x)
  <2>1. Turns(r, c, b, c.st, c.tm, c.listed)
    <3>1. d.ch = NoChan
      BY <1>6, <1>7
    <3> QED BY <1>1, <3>1 DEF Turns, Shaped, CallFields, Fit, Owned, Typed, Ends, Sent
  <2>2. c.st \in Refusable \cup NullStates
    BY <1>7 DEF NullStates
  <2> HIDE DEF b
  <2> QED BY <1>1, <2>1, <2>2, RefusedAfter
<1>8. ASSUME c.st = "U0", ch # NoChan
      PROVE  After(r, FALSE, c, y)
  <2> DEFINE e == ChanSelect(d, ch, d.chans[ch].st)
  <2>1. d.ok => \A z \in Channels : d.chans[z].own # "call"
    BY <1>5, <1>6, <1>8, ChannelsAssumption DEF Fit, Owned
  <2>2. d.chans[ch].st \in ChanStates
    BY <1>4, <1>5, <1>8 DEF Fit
  <2>3. Calm(r, d, e)
    BY <1>4, <1>5, <1>8, <2>1, <2>2, ChanSelectCalm
  <2>4. Turns(r, c, e, c.st, c.tm, c.listed)
    BY <1>1, <2>3, TurnsOn
  <2> HIDE DEF e
  <2>5. Turns(r, c, y, "U6", c.tm, c.listed)
    BY <2>4, ThenSetState, ThenTell DEF e
  <2>6. Watched("U6", c.tm) /\ "U6" \in StatesOf(r) \ NullStates /\ c.st \notin Clearing
    BY <1>8 DEF Watched, UStates, StatesOf, NullStates, Clearing
  <2> HIDE DEF y
  <2> QED BY <1>1, <2>5, <2>6, MoveAfter
<1> HIDE DEF x, y
<1> QED BY <1>1, <1>2, <1>3, <1>7, <1>8

(* q931_handle_disconnect.                                                 *)
LEMMA U_DisconnectedAfter ==
  ASSUME NEW r, NEW c, Good(r, FALSE, c), r # "NT", NEW m
  PROVE  After(r, FALSE, c, U_handle_disconnect(c, m))
<1> DEFINE d == Decode(c, m)
           S == [U2 |-> {"T304"}, U3 |-> {}, U4 |-> {}, U6 |-> {}, U7 |-> {},
                 U8 |-> {"T313"}, U9 |-> {"T313"}, U10 |-> {}, U15 |-> {"T319"},
                 U25 |-> {"T302"}]
           x == Tell(Go(ChanControl(d), S[c.st], {}, "U12"), "DISCONNECT_IND")
           y == Tell(Go(d, S[c.st], {}, "U12"), "DISCONNECT_IND")
           z == ReleaseU(c, {"T305"})
           u == ReleaseU(c, {"T318"})
<1>1. /\ Turns(r, c, d, c.st, c.tm, c.listed) /\ c.tm \in SUBSET TimersOf(r)
      /\ Fit(r, c)
  BY DecodeFacts
<1>2. After(r, FALSE, c, NotCompatible(c)) /\ After(r, FALSE, c, c)
  BY NotCompatibleAfter, SelfAfter
<1>3. U_handle_disconnect(c, m) \in {x, y, z, u, c, NotCompatible(c)}
  <2>1. U_handle_disconnect(c, m) =
          CASE c.st \in DOMAIN S ->
                 Tell(Go(IF c.st \in {"U2", "U3", "U4"} THEN ChanControl(d) ELSE d,
                         S[c.st], {}, "U12"), "DISCONNECT_IND")
            [] c.st = "U11" -> z
            [] c.st = "U17" -> u
            [] c.st = "U19" -> c
            [] OTHER -> NotCompatible(c)
    BY DEF U_handle_disconnect
  <2> QED BY <2>1
<1> HIDE DEF d, S
<1>4. After(r, FALSE, c, x) /\ After(r, FALSE, c, y)
  <2>1. Turns(r, c, ChanControl(d), c.st, c.tm, c.listed)
    BY <1>1, ThenChan
  <2>2. /\ {} \in SUBSET Timers /\ "U12" \in UStates \ {"U0"}
        /\ "U12" \in Clearing /\ Watched("U12", {})
    BY DEF UStates, Watched, Clearing
  <2> QED BY <1>1, <2>1, <2>2, GoU
<1>5. After(r, FALSE, c, z) /\ After(r, FALSE, c, u)
  <2>1. Turns(r, c, c, c.st, c.tm, c.listed)
    BY GoodFacts
  <2> QED BY <1>1, <2>1, ReleaseUAfter
<1> HIDE DEF x, y, z, u
<1> QED BY <1>2, <1>3, <1>4, <1>5

(* q931_handle_release.                                                    *)
LEMMA U_ReleasedAfter ==
  ASSUME NEW r, NEW c, Good(r, FALSE, c), r # "NT", NEW m
  PROVE  After(r, FALSE, c, U_handle_release(c, m))
<1> DEFINE d == Decode(c, m)
           e == Stop(d, ClearStopsU(c.st))
           x == Tell(ToU0(e), "RELEASE_CFM")
           y == Tell(DropU(Send(e, "RELEASE_COMPLETE")), "RELEASE_IND")
           z == Tell(ToU0(Send(e, "RELEASE_COMPLETE")), "RELEASE_IND")
<1>1. Turns(r, c, d, c.st, c.tm, c.listed) /\ After(r, FALSE, c, d)
  BY DecodeFacts
<1>2. \/ c.st = "U0" /\ U_handle_release(c, m) = ReleaseReference(Send(c, "RELEASE_COMPLETE"))
      \/ U_handle_release(c, m) \in {d, x, y, z}
  BY DEF U_handle_release
<1> HIDE DEF d
<1>3. After(r, FALSE, c, x) /\ After(r, FALSE, c, y) /\ After(r, FALSE, c, z)
  <2>1. "RELEASE_CFM" \in EndPrimitives /\ "RELEASE_IND" \in EndPrimitives
    BY DEF EndPrimitives
  <2> QED BY <1>1, <2>1, PeerEndsAfter
<1>4. c.st = "U0" => After(r, FALSE, c, ReleaseReference(Send(c, "RELEASE_COMPLETE")))
  <2>1. Turns(r, c, Send(c, "RELEASE_COMPLETE"), c.st, c.tm, c.listed)
    BY GoodFacts, ThenSend
  <2> QED BY <2>1, UnlistedAfter DEF NullStates
<1> HIDE DEF x, y, z
<1> QED BY <1>1, <1>2, <1>3, <1>4

(* q931_handle_release_complete.                                           *)
LEMMA U_ReleaseCompleteAfter ==
  ASSUME NEW r, NEW c0, Good(r, FALSE, c0), r # "NT", NEW m
  PROVE  After(r, FALSE, c0, U_handle_release_complete(c0, m))
<1> DEFINE c == [c0 EXCEPT !.rcr = TRUE]
           v == U_handle_release_complete(c0, m)
           d == Decode(c, m)
           e == Stop(d, ClearStopsU(c.st))
<1>1. Good(r, FALSE, c) /\ (After(r, FALSE, c, v) => After(r, FALSE, c0, v))
  BY RcrGood
<1>2. v \in {c, Tell(ToU0(e), "REJECT_IND"), Tell(DropU(e), "RELEASE_IND"),
             Tell(ToU0(e), "RELEASE_CFM"), Tell(ToU0(e), "RELEASE_IND")}
  BY DEF U_handle_release_complete
<1> SUFFICES After(r, FALSE, c, v)
  BY <1>1
<1> HIDE DEF c, v
<1>3. Turns(r, c, d, c.st, c.tm, c.listed)
  BY <1>1, DecodeFacts
<1>4. After(r, FALSE, c, c)
  BY <1>1, SelfAfter
<1> HIDE DEF d
<1>5. /\ After(r, FALSE, c, Tell(ToU0(e), "REJECT_IND"))
      /\ After(r, FALSE, c, Tell(ToU0(e), "RELEASE_CFM"))
      /\ After(r, FALSE, c, Tell(ToU0(e), "RELEASE_IND"))
      /\ After(r, FALSE, c, Tell(DropU(e), "RELEASE_IND"))
  <2>1. /\ "RELEASE_CFM" \in EndPrimitives /\ "RELEASE_IND" \in EndPrimitives
        /\ "REJECT_IND" \in EndPrimitives
    BY DEF EndPrimitives
  <2> QED BY <1>1, <1>3, <2>1, PeerEndsAfter
<1> HIDE DEF e
<1> QED BY <1>2, <1>4, <1>5


(* q931_handle_status.                                                     *)
LEMMA U_StatusAfter ==
  ASSUME NEW r, NEW c, Good(r, FALSE, c), r # "NT", NEW m
  PROVE  After(r, FALSE, c, U_handle_status(c, m))
<1> DEFINE d == Decode(c, m)
           e == IF m.resp THEN Stop(d, {"T322"}) ELSE d
           x == ReleaseU(d, {})
           y == Tell(ToU0(Stop(d, {"T308"})), "STATUS_IND")
           z == Tell(Tell(ToN0(StopAnyTimer(e)), "STATUS_IND"), "RELEASE_IND")
           u == Tell(Tell(ReleaseU(StopAnyTimer(e), {}), "STATUS_IND"), "RELEASE_IND")
<1>1. /\ Turns(r, c, d, c.st, c.tm, c.listed) /\ After(r, FALSE, c, d)
      /\ c.tm \in SUBSET TimersOf(r)
  BY DecodeFacts
<1>2. After(r, FALSE, c, e) /\ After(r, FALSE, c, z) /\ After(r, FALSE, c, u)
  BY StatusFacts
<1>3. U_handle_status(c, m) \in {d, e, x, y, z, u}
  BY DEF U_handle_status
<1> HIDE DEF d, e, z, u
<1>4. After(r, FALSE, c, x)
  BY <1>1, ReleaseUAfter
<1>5. After(r, FALSE, c, y)
  <2>1. "STATUS_IND" \in EndPrimitives
    BY DEF EndPrimitives
  <2> QED BY <1>1, <2>1, PeerEndsAfter
<1> HIDE DEF x, y
<1> QED BY <1>1, <1>2, <1>3, <1>4, <1>5

(* The answers to a RESUME and a SUSPEND, and an unknown message.          *)
LEMMA U_ResumedAfter ==
  ASSUME NEW r, NEW c, Good(r, FALSE, c), r # "NT", NEW m
  PROVE  /\ After(r, FALSE, c, U_handle_resume_acknowledge(c, m))
         /\ After(r, FALSE, c, U_handle_resume_reject(c, m))
         /\ After(r, FALSE, c, U_handle_suspend_acknowledge(c, m))
         /\ After(r, FALSE, c, U_handle_suspend_reject(c, m))
         /\ After(r, FALSE, c, U_handle_unknown(c))
<1> DEFINE d == Decode(c, m)
           x == Tell(Go(ChanConnect(d), {"T318"}, {}, "U10"), "RESUME_CFM")
           y == Tell(DropU(Stop(d, {"T318"})), "RESUME_CFM")
           z == Tell(ToU0(Stop(d, {"T319"})), "SUSPEND_CFM")
           u == Tell(Go(d, {"T319"}, {}, "U10"), "SUSPEND_CFM")
<1>1. /\ Turns(r, c, d, c.st, c.tm, c.listed) /\ After(r, FALSE, c, d)
      /\ c.tm \in SUBSET TimersOf(r) /\ Fit(r, c)
  BY DecodeFacts
<1>2. After(r, FALSE, c, NotCompatible(c))
  BY NotCompatibleAfter
<1>3. /\ \/ U_handle_resume_acknowledge(c, m) \in {d, NotCompatible(c)}
         \/ c.st = "U17" /\ U_handle_resume_acknowledge(c, m) = x
      /\ U_handle_resume_reject(c, m) \in {d, NotCompatible(c), y}
      /\ U_handle_suspend_acknowledge(c, m) \in {d, NotCompatible(c), z}
      /\ \/ U_handle_suspend_reject(c, m) \in {d, NotCompatible(c)}
         \/ c.st = "U15" /\ U_handle_suspend_reject(c, m) = u
  BY DEF U_handle_resume_acknowledge, U_handle_resume_reject,
         U_handle_suspend_acknowledge, U_handle_suspend_reject
<1> HIDE DEF d
<1>4. /\ {} \in SUBSET Timers /\ "U10" \in UStates \ {"U0", "U11", "U17", "U19"}
      /\ c.st \in {"U15", "U17"} => c.st \notin Clearing
      /\ "RESUME_CFM" \in EndPrimitives /\ "SUSPEND_CFM" \in EndPrimitives
  BY DEF UStates, Clearing, EndPrimitives
<1>5. c.st \in {"U15", "U17"} => After(r, FALSE, c, x) /\ After(r, FALSE, c, u)
  <2>1. Turns(r, c, ChanConnect(d), c.st, c.tm, c.listed)
    BY <1>1, ThenChan
  <2> QED BY <1>1, <1>4, <2>1, OnwardU
<1>6. After(r, FALSE, c, y) /\ After(r, FALSE, c, z)
  BY <1>1, <1>4, PeerEndsAfter
<1>7. After(r, FALSE, c, U_handle_unknown(c))
  <2>1. Turns(r, c, c, c.st, c.tm, c.listed)
    BY GoodFacts
  <2>2. After(r, FALSE, c, ReleaseU(c, {}))
    BY <1>1, <2>1, ReleaseUAfter
  <2> QED BY <2>2, SendAfter DEF U_handle_unknown
<1> HIDE DEF x, y, z, u
<1> QED BY <1>1, <1>2, <1>3, <1>5, <1>6, <1>7

(* Every message to a call in a user state.                                *)
LEMMA U_MessageAfter ==
  ASSUME NEW r, NEW c, Good(r, FALSE, c), r # "NT", c.st \notin NStates,
         NEW m, Channelled(m)
  PROVE  After(r, FALSE, c, U_dispatch_message(c, m))
<1>1. After(r, FALSE, c, handle_status_enquiry(c))
  BY N_ProgressAfter
<1> QED BY <1>1, U_AnsweredAfter, U_ProgressedAfter, U_SetupAfter, U_DisconnectedAfter,
           U_ReleasedAfter, U_ReleaseCompleteAfter, U_StatusAfter, U_ResumedAfter,
           NotCompatibleAfter
        DEF U_dispatch_message

(* A message for the call.                                                 *)
LEMMA MessageAfter ==
  ASSUME NEW r, NEW c, Good(r, FALSE, c), NEW m, Channelled(m)
  PROVE  After(r, FALSE, c, dispatch_message(c, m))
  BY N_MessageAfter, U_MessageAfter, UserRole DEF dispatch_message

(* A message with a call reference no call has.                            *)
LEMMA UnknownAfter ==
  ASSUME NEW r, NEW c, Good(r, FALSE, c), c.st \in NullStates, NEW m, Channelled(m)
  PROVE  After(r, FALSE, c, receive_unknown(c, m, FALSE))
<1>1. c.tm \in SUBSET TimersOf(r) /\ Turns(r, c, c, c.st, c.tm, c.listed)
  BY GoodFacts
<1>2. /\ Turns(r, c, Send(c, "RELEASE_COMPLETE"), c.st, c.tm, c.listed)
      /\ Turns(r, c, Send(c, "RELEASE"), c.st, c.tm, c.listed)
  BY <1>1, ThenSend
<1>3. /\ After(r, FALSE, c, ReleaseReference(Send(c, "RELEASE_COMPLETE")))
      /\ After(r, FALSE, c, ReleaseReference(c))
  BY <1>1, <1>2, UnlistedAfter
<1>4. After(r, FALSE, c, Go(Send(c, "RELEASE"), {}, {"T308"}, "N19"))
  BY <1>1, <1>2, ReleasingAfter
<1>5. c.st = "U0" => After(r, FALSE, c, Go(Send(c, "RELEASE"), {}, {"T308"}, "U19"))
  <2>1. c.st = "U0" => r # "NT"
    BY UserRole DEF NStates
  <2> QED BY <1>1, <2>1, ReleaseUAfter DEF ReleaseU
<1>6. After(r, FALSE, c, dispatch_message(c, m))
  BY MessageAfter
<1> QED BY <1>3, <1>4, <1>5, <1>6 DEF receive_unknown, NullStates

-----------------------------------------------------------------------------
(* Data link indications.                                                  *)

(* The data link is established: w is false now, whatever it was.          *)
LEMMA UpGood ==
  ASSUME NEW r, NEW w, NEW c, Good(r, w, c)
  PROVE  Good(r, FALSE, c)
  BY DEF Good, Phase

(* q931_call_dl_establish_indication.                                      *)
LEMMA EstablishAfter ==
  ASSUME NEW r, NEW c, Good(r, FALSE, c)
  PROVE  After(r, FALSE, c, dl_establish_indication(c))
<1>1. /\ c.tm \in SUBSET TimersOf(r) /\ Turns(r, c, c, c.st, c.tm, c.listed)
      /\ Fit(r, c) /\ {} \in SUBSET TimersOf(r)
  BY GoodFacts
<1>2. After(r, FALSE, c, c)
  BY SelfAfter
<1>3. Turns(r, c, StopAnyTimer(c), c.st, {}, c.listed)
  BY <1>1, ThenStopAny
<1>4. After(r, FALSE, c, Tell(DisconnectN(StopAnyTimer(c)), "DISCONNECT_IND"))
  BY <1>1, <1>3, DisconnectingAfter
<1>5. Turns(r, c, ChanDisconnect(c), c.st, c.tm, c.listed)
  BY <1>1, ThenChan
<1>6. Turns(r, c, Send(ChanDisconnect(c), "DISCONNECT"), c.st, c.tm, c.listed)
  BY <1>5, ThenSend
<1>7. After(r, FALSE, c, Tell(Go(Send(ChanDisconnect(c), "DISCONNECT"), {}, {"T305"}, "N12"),
                              "RELEASE_IND"))
  BY <1>1, <1>6, DisconnectingAfter
<1>8. ASSUME r # "NT", NEW S
      PROVE  After(r, FALSE, c, Tell(Go(Send(ChanRelease(c), "DISCONNECT"), S, {"T305"},
                                        "U11"), "DISCONNECT_IND"))
  BY <1>1, <1>8, DisconnectUAfter
<1>9. c.st \notin NStates => r # "NT"
  BY UserRole
<1>10. After(r, FALSE, c, N_dl_establish_indication(c))
  BY <1>2, <1>4, <1>7 DEF N_dl_establish_indication
<1>11. c.st \notin NStates => After(r, FALSE, c, U_dl_establish_indication(c))
  BY <1>2, <1>8, <1>9 DEF U_dl_establish_indication
<1> QED BY <1>10, <1>11 DEF dl_establish_indication

(* q931_call_dl_establish_confirm: T309 is no longer needed.               *)
LEMMA ConfirmAfter ==
  ASSUME NEW r, NEW c, Good(r, FALSE, c)
  PROVE  After(r, FALSE, c, dl_establish_confirm(c))
<1>1. c.tm \in SUBSET TimersOf(r) /\ Turns(r, c, c, c.st, c.tm, c.listed)
  BY GoodFacts
<1>2. After(r, FALSE, c, c)
  BY SelfAfter
<1>3. ASSUME c.st \in {"N10", "U10"}, NEW s
      PROVE  After(r, FALSE, c, SendStatus(Stop(c, {"T309"}), s))
  <2>1. Turns(r, c, SendStatus(Stop(c, {"T309"}), s), c.st, c.tm \ {"T309"}, c.listed)
    BY <1>1, ThenStop, ThenSendStatus
  <2>2. /\ c.tm \ {"T309"} \in SUBSET TimersOf(r) /\ Watched(c.st, c.tm \ {"T309"})
        /\ c.st \notin NullStates
    BY <1>1, <1>3 DEF Watched, NullStates
  <2> QED BY <2>1, <2>2, StayAfter
<1> QED BY <1>2, <1>3 DEF dl_establish_confirm, N_dl_establish_confirm,
           U_dl_establish_confirm

(* q931_call_dl_release_indication: what is left listed may wait for the   *)
(* data link.                                                              *)
LEMMA LossAfter ==
  ASSUME NEW r, NEW w, NEW c, Good(r, w, c)
  PROVE  After(r, TRUE, c, dl_release_indication(c))
<1>1. /\ c.tm \in SUBSET TimersOf(r) /\ Turns(r, c, c, c.st, c.tm, c.listed)
      /\ Fit(r, c) /\ {} \in SUBSET TimersOf(r) /\ c.bc = FALSE
  BY GoodFacts
<1>2. CASE c.st \in NullStates \cup {"N10", "U10"} /\ ("T309" \notin c.tm \/ c.st \in NullStates)
  <2> DEFINE d == IF c.st \in NullStates THEN c ELSE Start(c, "T309")
             tm == IF c.st \in NullStates THEN c.tm ELSE c.tm \cup {"T309"}
  <2>1. dl_release_indication(c) = d
    BY <1>2 DEF dl_release_indication, N_dl_release_indication, U_dl_release_indication,
       NullStates, NStates
  <2>2. Turns(r, c, d, c.st, tm, c.listed) /\ (c.st \in NullStates => d.ch = c.ch)
    BY <1>1, ThenStart
  <2>3. tm \in SUBSET TimersOf(r) /\ Watched(c.st, tm) /\ Off(c.st, tm)
    <3>1. {"T309"} \in SUBSET (Timers \ {"T319"})
      BY DEF Timers
    <3>2. tm \in SUBSET TimersOf(r) /\ Watched(c.st, tm)
      BY <1>1, <3>1, MoreTimers, GoodFacts
    <3> QED BY <1>2, <3>2 DEF Off, NullStates
  <2> HIDE DEF d, tm
  <2>4. Core(r, c) /\ c.st \in StatesOf(r) /\ c.listed = TRUE /\ c.listed \in BOOLEAN
    BY GoodFacts
  <2>5. Core(r, d) /\ d.st = c.st /\ d.tm = tm /\ d.listed = TRUE
    BY <2>2, <2>3, <2>4, CoreOf, TurnsFacts
  <2>6. c.st \in NullStates => d.ch = NoChan
    BY <2>2, GoodFacts
  <2> QED BY <2>1, <2>3, <2>5, <2>6 DEF After, Phase
<1>3. CASE ~(c.st \in NullStates \cup {"N10", "U10"} /\ ("T309" \notin c.tm \/ c.st \in NullStates))
  <2> DEFINE a == Stop(c, {"T309"})
             b == StopAnyTimer(c)
  <2>1. \/ dl_release_indication(c) \in {Tell(ToN0(a), "RELEASE_IND"),
                                         Tell(ToN0(b), "RELEASE_IND")}
        \/ /\ dl_release_indication(c) = Tell(ToU0(b), "RELEASE_IND")
           /\ c.st \notin NStates
    BY <1>1, <1>3 DEF dl_release_indication, N_dl_release_indication,
       U_dl_release_indication, NullStates
  <2>2. /\ Turns(r, c, a, c.st, c.tm \ {"T309"}, c.listed)
        /\ Turns(r, c, b, c.st, {}, c.listed)
    BY <1>1, ThenStop, ThenStopAny
  <2> HIDE DEF a, b
  <2>3. "RELEASE_IND" \in EndPrimitives /\ c.tm \ {"T309"} \in SUBSET TimersOf(r)
    BY <1>1 DEF EndPrimitives
  <2>4. /\ After(r, w, c, Tell(ToN0(a), "RELEASE_IND"))
        /\ After(r, w, c, Tell(ToN0(b), "RELEASE_IND"))
        /\ r # "NT" => After(r, w, c, Tell(ToU0(b), "RELEASE_IND"))
    BY <1>1, <2>2, <2>3, NullAfter
  <2>5. /\ Turns(r, c, ToN0(a), "N0", c.tm \ {"T309"}, FALSE)
        /\ Turns(r, c, ToN0(b), "N0", {}, FALSE) /\ Turns(r, c, ToU0(b), "U0", {}, FALSE)
    BY <1>1, <2>2, ThenNull
  <2>6. /\ Tell(ToN0(a), "RELEASE_IND").listed = FALSE
        /\ Tell(ToN0(b), "RELEASE_IND").listed = FALSE
        /\ Tell(ToU0(b), "RELEASE_IND").listed = FALSE
    <3>1. /\ Turns(r, c, Tell(ToN0(a), "RELEASE_IND"), "N0", c.tm \ {"T309"}, FALSE)
          /\ Turns(r, c, Tell(ToN0(b), "RELEASE_IND"), "N0", {}, FALSE)
          /\ Turns(r, c, Tell(ToU0(b), "RELEASE_IND"), "U0", {}, FALSE)
      BY <2>5, ThenTell
    <3> QED BY <3>1 DEF Turns
  <2>7. c.st \notin NStates => r # "NT"
    BY UserRole
  <2> QED BY <2>1, <2>4, <2>6, <2>7 DEF After
<1> QED BY <1>2, <1>3


-----------------------------------------------------------------------------
(* A call that is off the list.                                            *)

(* A call off the list is in the null state.                               *)
Gone(r, c) == Core(r, c) /\ c.ok /\ c.listed = FALSE /\ c.st \in NullStates

(* It stays there and tells nothing.                                       *)
Silent(r, c, d) ==
    /\ Core(r, d) /\ d.st = c.st /\ d.listed = FALSE /\ d.up = c.up /\ (d.ok => c.ok)

(* A step that starts or stops timers, sends or sets a flag is silent.     *)
LEMMA SilentOf ==
  ASSUME NEW r, NEW c, Gone(r, c), NEW d, NEW tm \in SUBSET TimersOf(r),
         Turns(r, c, d, c.st, tm, c.listed), d.up = c.up
  PROVE  Silent(r, c, d)
<1>1. Core(r, c) /\ c.st \in StatesOf(r) /\ c.listed \in BOOLEAN /\ c.listed = FALSE
  BY DEF Gone, Core
<1>2. Core(r, d)
  BY <1>1, CoreOf
<1> QED BY <1>1, <1>2, TurnsFacts DEF Silent

(* A request finds it in the null state.                                   *)
LEMMA RequestSilent ==
  ASSUME NEW r, NEW c, Gone(r, c), NEW q, q \notin {"SETUP", "RESUME"}
  PROVE  Silent(r, c, ccb_dispatch(c, q))
<1> DEFINE x == [c EXCEPT !.dis = TRUE]
           a == Send(c, "STATUS_ENQUIRY")
           b == [a EXCEPT !.senq = 0]
           y == Start(b, "T322")
<1>1. /\ Shaped(c) /\ c.tm \in SUBSET TimersOf(r) /\ c.bc = FALSE
      /\ c.st \in {"N0", "U0"} /\ 0 \in 0..SenqMax /\ TRUE \in BOOLEAN
  BY SenqAssumption DEF Gone, Core, NullStates
<1>2. Turns(r, c, c, c.st, c.tm, c.listed)
  BY <1>1, TurnsSelf
<1>3. ccb_dispatch(c, q) \in {c, x, y}
  <2>1. x.st = c.st /\ x.bc = FALSE
    BY <1>1 DEF Shaped, CallFields
  <2>2. StatusEnquiry(c) \in {c, y}
    BY DEF StatusEnquiry
  <2> HIDE DEF x, y
  <2>3. c.st = "N0" => N_ccb_dispatch(c, q) \in {c, x, y}
    <3>1. c.st = "N0" => N_disconnect_request(c) = x
      BY <2>1 DEF N_disconnect_request, x
    <3> QED BY <1>1, <2>2, <3>1
        DEF N_ccb_dispatch, N_alerting_request, N_info_request, N_more_info_request,
            N_notify_request, N_proceeding_request, N_progress_request,
            N_reject_request, N_release_request, N_resume_reject_request,
            N_resume_response, N_setup_complete_request, N_setup_response,
            N_status_enquiry_request, N_suspend_reject_request, N_suspend_response
  <2>4. c.st = "U0" => U_ccb_dispatch(c, q) \in {c, x, y}
    <3>1. c.st = "U0" => U_disconnect_request(c) = x
      BY <2>1 DEF U_disconnect_request, x
    <3> QED BY <1>1, <2>2, <3>1
        DEF U_ccb_dispatch, U_alerting_request, U_info_request, U_more_info_request,
            U_notify_request, U_proceeding_request, U_progress_request,
            U_reject_request, U_release_request, U_setup_response,
            U_status_enquiry_request, U_suspend_request
  <2> QED BY <1>1, <2>3, <2>4 DEF ccb_dispatch, NStates
<1>4. Silent(r, c, c)
  BY <1>1, <1>2, SilentOf
<1>5. Silent(r, c, x)
  <2>1. x.up = c.up /\ Turns(r, c, x, c.st, c.tm, c.listed)
    BY <1>1, <1>2, ThenField DEF Shaped, CallFields
  <2> HIDE DEF x
  <2> QED BY <1>1, <2>1, SilentOf
<1>6. Silent(r, c, y)
  <2>1. Turns(r, c, a, c.st, c.tm, c.listed) /\ a.up = c.up
    BY <1>1, <1>2, ThenSend DEF Send, SendMsg, Assert_, Shaped, CallFields
  <2>2. Shaped(a)
    BY <2>1, TurnsFacts
  <2> HIDE DEF a
  <2>3. Turns(r, c, b, c.st, c.tm, c.listed) /\ b.up = c.up
    BY <1>1, <2>1, <2>2, ThenField DEF Shaped, CallFields
  <2>4. Shaped(b)
    BY <2>3, TurnsFacts
  <2> HIDE DEF b
  <2>5. Turns(r, c, y, c.st, c.tm \cup {"T322"}, c.listed) /\ y.up = c.up
    BY <2>3, <2>4, ThenStart DEF Start, Shaped, CallFields
  <2>6. c.tm \cup {"T322"} \in SUBSET TimersOf(r)
    BY <1>1 DEF TimersOf, Timers
  <2> HIDE DEF y
  <2> QED BY <2>5, <2>6, SilentOf
<1> HIDE DEF x, y
<1> QED BY <1>3, <1>4, <1>5, <1>6

(* A timer finds it in the null state.                                     *)
LEMMA TimerSilent ==
  ASSUME NEW r, NEW c, Gone(r, c), NEW t \in c.tm
  PROVE  Silent(r, c, timer(c, t))
<1> DEFINE d == Stop(c, {t})
           x == [d EXCEPT !.f303 = TRUE]
           y == [d EXCEPT !.f308 = TRUE]
           tm == c.tm \ {t}
<1>1. /\ Shaped(c) /\ tm \in SUBSET TimersOf(r) /\ t \in Timers
      /\ c.st \in {"N0", "U0"} /\ 0 \in 0..SenqMax /\ TRUE \in BOOLEAN
  BY SenqAssumption DEF Gone, Core, NullStates, TimersOf
<1>2. Turns(r, c, c, c.st, c.tm, c.listed)
  BY <1>1, TurnsSelf
<1>3. Turns(r, c, d, c.st, tm, c.listed) /\ d.up = c.up /\ d.st = c.st
  BY <1>1, <1>2, ThenStop DEF Stop, Shaped, CallFields
<1>4. timer(c, t) \in {d, x, y}
  <2>1. /\ N_timer_T301(d) = d /\ N_timer_T302(d) = d /\ N_timer_T303(d) = x
        /\ N_timer_T304(d) = d /\ N_timer_T305(d) = d /\ N_timer_T306(d) = d
        /\ N_timer_T308(d) = y /\ N_timer_T309(d) = d
    BY <1>1, <1>3 DEF N_timer_T301, N_timer_T302, N_timer_T303, N_timer_T304,
       N_timer_T305, N_timer_T306, N_timer_T308, N_timer_T309
  <2>2. /\ N_timer_T310(d) = d /\ N_timer_T312(d) = d /\ N_timer_T319(d) = d
        /\ timer_T322(d) = d
    BY <1>1, <1>3 DEF N_timer_T310, N_timer_T312, N_timer_T319, timer_T322, NullStates
  <2>3. /\ U_timer_T302(d) = d /\ U_timer_T303(d) = x /\ U_timer_T304(d) = d
        /\ U_timer_T305(d) = d /\ U_timer_T308(d) = y /\ U_timer_T309(d) = d
        /\ U_timer_T313(d) = d /\ U_timer_T318(d) = d
    BY <1>1, <1>3 DEF U_timer_T302, U_timer_T303, U_timer_T304, U_timer_T305,
       U_timer_T308, U_timer_T309, U_timer_T313, U_timer_T318
  <2>4. timer(c, t) =
          LET net == d.st \in NStates
          IN  CASE t = "T301" -> N_timer_T301(d)
                [] t = "T302" -> IF net THEN N_timer_T302(d) ELSE U_timer_T302(d)
                [] t = "T303" -> IF net THEN N_timer_T303(d) ELSE U_timer_T303(d)
                [] t = "T304" -> IF net THEN N_timer_T304(d) ELSE U_timer_T304(d)
                [] t = "T305" -> IF net THEN N_timer_T305(d) ELSE U_timer_T305(d)
                [] t = "T306" -> N_timer_T306(d)
                [] t = "T308" -> IF net THEN N_timer_T308(d) ELSE U_timer_T308(d)
                [] t = "T309" -> IF net THEN N_timer_T309(d) ELSE U_timer_T309(d)
                [] t = "T310" -> N_timer_T310(d)
                [] t = "T312" -> N_timer_T312(d)
                [] t = "T313" -> U_timer_T313(d)
                [] t = "T318" -> U_timer_T318(d)
                [] t = "T319" -> N_timer_T319(d)
                [] t = "T322" -> timer_T322(d)
    BY DEF timer
  <2> HIDE DEF d, x, y
  <2> QED BY <1>1, <2>1, <2>2, <2>3, <2>4 DEF Timers
<1>5. Shaped(d)
  BY <1>3, TurnsFacts
<1> HIDE DEF d, tm
<1>6. /\ Turns(r, c, x, c.st, tm, c.listed) /\ x.up = c.up
      /\ Turns(r, c, y, c.st, tm, c.listed) /\ y.up = c.up
  BY <1>1, <1>3, <1>5, ThenField DEF Shaped, CallFields
<1> HIDE DEF x, y
<1>7. Silent(r, c, d) /\ Silent(r, c, x) /\ Silent(r, c, y)
  BY <1>1, <1>3, <1>6, SilentOf
<1> QED BY <1>4, <1>7


-----------------------------------------------------------------------------
(* The loop of a RESTART.                                                  *)

(* One channel of the loop.                                                *)
Pass(reqd, a, ch) == IF ch \in reqd THEN RestartChannel(a, ch) ELSE a

(* f is right for the first n channels.                                    *)
Passes(begun, reqd, n, f) ==
    f[0] = begun /\ \A k \in 1..n : f[k] = Pass(reqd, f[k - 1], k - 1)

(* There is such an f for every n.                                         *)
LEMMA PassesExist ==
  ASSUME NEW b, NEW S, NEW n \in Nat
  PROVE  \E f : Passes(b, S, n, f)
<1> DEFINE T == {k \in Nat : ~ \E f : Passes(b, S, k, f)}
<1>1. SUFFICES ASSUME T # {} PROVE FALSE
  OBVIOUS
<1>2. PICK m \in T : \A j \in T : m <= j
  <2>1. T \subseteq Nat
    OBVIOUS
  <2> HIDE DEF T
  <2> QED BY <1>1, <2>1, LeastNumber
<1>3. m \in Nat /\ ~ \E f : Passes(b, S, m, f)
  OBVIOUS
<1>4. CASE m = 0
  <2>1. Passes(b, S, m, [k \in Nat |-> b])
    BY <1>4 DEF Passes
  <2> QED BY <1>3, <2>1
<1>5. CASE m # 0
  <2>1. m - 1 \in Nat /\ m - 1 \notin T
    BY <1>2, <1>3, <1>5
  <2>2. PICK f : Passes(b, S, m - 1, f)
    BY <2>1
  <2> DEFINE g == [k \in Nat |-> IF k = m THEN Pass(S, f[m - 1], m - 1) ELSE f[k]]
  <2>3. g[0] = b
    BY <1>3, <1>5, <2>2 DEF Passes
  <2>4. ASSUME NEW k \in 1..m
        PROVE  g[k] = Pass(S, g[k - 1], k - 1)
    <3>1. k \in Nat /\ k - 1 \in Nat /\ k - 1 # m
      BY <1>3
    <3>2. g[k - 1] = f[k - 1]
      BY <3>1
    <3>3. CASE k = m
      BY <3>1, <3>2, <3>3
    <3>4. CASE k # m
      <4>1. k \in 1..(m - 1)
        BY <1>3, <3>4
      <4>2. f[k] = Pass(S, f[k - 1], k - 1)
        BY <2>2, <4>1 DEF Passes
      <4>3. g[k] = f[k]
        BY <3>1, <3>4
      <4> HIDE DEF g
      <4> QED BY <3>2, <4>2, <4>3
    <3> QED BY <3>3, <3>4
  <2> HIDE DEF g
  <2>5. Passes(b, S, m, g)
    BY <2>3, <2>4 DEF Passes
  <2> QED BY <1>3, <2>5
<1> QED BY <1>4, <1>5

(* Two of them agree as far as both go.                                    *)
LEMMA PassesAgree ==
  ASSUME NEW b, NEW S, NEW m \in Nat, NEW n \in Nat, m <= n, NEW f, NEW g,
         Passes(b, S, m, f), Passes(b, S, n, g)
  PROVE  f[m] = g[m]
<1> DEFINE T == {k \in 0..m : f[k] # g[k]}
<1>1. SUFFICES ASSUME T # {} PROVE FALSE
  OBVIOUS
<1>2. PICK k \in T : \A j \in T : k <= j
  <2>1. T \subseteq Nat
    OBVIOUS
  <2> HIDE DEF T
  <2> QED BY <1>1, <2>1, LeastNumber
<1>3. k \in 0..m /\ f[k] # g[k]
  OBVIOUS
<1>4. k # 0
  BY <1>3 DEF Passes
<1>5. k \in 1..m /\ k \in 1..n /\ k - 1 \in 0..m
  BY <1>3, <1>4
<1>6. k - 1 \notin T
  BY <1>2, <1>5
<1>7. f[k - 1] = g[k - 1]
  BY <1>5, <1>6
<1>8. f[k] = Pass(S, f[k - 1], k - 1) /\ g[k] = Pass(S, g[k - 1], k - 1)
  BY <1>5 DEF Passes
<1> QED BY <1>3, <1>7, <1>8

(* So the loop does what it says, channel by channel.                      *)
LEMMA LoopSteps ==
  ASSUME NEW b, NEW S
  PROVE  /\ Restarted(b, S)[0] = b
         /\ \A n \in Nat : Restarted(b, S)[n + 1] = Pass(S, Restarted(b, S)[n], n)
<1> DEFINE h(n) == CHOOSE f : Passes(b, S, n, f)
           G == [n \in Nat |-> h(n)[n]]
<1>1. ASSUME NEW n \in Nat
      PROVE  Passes(b, S, n, h(n))
  BY PassesExist
<1> HIDE DEF h
<1>2. G[0] = b
  BY <1>1 DEF Passes
<1>3. ASSUME NEW n \in Nat \ {0}
      PROVE  G[n] = Pass(S, G[n - 1], n - 1)
  <2>1. n \in 1..n /\ n \in Nat /\ n - 1 \in Nat /\ n - 1 <= n
    OBVIOUS
  <2>2. h(n)[n] = Pass(S, h(n)[n - 1], n - 1)
    BY <1>1, <2>1 DEF Passes
  <2>3. h(n - 1)[n - 1] = h(n)[n - 1]
    <3>1. Passes(b, S, n - 1, h(n - 1)) /\ Passes(b, S, n, h(n))
      BY <1>1, <2>1
    <3>2. ASSUME NEW f, NEW g, Passes(b, S, n - 1, f), Passes(b, S, n, g)
          PROVE  f[n - 1] = g[n - 1]
      BY <2>1, <3>2, PassesAgree
    <3> QED BY <3>1, <3>2
  <2>4. G[n] = h(n)[n] /\ G[n - 1] = h(n - 1)[n - 1]
    BY <2>1
  <2> HIDE DEF G
  <2> QED BY <2>2, <2>3, <2>4
<1>4. G = [n \in Nat |-> IF n = 0 THEN b
                         ELSE IF n - 1 \in S THEN RestartChannel(G[n - 1], n - 1)
                         ELSE G[n - 1]]
  <2>1. ASSUME NEW n \in Nat
        PROVE  G[n] = IF n = 0 THEN b
                      ELSE IF n - 1 \in S THEN RestartChannel(G[n - 1], n - 1)
                      ELSE G[n - 1]
    <3> HIDE DEF G
    <3> QED BY <1>2, <1>3 DEF Pass
  <2>2. G = [n \in Nat |-> G[n]]
    OBVIOUS
  <2> HIDE DEF G
  <2> QED BY <2>1, <2>2
<1> DEFINE R == Restarted(b, S)
<1>5. R = [n \in Nat |-> IF n = 0 THEN b
                         ELSE IF n - 1 \in S THEN RestartChannel(R[n - 1], n - 1)
                         ELSE R[n - 1]]
  <2>1. \E g : g = [n \in Nat |-> IF n = 0 THEN b
                         ELSE IF n - 1 \in S THEN RestartChannel(g[n - 1], n - 1)
                         ELSE g[n - 1]]
    BY <1>4
  <2> QED BY <2>1 DEF Restarted
<1> HIDE DEF R
<1>6. R[0] = b
  BY <1>5
<1>7. ASSUME NEW n \in Nat
      PROVE  R[n + 1] = Pass(S, R[n], n)
  <2>1. n + 1 \in Nat /\ n + 1 # 0 /\ (n + 1) - 1 = n
    OBVIOUS
  <2> QED BY <1>5, <2>1 DEF Pass
<1> QED BY <1>6, <1>7 DEF R


(* A channel that is nobody's.                                             *)
FreeChan == [st |-> "AVAILABLE", own |-> "none"]

(* The global call.                                                        *)
GlobalShaped(g) ==
    /\ DOMAIN g = {"st", "t317", "reqd", "acked", "tx", "up"}
    /\ g.st \in GlobalStates /\ g.t317 \in BOOLEAN
    /\ g.reqd \subseteq Channels /\ g.acked \subseteq Channels

(* What a RESTART may make of a listed call: nothing, or its end.          *)
Spared(c, d) ==
    \/ d.listed = TRUE /\ d.st = c.st /\ d.tm = c.tm /\ d.ch = c.ch
    \/ d.listed = FALSE /\ d.st \in NullStates /\ Ends(d)

(* The channels below n are confirmed, and the peer is answered with the   *)
(* last one.                                                               *)
Confirmed(reqd, n, g) ==
    LET left == {ch \in reqd : n <= ch}
    IN  \/ /\ left # {} /\ g.st = "RESTART" /\ g.tx = <<>>
           /\ g.reqd = left /\ g.acked = reqd \ left
        \/ /\ left = {} /\ g.st = "NULL"
           /\ g.tx = <<[mt |-> "RESTART_ACKNOWLEDGE", chans |-> reqd]>>

(* The channels below n are free, and the others can be restarted.         *)
Freed(reqd, n, chans) ==
    \A ch \in reqd : IF ch < n THEN chans[ch] = FreeChan
                               ELSE chans[ch].st # "MAINTAINANCE"

(* The loop has passed the channels below n; c is the call it found.       *)
Passing(r, c, reqd, n, a) ==
    /\ DOMAIN a = {"c", "g"} /\ Core(r, a.c) /\ GlobalShaped(a.g)
    /\ a.c.ok => c.ok
    /\ c.listed => Spared(c, a.c)
    /\ ~c.listed => a.c.listed = FALSE /\ a.c.st = c.st /\ a.c.up = c.up
    /\ a.c.ok => Confirmed(reqd, n, a.g) /\ Freed(reqd, n, a.c.chans)

(* q931_global_restart_confirm keeps the shape.                            *)
LEMMA ConfirmShaped ==
  ASSUME NEW g, GlobalShaped(g), NEW ch \in Channels \cup {NoChan}
  PROVE  /\ GlobalShaped(restart_confirm(g, ch))
         /\ GlobalShaped([restart_confirm(g, ch) EXCEPT !.t317 = TRUE])
<1> DEFINE named == {ch} \ {NoChan}
           g1 == [g EXCEPT !.reqd = @ \ named, !.acked = @ \cup named]
           x == [g1 EXCEPT !.t317 = FALSE, !.st = "NULL"]
           g2 == [x EXCEPT !.tx = Append(@, [mt |-> "RESTART_ACKNOWLEDGE", chans |-> g1.acked])]
<1>1. restart_confirm(g, ch) \in {g, g1, g2}
  BY DEF restart_confirm, GlobalSend
<1>2. GlobalShaped(g1)
  BY DEF GlobalShaped
<1> HIDE DEF g1
<1>3. GlobalShaped(x)
  BY <1>2 DEF GlobalShaped, GlobalStates
<1> HIDE DEF x
<1>4. GlobalShaped(g2)
  BY <1>3 DEF GlobalShaped
<1> HIDE DEF g2
<1>5. GlobalShaped(restart_confirm(g, ch))
  BY <1>1, <1>2, <1>4
<1>6. ASSUME NEW h, GlobalShaped(h)
      PROVE  GlobalShaped([h EXCEPT !.t317 = TRUE])
  BY <1>6 DEF GlobalShaped
<1> QED BY <1>5, <1>6

(* It confirms the channel, and answers the peer after the last.           *)
LEMMA ConfirmOne ==
  ASSUME NEW g, GlobalShaped(g), NEW reqd \in SUBSET Channels, NEW n \in reqd,
         Confirmed(reqd, n, g)
  PROVE  /\ Confirmed(reqd, n + 1, restart_confirm(g, n))
         /\ Confirmed(reqd, n + 1, [restart_confirm(g, n) EXCEPT !.t317 = TRUE])
<1> DEFINE left == {ch \in reqd : n <= ch}
           more == {ch \in reqd : n + 1 <= ch}
           d == restart_confirm(g, n)
<1>1. reqd \subseteq Nat /\ n \in Nat /\ n \in Channels /\ n # NoChan
  BY ChannelsAssumption
<1>2. /\ g.st = "RESTART" /\ g.tx = <<>> /\ g.reqd = left /\ g.acked = reqd \ left
      /\ DOMAIN g = {"st", "t317", "reqd", "acked", "tx", "up"}
  BY <1>1 DEF Confirmed, GlobalShaped
<1>3. left \ {n} = more /\ (reqd \ left) \cup {n} = reqd \ more
  <2>1. ASSUME NEW x \in Nat PROVE (n <= x /\ x # n) <=> n + 1 <= x
    BY <1>1
  <2>2. ASSUME NEW x
        PROVE  /\ x \in left \ {n} <=> x \in more
               /\ x \in (reqd \ left) \cup {n} <=> x \in reqd \ more
    <3>1. CASE x \notin reqd
      BY <3>1
    <3>2. CASE x \in reqd
      <4>1. x \in Nat /\ (x = n => n <= x)
        BY <1>1, <3>2
      <4> QED BY <2>1, <3>2, <4>1
    <3> QED BY <3>1, <3>2
  <2> HIDE DEF left, more
  <2> QED BY <2>2
<1> DEFINE g1 == [g EXCEPT !.reqd = more, !.acked = reqd \ more]
           g2 == GlobalSend([g1 EXCEPT !.t317 = FALSE, !.st = "NULL"],
                            "RESTART_ACKNOWLEDGE", reqd \ more)
<1> HIDE DEF left, more
<1>4. {n} \ {NoChan} = {n}
  BY <1>1
<1>5. d = IF more # {} THEN g1 ELSE g2
  <2>1. [g EXCEPT !.reqd = @ \ ({n} \ {NoChan}), !.acked = @ \cup ({n} \ {NoChan})] = g1
    BY <1>2, <1>3, <1>4
  <2>2. g1.reqd = more /\ g1.acked = reqd \ more
    BY <1>2
  <2> HIDE DEF g1
  <2> QED BY <1>2, <2>1, <2>2 DEF restart_confirm
<1>6. /\ DOMAIN d = {"st", "t317", "reqd", "acked", "tx", "up"}
      /\ more # {} => /\ d.st = "RESTART" /\ d.tx = <<>> /\ d.reqd = more
                      /\ d.acked = reqd \ more
      /\ more = {} => /\ d.st = "NULL"
                      /\ d.tx = <<[mt |-> "RESTART_ACKNOWLEDGE", chans |-> reqd]>>
  <2>1. more = {} => reqd \ more = reqd
    OBVIOUS
  <2>2. DOMAIN g1 = DOMAIN g /\ g1.tx = <<>>
    BY <1>2
  <2>3. more # {} => /\ d.st = "RESTART" /\ d.tx = <<>> /\ d.reqd = more
                     /\ d.acked = reqd \ more /\ DOMAIN d = DOMAIN g
    BY <1>2, <1>5
  <2>4. more = {} => /\ d.st = "NULL" /\ DOMAIN d = DOMAIN g
                     /\ d.tx = Append(<<>>, [mt |-> "RESTART_ACKNOWLEDGE",
                                             chans |-> reqd])
    <3>1. more = {} => d = g2
      BY <1>5
    <3>2. /\ g2.st = "NULL" /\ DOMAIN g2 = DOMAIN g1
          /\ g2.tx = Append(g1.tx, [mt |-> "RESTART_ACKNOWLEDGE", chans |-> reqd \ more])
      <4> HIDE DEF g1
      <4> QED BY <1>2, <2>2 DEF GlobalSend
    <3> HIDE DEF d, g2, g1
    <3> QED BY <2>1, <2>2, <3>1, <3>2
  <2>5. ASSUME NEW x PROVE Append(<<>>, x) = <<x>>
    OBVIOUS
  <2> HIDE DEF d
  <2> QED BY <1>2, <2>3, <2>4, <2>5
<1> HIDE DEF d
<1>7. ASSUME NEW e, e.st = d.st, e.tx = d.tx, e.reqd = d.reqd, e.acked = d.acked
      PROVE  Confirmed(reqd, n + 1, e)
  BY <1>6, <1>7 DEF Confirmed, more
<1>8. LET e == [d EXCEPT !.t317 = TRUE]
      IN  e.st = d.st /\ e.tx = d.tx /\ e.reqd = d.reqd /\ e.acked = d.acked
  BY <1>6
<1>9. Confirmed(reqd, n + 1, d) /\ Confirmed(reqd, n + 1, [d EXCEPT !.t317 = TRUE])
  BY <1>7, <1>8
<1> QED BY <1>9 DEF d


(* q931_restart_request: the call is over and the CCB told.                *)
LEMMA RestartEnds ==
  ASSUME NEW r, NEW c, Core(r, c)
  PROVE  /\ Core(r, restart_request(c)) /\ restart_request(c).listed = FALSE
         /\ restart_request(c).st \in NullStates /\ Ends(restart_request(c))
         /\ (restart_request(c).ok => c.ok)
<1> DEFINE b == StopAnyTimer(c)
           x == Tell(ToN0(b), "RELEASE_IND")
           y == Tell(ToU0(b), "RELEASE_IND")
<1>1. /\ Shaped(c) /\ Fit(r, c) /\ {} \in SUBSET TimersOf(r)
      /\ Turns(r, c, c, c.st, c.tm, c.listed) /\ "RELEASE_IND" \in EndPrimitives
  BY TurnsSelf DEF Core, EndPrimitives
<1>2. Turns(r, c, b, c.st, {}, c.listed)
  BY <1>1, ThenStopAny
<1>3. \/ restart_request(c) = x
      \/ restart_request(c) = y /\ c.st \notin NStates
  BY DEF restart_request, N_restart_request, U_restart_request
<1> HIDE DEF b
<1>4. Turns(r, c, ToN0(b), "N0", {}, FALSE) /\ Turns(r, c, ToU0(b), "U0", {}, FALSE)
  BY <1>1, <1>2, ThenNull
<1>5. /\ Turns(r, c, x, "N0", {}, FALSE) /\ Ends(x)
      /\ Turns(r, c, y, "U0", {}, FALSE) /\ Ends(y)
  BY <1>1, <1>4, ThenTell
<1> HIDE DEF x, y
<1>6. "N0" \in StatesOf(r) /\ (c.st \notin NStates => "U0" \in StatesOf(r))
  BY DEF Core, StatesOf, NStates, UStates
<1>7. Core(r, x) /\ (c.st \notin NStates => Core(r, y))
  BY <1>1, <1>5, <1>6, CoreOf
<1>8. /\ x.listed = FALSE /\ x.st \in NullStates /\ (x.ok => c.ok)
      /\ y.listed = FALSE /\ y.st \in NullStates /\ (y.ok => c.ok)
  BY <1>5 DEF Turns, NullStates
<1> QED BY <1>3, <1>5, <1>7, <1>8

(* ... and its channel is free.                                            *)
LEMMA RestartFrees ==
  ASSUME NEW r, NEW c, Core(r, c), c.ok, NEW n \in Channels, c.chans[n].own = "call"
  PROVE  c.ch = n /\ restart_request(c).chans = [c.chans EXCEPT ![n] = FreeChan]
<1> DEFINE b == StopAnyTimer(c)
           d == ChanRelease(b)
<1>1. c.ch = n /\ n # NoChan /\ Shaped(c)
  BY ChannelsAssumption DEF Core, Fit, Owned
<1>2. b.ch = n /\ b.chans = c.chans /\ Shaped(b)
  BY <1>1 DEF StopAnyTimer, Shaped, CallFields
<1> HIDE DEF b
<1>3. d.chans = [c.chans EXCEPT ![n] = FreeChan] /\ DOMAIN d = CallFields
  <2> DEFINE e == IF c.chans[n].st = "CONNECTED"
                  THEN Tell(b, "DISCONNECT_CHANNEL") ELSE b
  <2>1. DOMAIN e = CallFields /\ e.chans = c.chans /\ e.ch = n
    BY <1>2 DEF Tell, Shaped, CallFields
  <2>2. d = [e EXCEPT !.chans[n] = [st |-> "AVAILABLE", own |-> "none"],
                      !.ch = NoChan]
    BY <1>1, <1>2 DEF ChanRelease
  <2> HIDE DEF e, d
  <2> QED BY <2>1, <2>2 DEF CallFields, FreeChan
<1> HIDE DEF d
<1>4. /\ Tell(ToN0(b), "RELEASE_IND").chans = d.chans
      /\ Tell(ToU0(b), "RELEASE_IND").chans = d.chans
  BY <1>3 DEF Tell, ToN0, ToU0, SetState, ReleaseReference, CallFields, d
<1> QED BY <1>1, <1>3, <1>4
    DEF restart_request, N_restart_request, U_restart_request, b


(* A channel other than the call's passes to other calls or back.          *)
LEMMA OtherChan ==
  ASSUME NEW r, NEW c, Core(r, c), NEW n \in Channels,
         NEW v \in [st : ChanStates, own : {"none", "other"}],
         v.own = "none" => v.st = "AVAILABLE", c.ok /\ r = "NT" => c.ch # n
  PROVE  LET d == [c EXCEPT !.chans[n] = v]
         IN  /\ Core(r, d) /\ d.st = c.st /\ d.tm = c.tm /\ d.ch = c.ch /\ d.ok = c.ok
             /\ d.listed = c.listed /\ d.up = c.up /\ d.chans = [c.chans EXCEPT ![n] = v]
<1> DEFINE d == [c EXCEPT !.chans[n] = v]
<1>1. /\ DOMAIN c = CallFields /\ c.chans \in [Channels -> [st : ChanStates, own : Owners]]
      /\ c.ok => Owned(r, c)
  BY DEF Core, Shaped, Fit
<1>2. /\ DOMAIN d = CallFields /\ d.st = c.st /\ d.tm = c.tm /\ d.ch = c.ch
      /\ d.listed = c.listed /\ d.up = c.up /\ d.tx = c.tx /\ d.ok = c.ok /\ d.bc = c.bc
      /\ d.f303 = c.f303 /\ d.f308 = c.f308 /\ d.rcr = c.rcr /\ d.dis = c.dis
      /\ d.senq = c.senq /\ d.chans = [c.chans EXCEPT ![n] = v]
  BY <1>1 DEF CallFields
<1> HIDE DEF d
<1>3. d.chans \in [Channels -> [st : ChanStates, own : Owners]]
  BY <1>1, <1>2 DEF Owners
<1>4. v.own # "call" /\ (v.own = "none" => v.st \in {"AVAILABLE", "MAINTAINANCE"})
  OBVIOUS
<1>5. ASSUME NEW x \in Channels
      PROVE  d.chans[x] = IF x = n THEN v ELSE c.chans[x]
  BY <1>1, <1>2
<1>6. c.ok => Owned(r, d)
  BY <1>1, <1>2, <1>4, <1>5 DEF Owned
<1>7. Shaped(d) /\ Fit(r, d) /\ Typed(d)
  BY <1>2, <1>3, <1>6 DEF Core, Shaped, Fit, Typed
<1>8. Core(r, d)
  BY <1>2, <1>7 DEF Core
<1> QED BY <1>2, <1>8 DEF d

(* One channel more is free.                                               *)
LEMMA FreedOne ==
  ASSUME NEW reqd \in SUBSET Channels, NEW n \in reqd, NEW p, NEW q,
         Freed(reqd, n, p), q[n] = FreeChan, \A x \in Channels \ {n} : q[x] = p[x]
  PROVE  Freed(reqd, n + 1, q)
<1>1. reqd \subseteq Nat /\ n \in Nat
  BY ChannelsAssumption
<1>2. ASSUME NEW x \in reqd
      PROVE  IF x < n + 1 THEN q[x] = FreeChan ELSE q[x].st # "MAINTAINANCE"
  <2>1. CASE x = n
    BY <1>1, <2>1
  <2>2. CASE x # n
    <3>1. q[x] = p[x] /\ x \in Nat
      BY <1>1, <2>2
    <3>2. x < n + 1 <=> x < n
      BY <1>1, <2>2, <3>1
    <3> QED BY <3>1, <3>2 DEF Freed
  <2> QED BY <2>1, <2>2
<1> QED BY <1>2 DEF Freed

(* What is spared stays so when only channels of other calls change.       *)
LEMMA SparedOn ==
  ASSUME NEW c, NEW d, NEW e, Spared(c, d), e.listed = d.listed, e.st = d.st,
         e.tm = d.tm, e.ch = d.ch, e.up = d.up
  PROVE  Spared(c, e)
  BY DEF Spared, Ends

(* The loop passes one channel more.                                       *)
LEMMA PassOne ==
  ASSUME NEW r, NEW c, NEW reqd \in SUBSET Channels, NEW n \in Nat, NEW a,
         Passing(r, c, reqd, n, a), c.listed \in BOOLEAN
  PROVE  Passing(r, c, reqd, n + 1, Pass(reqd, a, n))
<1> DEFINE b == Pass(reqd, a, n)
<1>1. /\ DOMAIN a = {"c", "g"} /\ Core(r, a.c) /\ GlobalShaped(a.g) /\ (a.c.ok => c.ok)
      /\ c.listed => Spared(c, a.c)
      /\ ~c.listed => a.c.listed = FALSE /\ a.c.st = c.st /\ a.c.up = c.up
      /\ a.c.ok => Confirmed(reqd, n, a.g) /\ Freed(reqd, n, a.c.chans)
  BY DEF Passing
<1>2. CASE n \notin reqd
  <2>1. b = a
    BY <1>2 DEF Pass
  <2>2. ASSUME NEW x \in reqd PROVE (n <= x <=> n + 1 <= x) /\ (x < n <=> x < n + 1)
    <3>1. x \in Nat /\ x # n
      BY <1>2, ChannelsAssumption
    <3> QED BY <3>1
  <2>3. {ch \in reqd : n <= ch} = {ch \in reqd : n + 1 <= ch}
    BY <2>2
  <2>4. Confirmed(reqd, n, a.g) => Confirmed(reqd, n + 1, a.g)
    BY <2>3 DEF Confirmed
  <2>5. Freed(reqd, n, a.c.chans) => Freed(reqd, n + 1, a.c.chans)
    BY <2>2 DEF Freed
  <2>6. Passing(r, c, reqd, n + 1, a)
    BY <1>1, <2>4, <2>5 DEF Passing
  <2> QED BY <2>1, <2>6
<1>3. CASE n \in reqd
  <2>1. n \in Channels /\ b = RestartChannel(a, n)
    BY <1>3 DEF Pass
  <2>2. /\ a.c.chans \in [Channels -> [st : ChanStates, own : Owners]]
        /\ a.c.ch \in Channels \cup {NoChan} /\ Shaped(a.c) /\ (a.c.ok => Owned(r, a.c))
    BY <1>1 DEF Core, Fit
  <2>3. a.c.ok => \/ a.c.chans[n].own # "none" \/ a.c.chans[n] = FreeChan
    <3>1. a.c.ok => a.c.chans[n].st # "MAINTAINANCE"
      <4>1. ~(n < n)
        OBVIOUS
      <4> QED BY <1>1, <1>3, <4>1 DEF Freed
    <3>2. a.c.ok /\ a.c.chans[n].own = "none" => a.c.chans[n].st = "AVAILABLE"
      BY <2>1, <2>2, <3>1 DEF Owned
    <3>3. a.c.chans[n] \in [st : ChanStates, own : Owners]
      BY <2>1, <2>2
    <3> QED BY <3>2, <3>3 DEF FreeChan
  <2>4. GlobalShaped(restart_confirm(a.g, n))
    BY <1>1, <2>1, ConfirmShaped
  <2>5. /\ GlobalShaped([restart_confirm(a.g, n) EXCEPT !.t317 = TRUE])
        /\ GlobalShaped([restart_confirm(a.g, a.c.ch) EXCEPT !.t317 = TRUE])
    BY <1>1, <2>1, <2>2, ConfirmShaped
  <2>6. a.c.ok => /\ Confirmed(reqd, n + 1, restart_confirm(a.g, n))
                  /\ Confirmed(reqd, n + 1, [restart_confirm(a.g, n) EXCEPT !.t317 = TRUE])
    BY <1>1, <1>3, ConfirmOne
  <2>7. CASE a.c.chans[n].own = "none"
    <3>1. DOMAIN b = {"c", "g"} /\ b.c = a.c /\ b.g = restart_confirm(a.g, n)
      BY <1>1, <2>1, <2>7 DEF RestartChannel
    <3> HIDE DEF b
    <3>2. a.c.ok => Freed(reqd, n + 1, a.c.chans)
      BY <1>1, <1>3, <2>3, <2>7, FreedOne
    <3> QED BY <1>1, <2>4, <2>6, <3>1, <3>2 DEF Passing, b
  <2>8. CASE a.c.chans[n].own = "call" /\ a.c.listed
    <3>1. /\ DOMAIN b = {"c", "g"} /\ b.c = restart_request(a.c)
          /\ b.g = [restart_confirm(a.g, a.c.ch) EXCEPT !.t317 = TRUE]
      <4> DEFINE y == restart_request(a.c)
                 z == [restart_confirm(a.g, a.c.ch) EXCEPT !.t317 = TRUE]
      <4>1. RestartChannel(a, n) = [c |-> y, g |-> z]
        BY <2>8 DEF RestartChannel
      <4> HIDE DEF y, z
      <4>2. DOMAIN b = {"c", "g"} /\ b.c = y /\ b.g = z
        BY <2>1, <4>1
      <4> QED BY <4>2 DEF y, z
    <3> HIDE DEF b
    <3>2. /\ Core(r, b.c) /\ b.c.listed = FALSE /\ b.c.st \in NullStates /\ Ends(b.c)
          /\ (b.c.ok => a.c.ok)
      <4> DEFINE y == a.c
      <4>1. /\ Core(r, restart_request(y)) /\ restart_request(y).listed = FALSE
            /\ restart_request(y).st \in NullStates /\ Ends(restart_request(y))
            /\ (restart_request(y).ok => y.ok)
        BY <1>1, RestartEnds
      <4> QED BY <3>1, <4>1
    <3>3. a.c.ok => a.c.ch = n /\ b.c.chans = [a.c.chans EXCEPT ![n] = FreeChan]
      BY <1>1, <2>1, <2>8, <3>1, RestartFrees
    <3>4. a.c.ok => /\ b.c.chans[n] = FreeChan
                    /\ \A x \in Channels \ {n} : b.c.chans[x] = a.c.chans[x]
      BY <2>1, <2>2, <3>3
    <3>5. a.c.ok => Freed(reqd, n + 1, b.c.chans)
      BY <1>1, <1>3, <3>4, FreedOne
    <3>6. a.c.ok => Confirmed(reqd, n + 1, b.g)
      BY <2>6, <3>1, <3>3
    <3>7. c.listed
      BY <1>1, <2>8
    <3> QED BY <1>1, <2>5, <3>1, <3>2, <3>5, <3>6, <3>7 DEF Passing, Spared, b
  <2>9. CASE a.c.chans[n].own = "call" /\ ~a.c.listed
    <3>1. /\ DOMAIN b = {"c", "g"} /\ b.c = Assert_(a.c, FALSE)
          /\ b.g = [restart_confirm(a.g, a.c.ch) EXCEPT !.t317 = TRUE]
      <4> DEFINE y == Assert_(a.c, FALSE)
                 z == [restart_confirm(a.g, a.c.ch) EXCEPT !.t317 = TRUE]
      <4>1. RestartChannel(a, n) = [c |-> y, g |-> z]
        BY <2>9 DEF RestartChannel
      <4> HIDE DEF y, z
      <4>2. DOMAIN b = {"c", "g"} /\ b.c = y /\ b.g = z
        BY <2>1, <4>1
      <4> QED BY <4>2 DEF y, z
    <3> HIDE DEF b
    <3>2. /\ b.c.ok = FALSE /\ b.c.listed = a.c.listed /\ b.c.st = a.c.st
          /\ b.c.tm = a.c.tm /\ b.c.ch = a.c.ch /\ b.c.up = a.c.up
      BY <2>2, <3>1 DEF Assert_, Shaped, CallFields
    <3>3. Core(r, b.c)
      <4>1. Turns(r, a.c, b.c, a.c.st, a.c.tm, a.c.listed)
        <5>1. Calm(r, a.c, Assert_(a.c, FALSE))
          BY <2>2, AssertCalm
        <5> QED BY <3>1, <5>1 DEF Calm
      <4>2. a.c.st \in StatesOf(r) /\ a.c.tm \in SUBSET TimersOf(r) /\ a.c.listed \in BOOLEAN
        BY <1>1 DEF Core
      <4> QED BY <1>1, <4>1, <4>2, CoreOf
    <3>4. c.listed => Spared(c, b.c)
      BY <1>1, <3>2, SparedOn
    <3> QED BY <1>1, <2>5, <3>1, <3>2, <3>3, <3>4 DEF Passing, b
  <2>10. CASE a.c.chans[n].own = "other"
    <3> DEFINE d == [a.c EXCEPT !.chans[n] = FreeChan]
    <3>1. /\ DOMAIN b = {"c", "g"} /\ b.c = d
          /\ b.g = [restart_confirm(a.g, n) EXCEPT !.t317 = TRUE]
      <4> DEFINE y == d
                 z == [restart_confirm(a.g, n) EXCEPT !.t317 = TRUE]
      <4>1. RestartChannel(a, n) = [c |-> y, g |-> z]
        BY <2>10 DEF RestartChannel, FreeChan
      <4> HIDE DEF y, z
      <4>2. DOMAIN b = {"c", "g"} /\ b.c = y /\ b.g = z
        BY <2>1, <4>1
      <4> QED BY <4>2 DEF y, z
    <3>2. /\ FreeChan \in [st : ChanStates, own : {"none", "other"}]
          /\ FreeChan.own = "none" => FreeChan.st = "AVAILABLE"
      BY DEF FreeChan, ChanStates
    <3>3. a.c.ok /\ r = "NT" => a.c.ch # n
      BY <2>1, <2>2, <2>10 DEF Owned
    <3>4. /\ Core(r, d) /\ d.st = a.c.st /\ d.tm = a.c.tm /\ d.ch = a.c.ch
          /\ d.ok = a.c.ok /\ d.listed = a.c.listed /\ d.up = a.c.up
          /\ d.chans = [a.c.chans EXCEPT ![n] = FreeChan]
      BY <1>1, <2>1, <3>2, <3>3, OtherChan
    <3> HIDE DEF b, d
    <3>5. /\ d.chans[n] = FreeChan
          /\ \A x \in Channels \ {n} : d.chans[x] = a.c.chans[x]
      BY <2>1, <2>2, <3>4
    <3>6. a.c.ok => Freed(reqd, n + 1, d.chans)
      BY <1>1, <1>3, <3>5, FreedOne
    <3>7. c.listed => Spared(c, d)
      BY <1>1, <3>4, SparedOn
    <3> QED BY <1>1, <2>5, <2>6, <3>1, <3>4, <3>6, <3>7 DEF Passing, b
  <2>11. a.c.chans[n].own \in {"none", "call", "other"}
    BY <2>1, <2>2 DEF Owners
  <2> QED BY <2>7, <2>8, <2>9, <2>10, <2>11
<1> QED BY <1>2, <1>3


(* What a message to the global call makes of the call c: g is the global  *)
(* call after it.  An acknowledgement names free channels.                 *)
Answered(r, c, d, g) ==
    /\ Core(r, d) /\ GlobalShaped(g)
    /\ c.listed => Spared(c, d)
    /\ ~c.listed => d.listed = FALSE /\ d.st = c.st /\ d.up = c.up
    /\ d.ok => /\ g.st = "NULL"
               /\ \A i \in DOMAIN g.tx :
                     g.tx[i].mt = "RESTART_ACKNOWLEDGE" =>
                        \A ch \in g.tx[i].chans : d.chans[ch] = FreeChan

(* A sequence of one and a sequence of none.                               *)
LEMMA OneTuple ==
  ASSUME NEW x
  PROVE  /\ DOMAIN <<x>> = {1} /\ <<x>>[1] = x /\ DOMAIN <<>> = {}
         /\ Append(<<>>, x) = <<x>>
  OBVIOUS

(* The loop from its first channel to its last.                            *)
LEMMA LoopPasses ==
  ASSUME NEW r, NEW c, NEW reqd \in SUBSET Channels, NEW b, c.listed \in BOOLEAN,
         Passing(r, c, reqd, 0, b), NEW n \in Nat
  PROVE  Passing(r, c, reqd, n, Restarted(b, reqd)[n])
<1> DEFINE R == Restarted(b, reqd)
           T == {k \in Nat : ~Passing(r, c, reqd, k, R[k])}
<1>1. R[0] = b /\ \A k \in Nat : R[k + 1] = Pass(reqd, R[k], k)
  BY LoopSteps
<1> HIDE DEF R
<1>2. SUFFICES ASSUME T # {} PROVE FALSE
  BY DEF R
<1>3. PICK m \in T : \A j \in T : m <= j
  <2>1. T \subseteq Nat
    OBVIOUS
  <2> HIDE DEF T
  <2> QED BY <1>2, <2>1, LeastNumber
<1>4. m \in Nat /\ ~Passing(r, c, reqd, m, R[m])
  OBVIOUS
<1>5. m # 0
  BY <1>1, <1>4
<1>6. m - 1 \in Nat /\ m - 1 \notin T /\ (m - 1) + 1 = m
  BY <1>3, <1>4, <1>5
<1> DEFINE k == m - 1
<1>7. k \in Nat /\ Passing(r, c, reqd, k, R[k]) /\ k + 1 = m
  BY <1>6
<1> HIDE DEF k
<1>8. Passing(r, c, reqd, k + 1, Pass(reqd, R[k], k))
  BY <1>7, PassOne
<1>9. R[k + 1] = Pass(reqd, R[k], k)
  BY <1>1, <1>7
<1> QED BY <1>4, <1>7, <1>8, <1>9

(* q931_global_handle_restart.                                             *)
LEMMA RestartAnswered ==
  ASSUME NEW r, NEW c, Core(r, c), NEW g, GlobalShaped(g),
         g.st = "NULL", g.tx = <<>>, NEW ci \in (SUBSET Channels) \cup {NoCI}
  PROVE  LET a == handle_restart([c |-> c, g |-> g], ci)
         IN  Answered(r, c, a.c, a.g)
<1> DEFINE a == [c |-> c, g |-> g]
           chs == IF ci = NoCI THEN Channels ELSE ci
           reqd == {ch \in chs : Restartable(c, ch)}
           b == [a EXCEPT !.g.st = "RESTART", !.g.reqd = reqd, !.g.acked = {}]
           n == LastChannel + 1
           x == [a EXCEPT !.g = GlobalSend([@ EXCEPT !.reqd = {}, !.acked = {}],
                                           "STATUS", {})]
           R == Restarted(b, reqd)
<1>1. reqd \in SUBSET Channels /\ \A ch \in reqd : c.chans[ch].st # "MAINTAINANCE"
  BY DEF Restartable
<1>2. c.listed \in BOOLEAN /\ DOMAIN g = {"st", "t317", "reqd", "acked", "tx", "up"}
  BY DEF Core, GlobalShaped
<1>3. handle_restart(a, ci) = IF reqd = {} THEN x ELSE R[n]
  BY DEF handle_restart
<1>4. LastChannel \in Channels /\ \A ch \in Channels : ch <= LastChannel
  BY LastAssumption DEF LastChannel
<1>5. c.listed => Spared(c, c)
  BY <1>2 DEF Spared
<1> HIDE DEF reqd
<1>6. CASE reqd = {}
  <2> DEFINE h == [g EXCEPT !.reqd = {}, !.acked = {}]
             s == [mt |-> "STATUS", chans |-> {}]
             k == [h EXCEPT !.tx = Append(@, s)]
  <2>1. x.c = c /\ x.g = k
    BY DEF GlobalSend
  <2>2. GlobalShaped(h) /\ h.st = "NULL" /\ h.tx = <<>>
    BY <1>2 DEF GlobalShaped
  <2> HIDE DEF h, s
  <2>3. GlobalShaped(k) /\ k.st = "NULL" /\ k.tx = <<s>>
    BY <2>2, OneTuple DEF GlobalShaped
  <2>4. s.mt # "RESTART_ACKNOWLEDGE"
    BY DEF s
  <2> HIDE DEF k, x
  <2>5. \A i \in DOMAIN k.tx : k.tx[i].mt # "RESTART_ACKNOWLEDGE"
    BY <2>3, <2>4, OneTuple
  <2>6. Answered(r, c, c, k)
    BY <1>2, <1>5, <2>3, <2>5 DEF Answered
  <2> QED BY <1>3, <1>6, <2>1, <2>6
<1>7. CASE reqd # {}
  <2> DEFINE h == [g EXCEPT !.st = "RESTART", !.reqd = reqd, !.acked = {}]
  <2>1. DOMAIN b = {"c", "g"} /\ b.c = c /\ b.g = h
    <3>1. DOMAIN b = {"c", "g"} /\ b.c = c
      OBVIOUS
    <3>2. b.g = h
      OBVIOUS
    <3> HIDE DEF b, h
    <3> QED BY <3>1, <3>2
  <2>2. /\ GlobalShaped(h) /\ h.st = "RESTART" /\ h.reqd = reqd /\ h.acked = {}
        /\ h.tx = <<>>
    BY <1>1, <1>2 DEF GlobalShaped, GlobalStates
  <2> HIDE DEF b, h
  <2>3. reqd \subseteq Nat
    BY <1>1, ChannelsAssumption
  <2>4. {ch \in reqd : 0 <= ch} = reqd /\ \A ch \in reqd : ~(ch < 0)
    <3>1. ASSUME NEW ch \in reqd PROVE 0 <= ch /\ ~(ch < 0)
      <4>1. ch \in Nat
        BY <2>3
      <4> QED BY <4>1
    <3> QED BY <3>1
  <2>5. Confirmed(reqd, 0, h) /\ Freed(reqd, 0, c.chans)
    BY <1>1, <1>7, <2>2, <2>4 DEF Confirmed, Freed
  <2>6. Passing(r, c, reqd, 0, b)
    BY <1>2, <1>5, <2>1, <2>2, <2>5 DEF Passing
  <2>7. n \in Nat
    BY <1>4, ChannelsAssumption
  <2>8. Passing(r, c, reqd, n, R[n])
    BY <1>1, <1>2, <2>6, <2>7, LoopPasses
  <2>9. ASSUME NEW ch \in reqd PROVE ch < n
    <3>1. ch \in Nat /\ LastChannel \in Nat /\ ch <= LastChannel
      BY <1>1, <1>4, ChannelsAssumption
    <3> QED BY <3>1
  <2> DEFINE e == R[n]
  <2> HIDE DEF R, e
  <2>10. Passing(r, c, reqd, n, e)
    BY <2>8 DEF e
  <2>11. e.c.ok => /\ e.g.st = "NULL"
                   /\ e.g.tx = <<[mt |-> "RESTART_ACKNOWLEDGE", chans |-> reqd]>>
                   /\ \A ch \in reqd : e.c.chans[ch] = FreeChan
    <3>1. {ch \in reqd : n <= ch} = {}
      <4>1. ASSUME NEW ch \in reqd PROVE ~(n <= ch)
        BY <2>3, <2>7, <2>9
      <4> QED BY <4>1
    <3> HIDE DEF n
    <3>2. e.c.ok => Confirmed(reqd, n, e.g) /\ Freed(reqd, n, e.c.chans)
      BY <2>10 DEF Passing
    <3>3. e.c.ok => /\ e.g.st = "NULL"
                    /\ e.g.tx = <<[mt |-> "RESTART_ACKNOWLEDGE", chans |-> reqd]>>
      BY <3>1, <3>2 DEF Confirmed
    <3>4. e.c.ok => \A ch \in reqd : e.c.chans[ch] = FreeChan
      BY <2>9, <3>2 DEF Freed
    <3> QED BY <3>3, <3>4
  <2> DEFINE s == [mt |-> "RESTART_ACKNOWLEDGE", chans |-> reqd]
  <2>12. s.chans = reqd
    OBVIOUS
  <2>13. e.c.ok => e.g.tx = <<s>>
    BY <2>11
  <2> HIDE DEF s
  <2>14. e.c.ok => \A i \in DOMAIN e.g.tx : e.g.tx[i].chans = reqd
    BY <2>12, <2>13, OneTuple
  <2>15. Answered(r, c, e.c, e.g)
    BY <2>10, <2>11, <2>14 DEF Passing, Answered
  <2> QED BY <1>3, <1>7, <2>15 DEF e
<1> QED BY <1>6, <1>7


(* q931_dispatch_global_message.                                           *)
LEMMA GlobalAnswered ==
  ASSUME NEW r, NEW c, Core(r, c), NEW g, GlobalShaped(g),
         g.st = "NULL", g.tx = <<>>, NEW m \in GlobalMessages
  PROVE  LET a == dispatch_global_message([c |-> c, g |-> g], m)
         IN  Answered(r, c, a.c, a.g)
<1> DEFINE a == [c |-> c, g |-> g]
           s == [mt |-> "STATUS", chans |-> {}]
           k == [g EXCEPT !.tx = Append(@, s)]
           x == [a EXCEPT !.g = global_handle_status(@, m.cs = 0)]
           y == [a EXCEPT !.g = GlobalSend(@, "STATUS", {})]
<1>1. DOMAIN g = {"st", "t317", "reqd", "acked", "tx", "up"} /\ c.listed \in BOOLEAN
  BY DEF Core, GlobalShaped
<1>2. m.ci \in (SUBSET Channels) \cup {NoCI}
  BY DEF GlobalMessages
<1>3. c.listed => Spared(c, c)
  BY <1>1 DEF Spared
<1>4. CASE m.mt = "RESTART"
  <2>1. dispatch_global_message(a, m) = handle_restart(a, m.ci)
    BY <1>4 DEF dispatch_global_message
  <2> HIDE DEF a
  <2>2. LET b == handle_restart(a, m.ci) IN Answered(r, c, b.c, b.g)
    BY <1>2, RestartAnswered DEF a
  <2> QED BY <2>1, <2>2 DEF a
<1>5. CASE m.mt = "STATUS"
  <2>1. dispatch_global_message(a, m) = x
    BY <1>5 DEF dispatch_global_message
  <2>2. x.c = c /\ x.g = g
    BY DEF global_handle_status
  <2> HIDE DEF x
  <2>3. \A i \in DOMAIN g.tx : FALSE
    BY OneTuple
  <2>4. Answered(r, c, c, g)
    BY <1>1, <1>3, <2>3 DEF Answered
  <2> QED BY <2>1, <2>2, <2>4
<1>6. CASE m.mt \notin {"RESTART", "STATUS"}
  <2>1. dispatch_global_message(a, m) = y
    BY <1>6 DEF dispatch_global_message
  <2>2. y.c = c /\ y.g = k
    BY DEF GlobalSend
  <2> HIDE DEF s, y
  <2>3. GlobalShaped(k) /\ k.st = "NULL" /\ k.tx = <<s>>
    BY <1>1, OneTuple DEF GlobalShaped
  <2>4. s.mt # "RESTART_ACKNOWLEDGE"
    BY DEF s
  <2> HIDE DEF k
  <2>5. \A i \in DOMAIN k.tx : k.tx[i].mt # "RESTART_ACKNOWLEDGE"
    BY <2>3, <2>4, OneTuple
  <2>6. Answered(r, c, c, k)
    BY <1>1, <1>3, <2>3, <2>5 DEF Answered
  <2> QED BY <2>1, <2>2, <2>6
<1> QED BY <1>4, <1>5, <1>6


-----------------------------------------------------------------------------
(* The inductive invariant and the steps.                                  *)

(* A call that is listed is in a phase that its data link allows; one that *)
(* nobody has begun has no timers; one off the list is in the null state.  *)
(* No RESTART is left unanswered.                                          *)
CallInv ==
    call.ok =>
      /\ gc.st = "NULL"
      /\ IF call.listed
         THEN /\ Phase(dl # "up", call)
              /\ from = "nobody" => call.st \in NullStates /\ call.tm = {}
         ELSE call.st \in NullStates

(* The inductive invariant.                                                *)
IInv ==
    /\ Core(role, call) /\ GlobalShaped(gc)
    /\ from \in {"nobody", "ccb", "peer"} /\ dl \in {"down", "awaiting", "up"}
    /\ CallInv

(* What every step does.                                                   *)
Step ==
    /\ IInv'
    /\ call.st \in Clearing => call'.st \in Clearing \cup NullStates
    /\ call.listed /\ ~call'.listed /\ call'.ok /\ call.st \notin NullStates
         => Ends(call') \/ (call.st \in Refusable /\ call'.tx # <<>>)
    /\ ~call.listed => call'.up = <<>> /\ call'.st = call.st
    /\ \A i \in DOMAIN gc'.tx :
          gc'.tx[i].mt = "RESTART_ACKNOWLEDGE" /\ call'.ok =>
             \A ch \in gc'.tx[i].chans : call'.chans[ch] = FreeChan

(* The call before it acts.                                                *)
LEMMA QuietFacts ==
  ASSUME NEW r, NEW c, Core(r, c)
  PROVE  /\ Core(r, Quiet(c)) /\ Quiet(c).st = c.st /\ Quiet(c).tm = c.tm
         /\ Quiet(c).ch = c.ch /\ Quiet(c).chans = c.chans /\ Quiet(c).ok = c.ok
         /\ Quiet(c).listed = c.listed /\ Quiet(c).up = <<>>
<1> DEFINE d == Quiet(c)
<1>1. DOMAIN c = CallFields
  BY DEF Core, Shaped
<1>2. /\ DOMAIN d = CallFields /\ d.st = c.st /\ d.tm = c.tm /\ d.ch = c.ch
      /\ d.listed = c.listed /\ d.up = <<>> /\ d.tx = <<>> /\ d.ok = c.ok /\ d.bc = c.bc
      /\ d.f303 = c.f303 /\ d.f308 = c.f308 /\ d.rcr = c.rcr /\ d.dis = c.dis
      /\ d.senq = c.senq /\ d.chans = c.chans
  BY <1>1 DEF CallFields, Quiet
<1> HIDE DEF d
<1>3. <<>> \in Seq({})
  OBVIOUS
<1>4. Shaped(d) /\ Fit(r, d) /\ Typed(d)
  BY <1>2, <1>3 DEF Core, Shaped, Fit, Typed, Owned
<1>5. Core(r, d)
  BY <1>2, <1>4 DEF Core
<1> QED BY <1>2, <1>5 DEF d

(* The global call when it does nothing.                                   *)
LEMMA HushedFacts ==
  ASSUME NEW g, GlobalShaped(g)
  PROVE  GlobalShaped(Hushed(g)) /\ Hushed(g).st = g.st /\ Hushed(g).tx = <<>>
  BY DEF GlobalShaped, Hushed

(* A listed call, as a handler finds it.                                   *)
LEMMA FoundGood ==
  ASSUME IInv, call.ok, call.listed
  PROVE  Good(role, dl # "up", Quiet(call))
<1>1. Core(role, call) /\ Phase(dl # "up", call) /\ (dl # "up") \in BOOLEAN
  BY DEF IInv, CallInv
<1>2. /\ Core(role, Quiet(call)) /\ Quiet(call).st = call.st /\ Quiet(call).tm = call.tm
      /\ Quiet(call).ch = call.ch /\ Quiet(call).ok = call.ok
      /\ Quiet(call).listed = call.listed
  BY <1>1, QuietFacts
<1>3. Phase(dl # "up", Quiet(call))
  BY <1>1, <1>2 DEF Phase
<1> QED BY <1>1, <1>2, <1>3 DEF Good

(* A call off the list, as a handler finds it.                             *)
LEMMA FoundGone ==
  ASSUME IInv, call.ok, ~call.listed
  PROVE  Gone(role, Quiet(call))
<1>1. Core(role, call) /\ call.st \in NullStates /\ call.listed = FALSE
  BY DEF IInv, CallInv, Core
<1>2. /\ Core(role, Quiet(call)) /\ Quiet(call).st = call.st /\ Quiet(call).ok = call.ok
      /\ Quiet(call).listed = call.listed
  BY <1>1, QuietFacts
<1> QED BY <1>1, <1>2 DEF Gone

(* The global call stays as it is and sends nothing.                       *)
LEMMA IdleGlobal ==
  ASSUME IInv, call.ok, GlobalIdle
  PROVE  /\ GlobalShaped(gc') /\ gc'.st = "NULL" /\ \A i \in DOMAIN gc'.tx : FALSE
         /\ gc'.tx = <<>>
<1>1. GlobalShaped(gc) /\ gc.st = "NULL"
  BY DEF IInv, CallInv
<1>2. GlobalShaped(Hushed(gc)) /\ Hushed(gc).st = "NULL" /\ Hushed(gc).tx = <<>>
  BY <1>1, HushedFacts
<1> QED BY <1>2, OneTuple DEF GlobalIdle

(* A step of a listed call.                                                *)
LEMMA AfterStep ==
  ASSUME IInv, call.ok, call.listed, GlobalIdle, role' = role,
         from' \in {"ccb", "peer"}, dl' \in {"down", "awaiting", "up"},
         After(role, dl' # "up", Quiet(call), call')
  PROVE  Step
<1>1. Core(role, call) /\ Quiet(call).st = call.st
  BY QuietFacts DEF IInv
<1>2. /\ GlobalShaped(gc') /\ gc'.st = "NULL" /\ \A i \in DOMAIN gc'.tx : FALSE
  BY IdleGlobal
<1>3. /\ Core(role, call')
      /\ call.st \in Clearing => call'.st \in Clearing \cup NullStates
      /\ call'.ok => IF call'.listed THEN Phase(dl' # "up", call')
                     ELSE call'.st \in NullStates /\ Known(Quiet(call), call')
  BY <1>1 DEF After
<1>4. CallInv'
  BY <1>2, <1>3 DEF CallInv
<1>5. IInv'
  BY <1>2, <1>3, <1>4 DEF IInv
<1>6. Known(Quiet(call), call') /\ call.st \notin NullStates
        => Ends(call') \/ (call.st \in Refusable /\ call'.tx # <<>>)
  BY <1>1 DEF Known, Sent
<1> QED BY <1>2, <1>3, <1>5, <1>6 DEF Step

(* A step of a call off the list.                                          *)
LEMMA SilentStep ==
  ASSUME IInv, call.ok, ~call.listed, GlobalIdle, role' = role,
         from' = from, dl' \in {"down", "awaiting", "up"},
         Silent(role, Quiet(call), call')
  PROVE  Step
<1>1. /\ Core(role, call) /\ Quiet(call).st = call.st /\ Quiet(call).up = <<>>
      /\ call.st \in NullStates /\ from \in {"nobody", "ccb", "peer"}
  BY QuietFacts DEF IInv, CallInv
<1>2. /\ GlobalShaped(gc') /\ gc'.st = "NULL" /\ \A i \in DOMAIN gc'.tx : FALSE
  BY IdleGlobal
<1>3. Core(role, call') /\ call'.st = call.st /\ call'.listed = FALSE /\ call'.up = <<>>
  BY <1>1 DEF Silent
<1>4. CallInv'
  BY <1>1, <1>2, <1>3 DEF CallInv
<1>5. IInv'
  BY <1>1, <1>2, <1>3, <1>4 DEF IInv
<1> QED BY <1>1, <1>2, <1>3, <1>5 DEF Step

(* A step that may end the call or change its channels, and nothing else.  *)
LEMMA SparedStep ==
  ASSUME IInv, call.ok, role' = role, from' = from, dl' \in {"down", "awaiting", "up"},
         dl' # "up" <=> dl # "up", Answered(role, Quiet(call), call', gc')
  PROVE  Step
<1>1. /\ Core(role, call) /\ Quiet(call).st = call.st /\ Quiet(call).up = <<>>
      /\ Quiet(call).tm = call.tm /\ Quiet(call).ch = call.ch
      /\ Quiet(call).listed = call.listed /\ from \in {"nobody", "ccb", "peer"}
  BY QuietFacts DEF IInv
<1>2. /\ Core(role, call') /\ GlobalShaped(gc')
      /\ call.listed => Spared(Quiet(call), call')
      /\ ~call.listed => call'.listed = FALSE /\ call'.st = call.st /\ call'.up = <<>>
      /\ call'.ok => /\ gc'.st = "NULL"
                     /\ \A i \in DOMAIN gc'.tx :
                           gc'.tx[i].mt = "RESTART_ACKNOWLEDGE" =>
                              \A ch \in gc'.tx[i].chans : call'.chans[ch] = FreeChan
  BY <1>1 DEF Answered
<1>3. call.listed =>
        \/ /\ call'.listed = TRUE /\ call'.st = call.st /\ call'.tm = call.tm
           /\ call'.ch = call.ch
        \/ call'.listed = FALSE /\ call'.st \in NullStates /\ Ends(call')
  BY <1>1, <1>2 DEF Spared
<1>4. CallInv'
  <2>1. CASE ~call.listed
    <3>1. call.st \in NullStates
      BY <2>1 DEF IInv, CallInv
    <3> QED BY <1>2, <2>1, <3>1 DEF CallInv
  <2>2. CASE call.listed
    <3>1. /\ Phase(dl # "up", call)
          /\ from = "nobody" => call.st \in NullStates /\ call.tm = {}
      BY <2>2 DEF IInv, CallInv
    <3>2. call'.st = call.st /\ call'.tm = call.tm /\ call'.ch = call.ch
            => Phase(dl' # "up", call')
      BY <3>1 DEF Phase
    <3> QED BY <1>2, <1>3, <2>2, <3>1, <3>2 DEF CallInv
  <2> QED BY <2>1, <2>2
<1>5. IInv'
  BY <1>1, <1>2, <1>4 DEF IInv
<1>6. call.listed \in BOOLEAN
  BY <1>1 DEF Core
<1> QED BY <1>2, <1>3, <1>5, <1>6 DEF Step


(* The messages of the model name channels of the interface.               *)
LEMMA MessagesChannelled ==
  ASSUME NEW m \in Messages
  PROVE  Channelled(m)
  BY DEF Messages, Channelled

(* Sending establishes no data link and loses none.                        *)
LEMMA LinkedFacts ==
  ASSUME IInv, NEW c, Linked(c)
  PROVE  dl' \in {"down", "awaiting", "up"} /\ (dl' # "up") = (dl # "up")
  BY DEF IInv, Linked

(* The steps of a listed call, one action each.                            *)
LEMMA OriginateStep ==
  ASSUME IInv, NEW q \in {"SETUP", "RESUME"}, Originate(q)
  PROVE  Step
<1>1. /\ call.ok /\ call.listed /\ call.st \in NullStates /\ role' = role
      /\ from' = "ccb" /\ GlobalIdle /\ call' = ccb_dispatch(Quiet(call), q)
      /\ Linked(call')
  BY DEF Originate, Becomes
<1>2. dl' \in {"down", "awaiting", "up"} /\ (dl' # "up") = (dl # "up")
  BY <1>1, LinkedFacts
<1>3. Good(role, dl # "up", Quiet(call)) /\ Quiet(call).st \in NullStates
  BY <1>1, FoundGood, QuietFacts DEF IInv
<1>4. After(role, dl # "up", Quiet(call), ccb_dispatch(Quiet(call), q))
  BY <1>3, OriginateAfter
<1> QED BY <1>1, <1>2, <1>4, AfterStep

(* The first message of the peer.                                          *)
LEMMA ArriveStep ==
  ASSUME IInv, NEW m \in Messages, Arrive(m)
  PROVE  Step
<1>1. /\ call.ok /\ call.listed /\ call.st \in NullStates /\ role' = role /\ dl = "up"
      /\ from' = "peer" /\ GlobalIdle /\ call' = receive_unknown(Quiet(call), m, FALSE)
      /\ Linked(call')
  BY DEF Arrive, Becomes
<1>2. dl' \in {"down", "awaiting", "up"} /\ (dl' # "up") = (dl # "up")
  BY <1>1, LinkedFacts
<1>3. Good(role, dl # "up", Quiet(call)) /\ Quiet(call).st \in NullStates
  BY <1>1, FoundGood, QuietFacts DEF IInv
<1>4. (dl # "up") = FALSE
  BY <1>1
<1>5. Good(role, FALSE, Quiet(call))
  BY <1>3, <1>4
<1>6. After(role, FALSE, Quiet(call), receive_unknown(Quiet(call), m, FALSE))
  BY <1>3, <1>5, UnknownAfter, MessagesChannelled
<1>7. (dl' # "up") = FALSE
  BY <1>2, <1>4
<1>8. After(role, dl' # "up", Quiet(call), call')
  BY <1>1, <1>6, <1>7
<1> QED BY <1>1, <1>2, <1>8, AfterStep

(* A request, also of a CCB whose call is over.                            *)
LEMMA RequestStep ==
  ASSUME IInv, NEW q \in CcbRequests, Request(q)
  PROVE  Step
<1>1. /\ call.ok /\ from # "nobody" /\ role' = role /\ from' = from /\ GlobalIdle
      /\ call' = ccb_dispatch(Quiet(call), q) /\ Linked(call')
  BY DEF Request, Becomes
<1>2. dl' \in {"down", "awaiting", "up"} /\ (dl' # "up") = (dl # "up")
  BY <1>1, LinkedFacts
<1>3. q \notin {"SETUP", "RESUME"}
  BY CcbAssumption
<1>4. CASE call.listed
  <2>1. After(role, dl # "up", Quiet(call), ccb_dispatch(Quiet(call), q))
    BY <1>1, <1>3, <1>4, FoundGood, RequestAfter
  <2>2. from' \in {"ccb", "peer"}
    BY <1>1 DEF IInv
  <2> QED BY <1>1, <1>2, <1>4, <2>1, <2>2, AfterStep
<1>5. CASE ~call.listed
  <2>1. Silent(role, Quiet(call), ccb_dispatch(Quiet(call), q))
    BY <1>1, <1>3, <1>5, FoundGone, RequestSilent
  <2> QED BY <1>1, <1>2, <1>5, <2>1, SilentStep
<1> QED BY <1>4, <1>5

(* A message of the peer.                                                  *)
LEMMA ReceiveStep ==
  ASSUME IInv, NEW m \in Messages, Receive(m)
  PROVE  Step
<1>1. /\ call.ok /\ call.listed /\ from # "nobody" /\ role' = role /\ dl = "up"
      /\ from' = from /\ GlobalIdle /\ call' = dispatch_message(Quiet(call), m)
      /\ Linked(call')
  BY DEF Receive, Becomes
<1>2. dl' \in {"down", "awaiting", "up"} /\ (dl' # "up") = (dl # "up")
  BY <1>1, LinkedFacts
<1>3. Good(role, dl # "up", Quiet(call)) /\ (dl # "up") = FALSE
  BY <1>1, FoundGood
<1>4. Good(role, FALSE, Quiet(call))
  BY <1>3
<1>5. After(role, FALSE, Quiet(call), dispatch_message(Quiet(call), m))
  BY <1>4, MessageAfter, MessagesChannelled
<1>6. (dl' # "up") = FALSE
  BY <1>2, <1>3
<1>7. After(role, dl' # "up", Quiet(call), call') /\ from' \in {"ccb", "peer"}
  BY <1>1, <1>5, <1>6 DEF IInv
<1> QED BY <1>1, <1>2, <1>7, AfterStep

(* A timer, also one left running when the call ended.                     *)
LEMMA TimeoutStep ==
  ASSUME IInv, NEW t, Timeout(t)
  PROVE  Step
<1>1. /\ call.ok /\ t \in call.tm /\ role' = role /\ from' = from /\ GlobalIdle
      /\ call' = timer(Quiet(call), t) /\ Linked(call')
  BY DEF Timeout, Becomes
<1>2. dl' \in {"down", "awaiting", "up"} /\ (dl' # "up") = (dl # "up")
  BY <1>1, LinkedFacts
<1>3. t \in Quiet(call).tm
  BY <1>1, QuietFacts DEF IInv
<1>4. CASE call.listed
  <2>1. After(role, dl # "up", Quiet(call), timer(Quiet(call), t))
    BY <1>1, <1>3, <1>4, FoundGood, TimerAfter
  <2>2. from' \in {"ccb", "peer"}
    BY <1>1, <1>4 DEF IInv, CallInv
  <2> QED BY <1>1, <1>2, <1>4, <2>1, <2>2, AfterStep
<1>5. CASE ~call.listed
  <2>1. Silent(role, Quiet(call), timer(Quiet(call), t))
    BY <1>1, <1>3, <1>5, FoundGone, TimerSilent
  <2> QED BY <1>1, <1>2, <1>5, <2>1, SilentStep
<1> QED BY <1>4, <1>5

(* The data link is established or lost.                                   *)
LEMMA LinkStep ==
  ASSUME IInv, DlEstablishIndication \/ DlEstablishConfirm \/ DlReleaseIndication
  PROVE  Step
<1>1. /\ call.ok /\ call.listed /\ from # "nobody" /\ role' = role /\ from' = from
      /\ GlobalIdle /\ from' \in {"ccb", "peer"}
  BY DEF DlEstablishIndication, DlEstablishConfirm, DlReleaseIndication, IInv
<1>2. Good(role, dl # "up", Quiet(call)) /\ Good(role, FALSE, Quiet(call))
  BY <1>1, FoundGood, UpGood
<1>3. CASE DlEstablishIndication \/ DlEstablishConfirm
  <2>1. /\ dl' = "up" /\ (dl' # "up") = FALSE
        /\ call' \in {dl_establish_indication(Quiet(call)),
                      dl_establish_confirm(Quiet(call))}
    BY <1>3 DEF DlEstablishIndication, DlEstablishConfirm
  <2>2. /\ After(role, FALSE, Quiet(call), dl_establish_indication(Quiet(call)))
        /\ After(role, FALSE, Quiet(call), dl_establish_confirm(Quiet(call)))
    BY <1>2, EstablishAfter, ConfirmAfter
  <2>3. After(role, dl' # "up", Quiet(call), call')
    BY <2>1, <2>2
  <2> QED BY <1>1, <2>1, <2>3, AfterStep
<1>4. CASE DlReleaseIndication
  <2>1. /\ dl' \in {"down", "awaiting"} /\ (dl' # "up") = TRUE
        /\ call' = dl_release_indication(Quiet(call))
    BY <1>4 DEF DlReleaseIndication
  <2>2. After(role, TRUE, Quiet(call), dl_release_indication(Quiet(call)))
    BY <1>2, LossAfter
  <2>3. After(role, dl' # "up", Quiet(call), call')
    BY <2>1, <2>2
  <2> QED BY <1>1, <2>1, <2>3, AfterStep
<1> QED BY <1>3, <1>4


(* A message with the global call reference.                               *)
LEMMA GlobalStep ==
  ASSUME IInv, NEW m \in GlobalMessages, ReceiveGlobal(m)
  PROVE  Step
<1> DEFINE a == dispatch_global_message([c |-> Quiet(call), g |-> Hushed(gc)], m)
<1>1. /\ call.ok /\ role' = role /\ from' = from /\ dl' = dl
      /\ call' = a.c /\ gc' = a.g
  BY DEF ReceiveGlobal
<1>2. Core(role, Quiet(call))
  BY QuietFacts DEF IInv
<1>3. GlobalShaped(Hushed(gc)) /\ Hushed(gc).st = "NULL" /\ Hushed(gc).tx = <<>>
  BY <1>1, HushedFacts DEF IInv, CallInv
<1>4. Answered(role, Quiet(call), a.c, a.g)
  BY <1>2, <1>3, GlobalAnswered
<1> HIDE DEF a
<1>5. dl' \in {"down", "awaiting", "up"}
  BY <1>1 DEF IInv
<1> QED BY <1>1, <1>4, <1>5, SparedStep

(* The call is left alone but for a channel; the global call is idle.      *)
LEMMA CalmStep ==
  ASSUME IInv, call.ok, role' = role, from' = from, dl' \in {"down", "awaiting", "up"},
         dl' # "up" <=> dl # "up", GlobalShaped(gc'), gc'.st = "NULL", gc'.tx = <<>>,
         Core(role, call'), call'.st = call.st, call'.tm = call.tm, call'.ch = call.ch,
         call'.listed = call.listed, call'.up = <<>>
  PROVE  Step
<1>1. /\ Core(role, call) /\ Quiet(call).st = call.st /\ Quiet(call).up = <<>>
      /\ Quiet(call).tm = call.tm /\ Quiet(call).ch = call.ch
      /\ Quiet(call).listed = call.listed /\ call.listed \in BOOLEAN
  <2>1. Core(role, call)
    BY DEF IInv
  <2>2. call.listed \in BOOLEAN
    BY <2>1 DEF Core
  <2> QED BY <2>1, <2>2, QuietFacts
<1>2. Quiet(call).listed => Spared(Quiet(call), call')
  BY <1>1 DEF Spared
<1>3. \A i \in DOMAIN gc'.tx : FALSE
  BY OneTuple
<1>4. Answered(role, Quiet(call), call', gc')
  BY <1>1, <1>2, <1>3 DEF Answered
<1> QED BY <1>4, SparedStep

(* T317.                                                                   *)
LEMMA GlobalTimeoutStep ==
  ASSUME IInv, GlobalTimeout
  PROVE  Step
<1> DEFINE h == Hushed(gc)
<1>1. /\ call.ok /\ role' = role /\ from' = from /\ gc' = global_timer_T317(h)
      /\ Linked(gc') /\ call' = Quiet(call)
  BY DEF GlobalTimeout
<1>2. GlobalShaped(h) /\ h.st = "NULL" /\ h.tx = <<>>
  BY <1>1, HushedFacts DEF IInv, CallInv
<1> HIDE DEF h
<1>3. gc' = [h EXCEPT !.t317 = FALSE]
  BY <1>1, <1>2 DEF global_timer_T317
<1>4. GlobalShaped(gc') /\ gc'.st = "NULL" /\ gc'.tx = <<>>
  BY <1>2, <1>3 DEF GlobalShaped
<1>5. /\ Core(role, call') /\ call'.st = call.st /\ call'.tm = call.tm /\ call'.ch = call.ch
      /\ call'.listed = call.listed /\ call'.up = <<>>
  BY <1>1, QuietFacts DEF IInv
<1>6. dl' \in {"down", "awaiting", "up"} /\ (dl' # "up") = (dl # "up")
  BY <1>1, LinkedFacts
<1> QED BY <1>1, <1>4, <1>5, <1>6, CalmStep

(* Other calls take and free channels.  At the network the call's own is   *)
(* not available.                                                          *)
LEMMA OtherStep ==
  ASSUME IInv, NEW ch \in Channels, OtherTakes(ch) \/ OtherFrees(ch)
  PROVE  Step
<1> DEFINE q == Quiet(call)
           v == IF OtherTakes(ch) THEN [st |-> "SELECTED", own |-> "other"] ELSE FreeChan
           d == [q EXCEPT !.chans[ch] = v]
<1>1. call.ok /\ role' = role /\ from' = from /\ dl' = dl /\ GlobalIdle /\ call' = d
  BY DEF OtherTakes, OtherFrees, FreeChan
<1>2. ch \in Available(call) \/ call.chans[ch].own = "other"
  BY DEF OtherTakes, OtherFrees
<1>3. /\ Core(role, call) /\ Core(role, q) /\ q.st = call.st /\ q.tm = call.tm
      /\ q.ch = call.ch /\ q.ok = call.ok /\ q.listed = call.listed /\ q.up = <<>>
  BY QuietFacts DEF IInv
<1>4. role = "NT" => q.ch # ch
  BY <1>1, <1>2, <1>3 DEF Core, Fit, Owned, Available
<1>5. /\ v \in [st : ChanStates, own : {"none", "other"}]
      /\ v.own = "none" => v.st = "AVAILABLE"
  BY DEF FreeChan, ChanStates
<1> HIDE DEF q, v
<1>6. /\ Core(role, d) /\ d.st = q.st /\ d.tm = q.tm /\ d.ch = q.ch
      /\ d.listed = q.listed /\ d.up = q.up
  BY <1>3, <1>4, <1>5, OtherChan
<1>7. GlobalShaped(gc') /\ gc'.st = "NULL" /\ gc'.tx = <<>>
  BY <1>1, IdleGlobal
<1>8. dl' \in {"down", "awaiting", "up"}
  BY <1>1 DEF IInv
<1> HIDE DEF d
<1> QED BY <1>1, <1>3, <1>6, <1>7, <1>8, CalmStep

(* Every step.                                                             *)
LEMMA NextStep ==
  ASSUME IInv, Next
  PROVE  Step
  BY OriginateStep, ArriveStep, RequestStep, ReceiveStep, TimeoutStep, GlobalStep,
     GlobalTimeoutStep, LinkStep, OtherStep
  DEF Next

(* A new call.                                                             *)
LEMMA Initially ==
  ASSUME Init
  PROVE  IInv
<1>1. /\ DOMAIN call = CallFields /\ call.ch = NoChan /\ call.chans = Free
      /\ call.st = (IF role = "TE" THEN "U0" ELSE "N0") /\ call.tm = {}
      /\ call.f303 = FALSE /\ call.f308 = FALSE /\ call.rcr = FALSE /\ call.dis = FALSE
      /\ call.senq = 0 /\ call.bc = FALSE /\ call.listed = TRUE /\ call.ok = TRUE
      /\ call.tx = <<>> /\ call.up = <<>>
  BY DEF Init, NewCall, CallFields
<1>2. role \in {"NT", "TE"} /\ from = "nobody" /\ dl \in {"down", "awaiting", "up"}
  BY DEF Init
<1>3. GlobalShaped(gc) /\ gc.st = "NULL"
  BY DEF Init, InitGlobal, GlobalShaped, GlobalStates
<1>4. /\ Free \in [Channels -> [st : ChanStates, own : Owners]]
      /\ \A ch \in Channels : Free[ch].own = "none" /\ Free[ch].st = "AVAILABLE"
  BY DEF Free, ChanStates, Owners
<1>5. Fit(role, call)
  BY <1>1, <1>4, ChannelsAssumption DEF Fit, Owned
<1>6. Shaped(call)
  <2>1. <<>> \in Seq({})
    OBVIOUS
  <2> QED BY <1>1, <2>1 DEF Shaped
<1>7. Typed(call)
  <2>1. 0 \in 0..SenqMax /\ TRUE \in BOOLEAN /\ FALSE \in BOOLEAN
    BY SenqAssumption
  <2> QED BY <1>1, <2>1 DEF Typed
<1>8. /\ call.st \in StatesOf(role) /\ call.tm \in SUBSET TimersOf(role)
      /\ call.st \in NullStates
  BY <1>1, <1>2 DEF StatesOf, UStates, NStates, NullStates
<1>9. Core(role, call)
  BY <1>1, <1>2, <1>5, <1>6, <1>7, <1>8 DEF Core
<1>10. Phase(dl # "up", call)
  <2>1. call.st \in {"U0", "N0"}
    BY <1>1
  <2>2. Watched(call.st, call.tm) /\ Off(call.st, call.tm)
    BY <2>1 DEF Watched, Off
  <2> QED BY <1>1, <2>2 DEF Phase
<1> QED BY <1>1, <1>2, <1>3, <1>8, <1>9, <1>10 DEF IInv, CallInv

-----------------------------------------------------------------------------
(* The theorems.                                                           *)

(* The inductive invariant holds: whatever the CCB, the peer, the timers,  *)
(* the data link and the other calls do, a listed call is in a phase its   *)
(* timers, its channel and its data link fit, and one off the list is in   *)
(* the null state.                                                         *)
THEOREM Invariance == Spec => []IInv
<1>1. Init => IInv
  BY Initially
<1>2. IInv /\ [Next]_vars => IInv'
  <2>1. ASSUME IInv, Next PROVE IInv'
    BY <2>1, NextStep DEF Step
  <2>2. ASSUME IInv, UNCHANGED vars PROVE IInv'
    BY <2>2 DEF vars, IInv, CallInv
  <2> QED BY <2>1, <2>2
<1> QED BY <1>1, <1>2, PTL DEF Spec

(* The state has its shapes.                                               *)
THEOREM TypeCorrect == Spec => []TypeOK
<1>1. IInv => TypeOK
  <2> SUFFICES ASSUME IInv PROVE TypeOK
    OBVIOUS
  <2>1. /\ role \in {"NT", "TE"} /\ call.st \in StatesOf(role)
        /\ call.tm \in SUBSET TimersOf(role) /\ Fit(role, call) /\ Typed(call)
        /\ call.listed \in BOOLEAN
    BY DEF IInv, Core
  <2>2. call.st \in UStates \cup NStates
    BY <2>1 DEF StatesOf
  <2>3. call.tm \subseteq Timers
    BY <2>1 DEF TimersOf
  <2>4. /\ call.ch \in Channels \cup {NoChan}
        /\ call.chans \in [Channels -> [st : ChanStates, own : Owners]]
    BY <2>1 DEF Fit
  <2>5. /\ call.senq \in 0..SenqMax
        /\ {call.f303, call.f308, call.rcr, call.dis, call.listed, call.ok} \subseteq BOOLEAN
    BY <2>1 DEF Typed
  <2>6. /\ from \in {"nobody", "ccb", "peer"} /\ dl \in {"down", "awaiting", "up"}
        /\ gc.st \in GlobalStates /\ gc.t317 \in BOOLEAN
        /\ gc.reqd \cup gc.acked \subseteq Channels
    BY DEF IInv, GlobalShaped
  <2> QED BY <2>1, <2>2, <2>3, <2>4, <2>5, <2>6 DEF TypeOK
<1> QED BY <1>1, Invariance, PTL

(* No wait is unbounded: a call that waits for its peer has the timer of   *)
(* its state running, and one that is active without its data link has     *)
(* T309.                                                                   *)
THEOREM WaitsEnd == Spec => []CallIsSupervised
<1>1. IInv => CallIsSupervised
  <2> SUFFICES ASSUME IInv, call.ok, call.listed
               PROVE  /\ call.st \in DOMAIN Supervisor
                            => call.tm \cap Supervisor[call.st] # {}
                      /\ call.st \in {"U10", "N10"} /\ dl # "up" => "T309" \in call.tm
    BY DEF CallIsSupervised, WaitsAreSupervised, DlLossIsSupervised
  <2>1. Watched(call.st, call.tm) /\ (dl # "up" => Off(call.st, call.tm))
    BY DEF IInv, CallInv, Phase
  <2>2. call.st \in {"U10", "N10"} /\ dl # "up" => "T309" \in call.tm
    BY <2>1 DEF Off
  <2>3. call.st \in DOMAIN Supervisor => call.tm \cap Supervisor[call.st] # {}
    <3>1. DOMAIN Supervisor = {"U8", "U11", "U17", "U19", "N6", "N7", "N12", "N19", "N25"}
      BY DEF Supervisor
    <3>2. /\ Supervisor["U8"] = {"T313"} /\ Supervisor["U11"] = {"T305"}
          /\ Supervisor["U17"] = {"T318"} /\ Supervisor["U19"] = {"T308"}
          /\ Supervisor["N6"] = {"T303"} /\ Supervisor["N7"] = {"T301"}
          /\ Supervisor["N12"] = {"T305", "T306"} /\ Supervisor["N19"] = {"T308"}
          /\ Supervisor["N25"] = {"T304"}
      BY DEF Supervisor
    <3> QED BY <2>1, <3>1, <3>2 DEF Watched
  <2> QED BY <2>2, <2>3
<1> QED BY <1>1, Invariance, PTL

(* At the network a call and its channel point to each other, whatever the *)
(* channels' other calls and RESTARTs do.                                  *)
THEOREM NetworkTied == Spec => []NetworkChannelTied
<1>1. IInv => NetworkChannelTied
  BY DEF IInv, Core, Fit, Owned, NetworkChannelTied
<1> QED BY <1>1, Invariance, PTL

(* What has begun to end ends: clearing leads only to the null state, and  *)
(* a call off the list stays as it is and tells nothing.                   *)
THEOREM TheEnd == Spec => EndIsFinal
<1>1. IInv /\ [Next]_vars =>
        /\ [call.st \in Clearing => call'.st \in Clearing \cup NullStates]_vars
        /\ [~call.listed => call'.up = <<>> /\ call'.st = call.st]_vars
  BY NextStep DEF Step
<1>2. IInv /\ [Next]_vars => [call.st \in Clearing => call'.st \in Clearing \cup NullStates]_vars
  BY <1>1
<1>3. IInv /\ [Next]_vars => [~call.listed => call'.up = <<>> /\ call'.st = call.st]_vars
  BY <1>1
<1>4. Spec => ClearingIsFinal
  BY <1>2, Invariance, PTL DEF Spec, ClearingIsFinal
<1>5. Spec => GoneIsSilent
  BY <1>3, Invariance, PTL DEF Spec, GoneIsSilent
<1> QED BY <1>4, <1>5 DEF EndIsFinal

(* No call leaves the interface's list in silence.                         *)
THEOREM EndIsTold == Spec => EndIsReported
<1> DEFINE Told ==
      call.listed /\ ~call'.listed /\ call'.ok /\ call.st \notin NullStates
         => \/ \E i \in 1..Len(call'.up) : call'.up[i] \in
                  {"RELEASE_IND", "RELEASE_CFM", "REJECT_IND", "STATUS_IND",
                   "SUSPEND_CFM", "RESUME_CFM"}
            \/ call.st \in {"U6", "N1", "N15", "N17"} /\ call'.tx # <<>>
<1>1. Step => Told
  BY DEF Step, Ends, EndPrimitives, Refusable
<1> HIDE DEF Told
<1>2. IInv /\ [Next]_vars => [Told]_vars
  BY <1>1, NextStep
<1>3. Spec => [][Told]_vars
  BY <1>2, Invariance, PTL DEF Spec
<1> QED BY <1>3 DEF EndIsReported, Told

(* A RESTART is answered by the step that takes it, and its answer names   *)
(* only channels that are available and no call's.                         *)
THEOREM RestartAcknowledged == Spec => RestartIsAnswered
<1> DEFINE FreeThen ==
      \A i \in DOMAIN gc'.tx :
          gc'.tx[i].mt = "RESTART_ACKNOWLEDGE" /\ call'.ok =>
             \A ch \in gc'.tx[i].chans :
                call'.chans[ch] = [st |-> "AVAILABLE", own |-> "none"]
<1>1. IInv => RestartCompletes
  BY DEF IInv, CallInv, RestartCompletes
<1>2. Step => FreeThen
  BY DEF Step, FreeChan
<1> HIDE DEF FreeThen
<1>3. IInv /\ [Next]_vars => [FreeThen]_vars
  BY <1>2, NextStep
<1>4. Spec => []RestartCompletes
  BY <1>1, Invariance, PTL
<1>5. Spec => [][FreeThen]_vars
  BY <1>3, Invariance, PTL DEF Spec
<1>6. Spec => RestartedAreFree
  BY <1>5 DEF RestartedAreFree, FreeThen
<1> QED BY <1>4, <1>6 DEF RestartIsAnswered

=============================================================================
