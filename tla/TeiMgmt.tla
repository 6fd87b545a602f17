------------------------------ MODULE TeiMgmt ------------------------------
(***************************************************************************)
(* TEI management: the network entity of tei_mgmt_nt.c (struct lapd_ntme)  *)
(* and the user entities of tei_mgmt_te.c (struct lapd_utme) of the        *)
(* terminals on one bus.  lapd_bind gives every socket its own utme; each  *)
(* terminal here is one such socket on an interface of its own.            *)
(*                                                                         *)
(* Of the socket only what these entities see is kept: no TEI (state 1),   *)
(* waiting for one (states 2 and 3) or using one (states 4 to 8).          *)
(*                                                                         *)
(* Left out: static TEIs, the C/R warnings, failed allocations, and the    *)
(* check of message headers.  The random reference number of a request is  *)
(* one that no request outstanding at the time carries.                    *)
(***************************************************************************)
EXTENDS Integers, Sequences, SequencesExt, FiniteSets

CONSTANTS
    Terminals,
    MinDynTei, MaxDynTei,   \* LAPD_MIN_DYN_TEI .. LAPD_MAX_DYN_TEI: 64 .. 126
    Ri,                     \* reference numbers
    N202,                   \* requests sent before giving up
    Smp,        \* TRUE: an expired T202 may wait on tme->lock meanwhile
    MaxAudits,  \* bound: audits by lapd_watchdog
    MaxFaults,  \* bound: MDL error indications in all
    MaxLoss,    \* bound: messages lost in all
    WireCap     \* bound: nothing new starts with this many messages pending

ASSUME TeiAssumption ==
  /\ MinDynTei \in Nat \ {0} /\ MaxDynTei \in Nat /\ MinDynTei < MaxDynTei
  /\ N202 \in Nat \ {0} /\ Smp \in BOOLEAN
  /\ MaxAudits \in Nat /\ MaxFaults \in Nat /\ MaxLoss \in Nat
  /\ WireCap \in Nat \ {0}

DynTeis   == MinDynTei .. MaxDynTei
Broadcast == MaxDynTei + 1      \* LAPD_BROADCAST_TEI: 127
Teis      == DynTeis \cup {Broadcast}
NoTei     == 0                  \* LAPD_TEI_UNASSIGNED
NoRi      == "none"

Messages ==
  [type : {"REQUEST", "ASSIGNED", "DENIED", "CHK_REQ", "CHK_RES", "REMOVE"},
   ri : Ri \cup {NoRi}, ai : Teis]
Msg(type, ri, ai) == [type |-> type, ri |-> ri, ai |-> ai]

(* One message for each TEI of T, in ascending order.                      *)
Nth(T, n) == CHOOSE x \in T : Cardinality({y \in T : y < x}) = n - 1
ForEach(T, type) == [n \in 1 .. Cardinality(T) |-> Msg(type, NoRi, Nth(T, n))]

VARIABLES
    tme,        \* tme[t]: the utme of terminal t
    sock,       \* sock[t]: its socket, [state, tei]
    ntme,       \* the network entity: cur_dyn_tei, the TEIs in use, checks
    up,         \* messages to the network, in order
    down,       \* down[t]: messages to terminal t, in order
    audits, faults, losses

vars == << tme, sock, ntme, up, down, audits, faults, losses >>

Utmes == [state : {"UNASSIGNED", "ASSIGNED"}, tei : DynTeis \cup {NoTei},
          pending : BOOLEAN, ri : Ri \cup {NoRi}, retrans_cnt : 0 .. N202,
          T202 : BOOLEAN,       \* timer pending
          expired : BOOLEAN]    \* handler started, tme->lock not taken yet
Socks == [state : {"NO_TEI", "AWAITING_TEI", "TEI_ASSIGNED"},
          tei : DynTeis \cup {NoTei}]

(* struct lapd_ntme_tei_check; responses[w] counts window w + 1, of which  *)
(* the code tells none, one and several (2) apart.                         *)
Checks == [tei : Teis, count : 0 .. 1, responses : [0 .. 1 -> [Teis -> 0 .. 2]]]
OneMore(n) == IF n < 2 THEN n + 1 ELSE 2

(* lapd_utme_alloc, lapd_ntme_alloc (cur_dyn_tei starts at random).        *)
Init ==
  /\ tme = [t \in Terminals |->
       [state |-> "UNASSIGNED", tei |-> NoTei, pending |-> FALSE, ri |-> NoRi,
        retrans_cnt |-> 0, T202 |-> FALSE, expired |-> FALSE]]
  /\ sock = [t \in Terminals |-> [state |-> "NO_TEI", tei |-> NoTei]]
  /\ ntme \in [cur_dyn_tei : DynTeis, teis : {{}}, checks : {{}}]
  /\ up = << >> /\ down = [t \in Terminals |-> << >>]
  /\ audits = 0 /\ faults = 0 /\ losses = 0

Pending == Len(up) + (IF \E t \in Terminals : Len(down[t]) >= WireCap
                      THEN WireCap ELSE 0)
MayStart == Pending < WireCap

-----------------------------------------------------------------------------
(* The socket's side of lapd_mdl_primitive.                                *)

MdlAssignRequest(k, tei) ==
  IF k.state = "TEI_ASSIGNED" THEN k ELSE [state |-> "TEI_ASSIGNED", tei |-> tei]
MdlRemoveRequest(k) == IF k.state = "TEI_ASSIGNED" THEN [k EXCEPT !.state = "NO_TEI"] ELSE k
(* Mutant: the socket is not told.                                         *)
MdlErrorIgnored(k) == k
MdlErrorResponse(k) == IF k.state = "AWAITING_TEI" THEN [k EXCEPT !.state = "NO_TEI"] ELSE k

-----------------------------------------------------------------------------
(* The user side.                                                          *)

InFlight == {m.ri : m \in ToSet(up) \cup UNION {ToSet(down[t]) : t \in Terminals}}
FreshRi(t) == Ri \ (InFlight \cup {tme[u].ri : u \in Terminals \ {t}})

(* A connect or an unconfirmed send on a socket with no TEI.               *)
MdlAssignIndication(t) ==
  /\ sock[t].state = "NO_TEI" /\ MayStart
  /\ \E ri \in FreshRi(t) :
       /\ tme' = [tme EXCEPT ![t] = [@ EXCEPT !.state = "UNASSIGNED",
                    !.pending = TRUE, !.ri = ri, !.retrans_cnt = 1, !.T202 = TRUE]]
       /\ up' = Append(up, Msg("REQUEST", ri, Broadcast))
  /\ sock' = [sock EXCEPT ![t].state = "AWAITING_TEI"]
  /\ UNCHANGED << ntme, down, audits, faults, losses >>

(* lapd_utme_T202_timer, once it has tme->lock.                            *)
T202Timer(t, u) ==
  IF u.retrans_cnt >= N202
  THEN /\ tme' = [tme EXCEPT ![t] = [u EXCEPT !.state = "UNASSIGNED",
                                        !.pending = FALSE, !.ri = NoRi]]
       /\ sock' = [sock EXCEPT ![t] = MdlErrorResponse(@)]
       /\ UNCHANGED up
  ELSE \E ri \in FreshRi(t) :
       /\ tme' = [tme EXCEPT ![t] = [u EXCEPT !.retrans_cnt = @ + 1,
                                        !.ri = ri, !.T202 = TRUE]]
       /\ up' = Append(up, Msg("REQUEST", ri, Broadcast))
       /\ UNCHANGED sock

T202(t) ==
  /\ tme[t].T202 /\ MayStart
  /\ T202Timer(t, [tme[t] EXCEPT !.T202 = FALSE])
  /\ UNCHANGED << ntme, down, audits, faults, losses >>

(* On another CPU the handler may be held up at the lock; del_timer has no *)
(* effect on it any more.                                                  *)
T202Expires(t) ==
  /\ Smp /\ tme[t].T202
  /\ tme' = [tme EXCEPT ![t] = [@ EXCEPT !.T202 = FALSE, !.expired = TRUE]]
  /\ UNCHANGED << sock, ntme, up, down, audits, faults, losses >>

T202Late(t) ==
  /\ tme[t].expired /\ MayStart
  /\ T202Timer(t, [tme[t] EXCEPT !.expired = FALSE])
  /\ UNCHANGED << ntme, down, audits, faults, losses >>

(* _lapd_utme_tei_remove, and the duplicate branch of TEI assigned.        *)
TeiRemove(t) ==
  /\ tme' = [tme EXCEPT ![t] = [@ EXCEPT !.tei = NoTei, !.state = "UNASSIGNED"]]
  /\ sock' = [sock EXCEPT ![t] = MdlRemoveRequest(@)]

(* Mutant: an assignment for any reference number is taken.                *)
TakeAnyAssignment(t, m) ==
  /\ tme' = [tme EXCEPT ![t] = [@ EXCEPT !.pending = FALSE, !.ri = NoRi,
               !.tei = m.ai, !.state = "ASSIGNED", !.T202 = FALSE]]
  /\ sock' = [sock EXCEPT ![t] = MdlAssignRequest(@, m.ai)]

HandleTeiAssigned(t, m) ==
  IF tme[t].state # "UNASSIGNED" /\ m.ai = tme[t].tei
  THEN TeiRemove(t)
  ELSE IF tme[t].pending /\ m.ri = tme[t].ri
  THEN /\ tme' = [tme EXCEPT ![t] = [@ EXCEPT !.pending = FALSE, !.ri = NoRi,
                    !.tei = m.ai, !.state = "ASSIGNED", !.T202 = FALSE]]
       /\ sock' = [sock EXCEPT ![t] = MdlAssignRequest(@, m.ai)]
  ELSE UNCHANGED << tme, sock >>

HandleTeiRemove(t, m) ==
  IF tme[t].state # "UNASSIGNED" /\ m.ai \in {Broadcast, tme[t].tei}
  THEN TeiRemove(t)
  ELSE UNCHANGED << tme, sock >>

CheckResponse(t, m) ==
  IF tme[t].state # "UNASSIGNED" /\ m.ai \in {Broadcast, tme[t].tei}
  THEN << Msg("CHK_RES", NoRi, tme[t].tei) >> ELSE << >>

(* lapd_utme_handle_frame; a TEI denied is only logged.                    *)
UtmeHandleFrame(t) ==
  /\ down[t] # << >>
  /\ LET m == Head(down[t]) IN
       CASE m.type = "ASSIGNED" -> HandleTeiAssigned(t, m) /\ UNCHANGED up
         [] m.type = "REMOVE" -> HandleTeiRemove(t, m) /\ UNCHANGED up
         [] m.type = "CHK_REQ" -> /\ up' = up \o CheckResponse(t, m)
                                  /\ UNCHANGED << tme, sock >>
         [] OTHER -> UNCHANGED << tme, sock, up >>
  /\ down' = [down EXCEPT ![t] = Tail(@)]
  /\ UNCHANGED << ntme, audits, faults, losses >>

(* lapd_mdl_error_indication C, D, G or H on the terminal.                 *)
TeMdlError(t) ==
  /\ sock[t].state = "TEI_ASSIGNED" /\ faults < MaxFaults
  /\ faults' = faults + 1
  /\ TeiRemove(t)
  /\ UNCHANGED << ntme, up, down, audits, losses >>

-----------------------------------------------------------------------------
(* The network side: ntme' = n2, and ms broadcast.                         *)

Does(n2, ms) ==
  /\ ntme' = n2
  /\ down' = [t \in Terminals |-> down[t] \o ms]

(* The rotating search for a TEI not in use.                               *)
NextFree ==
  LET after(i) == MinDynTei + ((ntme.cur_dyn_tei - MinDynTei + i)
                                 % (MaxDynTei - MinDynTei + 1))
      i == CHOOSE i \in 1 .. MaxDynTei - MinDynTei + 1 :
             /\ after(i) \notin ntme.teis
             /\ \A j \in 1 .. i - 1 : after(j) \in ntme.teis
  IN after(i)

NewCheck(tei) == [tei |-> tei, count |-> 0,
                  responses |-> [w \in 0 .. 1 |-> [x \in Teis |-> 0]]]

(* _lapd_ntme_start_tei_check for each TEI of T not being checked already. *)
Unchecked(T) == T \ {c.tei : c \in ntme.checks}
StartChecks(n, T) ==
  [n EXCEPT !.checks = @ \cup {NewCheck(tei) : tei \in Unchecked(T)}]
CheckRequests(T) == ForEach(Unchecked(T), "CHK_REQ")

HandleTeiRequest(m) ==
  IF DynTeis \subseteq ntme.teis
  THEN Does(StartChecks(ntme, DynTeis),
            << Msg("DENIED", m.ri, m.ai) >> \o CheckRequests(DynTeis))
  ELSE Does([ntme EXCEPT !.cur_dyn_tei = NextFree, !.teis = @ \cup {NextFree}],
            << Msg("ASSIGNED", m.ri, NextFree) >>)

(* The action indicators are read from the start of the frame, not from    *)
(* behind its header: its address octets read as TEIs 126 and 127.         *)
TeisOf(m) == {MaxDynTei, Broadcast}

HandleTeiCheckResponse(m) ==
  LET counts(c) == {x \in TeisOf(m) : c.tei \in {Broadcast, x}}
      counted(c) == [c EXCEPT !.responses[c.count] =
                       [x \in Teis |-> IF x \in counts(c) THEN OneMore(@[x]) ELSE @[x]]]
  IN Does([ntme EXCEPT !.checks = {counted(c) : c \in @}], << >>)

NtmeHandleFrame ==
  /\ up # << >>
  /\ LET m == Head(up) IN
       IF m.type = "REQUEST" THEN HandleTeiRequest(m)
       ELSE HandleTeiCheckResponse(m)
  /\ up' = Tail(up)
  /\ UNCHANGED << tme, sock, audits, faults, losses >>

(* lapd_ntme_tc_T201_timer.                                                *)
Removes(T) == ForEach(T, "REMOVE")
Checked(c) == IF c.tei = Broadcast THEN Teis ELSE {c.tei}

(* Mutant: a TEI nobody answered for is freed without a second check.      *)
FreeAfterFirstWindow(c) ==
  Does([ntme EXCEPT !.checks = @ \ {c},
                    !.teis = @ \ {x \in Checked(c) : c.responses[0][x] = 0}],
       << >>)

FirstWindow(c) ==
  LET several == {x \in Checked(c) : c.responses[0][x] > 1}
      others  == ntme.checks \ {c}
  IN IF c.tei = Broadcast
     THEN Does([ntme EXCEPT !.checks = others \cup {[c EXCEPT !.count = 1]}],
               Append(Removes(several), Msg("CHK_REQ", NoRi, c.tei)))
     ELSE Does([ntme EXCEPT !.checks = others], Removes(several))

SecondWindow(c) ==
  LET answers(x) == {c.responses[0][x], c.responses[1][x]}
      unused  == {x \in Checked(c) : answers(x) = {0}}
      several == {x \in Checked(c) : ~ (answers(x) \subseteq {0, 1})}
  IN Does([ntme EXCEPT !.checks = @ \ {c}, !.teis = @ \ unused],
          Removes(several))

T201(c) ==
  /\ MayStart
  /\ IF c.count = 0 THEN FirstWindow(c) ELSE SecondWindow(c)
  /\ UNCHANGED << tme, sock, up, audits, faults, losses >>

(* lapd_watchdog, hourly.                                                  *)
Audit ==
  /\ audits < MaxAudits /\ MayStart
  /\ audits' = audits + 1
  /\ Does(StartChecks(ntme, {Broadcast}), CheckRequests({Broadcast}))
  /\ UNCHANGED << tme, sock, up, faults, losses >>

(* lapd_mdl_error_indication on a network-side socket, or a TEI verify.    *)
NtMdlError(tei) ==
  /\ faults < MaxFaults /\ MayStart
  /\ faults' = faults + 1
  /\ Does(StartChecks(ntme, {tei}), CheckRequests({tei}))
  /\ UNCHANGED << tme, sock, up, audits, losses >>

-----------------------------------------------------------------------------
LoseUp ==
  /\ up # << >> /\ losses < MaxLoss
  /\ losses' = losses + 1 /\ up' = Tail(up)
  /\ UNCHANGED << tme, sock, ntme, down, audits, faults >>

LoseDown(t) ==
  /\ down[t] # << >> /\ losses < MaxLoss
  /\ losses' = losses + 1 /\ down' = [down EXCEPT ![t] = Tail(@)]
  /\ UNCHANGED << tme, sock, ntme, up, audits, faults >>

Next ==
  \/ \E t \in Terminals :
       \/ MdlAssignIndication(t) \/ T202(t) \/ T202Expires(t) \/ T202Late(t)
       \/ UtmeHandleFrame(t) \/ TeMdlError(t) \/ LoseDown(t)
  \/ NtmeHandleFrame \/ Audit \/ LoseUp
  \/ \E c \in ntme.checks : T201(c)
  \/ \E tei \in ntme.teis : NtMdlError(tei)

Spec == Init /\ [][Next]_vars

(* Messages arrive, timers expire.  MayStart only bounds the model, so the *)
(* timers are strongly fair.                                               *)
FairSpec ==
  /\ Spec
  /\ WF_vars(NtmeHandleFrame)
  /\ \A t \in Terminals : /\ WF_vars(UtmeHandleFrame(t))
                          /\ SF_vars(T202(t)) /\ SF_vars(T202Late(t))

-----------------------------------------------------------------------------
(* TEIs, counters and messages stay in range, the rotating allocation of   *)
(* lapd_ntme_handle_tei_request included.                                  *)
TypeOK ==
  /\ tme \in [Terminals -> Utmes] /\ sock \in [Terminals -> Socks]
  /\ ntme \in [cur_dyn_tei : DynTeis, teis : SUBSET DynTeis, checks : SUBSET Checks]
  /\ up \in Seq(Messages) /\ down \in [Terminals -> Seq(Messages)]
  /\ audits \in Nat /\ faults \in Nat /\ losses \in Nat

Uses(t, tei) == sock[t].state = "TEI_ASSIGNED" /\ sock[t].tei = tei

(* No two terminals use one TEI, whichever requests and assignments are    *)
(* lost, repeated or answered late.                                        *)
UniqueTei ==
  \A t, u \in Terminals : \A tei \in DynTeis : Uses(t, tei) /\ Uses(u, tei) => t = u

(* "TEI is unused" is said only of a TEI no terminal uses: the network     *)
(* keeps the TEI of every terminal marked.                                 *)
InUseIsMarked == \A t \in Terminals : \A tei \in DynTeis :
  Uses(t, tei) => tei \in ntme.teis

(* The entity answers for the TEI its socket uses: it is what the network  *)
(* learns from a check, and what a duplicate or a TEI removal is matched   *)
(* with.                                                                   *)
AnswersForItsTei == \A t \in Terminals : \A tei \in DynTeis :
  Uses(t, tei) => tme[t].state = "ASSIGNED" /\ tme[t].tei = tei

(* A socket that waits for a TEI gets one or is told that there is none.   *)
WaitEnds == \A t \in Terminals :
  sock[t].state = "AWAITING_TEI" ~> sock[t].state # "AWAITING_TEI"
=============================================================================
