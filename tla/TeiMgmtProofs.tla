--------------------------- MODULE TeiMgmtProofs ---------------------------
(***************************************************************************)
(* Proofs about TeiMgmt, for every set of terminals and reference numbers, *)
(* every range of TEIs and all the bounds.                                 *)
(***************************************************************************)
EXTENDS TeiMgmt, FiniteSetTheorems, WellFoundedInduction, SequenceTheorems, TLAPS

-----------------------------------------------------------------------------
(* Sequences as sets of messages.                                          *)

(* What a handler queues is added to what is on the wire.                  *)
LEMMA ToSetConcat ==
  ASSUME NEW S, NEW p \in Seq(S), NEW q \in Seq(S)
  PROVE  ToSet(p \o q) = ToSet(p) \cup ToSet(q)
<1>1. ToSet(p \o q) \subseteq ToSet(p) \cup ToSet(q)
  BY DEF ToSet
<1>2. ASSUME NEW i \in 1 .. Len(p)
      PROVE  p[i] \in ToSet(p \o q)
  <2>1. (p \o q)[i] = p[i] /\ i \in DOMAIN (p \o q)
    OBVIOUS
  <2> QED BY <2>1 DEF ToSet
<1>3. ASSUME NEW i \in 1 .. Len(q)
      PROVE  q[i] \in ToSet(p \o q)
  <2>1. (p \o q)[Len(p) + i] = q[i] /\ Len(p) + i \in DOMAIN (p \o q)
    OBVIOUS
  <2> QED BY <2>1 DEF ToSet
<1>4. ToSet(p) \subseteq ToSet(p \o q)
  BY <1>2 DEF ToSet
<1>5. ToSet(q) \subseteq ToSet(p \o q)
  BY <1>3 DEF ToSet
<1> QED BY <1>1, <1>4, <1>5

(* A message taken off the wire was on it, and leaves the others.          *)
LEMMA ToSetTail ==
  ASSUME NEW S, NEW q \in Seq(S), q # << >>
  PROVE  /\ Tail(q) \in Seq(S) /\ ToSet(Tail(q)) \subseteq ToSet(q)
         /\ Head(q) \in ToSet(q) /\ Head(q) \in S
<1>1. Tail(q) \in Seq(S) /\ Len(Tail(q)) = Len(q) - 1 /\ Len(q) > 0
  OBVIOUS
<1>2. \A i \in 1 .. Len(Tail(q)) : Tail(q)[i] = q[i + 1] /\ i + 1 \in 1 .. Len(q)
  BY <1>1
<1>3. Head(q) = q[1] /\ 1 \in 1 .. Len(q)
  BY <1>1
<1> QED BY <1>1, <1>2, <1>3 DEF ToSet

(* The elements of a sequence over S are in S.                             *)
LEMMA ToSetType ==
  ASSUME NEW S, NEW q \in Seq(S)
  PROVE  ToSet(q) \subseteq S
BY DEF ToSet

(* A nonempty set of naturals has a least element.                         *)
LEMMA LeastTei ==
  ASSUME NEW T, T \subseteq Nat, T # {}
  PROVE  \E i \in T : \A j \in T : i <= j
<1>1. PICK i \in T : \A j \in T : ~ (<< j, i >> \in OpToRel(<, Nat))
  BY NatLessThanWellFounded, WFMin
<1>2. ASSUME NEW j \in T
      PROVE  i <= j
  <2>1. << j, i >> \in Nat \X Nat /\ i \in Nat /\ j \in Nat
    OBVIOUS
  <2>2. ~ (j < i)
    BY <1>1, <2>1, Zenon DEF OpToRel
  <2> QED BY <2>1, <2>2
<1> QED BY <1>2

-----------------------------------------------------------------------------
(* The TEIs of a set in ascending order.                                   *)

(* TEIs are numbers, and there are finitely many of them.                  *)
LEMMA TeiFacts ==
  /\ DynTeis \subseteq Nat \ {0} /\ Broadcast \in Nat /\ Broadcast \notin DynTeis
  /\ Teis \subseteq Nat \ {0} /\ IsFiniteSet(Teis) /\ MaxDynTei \in DynTeis
<1>1. DynTeis \subseteq Nat \ {0} /\ Broadcast \in Nat \ {0} /\ Broadcast \notin DynTeis
  BY TeiAssumption DEF DynTeis, Broadcast
<1>2. IsFiniteSet(Teis)
  <2>1. IsFiniteSet(DynTeis)
    BY FS_Interval, TeiAssumption DEF DynTeis
  <2> QED BY <2>1, FS_AddElement DEF Teis
<1>3. MaxDynTei \in DynTeis
  BY TeiAssumption DEF DynTeis
<1> QED BY <1>1, <1>2, <1>3 DEF Teis

(* Every place up to the size of the set is taken by an element: the loops *)
(* over the TEIs visit each of them.                                       *)
LEMMA NthExists ==
  ASSUME NEW T, T \subseteq Nat, IsFiniteSet(T), NEW n \in 1 .. Cardinality(T)
  PROVE  Nth(T, n) \in T
<1> DEFINE Below(x) == {y \in T : y < x}
           Found == {k \in 1 .. Cardinality(T) :
                       \E x \in T : Cardinality(Below(x)) = k - 1}
           Missing == (1 .. Cardinality(T)) \ Found
<1>1. Cardinality(T) \in Nat
  BY FS_CardinalityType
<1>2. \A x : IsFiniteSet(Below(x)) /\ Below(x) \subseteq T
  BY FS_Subset
<1>3. ASSUME NEW x \in T, NEW y \in T
      PROVE  y \in Below(x) <=> y < x
  OBVIOUS
<1>4. \A k : k \in Found <=> /\ k \in 1 .. Cardinality(T)
                            /\ \E x \in T : Cardinality(Below(x)) = k - 1
  OBVIOUS
<1> HIDE DEF Below, Found
<1>5. Missing = {}
  <2>1. SUFFICES ASSUME Missing # {}
                 PROVE  FALSE
    OBVIOUS
  <2>2. PICK k \in Missing : \A j \in Missing : k <= j
    <3>1. Missing \subseteq Nat
      BY <1>1
    <3> HIDE DEF Missing
    <3> QED BY <2>1, <3>1, LeastTei
  <2>3. k \in 1 .. Cardinality(T) /\ k \notin Found
    OBVIOUS
  <2>4. CASE k = 1
    <3>1. T # {}
      BY <2>3, <1>1, FS_EmptySet
    <3>2. PICK x \in T : \A y \in T : x <= y
      BY <3>1, LeastTei
    <3>3. Below(x) = {}
      <4>1. \A y \in T : ~ (y < x)
        BY <3>2
      <4> QED BY <4>1, <1>2, <1>3
    <3>4. Cardinality(Below(x)) = k - 1
      BY <3>3, <2>4, FS_EmptySet
    <3> QED BY <3>4, <2>3, <1>4
  <2>5. CASE k # 1
    <3>1. k - 1 \in 1 .. Cardinality(T) /\ k \in Int /\ k <= Cardinality(T)
      BY <2>5, <2>3, <1>1
    <3>2. k - 1 \in Found
      BY <3>1, <2>2
    <3>3. PICK x \in T : Cardinality(Below(x)) = (k - 1) - 1
      BY <3>2, <1>4
    <3>4. x \notin Below(x) /\ IsFiniteSet(Below(x))
      BY <1>2, <1>3
    <3>5. Cardinality(Below(x) \cup {x}) = k - 1
      <4>1. Cardinality(Below(x) \cup {x}) = Cardinality(Below(x)) + 1
        BY <3>4, FS_AddElement
      <4> QED BY <4>1, <3>3, <3>1
    <3> DEFINE Up == {y \in T : x < y}
    <3>6. Up # {}
      <4>1. SUFFICES ASSUME Up = {}
                     PROVE  FALSE
        OBVIOUS
      <4>2. \A y \in T : y < x \/ y = x
        BY <4>1
      <4>3. T = Below(x) \cup {x}
        BY <4>2, <1>2, <1>3
      <4>4. Cardinality(T) = k - 1
        BY <4>3, <3>5
      <4> QED BY <4>4, <3>1
    <3>7. PICK z \in Up : \A y \in Up : z <= y
      BY <3>6, LeastTei
    <3>8. \A y \in T : y < z <=> (y < x \/ y = x)
      BY <3>7
    <3>9. Below(z) = Below(x) \cup {x}
      BY <3>8, <3>7, <1>2, <1>3
    <3>10. z \in T /\ Cardinality(Below(z)) = k - 1
      BY <3>9, <3>5
    <3> QED BY <3>10, <2>3, <1>4
  <2> QED BY <2>4, <2>5
<1>6. n \in Found
  BY <1>5
<1>7. \E x \in T : Cardinality(Below(x)) = n - 1
  BY <1>4, <1>6
<1> QED BY <1>7 DEF Nth, Below

(* ForEach queues messages of its type only, one for an element of T each. *)
LEMMA ForEachType ==
  ASSUME NEW T, T \subseteq Teis, NEW type \in {"CHK_REQ", "REMOVE"}
  PROVE  /\ ForEach(T, type) \in Seq(Messages)
         /\ \A m \in ToSet(ForEach(T, type)) : m.type = type /\ m.ai \in T
<1>1. IsFiniteSet(T) /\ T \subseteq Nat /\ Cardinality(T) \in Nat
  BY TeiFacts, FS_Subset, FS_CardinalityType
<1>2. ASSUME NEW n \in 1 .. Cardinality(T)
      PROVE  /\ Msg(type, NoRi, Nth(T, n)) \in Messages
             /\ Msg(type, NoRi, Nth(T, n)).type = type
             /\ Msg(type, NoRi, Nth(T, n)).ai \in T
  <2>1. Nth(T, n) \in T
    BY <1>1, NthExists
  <2> QED BY <2>1 DEF Msg, Messages
<1>3. ForEach(T, type) \in Seq(Messages) /\ DOMAIN ForEach(T, type) = 1 .. Cardinality(T)
  BY <1>1, <1>2 DEF ForEach
<1> QED BY <1>2, <1>3 DEF ForEach, ToSet

-----------------------------------------------------------------------------
(* The rotating search.                                                    *)

Ntmes == [cur_dyn_tei : DynTeis, teis : SUBSET DynTeis, checks : SUBSET Checks]

(* Whichever TEI the search starts behind, it comes by every TEI and stops *)
(* at one that is free.                                                    *)
LEMMA NextFreeIsFree ==
  ASSUME ntme \in Ntmes, ~ (DynTeis \subseteq ntme.teis)
  PROVE  NextFree \in DynTeis /\ NextFree \notin ntme.teis
<1> DEFINE N == MaxDynTei - MinDynTei + 1
           a == ntme.cur_dyn_tei - MinDynTei
           after(i) == MinDynTei + ((ntme.cur_dyn_tei - MinDynTei + i)
                                      % (MaxDynTei - MinDynTei + 1))
           Free == {i \in 1 .. N : after(i) \notin ntme.teis}
           Wanted(i) == /\ after(i) \notin ntme.teis
                        /\ \A j \in 1 .. i - 1 : after(j) \in ntme.teis
<1>1. /\ N \in Nat /\ N > 0 /\ MinDynTei \in Int /\ MaxDynTei \in Int
      /\ ntme.cur_dyn_tei \in MinDynTei .. MaxDynTei /\ ntme.cur_dyn_tei \in Int
      /\ a \in 0 .. N - 1
  BY TeiAssumption DEF Ntmes, DynTeis
<1>2. \A i \in 1 .. N : after(i) \in DynTeis
  <2>1. TAKE i \in 1 .. N
  <2>2. (a + i) % N \in 0 .. N - 1
    BY <1>1
  <2> QED BY <2>2, <1>1 DEF DynTeis
<1>3. PICK tei \in DynTeis : tei \notin ntme.teis
  OBVIOUS
<1>4. \E i \in 1 .. N : after(i) = tei
  <2> DEFINE b == tei - MinDynTei
  <2>1. b \in 0 .. N - 1 /\ tei \in Int
    BY <1>1 DEF DynTeis
  <2>2. b % N = b
    BY <2>1, <1>1
  <2>3. (b + N) % N = b
    BY <2>1, <1>1
  <2>4. CASE b > a
    <3>1. b - a \in 1 .. N /\ a + (b - a) = b
      BY <2>4, <2>1, <1>1
    <3>2. after(b - a) = MinDynTei + (b % N)
      BY <3>1, Zenon
    <3>3. after(b - a) = tei
      <4>1. MinDynTei + b = tei
        BY <2>1, <1>1
      <4> QED BY <4>1, <3>2, <2>2, Zenon
    <3> QED BY <3>1, <3>3
  <2>5. CASE ~ (b > a)
    <3>1. b - a + N \in 1 .. N /\ a + (b - a + N) = b + N
      BY <2>5, <2>1, <1>1
    <3>2. after(b - a + N) = MinDynTei + ((b + N) % N)
      BY <3>1, Zenon
    <3>3. after(b - a + N) = tei
      <4>1. MinDynTei + b = tei
        BY <2>1, <1>1
      <4> QED BY <4>1, <3>2, <2>3, Zenon
    <3> QED BY <3>1, <3>3
  <2> QED BY <2>4, <2>5
<1> HIDE DEF after, N, a
<1>5. \E i \in 1 .. N : Wanted(i)
  <2>1. Free # {} /\ Free \subseteq Nat
    BY <1>3, <1>4, <1>1
  <2>2. PICK i \in Free : \A j \in Free : i <= j
    <3> HIDE DEF Free
    <3> QED BY <2>1, LeastTei
  <2>3. ASSUME NEW j \in 1 .. i - 1
        PROVE  after(j) \in ntme.teis
    BY <2>2, <1>1
  <2> QED BY <2>2, <2>3
<1> DEFINE k == CHOOSE i \in 1 .. N : Wanted(i)
<1>6. k \in 1 .. N /\ Wanted(k)
  <2> HIDE DEF Wanted
  <2> QED BY <1>5
<1>7. NextFree = after(k)
  BY DEF NextFree, after, N
<1> HIDE DEF k
<1> QED BY <1>2, <1>6, <1>7

-----------------------------------------------------------------------------
(* Type correctness.  A terminal's TEI is copied into its check responses, *)
(* so the entity of a terminal with a TEI and the assignments on their way *)
(* to it must name dynamic TEIs.                                           *)

Assignments(t) == {m \in ToSet(down[t]) : m.type = "ASSIGNED"}

TerminalsOK ==
  /\ tme \in [Terminals -> Utmes] /\ sock \in [Terminals -> Socks]
  /\ \A t \in Terminals : tme[t].state = "ASSIGNED" => tme[t].tei \in DynTeis

DownOK ==
  /\ down \in [Terminals -> Seq(Messages)]
  /\ \A t \in Terminals : \A m \in Assignments(t) : m.ai \in DynTeis

TypeInv ==
  /\ TerminalsOK /\ DownOK
  /\ ntme \in Ntmes /\ up \in Seq(Messages)
  /\ audits \in Nat /\ faults \in Nat /\ losses \in Nat

(* A request carries a reference number and asks for any TEI.              *)
LEMMA RequestType ==
  ASSUME up \in Seq(Messages), NEW ri \in Ri
  PROVE  Append(up, Msg("REQUEST", ri, Broadcast)) \in Seq(Messages)
<1>1. Msg("REQUEST", ri, Broadcast) \in Messages
  BY DEF Msg, Messages, Teis
<1> QED BY <1>1

(* A user entity that begins to ask for a TEI stays well-typed.            *)
LEMMA MdlAssignIndicationType ==
  ASSUME TypeInv, NEW t \in Terminals, MdlAssignIndication(t)
  PROVE  TypeInv'
<1>1. PICK ri \in FreshRi(t) :
        /\ tme' = [tme EXCEPT ![t] = [@ EXCEPT !.state = "UNASSIGNED",
                    !.pending = TRUE, !.ri = ri, !.retrans_cnt = 1, !.T202 = TRUE]]
        /\ up' = Append(up, Msg("REQUEST", ri, Broadcast))
  BY DEF MdlAssignIndication
<1>2. ri \in Ri
  BY DEF FreshRi
<1>3. up' \in Seq(Messages)
  BY <1>1, <1>2, RequestType DEF TypeInv, TerminalsOK
<1>4. sock' \in [Terminals -> Socks]
  <2>1. [sock[t] EXCEPT !.state = "AWAITING_TEI"] \in Socks
    BY DEF TypeInv, TerminalsOK, Socks
  <2>2. sock' = [sock EXCEPT ![t].state = "AWAITING_TEI"]
    BY DEF MdlAssignIndication
  <2> QED BY <2>1, <2>2 DEF TypeInv, TerminalsOK
<1>5. tme' \in [Terminals -> Utmes]
  <2>1. 1 \in 0 .. N202 /\ tme[t] \in Utmes
    BY TeiAssumption DEF TypeInv, TerminalsOK
  <2>2. [tme[t] EXCEPT !.state = "UNASSIGNED", !.pending = TRUE, !.ri = ri,
                       !.retrans_cnt = 1, !.T202 = TRUE] \in Utmes
    BY <1>2, <2>1 DEF Utmes
  <2> QED BY <1>1, <2>2 DEF TypeInv, TerminalsOK
<1>6. \A u \in Terminals : tme'[u].state = "ASSIGNED" => tme'[u].tei \in DynTeis
  BY <1>1 DEF TypeInv, TerminalsOK
<1> QED BY <1>3, <1>4, <1>5, <1>6
        DEF TypeInv, TerminalsOK, DownOK, Assignments, MdlAssignIndication

(* So does one that gives up its TEI.                                      *)
LEMMA TeiRemoveType ==
  ASSUME TerminalsOK, NEW t \in Terminals, TeiRemove(t)
  PROVE  TerminalsOK'
<1>1. tme' \in [Terminals -> Utmes]
  <2>1. [tme[t] EXCEPT !.tei = NoTei, !.state = "UNASSIGNED"] \in Utmes
    BY DEF TerminalsOK, Utmes
  <2> QED BY <2>1 DEF TerminalsOK, TeiRemove
<1>2. sock' \in [Terminals -> Socks]
  BY DEF TerminalsOK, TeiRemove, MdlRemoveRequest, Socks
<1> QED BY <1>1, <1>2 DEF TerminalsOK, TeiRemove

(* So does one whose T202 fired, whichever way the handler goes.           *)
LEMMA T202TimerType ==
  ASSUME TerminalsOK, up \in Seq(Messages), NEW t \in Terminals, NEW u \in Utmes,
         u.state = tme[t].state, u.tei = tme[t].tei, T202Timer(t, u)
  PROVE  TerminalsOK' /\ up' \in Seq(Messages)
<1>1. CASE u.retrans_cnt >= N202
  <2>1. /\ tme' = [tme EXCEPT ![t] = [u EXCEPT !.state = "UNASSIGNED",
                                        !.pending = FALSE, !.ri = NoRi]]
        /\ sock' = [sock EXCEPT ![t] = MdlErrorResponse(@)]
        /\ UNCHANGED up
    BY <1>1 DEF T202Timer
  <2>2. tme' \in [Terminals -> Utmes]
    <3>1. [u EXCEPT !.state = "UNASSIGNED", !.pending = FALSE, !.ri = NoRi] \in Utmes
      BY DEF Utmes
    <3> QED BY <2>1, <3>1 DEF TerminalsOK
  <2>3. sock' \in [Terminals -> Socks]
    BY <2>1 DEF TerminalsOK, MdlErrorResponse, Socks
  <2> QED BY <2>1, <2>2, <2>3 DEF TerminalsOK
<1>2. CASE ~ (u.retrans_cnt >= N202)
  <2>1. PICK ri \in FreshRi(t) :
          /\ tme' = [tme EXCEPT ![t] = [u EXCEPT !.retrans_cnt = @ + 1,
                                        !.ri = ri, !.T202 = TRUE]]
          /\ up' = Append(up, Msg("REQUEST", ri, Broadcast))
          /\ UNCHANGED sock
    BY <1>2 DEF T202Timer
  <2>2. ri \in Ri
    BY DEF FreshRi
  <2>3. tme' \in [Terminals -> Utmes]
    <3>1. u.retrans_cnt + 1 \in 0 .. N202
      BY <1>2, TeiAssumption DEF Utmes
    <3>2. [u EXCEPT !.retrans_cnt = @ + 1, !.ri = ri, !.T202 = TRUE] \in Utmes
      BY <3>1, <2>2 DEF Utmes
    <3> QED BY <2>1, <3>2 DEF TerminalsOK
  <2> QED BY <2>1, <2>2, <2>3, RequestType DEF TerminalsOK
<1> QED BY <1>1, <1>2

(* So does one that is told of an assignment, its own or another's.        *)
LEMMA HandleTeiAssignedType ==
  ASSUME TerminalsOK, NEW t \in Terminals, NEW m \in Messages, m.ai \in DynTeis,
         HandleTeiAssigned(t, m)
  PROVE  TerminalsOK'
<1>1. CASE TeiRemove(t)
  BY <1>1, TeiRemoveType
<1>2. CASE /\ tme' = [tme EXCEPT ![t] = [@ EXCEPT !.pending = FALSE, !.ri = NoRi,
                    !.tei = m.ai, !.state = "ASSIGNED", !.T202 = FALSE]]
           /\ sock' = [sock EXCEPT ![t] = MdlAssignRequest(@, m.ai)]
  <2>1. tme' \in [Terminals -> Utmes]
    <3>1. [tme[t] EXCEPT !.pending = FALSE, !.ri = NoRi, !.tei = m.ai,
                         !.state = "ASSIGNED", !.T202 = FALSE] \in Utmes
      BY DEF TerminalsOK, Utmes
    <3> QED BY <1>2, <3>1 DEF TerminalsOK
  <2>2. sock' \in [Terminals -> Socks]
    BY <1>2 DEF TerminalsOK, MdlAssignRequest, Socks
  <2> QED BY <1>2, <2>1, <2>2 DEF TerminalsOK
<1>3. CASE UNCHANGED << tme, sock >>
  BY <1>3 DEF TerminalsOK
<1> QED BY <1>1, <1>2, <1>3 DEF HandleTeiAssigned

(* Taking the first message off a wire leaves the assignments behind it.   *)
LEMMA TakeFromDown ==
  ASSUME DownOK, NEW t \in Terminals, down[t] # << >>,
         down' = [down EXCEPT ![t] = Tail(@)]
  PROVE  /\ DownOK'
         /\ \A u \in Terminals : Assignments(u)' \subseteq Assignments(u)
         /\ Head(down[t]) \in Messages /\ Head(down[t]) \in ToSet(down[t])
<1>1. /\ Tail(down[t]) \in Seq(Messages) /\ ToSet(Tail(down[t])) \subseteq ToSet(down[t])
      /\ Head(down[t]) \in ToSet(down[t]) /\ Head(down[t]) \in Messages
  BY ToSetTail DEF DownOK
<1>2. down' \in [Terminals -> Seq(Messages)]
  BY <1>1 DEF DownOK
<1>3. \A u \in Terminals : Assignments(u)' \subseteq Assignments(u)
  <2>1. TAKE u \in Terminals
  <2>2. ToSet(down'[u]) \subseteq ToSet(down[u])
    BY <1>1 DEF DownOK
  <2> QED BY <2>2 DEF Assignments
<1> QED BY <1>1, <1>2, <1>3 DEF DownOK

(* What the network sends is added to the wire of every terminal.          *)
LEMMA DoesDown ==
  ASSUME DownOK, NEW n, NEW ms \in Seq(Messages), Does(n, ms),
         \A m \in ToSet(ms) : m.type = "ASSIGNED" => m.ai \in DynTeis
  PROVE  /\ DownOK'
         /\ \A u \in Terminals : Assignments(u)' =
              Assignments(u) \cup {m \in ToSet(ms) : m.type = "ASSIGNED"}
<1>1. down' = [t \in Terminals |-> down[t] \o ms]
  BY DEF Does
<1>2. down' \in [Terminals -> Seq(Messages)]
  BY <1>1 DEF DownOK
<1>3. \A u \in Terminals : Assignments(u)' =
              Assignments(u) \cup {m \in ToSet(ms) : m.type = "ASSIGNED"}
  <2>1. TAKE u \in Terminals
  <2>2. down'[u] = down[u] \o ms /\ down[u] \in Seq(Messages)
    BY <1>1 DEF DownOK
  <2>3. ToSet(down'[u]) = ToSet(down[u]) \cup ToSet(ms)
    BY <2>2, ToSetConcat
  <2> QED BY <2>3 DEF Assignments
<1> QED BY <1>2, <1>3 DEF DownOK

(* A check response names the TEI of a terminal that has one.              *)
LEMMA CheckResponseType ==
  ASSUME TerminalsOK, NEW t \in Terminals, NEW m \in Messages
  PROVE  CheckResponse(t, m) \in Seq(Messages)
<1>1. CASE tme[t].state # "UNASSIGNED"
  <2>1. tme[t].state = "ASSIGNED"
    BY <1>1 DEF TerminalsOK, Utmes
  <2>2. tme[t].tei \in Teis
    BY <2>1 DEF TerminalsOK, Teis
  <2>3. Msg("CHK_RES", NoRi, tme[t].tei) \in Messages
    BY <2>2 DEF Msg, Messages
  <2> QED BY <2>3 DEF CheckResponse
<1>2. CASE ~ (tme[t].state # "UNASSIGNED")
  BY <1>2 DEF CheckResponse
<1> QED BY <1>1, <1>2

(* Every frame a user entity handles keeps the types.                      *)
LEMMA UtmeHandleFrameType ==
  ASSUME TypeInv, NEW t \in Terminals, UtmeHandleFrame(t)
  PROVE  TypeInv'
<1> DEFINE m == Head(down[t])
<1>1. TerminalsOK /\ DownOK /\ up \in Seq(Messages)
  BY DEF TypeInv
<1>2. /\ DownOK' /\ m \in Messages /\ m \in ToSet(down[t])
      /\ \A u \in Terminals : Assignments(u)' \subseteq Assignments(u)
  BY <1>1, TakeFromDown DEF UtmeHandleFrame
<1> HIDE DEF m
<1>3. TerminalsOK' /\ up' \in Seq(Messages)
  <2>1. CASE m.type = "ASSIGNED"
    <3>1. m.ai \in DynTeis
      BY <2>1, <1>1, <1>2 DEF DownOK, Assignments
    <3>2. HandleTeiAssigned(t, m) /\ UNCHANGED up
      BY <2>1 DEF UtmeHandleFrame, m
    <3> QED BY <3>1, <3>2, <1>1, <1>2, HandleTeiAssignedType
  <2>2. CASE m.type = "REMOVE"
    <3>1. HandleTeiRemove(t, m) /\ UNCHANGED up
      BY <2>2 DEF UtmeHandleFrame, m
    <3>2. CASE TeiRemove(t)
      BY <3>1, <3>2, <1>1, TeiRemoveType
    <3>3. CASE UNCHANGED << tme, sock >>
      BY <3>1, <3>3, <1>1 DEF TerminalsOK
    <3> QED BY <3>1, <3>2, <3>3 DEF HandleTeiRemove
  <2>3. CASE m.type = "CHK_REQ"
    <3>1. up' = up \o CheckResponse(t, m) /\ UNCHANGED << tme, sock >>
      BY <2>3 DEF UtmeHandleFrame, m
    <3>2. up' \in Seq(Messages)
      BY <3>1, <1>1, <1>2, CheckResponseType
    <3> QED BY <3>1, <3>2, <1>1 DEF TerminalsOK
  <2>4. CASE m.type \notin {"ASSIGNED", "REMOVE", "CHK_REQ"}
    <3>1. UNCHANGED << tme, sock, up >>
      BY <2>4 DEF UtmeHandleFrame, m
    <3> QED BY <3>1, <1>1 DEF TerminalsOK
  <2> QED BY <2>1, <2>2, <2>3, <2>4
<1> QED BY <1>2, <1>3 DEF UtmeHandleFrame, TypeInv

(* The counts of a check's answers stay in range.                          *)
LEMMA CheckCountType ==
  ASSUME NEW c \in Checks, NEW X
  PROVE  [c EXCEPT !.responses[c.count] =
            [x \in Teis |-> IF x \in X THEN OneMore(@[x]) ELSE @[x]]] \in Checks
<1> DEFINE r == c.responses
           s == [x \in Teis |-> IF x \in X THEN OneMore(r[c.count][x]) ELSE r[c.count][x]]
<1>1. c.count \in 0 .. 1 /\ r \in [0 .. 1 -> [Teis -> 0 .. 2]] /\ c.tei \in Teis
  BY DEF Checks
<1>2. \A x \in Teis : r[c.count][x] \in 0 .. 2
  BY <1>1
<1>3. \A x \in Teis : OneMore(r[c.count][x]) \in 0 .. 2
  BY <1>2 DEF OneMore
<1>4. s \in [Teis -> 0 .. 2]
  BY <1>2, <1>3
<1>5. [r EXCEPT ![c.count] = s] \in [0 .. 1 -> [Teis -> 0 .. 2]]
  BY <1>1, <1>4
<1>6. [c EXCEPT !.responses = [r EXCEPT ![c.count] = s]] \in Checks
  BY <1>5 DEF Checks
<1> QED BY <1>6

(* A check that starts is well-typed.                                      *)
LEMMA NewCheckType ==
  ASSUME NEW tei \in Teis
  PROVE  NewCheck(tei) \in Checks
<1>1. [x \in Teis |-> 0] \in [Teis -> 0 .. 2]
  OBVIOUS
<1>2. [w \in 0 .. 1 |-> [x \in Teis |-> 0]] \in [0 .. 1 -> [Teis -> 0 .. 2]]
  BY <1>1
<1> QED BY <1>2 DEF NewCheck, Checks

(* Starting checks of TEIs keeps the entity's other fields.                *)
LEMMA StartChecksType ==
  ASSUME ntme \in Ntmes, NEW T, T \subseteq Teis
  PROVE  /\ StartChecks(ntme, T) \in Ntmes
         /\ StartChecks(ntme, T).teis = ntme.teis
         /\ StartChecks(ntme, T).checks =
              ntme.checks \cup {NewCheck(tei) : tei \in Unchecked(T)}
         /\ CheckRequests(T) \in Seq(Messages)
         /\ \A m \in ToSet(CheckRequests(T)) : m.type = "CHK_REQ"
<1>1. Unchecked(T) \subseteq T
  BY DEF Unchecked
<1>2. {NewCheck(tei) : tei \in Unchecked(T)} \subseteq Checks
  BY <1>1, NewCheckType
<1>3. /\ StartChecks(ntme, T) \in Ntmes
      /\ StartChecks(ntme, T).teis = ntme.teis
      /\ StartChecks(ntme, T).checks =
           ntme.checks \cup {NewCheck(tei) : tei \in Unchecked(T)}
  BY <1>2 DEF StartChecks, Ntmes
<1> QED BY <1>1, <1>3, ForEachType DEF CheckRequests

-----------------------------------------------------------------------------
(* What the network's steps do.  A check of one TEI ends at its first T201 *)
(* and frees nothing; only an audit (tei = Broadcast) has a second window. *)

Directed == \A c \in ntme.checks : c.tei # Broadcast /\ c.count = 0

Grants(ri, tei) ==
  /\ ntme'.teis = ntme.teis \cup {tei}
  /\ \A u \in Terminals : Assignments(u)' = Assignments(u) \cup {Msg("ASSIGNED", ri, tei)}

GrantsNothing ==
  /\ ntme'.teis = ntme.teis
  /\ \A u \in Terminals : Assignments(u)' \subseteq Assignments(u)

NetworkStep ==
  /\ UNCHANGED << tme, sock >>
  /\ audits = 0 /\ audits' = 0 /\ Directed =>
       /\ Directed'
       /\ \/ GrantsNothing
          \/ \E ri \in Ri \cup {NoRi} : \E tei \in DynTeis \ ntme.teis : Grants(ri, tei)

(* Messages other than assignments grant nothing.                          *)
LEMMA DoesNoGrant ==
  ASSUME DownOK, NEW n \in Ntmes, NEW ms \in Seq(Messages), Does(n, ms),
         \A m \in ToSet(ms) : m.type # "ASSIGNED"
  PROVE  /\ DownOK' /\ ntme' = n
         /\ \A u \in Terminals : Assignments(u)' \subseteq Assignments(u)
<1>1. /\ DownOK'
      /\ \A u \in Terminals : Assignments(u)' =
              Assignments(u) \cup {m \in ToSet(ms) : m.type = "ASSIGNED"}
  BY DoesDown
<1> QED BY <1>1 DEF Does

(* One message on the wire.                                                *)
LEMMA ToSetOne ==
  ASSUME NEW m
  PROVE  ToSet(<< m >>) = {m}
BY DEF ToSet

(* Starting a check of dynamic TEIs keeps the checks directed.             *)
LEMMA StartChecksDirected ==
  ASSUME ntme \in Ntmes, NEW T, T \subseteq DynTeis, Directed,
         ntme' = StartChecks(ntme, T)
  PROVE  Directed'
<1>1. ntme'.checks = ntme.checks \cup {NewCheck(tei) : tei \in Unchecked(T)}
  BY StartChecksType DEF Teis
<1>2. \A tei \in Unchecked(T) : NewCheck(tei).tei # Broadcast /\ NewCheck(tei).count = 0
  BY TeiFacts DEF Unchecked, NewCheck
<1> QED BY <1>1, <1>2 DEF Directed

(* A request is granted a TEI that was free, or denied and the pool        *)
(* checked.                                                                *)
LEMMA HandleTeiRequestStep ==
  ASSUME TypeInv, NEW m \in Messages, HandleTeiRequest(m), UNCHANGED << tme, sock >>
  PROVE  ntme' \in Ntmes /\ DownOK' /\ NetworkStep
<1>0. DownOK /\ ntme \in Ntmes
  BY DEF TypeInv
<1>1. CASE DynTeis \subseteq ntme.teis
  <2> DEFINE ms == << Msg("DENIED", m.ri, m.ai) >> \o CheckRequests(DynTeis)
  <2>1. Does(StartChecks(ntme, DynTeis), ms)
    BY <1>1 DEF HandleTeiRequest
  <2>2. /\ StartChecks(ntme, DynTeis) \in Ntmes
        /\ StartChecks(ntme, DynTeis).teis = ntme.teis
        /\ CheckRequests(DynTeis) \in Seq(Messages)
        /\ \A x \in ToSet(CheckRequests(DynTeis)) : x.type = "CHK_REQ"
    BY <1>0, StartChecksType DEF Teis
  <2>3. /\ Msg("DENIED", m.ri, m.ai) \in Messages
        /\ Msg("DENIED", m.ri, m.ai).type = "DENIED"
    BY DEF Msg, Messages
  <2>4. << Msg("DENIED", m.ri, m.ai) >> \in Seq(Messages)
    BY <2>3
  <2>5. ToSet(ms) = {Msg("DENIED", m.ri, m.ai)} \cup ToSet(CheckRequests(DynTeis))
    <3>1. ToSet(ms) = ToSet(<< Msg("DENIED", m.ri, m.ai) >>) \cup ToSet(CheckRequests(DynTeis))
      <4> DEFINE p == << Msg("DENIED", m.ri, m.ai) >>
                 q == CheckRequests(DynTeis)
      <4>1. p \in Seq(Messages) /\ q \in Seq(Messages)
        BY <2>2, <2>4
      <4> HIDE DEF p, q
      <4>2. ToSet(p \o q) = ToSet(p) \cup ToSet(q)
        BY ONLY <4>1, ToSetConcat
      <4> QED BY <4>2 DEF p, q
    <3>2. ToSet(<< Msg("DENIED", m.ri, m.ai) >>) = {Msg("DENIED", m.ri, m.ai)}
      BY ToSetOne
    <3> QED BY <3>1, <3>2, Zenon
  <2>6. ms \in Seq(Messages)
    BY <2>2, <2>4
  <2>7. \A x \in ToSet(ms) : x.type # "ASSIGNED"
    BY <2>2, <2>3, <2>5
  <2> HIDE DEF ms
  <2>8. /\ DownOK' /\ ntme' = StartChecks(ntme, DynTeis)
        /\ \A u \in Terminals : Assignments(u)' \subseteq Assignments(u)
    BY <2>1, <2>2, <2>6, <2>7, <1>0, DoesNoGrant
  <2>9. Directed => Directed'
    BY <2>8, <1>0, StartChecksDirected
  <2> QED BY <2>2, <2>8, <2>9 DEF NetworkStep, GrantsNothing
<1>2. CASE ~ (DynTeis \subseteq ntme.teis)
  <2> DEFINE tei == NextFree
             a == Msg("ASSIGNED", m.ri, tei)
             n == [ntme EXCEPT !.cur_dyn_tei = tei, !.teis = @ \cup {tei}]
  <2>1. Does(n, << a >>)
    BY <1>2 DEF HandleTeiRequest
  <2>2. tei \in DynTeis \ ntme.teis
    BY <1>0, <1>2, NextFreeIsFree
  <2> HIDE DEF tei
  <2>3. n \in Ntmes /\ n.teis = ntme.teis \cup {tei} /\ n.checks = ntme.checks
    BY <2>2, <1>0 DEF Ntmes
  <2>4. a \in Messages /\ a.type = "ASSIGNED" /\ a.ai = tei /\ m.ri \in Ri \cup {NoRi}
    BY <2>2 DEF Msg, Messages, Teis
  <2>5. << a >> \in Seq(Messages)
    BY <2>4
  <2>6. ToSet(<< a >>) = {a}
    BY ToSetOne
  <2>7. /\ DownOK'
        /\ \A u \in Terminals : Assignments(u)' =
              Assignments(u) \cup {x \in ToSet(<< a >>) : x.type = "ASSIGNED"}
    BY <2>1, <2>2, <2>4, <2>5, <2>6, <1>0, DoesDown
  <2>8. \A u \in Terminals : Assignments(u)' = Assignments(u) \cup {a}
    BY <2>4, <2>6, <2>7
  <2>9. ntme' = n
    BY <2>1 DEF Does
  <2>10. Grants(m.ri, tei)
    BY <2>3, <2>8, <2>9 DEF Grants
  <2>11. Directed => Directed'
    BY <2>3, <2>9 DEF Directed
  <2> QED BY <2>2, <2>3, <2>4, <2>7, <2>9, <2>10, <2>11 DEF NetworkStep
<1> QED BY <1>1, <1>2

(* Counting responses grants and frees nothing.                            *)
LEMMA HandleTeiCheckResponseStep ==
  ASSUME TypeInv, NEW m \in Messages, HandleTeiCheckResponse(m),
         UNCHANGED << tme, sock >>
  PROVE  ntme' \in Ntmes /\ DownOK' /\ NetworkStep
<1> DEFINE counts(c) == {x \in TeisOf(m) : c.tei \in {Broadcast, x}}
           counted(c) == [c EXCEPT !.responses[c.count] =
                       [x \in Teis |-> IF x \in counts(c) THEN OneMore(@[x]) ELSE @[x]]]
           n == [ntme EXCEPT !.checks = {counted(c) : c \in @}]
<1>0. DownOK /\ ntme \in Ntmes /\ ntme.checks \subseteq Checks
  BY DEF TypeInv, Ntmes
<1>1. Does(n, << >>)
  BY DEF HandleTeiCheckResponse
<1>2. \A c \in ntme.checks : counted(c) \in Checks
  BY <1>0, CheckCountType
<1>3. \A c \in ntme.checks : counted(c).tei = c.tei /\ counted(c).count = c.count
  BY <1>0 DEF Checks
<1> HIDE DEF counted
<1>4. n \in Ntmes /\ n.teis = ntme.teis /\ n.checks = {counted(c) : c \in ntme.checks}
  BY <1>0, <1>2 DEF Ntmes
<1> HIDE DEF n
<1>5. << >> \in Seq(Messages) /\ ToSet(<< >>) = {}
  BY DEF ToSet
<1>6. /\ DownOK' /\ ntme' = n
      /\ \A u \in Terminals : Assignments(u)' \subseteq Assignments(u)
  BY <1>0, <1>1, <1>4, <1>5, DoesNoGrant
<1>7. Directed => Directed'
  BY <1>3, <1>4, <1>6 DEF Directed
<1> QED BY <1>4, <1>6, <1>7 DEF NetworkStep, GrantsNothing

(* Whatever the network reads is a step of the network.                    *)
LEMMA NtmeHandleFrameStep ==
  ASSUME TypeInv, NtmeHandleFrame
  PROVE  TypeInv' /\ NetworkStep
<1> DEFINE m == Head(up)
<1>1. m \in Messages /\ up' \in Seq(Messages) /\ UNCHANGED << tme, sock >>
  BY ToSetTail DEF TypeInv, NtmeHandleFrame
<1>2. HandleTeiRequest(m) \/ HandleTeiCheckResponse(m)
  BY DEF NtmeHandleFrame
<1> HIDE DEF m
<1>3. ntme' \in Ntmes /\ DownOK' /\ NetworkStep
  BY <1>1, <1>2, HandleTeiRequestStep, HandleTeiCheckResponseStep
<1> QED BY <1>1, <1>3 DEF TypeInv, TerminalsOK, NtmeHandleFrame

(* TEI removals for the TEIs of a set.                                     *)
LEMMA RemovesType ==
  ASSUME NEW T, T \subseteq Teis
  PROVE  /\ Removes(T) \in Seq(Messages)
         /\ \A m \in ToSet(Removes(T)) : m.type = "REMOVE"
BY ForEachType DEF Removes

(* The end of either window of a check is a step of the network: it may    *)
(* free TEIs, and grants none.                                             *)
LEMMA T201Step ==
  ASSUME TypeInv, NEW c \in ntme.checks, T201(c)
  PROVE  TypeInv' /\ NetworkStep
<1>0. DownOK /\ ntme \in Ntmes /\ c \in Checks /\ Checked(c) \subseteq Teis
  BY DEF TypeInv, Ntmes, Checks, Checked
<1>1. ntme' \in Ntmes /\ DownOK' /\ NetworkStep
  <2>1. CASE c.count = 0 /\ c.tei = Broadcast
    <3> DEFINE several == {x \in Checked(c) : c.responses[0][x] > 1}
               n == [ntme EXCEPT !.checks = (ntme.checks \ {c}) \cup {[c EXCEPT !.count = 1]}]
               q == Msg("CHK_REQ", NoRi, c.tei)
    <3>1. Does(n, Append(Removes(several), q))
      BY <2>1 DEF T201, FirstWindow
    <3>2. [c EXCEPT !.count = 1] \in Checks
      BY <1>0 DEF Checks
    <3>3. n \in Ntmes
      BY <1>0, <3>2 DEF Ntmes
    <3>4. q \in Messages /\ q.type = "CHK_REQ"
      BY <1>0 DEF Checks, Msg, Messages
    <3>5. several \subseteq Teis
      BY <1>0
    <3> HIDE DEF several, n, q
    <3>6. /\ Append(Removes(several), q) \in Seq(Messages)
          /\ Append(Removes(several), q) = Removes(several) \o << q >>
          /\ << q >> \in Seq(Messages)
      BY <3>4, <3>5, RemovesType
    <3>7. ToSet(Append(Removes(several), q)) = ToSet(Removes(several)) \cup {q}
      <4>1. ToSet(Removes(several) \o << q >>) = ToSet(Removes(several)) \cup ToSet(<< q >>)
        <5> DEFINE p == Removes(several)
                   o == << q >>
        <5>1. p \in Seq(Messages) /\ o \in Seq(Messages)
          BY <3>5, <3>6, RemovesType
        <5> HIDE DEF p, o
        <5>2. ToSet(p \o o) = ToSet(p) \cup ToSet(o)
          BY ONLY <5>1, ToSetConcat
        <5> QED BY <5>2 DEF p, o
      <4>2. ToSet(<< q >>) = {q}
        BY ToSetOne
      <4> QED BY <4>1, <4>2, <3>6, Zenon
    <3>8. \A m \in ToSet(Append(Removes(several), q)) : m.type # "ASSIGNED"
      BY <3>4, <3>5, <3>7, RemovesType
    <3>9. DownOK' /\ ntme' = n
      BY <1>0, <3>1, <3>3, <3>6, <3>8, DoesNoGrant
    <3>10. ~ Directed
      BY <2>1 DEF Directed
    <3> QED BY <3>3, <3>9, <3>10 DEF NetworkStep, T201
  <2>2. CASE c.count = 0 /\ c.tei # Broadcast
    <3> DEFINE several == {x \in Checked(c) : c.responses[0][x] > 1}
               n == [ntme EXCEPT !.checks = ntme.checks \ {c}]
    <3>1. Does(n, Removes(several))
      BY <2>2 DEF T201, FirstWindow
    <3>2. n \in Ntmes /\ n.teis = ntme.teis /\ n.checks \subseteq ntme.checks
      BY <1>0 DEF Ntmes
    <3>3. several \subseteq Teis
      BY <1>0
    <3> HIDE DEF several, n
    <3>4. /\ DownOK' /\ ntme' = n
          /\ \A u \in Terminals : Assignments(u)' \subseteq Assignments(u)
      BY <1>0, <3>1, <3>2, <3>3, RemovesType, DoesNoGrant
    <3>5. Directed => Directed'
      BY <3>2, <3>4 DEF Directed
    <3> QED BY <3>2, <3>4, <3>5 DEF NetworkStep, GrantsNothing, T201
  <2>3. CASE c.count # 0
    <3> DEFINE answers(x) == {c.responses[0][x], c.responses[1][x]}
               unused  == {x \in Checked(c) : answers(x) = {0}}
               several == {x \in Checked(c) : ~ (answers(x) \subseteq {0, 1})}
               n == [ntme EXCEPT !.checks = @ \ {c}, !.teis = @ \ unused]
    <3>1. Does(n, Removes(several))
      BY <2>3 DEF T201, SecondWindow
    <3>2. n \in Ntmes
      BY <1>0 DEF Ntmes
    <3>3. several \subseteq Teis
      BY <1>0
    <3> HIDE DEF several, n
    <3>4. DownOK' /\ ntme' = n
      BY <1>0, <3>1, <3>2, <3>3, RemovesType, DoesNoGrant
    <3>5. ~ Directed
      BY <2>3 DEF Directed
    <3> QED BY <3>2, <3>4, <3>5 DEF NetworkStep, T201
  <2> QED BY <2>1, <2>2, <2>3
<1> QED BY <1>1 DEF TypeInv, TerminalsOK, T201

(* An audit only starts checks.                                            *)
LEMMA AuditStep ==
  ASSUME TypeInv, Audit
  PROVE  TypeInv' /\ NetworkStep
<1>1. DownOK /\ ntme \in Ntmes /\ {Broadcast} \subseteq Teis
  BY DEF TypeInv, Teis
<1>2. ntme' \in Ntmes /\ DownOK'
  BY <1>1, StartChecksType, DoesNoGrant DEF Audit
<1>3. audits' # 0
  BY DEF Audit, TypeInv
<1> QED BY <1>2, <1>3 DEF TypeInv, TerminalsOK, NetworkStep, Audit

(* An error of the data link only starts a check.                          *)
LEMMA NtMdlErrorStep ==
  ASSUME TypeInv, NEW tei \in ntme.teis, NtMdlError(tei)
  PROVE  TypeInv' /\ NetworkStep
<1>1. DownOK /\ ntme \in Ntmes /\ {tei} \subseteq DynTeis
  BY DEF TypeInv, Ntmes
<1>2. /\ StartChecks(ntme, {tei}) \in Ntmes
      /\ StartChecks(ntme, {tei}).teis = ntme.teis
      /\ CheckRequests({tei}) \in Seq(Messages)
      /\ \A m \in ToSet(CheckRequests({tei})) : m.type = "CHK_REQ"
  BY <1>1, StartChecksType DEF Teis
<1>3. /\ DownOK' /\ ntme' = StartChecks(ntme, {tei})
      /\ \A u \in Terminals : Assignments(u)' \subseteq Assignments(u)
  BY <1>1, <1>2, DoesNoGrant DEF NtMdlError
<1>4. Directed => Directed'
  BY <1>1, <1>3, StartChecksDirected
<1> QED BY <1>2, <1>3, <1>4 DEF TypeInv, TerminalsOK, NetworkStep, GrantsNothing, NtMdlError

-----------------------------------------------------------------------------
(* What a terminal's steps do: t begins a request under a reference number *)
(* that is on no wire and at no other terminal, takes the answer to its    *)
(* request, or gives up something it had.                                  *)

Asks(t) ==
  /\ tme'[t].ri \in FreshRi(t)
  /\ \A tei : Uses(t, tei)' => Uses(t, tei)

Takes(t) == \E m \in Assignments(t) :
  /\ tme[t].pending /\ tme[t].ri = m.ri
  /\ ~ tme'[t].pending
  /\ \A tei : Uses(t, tei)' => Uses(t, tei) \/ tei = m.ai

Drops(t) ==
  /\ tme'[t].pending => tme[t].pending /\ tme'[t].ri = tme[t].ri
  /\ \A tei : Uses(t, tei)' => Uses(t, tei)

TerminalStep(t) ==
  /\ ntme' = ntme /\ audits' = audits
  /\ \A u \in Terminals : Assignments(u)' \subseteq Assignments(u)
  /\ \A u \in Terminals \ {t} : tme'[u] = tme[u] /\ sock'[u] = sock[u]
  /\ Asks(t) \/ Takes(t) \/ Drops(t)

(* A terminal that begins to ask has a reference number nobody else uses.  *)
LEMMA MdlAssignIndicationStep ==
  ASSUME TypeInv, NEW t \in Terminals, MdlAssignIndication(t)
  PROVE  TerminalStep(t)
<1>1. PICK ri \in FreshRi(t) :
        tme' = [tme EXCEPT ![t] = [@ EXCEPT !.state = "UNASSIGNED",
                    !.pending = TRUE, !.ri = ri, !.retrans_cnt = 1, !.T202 = TRUE]]
  BY DEF MdlAssignIndication
<1>2. tme'[t].ri = ri /\ \A u \in Terminals \ {t} : tme'[u] = tme[u]
  BY <1>1 DEF TypeInv, TerminalsOK, Utmes
<1>3. sock'[t].state = "AWAITING_TEI" /\ \A u \in Terminals \ {t} : sock'[u] = sock[u]
  BY DEF MdlAssignIndication, TypeInv, TerminalsOK, Socks
<1>4. Asks(t)
  BY <1>2, <1>3 DEF Asks, Uses
<1> QED BY <1>2, <1>3, <1>4 DEF TerminalStep, Assignments, MdlAssignIndication

(* T202 makes its terminal ask again, under a new number, or drop its TEI. *)
LEMMA T202TimerStep ==
  ASSUME TerminalsOK, NEW t \in Terminals, NEW u \in Utmes, T202Timer(t, u)
  PROVE  /\ \A w \in Terminals \ {t} : tme'[w] = tme[w] /\ sock'[w] = sock[w]
         /\ Asks(t) \/ Drops(t)
<1>1. CASE u.retrans_cnt >= N202
  <2>1. /\ tme' = [tme EXCEPT ![t] = [u EXCEPT !.state = "UNASSIGNED",
                                        !.pending = FALSE, !.ri = NoRi]]
        /\ sock' = [sock EXCEPT ![t] = MdlErrorResponse(@)]
    BY <1>1 DEF T202Timer
  <2>2. ~ tme'[t].pending
    BY <2>1 DEF TerminalsOK, Utmes
  <2>3. sock'[t] = sock[t] \/ sock'[t].state = "NO_TEI"
    BY <2>1 DEF TerminalsOK, MdlErrorResponse, Socks
  <2>4. Drops(t)
    BY <2>2, <2>3 DEF Drops, Uses
  <2> QED BY <2>1, <2>4 DEF TerminalsOK
<1>2. CASE ~ (u.retrans_cnt >= N202)
  <2>1. PICK ri \in FreshRi(t) :
          /\ tme' = [tme EXCEPT ![t] = [u EXCEPT !.retrans_cnt = @ + 1,
                                        !.ri = ri, !.T202 = TRUE]]
          /\ UNCHANGED sock
    BY <1>2 DEF T202Timer
  <2>2. tme'[t].ri = ri
    BY <2>1 DEF TerminalsOK, Utmes
  <2>3. Asks(t)
    BY <2>1, <2>2 DEF Asks, Uses
  <2> QED BY <2>1, <2>3 DEF TerminalsOK
<1> QED BY <1>1, <1>2

(* The same for a handler that runs at once and for one held at the lock.  *)
LEMMA T202Step ==
  ASSUME TypeInv, NEW t \in Terminals, T202(t) \/ T202Late(t)
  PROVE  TypeInv' /\ TerminalStep(t)
<1>0. TerminalsOK /\ DownOK /\ up \in Seq(Messages) /\ tme[t] \in Utmes
  BY DEF TypeInv, TerminalsOK
<1>1. PICK u \in Utmes : /\ u.state = tme[t].state /\ u.tei = tme[t].tei
                         /\ T202Timer(t, u)
  <2>1. CASE T202(t)
    <3>1. [tme[t] EXCEPT !.T202 = FALSE] \in Utmes
      BY <1>0 DEF Utmes
    <3>2. /\ [tme[t] EXCEPT !.T202 = FALSE].state = tme[t].state
          /\ [tme[t] EXCEPT !.T202 = FALSE].tei = tme[t].tei
      BY <1>0 DEF Utmes
    <3> QED BY <2>1, <3>1, <3>2 DEF T202
  <2>2. CASE T202Late(t)
    <3>1. [tme[t] EXCEPT !.expired = FALSE] \in Utmes
      BY <1>0 DEF Utmes
    <3>2. /\ [tme[t] EXCEPT !.expired = FALSE].state = tme[t].state
          /\ [tme[t] EXCEPT !.expired = FALSE].tei = tme[t].tei
      BY <1>0 DEF Utmes
    <3> QED BY <2>2, <3>1, <3>2 DEF T202Late
  <2> QED BY <2>1, <2>2
<1>2. UNCHANGED << ntme, down, audits, faults, losses >>
  BY DEF T202, T202Late
<1>3. TerminalsOK' /\ up' \in Seq(Messages)
  BY <1>0, <1>1, T202TimerType
<1>4. TypeInv'
  BY <1>2, <1>3 DEF TypeInv, DownOK, Assignments
<1>5. /\ \A w \in Terminals \ {t} : tme'[w] = tme[w] /\ sock'[w] = sock[w]
      /\ Asks(t) \/ Drops(t)
  BY <1>0, <1>1, T202TimerStep
<1> QED BY <1>2, <1>4, <1>5 DEF TerminalStep, Assignments

(* A handler held at the lock has changed nothing yet.                     *)
LEMMA T202ExpiresStep ==
  ASSUME TypeInv, NEW t \in Terminals, T202Expires(t)
  PROVE  TypeInv' /\ TerminalStep(t)
<1> DEFINE e == [tme[t] EXCEPT !.T202 = FALSE, !.expired = TRUE]
<1>0. tme[t] \in Utmes /\ tme \in [Terminals -> Utmes]
  BY DEF TypeInv, TerminalsOK
<1>1. e \in Utmes
  BY <1>0 DEF Utmes
<1>2. e.state = tme[t].state /\ e.tei = tme[t].tei /\ e.ri = tme[t].ri
  BY <1>0 DEF Utmes
<1>3. e.pending = tme[t].pending
  BY <1>0 DEF Utmes
<1>4. tme' = [tme EXCEPT ![t] = e] /\ UNCHANGED << sock, ntme, up, down, audits, faults, losses >>
  BY DEF T202Expires
<1> HIDE DEF e
<1>5. tme' \in [Terminals -> Utmes] /\ tme'[t] = e /\ \A u \in Terminals \ {t} : tme'[u] = tme[u]
  BY <1>0, <1>1, <1>4
<1>6. TerminalsOK'
  BY <1>2, <1>4, <1>5 DEF TypeInv, TerminalsOK
<1>7. Drops(t)
  BY <1>2, <1>3, <1>4, <1>5 DEF Drops, Uses
<1> QED BY <1>4, <1>5, <1>6, <1>7 DEF TypeInv, TerminalStep, DownOK, Assignments

(* A TEI that is removed is not used any more.                             *)
LEMMA TeiRemoveStep ==
  ASSUME TerminalsOK, NEW t \in Terminals, TeiRemove(t)
  PROVE  /\ \A u \in Terminals \ {t} : tme'[u] = tme[u] /\ sock'[u] = sock[u]
         /\ Drops(t)
<1>1. \A u \in Terminals \ {t} : tme'[u] = tme[u] /\ sock'[u] = sock[u]
  BY DEF TeiRemove, TerminalsOK
<1>2. tme'[t].pending = tme[t].pending /\ tme'[t].ri = tme[t].ri
  BY DEF TeiRemove, TerminalsOK, Utmes
<1>3. \/ sock'[t].state = sock[t].state /\ sock'[t].tei = sock[t].tei
      \/ sock'[t].state = "NO_TEI"
  BY DEF TeiRemove, TerminalsOK, MdlRemoveRequest, Socks
<1> QED BY <1>1, <1>2, <1>3 DEF Drops, Uses

(* An assignment is taken by the terminal it is for, or makes one drop its *)
(* TEI.                                                                    *)
LEMMA HandleTeiAssignedStep ==
  ASSUME TerminalsOK, NEW t \in Terminals, NEW m \in Assignments(t),
         HandleTeiAssigned(t, m)
  PROVE  /\ \A u \in Terminals \ {t} : tme'[u] = tme[u] /\ sock'[u] = sock[u]
         /\ Drops(t) \/ Takes(t)
<1>1. CASE TeiRemove(t)
  BY <1>1, TeiRemoveStep
<1>2. CASE /\ tme[t].pending /\ m.ri = tme[t].ri
           /\ tme' = [tme EXCEPT ![t] = [@ EXCEPT !.pending = FALSE, !.ri = NoRi,
                    !.tei = m.ai, !.state = "ASSIGNED", !.T202 = FALSE]]
           /\ sock' = [sock EXCEPT ![t] = MdlAssignRequest(@, m.ai)]
  <2>1. \A u \in Terminals \ {t} : tme'[u] = tme[u] /\ sock'[u] = sock[u]
    BY <1>2 DEF TerminalsOK
  <2>2. ~ tme'[t].pending
    BY <1>2 DEF TerminalsOK, Utmes
  <2>3. sock'[t] = sock[t] \/ sock'[t].tei = m.ai
    BY <1>2 DEF TerminalsOK, MdlAssignRequest
  <2>4. \A tei : Uses(t, tei)' => Uses(t, tei) \/ tei = m.ai
    BY <2>3 DEF Uses
  <2> QED BY <1>2, <2>1, <2>2, <2>4 DEF Takes
<1>3. CASE UNCHANGED << tme, sock >>
  BY <1>3 DEF Drops, Uses
<1> QED BY <1>1, <1>2, <1>3 DEF HandleTeiAssigned

(* Every frame a terminal handles is a step of that terminal alone.        *)
LEMMA UtmeHandleFrameStep ==
  ASSUME TypeInv, NEW t \in Terminals, UtmeHandleFrame(t)
  PROVE  TerminalStep(t)
<1> DEFINE m == Head(down[t])
<1>1. TerminalsOK /\ DownOK
  BY DEF TypeInv
<1>2. /\ m \in ToSet(down[t])
      /\ \A u \in Terminals : Assignments(u)' \subseteq Assignments(u)
  BY <1>1, TakeFromDown DEF UtmeHandleFrame
<1>3. ntme' = ntme /\ audits' = audits
  BY DEF UtmeHandleFrame
<1> HIDE DEF m
<1>4. CASE m.type = "ASSIGNED"
  <2>1. HandleTeiAssigned(t, m) /\ m \in Assignments(t)
    BY <1>2, <1>4 DEF UtmeHandleFrame, Assignments, m
  <2> QED BY <2>1, <1>1, <1>2, <1>3, HandleTeiAssignedStep DEF TerminalStep
<1>5. CASE m.type = "REMOVE" /\ TeiRemove(t)
  BY <1>1, <1>2, <1>3, <1>5, TeiRemoveStep DEF TerminalStep
<1>6. CASE UNCHANGED << tme, sock >>
  BY <1>2, <1>3, <1>6 DEF TerminalStep, Drops, Uses
<1> QED BY <1>4, <1>5, <1>6 DEF UtmeHandleFrame, HandleTeiRemove, m

(* An error of the data link makes the terminal drop its TEI.              *)
LEMMA TeMdlErrorStep ==
  ASSUME TypeInv, NEW t \in Terminals, TeMdlError(t)
  PROVE  TypeInv' /\ TerminalStep(t)
<1>1. TerminalsOK /\ TeiRemove(t) /\ UNCHANGED << ntme, up, down, audits, losses >>
  BY DEF TypeInv, TeMdlError
<1>2. TerminalsOK' /\ faults' \in Nat
  BY <1>1, TeiRemoveType DEF TypeInv, TeMdlError
<1>3. TypeInv'
  BY <1>1, <1>2 DEF TypeInv, DownOK, Assignments
<1>4. TerminalStep(t)
  BY <1>1, TeiRemoveStep DEF TerminalStep, Assignments
<1> QED BY <1>3, <1>4

(* A frame lost on its way to a terminal is a step of that terminal.       *)
LEMMA LoseDownStep ==
  ASSUME TypeInv, NEW t \in Terminals, LoseDown(t)
  PROVE  TypeInv' /\ TerminalStep(t)
<1>1. DownOK' /\ \A u \in Terminals : Assignments(u)' \subseteq Assignments(u)
  BY TakeFromDown DEF TypeInv, LoseDown
<1>2. TypeInv'
  BY <1>1 DEF TypeInv, TerminalsOK, LoseDown
<1>3. TerminalStep(t)
  BY <1>1 DEF TerminalStep, Drops, Uses, LoseDown
<1> QED BY <1>2, <1>3

(* A lost request changes neither the terminals nor the network entity.    *)
LEMMA LoseUpStep ==
  ASSUME TypeInv, LoseUp
  PROVE  TypeInv' /\ NetworkStep
<1>1. TypeInv'
  BY DEF TypeInv, TerminalsOK, DownOK, Assignments, LoseUp
<1>2. NetworkStep
  BY DEF NetworkStep, GrantsNothing, Directed, Assignments, LoseUp
<1> QED BY <1>1, <1>2

(* Every step is a terminal's, the network's or none.                      *)
LEMMA EveryStep ==
  ASSUME TypeInv, [Next]_vars
  PROVE  TypeInv' /\ (NetworkStep \/ \E t \in Terminals : TerminalStep(t))
<1>1. CASE \E t \in Terminals :
             \/ MdlAssignIndication(t) \/ T202(t) \/ T202Expires(t) \/ T202Late(t)
             \/ UtmeHandleFrame(t) \/ TeMdlError(t) \/ LoseDown(t)
  BY <1>1, MdlAssignIndicationType, MdlAssignIndicationStep, T202Step, T202ExpiresStep,
     UtmeHandleFrameType, UtmeHandleFrameStep, TeMdlErrorStep, LoseDownStep
<1>2. CASE NtmeHandleFrame \/ Audit \/ LoseUp
  BY <1>2, NtmeHandleFrameStep, AuditStep, LoseUpStep
<1>3. CASE \E c \in ntme.checks : T201(c)
  BY <1>3, T201Step
<1>4. CASE \E tei \in ntme.teis : NtMdlError(tei)
  BY <1>4, NtMdlErrorStep
<1>5. CASE UNCHANGED vars
  <2>1. TypeInv'
    BY <1>5 DEF TypeInv, TerminalsOK, DownOK, Assignments, vars
  <2>2. NetworkStep
    BY <1>5 DEF NetworkStep, GrantsNothing, Directed, Assignments, vars
  <2> QED BY <2>1, <2>2
<1> QED BY <1>1, <1>2, <1>3, <1>4, <1>5 DEF Next

(* The types hold when the entities are allocated.                         *)
LEMMA TypeInvInit == Init => TypeInv
<1> SUFFICES ASSUME Init
             PROVE  TypeInv
  OBVIOUS
<1>1. \A t \in Terminals : tme[t].state = "UNASSIGNED" /\ tme[t] \in Utmes
  BY TeiAssumption DEF Init, Utmes
<1>2. TerminalsOK
  BY <1>1 DEF Init, TerminalsOK, Socks
<1>3. DownOK
  BY DEF Init, DownOK, Assignments, ToSet
<1>4. ntme \in Ntmes
  BY DEF Init, Ntmes
<1> QED BY <1>2, <1>3, <1>4 DEF Init, TypeInv

(* TEIs, counters and messages stay in range: the rotating search of       *)
(* lapd_ntme_handle_tei_request returns a dynamic TEI, and a check         *)
(* response of lapd_utme_handle_tei_check_request names one.               *)
THEOREM TypeCorrect == Spec => []TypeOK
<1>1. TypeInv /\ [Next]_vars => TypeInv'
  BY EveryStep
<1>2. TypeInv => TypeOK
  BY DEF TypeInv, TypeOK, TerminalsOK, DownOK, Ntmes
<1> QED BY <1>1, <1>2, TypeInvInit, PTL DEF Spec

-----------------------------------------------------------------------------
(* One TEI, one terminal.  What keeps two terminals from one TEI: the      *)
(* network grants a TEI once, to one reference number, and a reference     *)
(* number is asked under by one terminal at a time.  It holds until an     *)
(* audit has run: HandleTeiCheckResponse counts the responses to an audit  *)
(* for the wrong TEIs, and its end may free a TEI that is used.            *)

GrantedIsMarked == \A t \in Terminals : \A m \in Assignments(t) : m.ai \in ntme.teis

OneRiPerTei == \A t, u \in Terminals : \A m \in Assignments(t), n \in Assignments(u) :
  m.ai = n.ai => m.ri = n.ri

OneTerminalPerRi == \A t, u \in Terminals :
  tme[t].pending /\ tme[u].pending /\ tme[t].ri = tme[u].ri => t = u

(* An answer another terminal has taken is no answer to u any more.        *)
NoSecondTaker == \A t, u \in Terminals : \A m \in Assignments(u) :
  Uses(t, m.ai) /\ t # u => ~ (tme[u].pending /\ tme[u].ri = m.ri)

UsedIsMarked == \A t \in Terminals : \A tei : Uses(t, tei) => tei \in ntme.teis

OneUser == \A t, u \in Terminals : \A tei : Uses(t, tei) /\ Uses(u, tei) => t = u

Unaudited ==
  /\ Directed
  /\ GrantedIsMarked /\ OneRiPerTei /\ OneTerminalPerRi /\ NoSecondTaker
  /\ UsedIsMarked /\ OneUser

UniqueInv == TypeInv /\ (audits = 0 => Unaudited)

(* A fresh reference number is in no assignment and at no other terminal.  *)
LEMMA FreshIsFresh ==
  ASSUME NEW t \in Terminals, NEW ri \in FreshRi(t)
  PROVE  /\ \A u \in Terminals : \A m \in Assignments(u) : m.ri # ri
         /\ \A u \in Terminals \ {t} : tme[u].ri # ri
BY DEF FreshRi, InFlight, Assignments

(* A step of the network grants no TEI that is used or promised, unless it *)
(* has audited.                                                            *)
LEMMA NetworkStepUnique ==
  ASSUME TypeInv, Unaudited, audits = 0, audits' = 0, NetworkStep
  PROVE  Unaudited'
<1>0. /\ UNCHANGED << tme, sock >> /\ Directed'
      /\ \A t \in Terminals : \A tei : Uses(t, tei)' <=> Uses(t, tei)
  BY DEF NetworkStep, Unaudited, Uses
<1>1. CASE GrantsNothing
  BY <1>0, <1>1 DEF GrantsNothing, Unaudited, GrantedIsMarked, OneRiPerTei,
     OneTerminalPerRi, NoSecondTaker, UsedIsMarked, OneUser
<1>2. ASSUME NEW ri \in Ri \cup {NoRi}, NEW tei \in DynTeis \ ntme.teis, Grants(ri, tei)
      PROVE  Unaudited'
  <2> DEFINE a == Msg("ASSIGNED", ri, tei)
  <2>1. a.ri = ri /\ a.ai = tei
    BY DEF Msg
  <2>2. /\ ntme'.teis = ntme.teis \cup {tei}
        /\ \A u \in Terminals : Assignments(u)' = Assignments(u) \cup {a}
    BY <1>2 DEF Grants
  <2> HIDE DEF a
  <2>3. \A u \in Terminals : ~ Uses(u, tei) /\ \A m \in Assignments(u) : m.ai # tei
    BY DEF Unaudited, UsedIsMarked, GrantedIsMarked
  <2>4. GrantedIsMarked'
    BY <2>1, <2>2 DEF Unaudited, GrantedIsMarked
  <2>5. OneRiPerTei'
    BY <2>1, <2>2, <2>3 DEF Unaudited, OneRiPerTei
  <2>6. NoSecondTaker'
    BY <2>1, <2>2, <2>3, <1>0 DEF Unaudited, NoSecondTaker
  <2>7. OneTerminalPerRi' /\ UsedIsMarked' /\ OneUser'
    BY <1>0, <2>2 DEF Unaudited, OneTerminalPerRi, UsedIsMarked, OneUser
  <2> QED BY <1>0, <2>4, <2>5, <2>6, <2>7 DEF Unaudited
<1> QED BY <1>1, <1>2 DEF NetworkStep, Unaudited

(* A step of a terminal takes only what was granted to it.                 *)
LEMMA TerminalStepUnique ==
  ASSUME TypeInv, Unaudited, NEW t \in Terminals, TerminalStep(t)
  PROVE  Unaudited'
<1>0. /\ ntme' = ntme
      /\ \A u \in Terminals : Assignments(u)' \subseteq Assignments(u)
      /\ \A u \in Terminals \ {t} : tme'[u] = tme[u]
      /\ \A u \in Terminals \ {t} : \A tei : Uses(u, tei)' <=> Uses(u, tei)
  BY DEF TerminalStep, Uses
<1>1. Directed' /\ GrantedIsMarked' /\ OneRiPerTei'
  BY <1>0 DEF Unaudited, Directed, GrantedIsMarked, OneRiPerTei
<1>2. CASE Asks(t)
  <2>1. /\ \A u \in Terminals : \A m \in Assignments(u) : m.ri # tme'[t].ri
        /\ \A u \in Terminals \ {t} : tme[u].ri # tme'[t].ri
    BY <1>2, FreshIsFresh DEF Asks
  <2>2. OneTerminalPerRi'
    BY <2>1, <1>0 DEF Unaudited, OneTerminalPerRi
  <2>3. \A u \in Terminals : \A tei : Uses(u, tei)' => Uses(u, tei)
    BY <1>0, <1>2 DEF Asks
  <2>4. UsedIsMarked' /\ OneUser'
    BY <1>0, <2>3 DEF Unaudited, UsedIsMarked, OneUser
  <2>5. NoSecondTaker'
    BY <1>0, <2>1, <2>3 DEF Unaudited, NoSecondTaker
  <2> QED BY <1>1, <2>2, <2>4, <2>5 DEF Unaudited
<1>3. CASE Drops(t)
  <2>1. \A u \in Terminals : \A tei : Uses(u, tei)' => Uses(u, tei)
    BY <1>0, <1>3 DEF Drops
  <2>2. \A u \in Terminals : tme'[u].pending => tme[u].pending /\ tme'[u].ri = tme[u].ri
    BY <1>0, <1>3 DEF Drops
  <2>3. OneTerminalPerRi'
    BY <2>2 DEF Unaudited, OneTerminalPerRi
  <2>4. UsedIsMarked' /\ OneUser'
    BY <1>0, <2>1 DEF Unaudited, UsedIsMarked, OneUser
  <2>5. NoSecondTaker'
    BY <1>0, <2>1, <2>2 DEF Unaudited, NoSecondTaker
  <2> QED BY <1>1, <2>3, <2>4, <2>5 DEF Unaudited
<1>4. CASE Takes(t)
  <2>1. PICK m \in Assignments(t) :
          /\ tme[t].pending /\ tme[t].ri = m.ri
          /\ ~ tme'[t].pending
          /\ \A tei : Uses(t, tei)' => Uses(t, tei) \/ tei = m.ai
    BY <1>4 DEF Takes
  <2>2. \A u \in Terminals \ {t} : ~ Uses(u, m.ai)
    BY <2>1 DEF Unaudited, NoSecondTaker
  <2>3. UsedIsMarked' /\ OneUser'
    BY <1>0, <2>1, <2>2 DEF Unaudited, UsedIsMarked, OneUser, GrantedIsMarked
  <2>4. OneTerminalPerRi'
    BY <1>0, <2>1 DEF Unaudited, OneTerminalPerRi
  <2>5. NoSecondTaker'
    <3>1. SUFFICES ASSUME NEW w \in Terminals, NEW u \in Terminals, NEW n \in Assignments(u)',
                          Uses(w, n.ai)', w # u, tme'[u].pending, tme'[u].ri = n.ri
                   PROVE  FALSE
      BY DEF NoSecondTaker
    <3>2. u # t /\ n \in Assignments(u) /\ tme[u].pending /\ tme[u].ri = n.ri
      BY <3>1, <2>1, <1>0
    <3>3. CASE Uses(w, n.ai)
      BY <3>1, <3>2, <3>3 DEF Unaudited, NoSecondTaker
    <3>4. CASE ~ Uses(w, n.ai)
      <4>1. w = t /\ n.ai = m.ai
        BY <3>1, <3>4, <2>1, <1>0
      <4>2. n.ri = m.ri
        BY <4>1, <3>2 DEF Unaudited, OneRiPerTei
      <4> QED BY <4>2, <3>2, <2>1 DEF Unaudited, OneTerminalPerRi
    <3> QED BY <3>3, <3>4
  <2> QED BY <1>1, <2>3, <2>4, <2>5 DEF Unaudited
<1> QED BY <1>2, <1>3, <1>4 DEF TerminalStep

(* Nothing is used or promised at the start.                               *)
LEMMA UniqueInvInit == Init => UniqueInv
<1> SUFFICES ASSUME Init
             PROVE  Unaudited
  BY TypeInvInit DEF UniqueInv
<1>1. \A t \in Terminals : Assignments(t) = {} /\ ~ tme[t].pending /\ sock[t].state = "NO_TEI"
  BY DEF Init, Assignments, ToSet
<1>2. ntme.checks = {}
  BY DEF Init
<1> QED BY <1>1, <1>2 DEF Unaudited, Directed, GrantedIsMarked, OneRiPerTei, OneTerminalPerRi,
      NoSecondTaker, UsedIsMarked, OneUser, Uses

(* Every step keeps what is used, promised and marked apart.               *)
LEMMA UniqueInvStep == UniqueInv /\ [Next]_vars => UniqueInv'
<1> SUFFICES ASSUME UniqueInv, [Next]_vars
             PROVE  UniqueInv'
  OBVIOUS
<1>1. TypeInv /\ TypeInv' /\ (NetworkStep \/ \E t \in Terminals : TerminalStep(t))
  BY EveryStep DEF UniqueInv
<1>2. audits' = 0 => audits = 0
  <2>1. CASE Audit
    BY <2>1, <1>1 DEF Audit, TypeInv
  <2>2. CASE ~ Audit
    <3>1. \A t \in Terminals :
            (MdlAssignIndication(t) \/ T202(t) \/ T202Expires(t) \/ T202Late(t)
             \/ TeMdlError(t) \/ LoseDown(t)) => audits' = audits
      BY DEF MdlAssignIndication, T202, T202Expires, T202Late, TeMdlError, LoseDown
    <3>2. \A t \in Terminals : UtmeHandleFrame(t) => audits' = audits
      BY DEF UtmeHandleFrame
    <3>3. NtmeHandleFrame \/ LoseUp => audits' = audits
      BY DEF NtmeHandleFrame, LoseUp
    <3>4. \A c : T201(c) => audits' = audits
      BY DEF T201
    <3>5. \A tei : NtMdlError(tei) => audits' = audits
      BY DEF NtMdlError
    <3> QED BY <2>2, <3>1, <3>2, <3>3, <3>4, <3>5, Zenon DEF Next, vars
  <2> QED BY <2>1, <2>2
<1>3. ASSUME audits' = 0
      PROVE  Unaudited'
  BY <1>1, <1>2, <1>3, NetworkStepUnique, TerminalStepUnique DEF UniqueInv
<1> QED BY <1>1, <1>3 DEF UniqueInv

(* Until the network audits its TEIs no two terminals use one TEI,         *)
(* whatever is lost, repeated or late, however many TEIs there are, and    *)
(* whichever checks errors and a lack of TEIs have started: the rotating   *)
(* allocation of lapd_ntme_handle_tei_request and the matching of          *)
(* reference numbers in lapd_utme_handle_tei_assigned suffice.             *)
THEOREM TeisAreUnique == Spec => [](audits = 0 => UniqueTei)
<1>1. UniqueInv => (audits = 0 => UniqueTei)
  BY DEF UniqueInv, Unaudited, OneUser, UniqueTei
<1> QED BY <1>1, UniqueInvInit, UniqueInvStep, PTL DEF Spec

(* Until then every TEI in use is marked in the network's table, so        *)
(* lapd_ntme_handle_tei_request does not grant it again: neither the check *)
(* of a TEI that erred nor the checks that a full table starts free it.    *)
THEOREM TeisInUseAreMarked == Spec => [](audits = 0 => InUseIsMarked)
<1>1. UniqueInv => (audits = 0 => InUseIsMarked)
  BY DEF UniqueInv, Unaudited, UsedIsMarked, InUseIsMarked
<1> QED BY <1>1, UniqueInvInit, UniqueInvStep, PTL DEF Spec

-----------------------------------------------------------------------------
(* The entity and its socket agree while no expired T202 is held up at     *)
(* tme->lock: the timer runs only for a request that is pending, and a     *)
(* request is pending only while the socket waits.  Held up, the handler   *)
(* may find the request answered, and resets an assigned entity.           *)

InStep(k, e) ==
  /\ ~ e.expired
  /\ e.T202 => e.pending
  /\ e.pending => k.state = "AWAITING_TEI" /\ e.state = "UNASSIGNED"
  /\ k.state = "TEI_ASSIGNED" <=> e.state = "ASSIGNED"
  /\ e.state = "ASSIGNED" => e.tei = k.tei

AgreeInv == TypeInv /\ \A t \in Terminals : InStep(sock[t], tme[t])

(* Removing a TEI tells both.                                              *)
LEMMA TeiRemoveAgree ==
  ASSUME TerminalsOK, NEW t \in Terminals, InStep(sock[t], tme[t]), TeiRemove(t),
         tme[t].state = "ASSIGNED"
  PROVE  InStep(sock'[t], tme'[t])
<1> DEFINE e == tme'[t]
           k == sock'[t]
<1>1. e = [tme[t] EXCEPT !.tei = NoTei, !.state = "UNASSIGNED"] /\ tme[t] \in Utmes
  BY DEF TeiRemove, TerminalsOK
<1>2. k = MdlRemoveRequest(sock[t]) /\ sock[t] \in Socks
  BY DEF TeiRemove, TerminalsOK
<1>3. k.state = "NO_TEI"
  BY <1>2 DEF MdlRemoveRequest, InStep, Socks
<1>4. e.state = "UNASSIGNED" /\ (e.T202 <=> tme[t].T202) /\ (e.pending <=> tme[t].pending)
      /\ (e.expired <=> tme[t].expired)
  BY <1>1 DEF Utmes
<1>5. ~ tme[t].pending
  BY DEF InStep
<1> HIDE DEF e, k
<1> QED BY <1>3, <1>4, <1>5 DEF InStep, e, k

(* The expiry of T202 keeps waiting, or tells both that there is no TEI.   *)
LEMMA T202Agree ==
  ASSUME TerminalsOK, NEW t \in Terminals, InStep(sock[t], tme[t]), T202(t)
  PROVE  InStep(sock'[t], tme'[t])
<1> DEFINE u == [tme[t] EXCEPT !.T202 = FALSE]
<1>1. tme[t] \in Utmes /\ sock[t] \in Socks
  BY DEF TerminalsOK
<1>2. u \in Utmes /\ u.state = tme[t].state /\ u.tei = tme[t].tei
      /\ (u.pending <=> tme[t].pending) /\ (u.expired <=> tme[t].expired)
  BY <1>1 DEF Utmes
<1>3. tme[t].pending /\ sock[t].state = "AWAITING_TEI" /\ tme[t].state = "UNASSIGNED"
      /\ ~ tme[t].expired
  BY DEF T202, InStep
<1>4. T202Timer(t, u) /\ ~ u.T202
  BY <1>1 DEF T202, Utmes
<1> HIDE DEF u
<1>5. CASE u.retrans_cnt >= N202
  <2>1. /\ tme'[t] = [u EXCEPT !.state = "UNASSIGNED", !.pending = FALSE, !.ri = NoRi]
        /\ sock'[t] = MdlErrorResponse(sock[t])
    BY <1>4, <1>5 DEF T202Timer, TerminalsOK
  <2>2. sock'[t].state = "NO_TEI"
    BY <2>1, <1>1, <1>3 DEF MdlErrorResponse, Socks
  <2>3. tme'[t].state = "UNASSIGNED" /\ ~ tme'[t].pending
        /\ ~ tme'[t].T202 /\ ~ tme'[t].expired
    BY <2>1, <1>2, <1>3, <1>4 DEF Utmes
  <2> QED BY <2>2, <2>3 DEF InStep
<1>6. CASE ~ (u.retrans_cnt >= N202)
  <2>1. PICK ri \in FreshRi(t) :
          /\ tme'[t] = [u EXCEPT !.retrans_cnt = @ + 1, !.ri = ri, !.T202 = TRUE]
          /\ sock'[t] = sock[t]
    BY <1>4, <1>6 DEF T202Timer, TerminalsOK
  <2>2. tme'[t].state = "UNASSIGNED" /\ tme'[t].pending /\ ~ tme'[t].expired
    BY <2>1, <1>2, <1>3 DEF Utmes
  <2> QED BY <2>1, <2>2, <1>3 DEF InStep
<1> QED BY <1>5, <1>6

(* Entity and socket change together when a frame is handled.              *)
LEMMA UtmeHandleFrameAgree ==
  ASSUME TypeInv, NEW t \in Terminals, InStep(sock[t], tme[t]), UtmeHandleFrame(t)
  PROVE  InStep(sock'[t], tme'[t])
<1> DEFINE m == Head(down[t])
<1>1. TerminalsOK /\ tme[t] \in Utmes /\ sock[t] \in Socks
  BY DEF TypeInv, TerminalsOK
<1>2. tme[t].state # "UNASSIGNED" => tme[t].state = "ASSIGNED"
  BY <1>1 DEF Utmes
<1>3. \/ HandleTeiAssigned(t, m) \/ HandleTeiRemove(t, m) \/ UNCHANGED << tme, sock >>
  BY DEF UtmeHandleFrame
<1> HIDE DEF m
<1>4. CASE tme[t].state # "UNASSIGNED" /\ TeiRemove(t)
  BY <1>1, <1>2, <1>4, TeiRemoveAgree
<1>5. CASE /\ tme[t].pending
           /\ tme' = [tme EXCEPT ![t] = [@ EXCEPT !.pending = FALSE, !.ri = NoRi,
                    !.tei = m.ai, !.state = "ASSIGNED", !.T202 = FALSE]]
           /\ sock' = [sock EXCEPT ![t] = MdlAssignRequest(@, m.ai)]
  <2>1. /\ tme'[t] = [tme[t] EXCEPT !.pending = FALSE, !.ri = NoRi,
                    !.tei = m.ai, !.state = "ASSIGNED", !.T202 = FALSE]
        /\ sock'[t] = MdlAssignRequest(sock[t], m.ai)
    BY <1>1, <1>5 DEF TerminalsOK
  <2>2. sock[t].state = "AWAITING_TEI" /\ ~ tme[t].expired
    BY <1>5 DEF InStep
  <2>3. sock'[t].state = "TEI_ASSIGNED" /\ sock'[t].tei = m.ai
    BY <2>1, <2>2 DEF MdlAssignRequest
  <2>4. /\ tme'[t].state = "ASSIGNED" /\ tme'[t].tei = m.ai /\ ~ tme'[t].pending
        /\ ~ tme'[t].T202 /\ ~ tme'[t].expired
    BY <2>1, <2>2, <1>1 DEF Utmes
  <2> QED BY <2>3, <2>4 DEF InStep
<1>6. CASE UNCHANGED << tme, sock >>
  BY <1>6
<1> QED BY <1>3, <1>4, <1>5, <1>6 DEF HandleTeiAssigned, HandleTeiRemove

(* A socket that waits for a TEI has an entity that asks for one.          *)
LEMMA MdlAssignIndicationAgree ==
  ASSUME TerminalsOK, NEW t \in Terminals, InStep(sock[t], tme[t]), MdlAssignIndication(t)
  PROVE  InStep(sock'[t], tme'[t])
<1>1. tme[t] \in Utmes /\ sock[t] \in Socks
  BY DEF TerminalsOK
<1>2. PICK ri \in FreshRi(t) :
        tme' = [tme EXCEPT ![t] = [@ EXCEPT !.state = "UNASSIGNED",
                    !.pending = TRUE, !.ri = ri, !.retrans_cnt = 1, !.T202 = TRUE]]
  BY DEF MdlAssignIndication
<1>3. tme'[t] = [tme[t] EXCEPT !.state = "UNASSIGNED",
                    !.pending = TRUE, !.ri = ri, !.retrans_cnt = 1, !.T202 = TRUE]
  BY <1>2 DEF TerminalsOK
<1>4. tme'[t].state = "UNASSIGNED" /\ tme'[t].pending /\ (tme'[t].expired <=> tme[t].expired)
  BY <1>1, <1>3 DEF Utmes
<1>5. sock'[t].state = "AWAITING_TEI"
  BY <1>1 DEF MdlAssignIndication, TerminalsOK, Socks
<1> QED BY <1>4, <1>5 DEF InStep

(* Without a T202 handler held at the lock every step keeps entity and     *)
(* socket in step.                                                         *)
LEMMA AgreeInvStep ==
  ASSUME ~ Smp, AgreeInv, [Next]_vars
  PROVE  AgreeInv'
<1>0. TypeInv' /\ TypeInv /\ TerminalsOK
  BY EveryStep DEF AgreeInv, TypeInv
<1>1. ASSUME NEW t \in Terminals, UNCHANGED << tme, sock >>
      PROVE  InStep(sock'[t], tme'[t])
  BY <1>1 DEF AgreeInv
<1>2. ASSUME NEW t \in Terminals, TerminalStep(t), InStep(sock'[t], tme'[t])
      PROVE  AgreeInv'
  BY <1>0, <1>2 DEF AgreeInv, TerminalStep
<1>3. ASSUME NEW t \in Terminals, MdlAssignIndication(t)
      PROVE  AgreeInv'
  BY <1>0, <1>2, <1>3, MdlAssignIndicationAgree, MdlAssignIndicationStep DEF AgreeInv
<1>4. ASSUME NEW t \in Terminals, T202(t)
      PROVE  AgreeInv'
  BY <1>0, <1>2, <1>4, T202Agree, T202Step DEF AgreeInv
<1>5. ASSUME NEW t \in Terminals, T202Expires(t) \/ T202Late(t)
      PROVE  FALSE
  BY <1>5 DEF T202Expires, T202Late, AgreeInv, InStep
<1>6. ASSUME NEW t \in Terminals, UtmeHandleFrame(t)
      PROVE  AgreeInv'
  BY <1>0, <1>2, <1>6, UtmeHandleFrameAgree, UtmeHandleFrameStep DEF AgreeInv
<1>7. ASSUME NEW t \in Terminals, TeMdlError(t)
      PROVE  AgreeInv'
  <2>1. tme[t].state = "ASSIGNED" /\ TeiRemove(t) /\ InStep(sock[t], tme[t])
    BY <1>7 DEF TeMdlError, AgreeInv, InStep
  <2> QED BY <1>0, <1>2, <1>7, <2>1, TeiRemoveAgree, TeMdlErrorStep
<1>8. CASE NetworkStep \/ UNCHANGED << tme, sock >>
  BY <1>0, <1>1, <1>8 DEF AgreeInv, NetworkStep
<1>9. ASSUME NEW t \in Terminals, LoseDown(t)
      PROVE  AgreeInv'
  BY <1>8, <1>9 DEF LoseDown
<1> QED BY <1>0, <1>3, <1>4, <1>5, <1>6, <1>7, <1>8, <1>9, NtmeHandleFrameStep, AuditStep,
        LoseUpStep, T201Step, NtMdlErrorStep DEF Next, vars

(* They are in step when the entities are allocated.                       *)
LEMMA AgreeInvInit == Init => AgreeInv
<1> SUFFICES ASSUME Init
             PROVE  \A t \in Terminals : InStep(sock[t], tme[t])
  BY TypeInvInit DEF AgreeInv
<1> QED BY DEF Init, InStep

(* Where handlers and timers exclude each other the entity answers for the *)
(* TEI its socket uses, audits, errors and losses included: no check,      *)
(* removal or duplicate assignment is matched with a stale tme->tei.       *)
THEOREM EntityAnswersForItsTei ==
  ASSUME ~ Smp
  PROVE  Spec => []AnswersForItsTei
<1>1. AgreeInv /\ [Next]_vars => AgreeInv'
  BY AgreeInvStep
<1>2. AgreeInv => AnswersForItsTei
  BY DEF AgreeInv, InStep, AnswersForItsTei, Uses
<1> QED BY <1>1, <1>2, AgreeInvInit, PTL DEF Spec

=============================================================================
