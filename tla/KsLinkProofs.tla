---------------------------- MODULE KsLinkProofs ----------------------------
(***************************************************************************)
(* Proofs about KsLink: the kernel's channels, pipelines and status agree, *)
(* and the topology lock excludes, for any number of processes, channels   *)
(* and pipelines, and whatever the processes ask, the drivers refuse and   *)
(* the timers break.                                                       *)
(*                                                                         *)
(* An operation of the kernel is an operator from kernel to kernel.  Most  *)
(* leave the pipelines alone (Same); the others take a kernel in order     *)
(* (InOrder) to one in order, where one pipeline, of which a process has   *)
(* asked and which is not in the list yet, may be under construction.      *)
(* The loops over the requests of an sk_buff, over the backlog and over    *)
(* the passes it takes are the same induction, stated once (Loops).        *)
(*                                                                         *)
(* For the lock the same operators are followed with the requests of each  *)
(* process that are not taken yet: on its socket, in the sk_buff that is   *)
(* looked at, and in the backlog (Agreed, Locked).                         *)
(***************************************************************************)
EXTENDS KsLink, WellFoundedInduction, TLAPS

(* The fields of the kernel and of a process.                              *)
KernelFields ==
    {"chans", "pipe", "pipes", "nextid", "on", "fails", "left", "owner",
     "depth", "timer", "backlog", "mq", "mcur", "mseq", "out", "driver",
     "bound", "rx"}
LibFields ==
    {"pc", "top", "n", "tx", "need", "res", "route", "mine", "jobs"}

Formed(a) == DOMAIN a = KernelFields /\ DOMAIN a.driver = {"pc", "chan"}

Pipes == [reg : BOOLEAN, st : Status, chans : Seq(Chans)]

(* What is asked of the kernel.                                            *)
Commands == {"LOCK", "UNLOCK", "CHAN_GET", "PIPELINE_GET", "PIPELINE_NEW",
             "PIPELINE_DEL", "PIPELINE_SET"}
WellAsked(r) ==
    r.type \in Commands /\ r.chans \in Seq(Chans) /\ r.st \in Status
AllAsked(rs) ==
    (\E S : rs \in Seq(S)) /\ \A i \in 1 .. Len(rs) : WellAsked(rs[i])
BacklogAsked(b) ==
    (\E S : b \in Seq(S)) /\ \A i \in 1 .. Len(b) : AllAsked(b[i].reqs)

(* The pipelines are records, their channels are channels.                 *)
Shaped(a) ==
    /\ Formed(a)
    /\ a.chans \subseteq Chans
    /\ a.pipe \in [Chans -> 0 .. MaxPipes]
    /\ a.pipes \in [Ids -> Pipes]
    /\ a.nextid \in 1 .. MaxPipes + 1
    /\ a.on \in [Chans -> SUBSET (1 .. 3)]
    /\ a.driver.pc # "idle" => a.driver.chan \in Chans

(* A channel points to the pipeline that lists it, and is registered.      *)
Tied(a) ==
    \A ch \in Chans :
        /\ \A p \in Ids : a.pipe[ch] = p <=> ch \in Members(a, p)
        /\ a.pipe[ch] # 0 => ch \in a.chans

(* A pipeline that is not in the list, or not connected, has no channel;   *)
(* q is the one under construction, 0 when there is none.                  *)
Kept(a, q) ==
    \A p \in Ids :
        /\ ~a.pipes[p].reg /\ p # q => a.pipes[p].st = 0
        /\ a.pipes[p].st = 0 /\ p # q => a.pipes[p].chans = <<>>
        /\ p >= a.nextid => ~a.pipes[p].reg

(* The status is true of the channels.                                     *)
LevelOf(a, ch) == IF a.pipe[ch] = 0 THEN 0 ELSE a.pipes[a.pipe[ch]].st
True(a) ==
    \A ch \in Chans :
        /\ 1 .. LevelOf(a, ch) \subseteq a.on[ch]
        /\ a.on[ch] = 1 .. LevelOf(a, ch) \/ ch \in a.left

InOrder(a, q) == Shaped(a) /\ Tied(a) /\ Kept(a, q) /\ True(a)

(* What the invariant looks at is left alone.                              *)
Same(a, b) ==
    /\ Formed(a) /\ Formed(b)
    /\ b.chans = a.chans /\ b.pipe = a.pipe /\ b.pipes = a.pipes
    /\ b.nextid = a.nextid /\ b.on = a.on /\ b.left = a.left
    /\ b.backlog = a.backlog
    /\ b.driver.chan = a.driver.chan
    /\ a.driver.pc = "idle" => b.driver.pc = "idle"

-----------------------------------------------------------------------------
(* What leaves the pipelines alone.                                        *)

LEMMA SameKeeps ==
  ASSUME NEW a, NEW b, NEW q, Same(a, b), InOrder(a, q)
  PROVE  InOrder(b, q)
BY DEF Same, InOrder, Shaped, Tied, Kept, True, LevelOf, Members

LEMMA SameChain ==
  ASSUME NEW a, NEW b, NEW d, Same(a, b), Same(b, d)
  PROVE  Same(a, d)
BY DEF Same

LEMMA McastSendSame ==
  ASSUME NEW a, Formed(a), NEW t, NEW o, NEW s
  PROVE  Same(a, McastSend(a, t, o, s))
BY DEF Same, McastSend, KernelFields, Formed

LEMMA McastFlushSame ==
  ASSUME NEW a, Formed(a)
  PROVE  Same(a, McastFlush(a))
BY DEF Same, McastFlush, KernelFields, Formed

LEMMA PutSame ==
  ASSUME NEW a, Formed(a), NEW r, NEW e, NEW d
  PROVE  Same(a, Put(a, r, e, d))
BY DEF Same, Put, KernelFields, Formed

LEMMA FlushOutSame ==
  ASSUME NEW a, Formed(a), NEW c
  PROVE  Same(a, FlushOut(a, c))
BY DEF Same, FlushOut, KernelFields, Formed

LEMMA WakeUpSame ==
  ASSUME NEW a, Formed(a)
  PROVE  Same(a, WakeUp(a))
BY DEF Same, WakeUp, KernelFields, Formed

LEMMA CmdLockSame ==
  ASSUME NEW a, Formed(a), NEW c, NEW r
  PROVE  Same(a, CmdLock(a, c, r))
<1> DEFINE x == [a EXCEPT !.owner = c, !.depth = @ + 1, !.timer = TRUE]
           y == [a EXCEPT !.depth = @ + 1]
<1>1. Same(a, x) /\ Same(a, y)
  BY DEF Same, KernelFields, Formed
<1> HIDE DEF x, y
<1>2. Same(a, McastFlush(x))
  BY <1>1, McastFlushSame, SameChain DEF Same
<1>3. ASSUME NEW z, Same(a, z)
      PROVE  Same(a, Put(z, r, "ok", <<>>))
  BY <1>3, PutSame, SameChain DEF Same
<1> QED BY <1>1, <1>2, <1>3 DEF CmdLock, x, y

LEMMA CmdUnlockSame ==
  ASSUME NEW a, Formed(a), NEW c, NEW r
  PROVE  Same(a, CmdUnlock(a, c, r))
<1> DEFINE x == [a EXCEPT !.depth = @ - 1]
           y == [a EXCEPT !.depth = 0, !.owner = None, !.timer = FALSE]
<1>1. Same(a, x) /\ Same(a, y)
  BY DEF Same, KernelFields, Formed
<1> HIDE DEF x, y
<1>2. ASSUME NEW z, Same(a, z)
      PROVE  Same(a, Put(z, r, "ok", <<>>))
  BY <1>2, PutSame, SameChain DEF Same
<1>3. ASSUME NEW z, Same(a, z)
      PROVE  Same(a, WakeUp(McastFlush(z)))
  <2>1. Same(a, McastFlush(z))
    BY <1>3, McastFlushSame, SameChain DEF Same
  <2> QED BY <2>1, WakeUpSame, SameChain DEF Same
<1>4. Same(a, Put(a, r, "ENOENT", <<>>))
  BY PutSame
<1>5. Same(a, WakeUp(McastFlush(Put(y, r, "ok", <<>>))))
  BY <1>1, <1>2, <1>3
<1> QED BY <1>1, <1>2, <1>4, <1>5 DEF CmdUnlock, x, y
-----------------------------------------------------------------------------
(* The status of a pipeline.                                               *)

(* A pipeline without status has no channels.                              *)
Settled(a, p) == a.pipes[p].st = 0 => a.pipes[p].chans = <<>>

(* The status of p changes, and with it the channels of p.                 *)
Moves(a, b, p) ==
    /\ InOrder(b, p)
    /\ b.chans = a.chans /\ b.driver = a.driver
    /\ b.nextid = a.nextid /\ b.backlog = a.backlog
    /\ b.pipes[p].reg = a.pipes[p].reg
    /\ Settled(a, p) => Settled(b, p)
    /\ \A ch \in Chans : b.pipe[ch] \in {a.pipe[ch], 0}

LEMMA MovesChain ==
  ASSUME NEW a, NEW b, NEW d, NEW p, Moves(a, b, p), Moves(b, d, p)
  PROVE  Moves(a, d, p)
BY DEF Moves

LEMMA MovesSelf ==
  ASSUME NEW a, NEW p, InOrder(a, p)
  PROVE  Moves(a, a, p)
BY DEF Moves

(* A status is set, and the channels of the pipeline are as it says.       *)
LEMMA StatusSet ==
  ASSUME NEW a, NEW b, NEW p \in Ids, NEW m \in Status, InOrder(a, p),
         Formed(b),
         b.chans = a.chans, b.driver = a.driver, b.pipe = a.pipe,
         b.nextid = a.nextid,
         b.pipes = [a.pipes EXCEPT ![p].st = m],
         b.on \in [Chans -> SUBSET (1 .. 3)],
         \A ch \in Chans : ch \in a.left => ch \in b.left,
         \A ch \in Chans : ch \notin Members(a, p) => b.on[ch] = a.on[ch],
         \A ch \in Chans : ch \in Members(a, p) =>
            1 .. m \subseteq b.on[ch] /\ (b.on[ch] = 1 .. m \/ ch \in b.left)
  PROVE  InOrder(b, p)
<1>1. a.pipes \in [Ids -> Pipes] /\ a.pipe \in [Chans -> 0 .. MaxPipes]
  BY DEF InOrder, Shaped
<1>2. a.pipes[p] \in Pipes
  BY <1>1
<1>3. [a.pipes[p] EXCEPT !.st = m] \in Pipes
  BY <1>2 DEF Pipes
<1>4. b.pipes \in [Ids -> Pipes]
  BY <1>1, <1>3
<1>5. Shaped(b)
  BY <1>4 DEF InOrder, Shaped
<1>6. \A o \in Ids : /\ o # p => b.pipes[o] = a.pipes[o]
                     /\ b.pipes[o].chans = a.pipes[o].chans
                     /\ b.pipes[o].reg = a.pipes[o].reg
  BY <1>1, <1>2 DEF Pipes
<1>7. b.pipes[p].st = m
  BY <1>1, <1>2 DEF Pipes
<1>8. \A o \in Ids : Members(b, o) = Members(a, o)
  BY <1>6 DEF Members
<1>9. Tied(b)
  BY <1>8 DEF InOrder, Tied
<1>10. Kept(b, p)
  BY <1>6 DEF InOrder, Kept
<1>11. ASSUME NEW ch \in Chans
       PROVE  /\ 1 .. LevelOf(b, ch) \subseteq b.on[ch]
              /\ b.on[ch] = 1 .. LevelOf(b, ch) \/ ch \in b.left
  <2>1. a.pipe[ch] \in 0 .. MaxPipes /\ b.pipe[ch] = a.pipe[ch]
    BY <1>1
  <2>2. CASE a.pipe[ch] = p
    <3>1. ch \in Members(a, p) /\ p # 0
      BY <2>2 DEF InOrder, Tied, Ids
    <3>2. LevelOf(b, ch) = m
      BY <1>7, <2>1, <2>2, <3>1 DEF LevelOf
    <3> QED BY <3>1, <3>2
  <2>3. CASE a.pipe[ch] # p
    <3>1. ch \notin Members(a, p)
      BY <2>3 DEF InOrder, Tied
    <3>2. a.pipe[ch] # 0 => a.pipe[ch] \in Ids
      BY <2>1 DEF Ids
    <3>3. LevelOf(b, ch) = LevelOf(a, ch)
      BY <1>6, <2>1, <2>3, <3>2 DEF LevelOf
    <3> QED BY <3>1, <3>3 DEF InOrder, True
  <2> QED BY <2>2, <2>3
<1>12. True(b)
  BY <1>11 DEF True
<1> QED BY <1>5, <1>9, <1>10, <1>12 DEF InOrder

(* The channels of a pipeline are let go.                                  *)
LEMMA UnlinkShape ==
  ASSUME NEW a, NEW p \in Ids, Shaped(a)
  PROVE  LET b == Unlink(a, p)
         IN /\ Shaped(b)
            /\ b.chans = a.chans /\ b.driver = a.driver /\ b.nextid = a.nextid
            /\ b.backlog = a.backlog /\ b.on = a.on /\ b.left = a.left
            /\ \A ch \in Chans : b.pipe[ch] = IF ch \in Members(a, p) THEN 0
                                              ELSE a.pipe[ch]
            /\ \A o \in Ids : o # p => b.pipes[o] = a.pipes[o]
            /\ b.pipes[p].chans = <<>> /\ b.pipes[p].st = a.pipes[p].st
            /\ b.pipes[p].reg = a.pipes[p].reg
<1> DEFINE b == Unlink(a, p)
           u == [ch \in Chans |->
                    IF ch \in Members(a, p) THEN 0 ELSE a.pipe[ch]]
           w == [a.pipes[p] EXCEPT !.chans = <<>>]
<1>1. /\ Formed(b)
      /\ b.chans = a.chans /\ b.driver = a.driver
      /\ b.nextid = a.nextid /\ b.backlog = a.backlog
      /\ b.on = a.on /\ b.left = a.left
      /\ b.pipe = u /\ b.pipes = [a.pipes EXCEPT ![p] = w]
  BY DEF Unlink, Shaped, KernelFields, Formed
<1>2. a.pipes \in [Ids -> Pipes] /\ a.pipe \in [Chans -> 0 .. MaxPipes]
  BY DEF Shaped
<1>3. a.pipes[p] \in Pipes
  BY <1>2
<1>4. <<>> \in Seq(Chans)
  OBVIOUS
<1>5. /\ w \in Pipes /\ w.chans = <<>> /\ w.st = a.pipes[p].st
      /\ w.reg = a.pipes[p].reg
  BY <1>3, <1>4 DEF Pipes
<1> HIDE DEF w
<1>6. b.pipes \in [Ids -> Pipes]
  BY <1>1, <1>2, <1>5
<1>7. 0 \in 0 .. MaxPipes
  BY SizesAssumption
<1>8. \A ch \in Chans : a.pipe[ch] \in 0 .. MaxPipes
  BY <1>2
<1>9. u \in [Chans -> 0 .. MaxPipes]
  BY <1>7, <1>8
<1>10. \A ch \in Chans : b.pipe[ch] = IF ch \in Members(a, p) THEN 0
                                      ELSE a.pipe[ch]
  BY <1>1
<1>11. b.pipe \in [Chans -> 0 .. MaxPipes]
  BY <1>1, <1>9
<1> HIDE DEF u, b
<1>12. Shaped(b)
  BY <1>1, <1>6, <1>11 DEF Shaped
<1>13. (\A o \in Ids : o # p => b.pipes[o] = a.pipes[o]) /\ b.pipes[p] = w
  BY <1>1, <1>2
<1> QED BY <1>1, <1>5, <1>10, <1>12, <1>13 DEF b

LEMMA NoMembers ==
  ASSUME NEW a, NEW p, a.pipes[p].chans = <<>>
  PROVE  Members(a, p) = {}
BY DEF Members, ToSet

LEMMA UnlinkMoves ==
  ASSUME NEW a, NEW p \in Ids, InOrder(a, p), a.pipes[p].st = 0
  PROVE  Moves(a, Unlink(a, p), p) /\ Unlink(a, p).pipes[p].st = 0
<1> DEFINE b == Unlink(a, p)
<1>1. Shaped(a)
  BY DEF InOrder
<1>2. /\ Shaped(b)
      /\ b.chans = a.chans /\ b.driver = a.driver /\ b.nextid = a.nextid
      /\ b.backlog = a.backlog /\ b.on = a.on /\ b.left = a.left
      /\ \A ch \in Chans : b.pipe[ch] = IF ch \in Members(a, p) THEN 0
                                        ELSE a.pipe[ch]
      /\ \A o \in Ids : o # p => b.pipes[o] = a.pipes[o]
      /\ b.pipes[p].chans = <<>> /\ b.pipes[p].st = a.pipes[p].st
      /\ b.pipes[p].reg = a.pipes[p].reg
  BY <1>1, UnlinkShape
<1> HIDE DEF b
<1>3. Members(b, p) = {}
  BY <1>2, NoMembers
<1>4. \A o \in Ids : o # p => Members(b, o) = Members(a, o)
  BY <1>2 DEF Members
<1>5. 0 \notin Ids
  BY DEF Ids
<1>6. Tied(b)
  BY <1>2, <1>3, <1>4, <1>5 DEF InOrder, Tied
<1>7. Kept(b, p)
  BY <1>2 DEF InOrder, Kept
<1>8. ASSUME NEW ch \in Chans
      PROVE  LevelOf(b, ch) = LevelOf(a, ch)
  <2>1. a.pipe[ch] \in 0 .. MaxPipes
    BY <1>1 DEF Shaped
  <2>2. a.pipe[ch] # 0 => a.pipe[ch] \in Ids
    BY <2>1 DEF Ids
  <2>3. ch \in Members(a, p) <=> a.pipe[ch] = p
    BY DEF InOrder, Tied
  <2> QED BY <1>2, <1>5, <2>2, <2>3 DEF LevelOf
<1>9. True(b)
  BY <1>2, <1>8 DEF InOrder, True
<1> QED BY <1>2, <1>6, <1>7, <1>9 DEF InOrder, Moves, Settled, b

(* What a step down leaves of a channel.                                   *)
Stripped(a, p, l, stop, ch) ==
    IF ch \in Before(a, p, stop) THEN a.on[ch] \ {l} ELSE a.on[ch]

(* From a, the channels of p are such that a step down ends in order.      *)
Ready(a, x, p, l, stop) ==
    /\ Formed(x)
    /\ x.chans = a.chans /\ x.driver = a.driver
    /\ x.pipe = a.pipe /\ x.nextid = a.nextid
    /\ x.pipes = a.pipes /\ x.backlog = a.backlog
    /\ x.on \in [Chans -> SUBSET (1 .. 3)]
    /\ \A ch \in Chans :
        /\ ch \in a.left => ch \in x.left
        /\ ch \notin Members(a, p) =>
                ch \notin Before(x, p, stop) /\ x.on[ch] = a.on[ch]
        /\ ch \in Members(a, p) =>
                /\ 1 .. l - 1 \subseteq Stripped(x, p, l, stop, ch)
                /\ Stripped(x, p, l, stop, ch) = 1 .. l - 1 \/ ch \in x.left

LEMMA LowerEnds ==
  ASSUME NEW a, NEW x, NEW p \in Ids, NEW l \in 1 .. 3, NEW stop,
         InOrder(a, p), Ready(a, x, p, l, stop)
  PROVE  /\ Moves(a, Lower(x, p, l, stop), p)
         /\ Lower(x, p, l, stop).pipes[p].st = l - 1
<1> DEFINE on == [ch \in Chans |-> Stripped(x, p, l, stop, ch)]
           b == StepDown(x, p, l, stop)
<1>1. Lower(x, p, l, stop) = IF l = 1 THEN Unlink(b, p) ELSE b
  BY DEF Lower
<1>2. on \in [Chans -> SUBSET (1 .. 3)]
  BY DEF Ready, Stripped
<1>3. \A ch \in Chans : on[ch] = Stripped(x, p, l, stop, ch)
  OBVIOUS
<1>a. b = [x EXCEPT !.on = on, !.pipes[p].st = l - 1]
  BY DEF StepDown, Stripped
<1> HIDE DEF on, b
<1>4. /\ Formed(b)
      /\ b.chans = a.chans /\ b.driver = a.driver
      /\ b.pipe = a.pipe /\ b.nextid = a.nextid
      /\ b.pipes = [a.pipes EXCEPT ![p].st = l - 1]
      /\ b.on = on /\ b.left = x.left /\ b.backlog = a.backlog
  BY <1>a DEF KernelFields, Formed, Ready
<1>5. l - 1 \in Status
  BY DEF Status
<1>6. a.pipes \in [Ids -> Pipes]
  BY DEF InOrder, Shaped
<1>7. /\ b.pipes[p].st = l - 1 /\ b.pipes[p].reg = a.pipes[p].reg
      /\ b.pipes[p].chans = a.pipes[p].chans
  BY <1>4, <1>6 DEF Pipes
<1>8. InOrder(b, p)
  <2>1. \A ch \in Chans : ch \notin Members(a, p) => b.on[ch] = a.on[ch]
    BY <1>3, <1>4 DEF Stripped, Ready
  <2>2. \A ch \in Chans : ch \in Members(a, p) =>
            1 .. l - 1 \subseteq b.on[ch]
              /\ (b.on[ch] = 1 .. l - 1 \/ ch \in b.left)
    BY <1>3, <1>4 DEF Ready
  <2>3. b.on \in [Chans -> SUBSET (1 .. 3)]
    BY <1>2, <1>4
  <2>4. \A ch \in Chans : ch \in a.left => ch \in b.left
    BY <1>4 DEF Ready
  <2> QED BY <1>4, <1>5, <2>1, <2>2, <2>3, <2>4, StatusSet
<1>9. CASE l = 1
  <2>1. Moves(b, Unlink(b, p), p) /\ Unlink(b, p).pipes[p].st = 0
    BY <1>7, <1>8, <1>9, UnlinkMoves
  <2>2. Unlink(b, p).pipes[p].chans = <<>>
    BY <1>8, UnlinkShape DEF InOrder
  <2>3. Moves(a, Unlink(b, p), p)
    BY <1>4, <1>7, <2>1, <2>2 DEF Moves, Settled
  <2> QED BY <1>1, <1>9, <2>1, <2>3
<1>10. CASE l # 1
  <2>1. Moves(a, b, p)
    BY <1>4, <1>7, <1>8, <1>10 DEF Moves, Settled
  <2> QED BY <1>1, <1>7, <1>10, <2>1
<1> QED BY <1>9, <1>10

(* What the status says of a member's channel.                             *)
LEMMA MemberLevel ==
  ASSUME NEW a, NEW p \in Ids, InOrder(a, p), NEW ch \in Chans,
         ch \in Members(a, p)
  PROVE  /\ 1 .. a.pipes[p].st \subseteq a.on[ch]
         /\ a.on[ch] = 1 .. a.pipes[p].st \/ ch \in a.left
<1>1. a.pipe[ch] = p /\ p # 0
  BY DEF InOrder, Tied, Ids
<1>2. LevelOf(a, ch) = a.pipes[p].st
  BY <1>1 DEF LevelOf
<1> QED BY <1>2 DEF InOrder, True

LEMMA LowerMoves ==
  ASSUME NEW a, NEW p \in Ids, NEW l \in 1 .. 3, InOrder(a, p),
         a.pipes[p].st = l
  PROVE  /\ Moves(a, Lower(a, p, l, 0), p)
         /\ Lower(a, p, l, 0).pipes[p].st = l - 1
<1>1. Formed(a) /\ a.on \in [Chans -> SUBSET (1 .. 3)]
  BY DEF InOrder, Shaped
<1>2. Before(a, p, 0) = Members(a, p)
  BY DEF Members, Before
<1>3. ASSUME NEW ch \in Chans, ch \in Members(a, p)
      PROVE  /\ 1 .. l - 1 \subseteq Stripped(a, p, l, 0, ch)
             /\ Stripped(a, p, l, 0, ch) = 1 .. l - 1 \/ ch \in a.left
  <2>1. 1 .. l \subseteq a.on[ch] /\ (a.on[ch] = 1 .. l \/ ch \in a.left)
    BY <1>3, MemberLevel
  <2>2. Stripped(a, p, l, 0, ch) = a.on[ch] \ {l}
    BY <1>2, <1>3 DEF Stripped
  <2>3. ASSUME NEW S, S = 1 .. l PROVE S \ {l} = 1 .. l - 1
    BY <2>3
  <2>4. 1 .. l - 1 \subseteq a.on[ch] \ {l}
    BY <2>1
  <2> QED BY <2>1, <2>2, <2>3, <2>4
<1>4. Ready(a, a, p, l, 0)
  BY <1>1, <1>2, <1>3 DEF Ready
<1> QED BY <1>4, LowerEnds
(* A nonempty set of naturals has a least element.                         *)
LEMMA LeastNumber ==
  ASSUME NEW T, T \subseteq Nat, T # {}
  PROVE  \E i \in T : \A j \in T : i <= j
<1>1. PICK i \in T : \A j \in T : ~ (<< j, i >> \in OpToRel(<, Nat))
  BY NatLessThanWellFounded, WFMin
<1>2. ASSUME NEW j \in T
      PROVE  i <= j
  <2>1. << j, i >> \in Nat \X Nat /\ i \in Nat /\ j \in Nat
    OBVIOUS
  <2>2. ~ (j < i)
    BY <1>1, <2>1, Zenon DEF OpToRel
  <2> QED BY <2>1, <2>2
<1> QED BY <1>2

(* The channel that refuses, if there is one, is in the pipeline.          *)
LEMMA RefuserInside ==
  ASSUME NEW a, NEW p, NEW l, a.pipes[p].chans \in Seq(Chans)
  PROVE  Refuser(a, p, l) \in 0 .. Len(a.pipes[p].chans)
<1> DEFINE s == a.pipes[p].chans
           I == {i \in 1 .. Len(s) : a.fails[s[i]] = l}
<1>1. Refuser(a, p, l) = IF I # {} THEN Min(I) ELSE 0
  BY DEF Refuser, SelectInSeq
<1>2. I \subseteq Nat /\ I \subseteq 1 .. Len(s) /\ Len(s) \in Nat
  OBVIOUS
<1> HIDE DEF I, s
<1>3. ASSUME I # {} PROVE Min(I) \in I
  <2>1. \E i \in I : \A j \in I : i <= j
    BY <1>2, <1>3, LeastNumber
  <2> QED BY <2>1 DEF Min
<1>4. CASE I # {}
  <2>1. Min(I) \in 1 .. Len(s)
    BY <1>2, <1>3, <1>4
  <2>2. Refuser(a, p, l) = Min(I)
    BY <1>1, <1>4
  <2> HIDE DEF I
  <2> QED BY <1>2, <2>1, <2>2 DEF s
<1>5. CASE I = {}
  BY <1>1, <1>2, <1>5 DEF s
<1> QED BY <1>4, <1>5

LEMMA RaiseMoves ==
  ASSUME NEW a, NEW p \in Ids, NEW l \in 1 .. 3, InOrder(a, p),
         a.pipes[p].st = l - 1
  PROVE  Moves(a, Raise(a, p, l), p)
<1> DEFINE s == a.pipes[p].chans
           j == Refuser(a, p, l)
           x == StepUp(a, p, l, j)
           on == [ch \in Chans |-> IF ch \in Before(a, p, j)
                                   THEN a.on[ch] \cup {l} ELSE a.on[ch]]
<1>1. Formed(a) /\ a.on \in [Chans -> SUBSET (1 .. 3)]
  BY DEF InOrder, Shaped
<1>2. a.pipes \in [Ids -> Pipes] /\ s \in Seq(Chans)
  BY DEF InOrder, Shaped, Pipes
<1>3. j \in 0 .. Len(s) /\ Len(s) \in Nat
  BY <1>2, RefuserInside
<1>4. /\ Formed(x)
      /\ x.chans = a.chans /\ x.driver = a.driver
      /\ x.pipe = a.pipe /\ x.nextid = a.nextid
      /\ x.pipes = a.pipes /\ x.backlog = a.backlog /\ x.left = a.left
      /\ x.on = on
  BY <1>1 DEF StepUp, KernelFields, Formed
<1>5. on \in [Chans -> SUBSET (1 .. 3)]
  BY <1>1
<1>6. \A ch \in Chans : x.on[ch] = IF ch \in Before(a, p, j)
                                   THEN a.on[ch] \cup {l} ELSE a.on[ch]
  BY <1>4
<1>7. x.on \in [Chans -> SUBSET (1 .. 3)]
  BY <1>4, <1>5
<1> HIDE DEF on
<1>8. Members(a, p) = {s[i] : i \in 1 .. Len(s)}
  BY <1>2 DEF Members, ToSet
<1>9. \A i \in 0 .. Len(s) : \A ch \in Before(a, p, i) : ch \in Members(a, p)
  BY <1>3, <1>8 DEF Before, Members
<1>10. CASE j = 0
  <2> DEFINE b == [x EXCEPT !.pipes[p].st = l]
  <2>1. Raise(a, p, l) = b
    BY <1>10 DEF Raise
  <2>2. /\ Formed(b)
        /\ b.chans = a.chans /\ b.driver = a.driver
        /\ b.pipe = a.pipe /\ b.nextid = a.nextid
        /\ b.pipes = [a.pipes EXCEPT ![p].st = l]
        /\ b.on = x.on /\ b.left = a.left /\ b.backlog = a.backlog
    <3> HIDE DEF x
    <3> QED BY <1>4 DEF KernelFields, Formed
  <2> HIDE DEF b, x, j
  <2>3. Before(a, p, 0) = Members(a, p)
    BY DEF Before, Members
  <2>4. \A ch \in Chans : ch \notin Members(a, p) => b.on[ch] = a.on[ch]
    BY <1>6, <1>10, <2>2, <2>3
  <2>5. ASSUME NEW ch \in Chans, ch \in Members(a, p)
        PROVE  /\ 1 .. l \subseteq b.on[ch]
               /\ b.on[ch] = 1 .. l \/ ch \in b.left
    <3>1. /\ 1 .. l - 1 \subseteq a.on[ch]
          /\ a.on[ch] = 1 .. l - 1 \/ ch \in a.left
      BY <2>5, MemberLevel
    <3>2. b.on[ch] = a.on[ch] \cup {l}
      BY <1>6, <1>10, <2>2, <2>3, <2>5
    <3>3. ASSUME NEW S, S = 1 .. l - 1 PROVE S \cup {l} = 1 .. l
      BY <3>3
    <3>4. 1 .. l \subseteq a.on[ch] \cup {l}
      BY <3>1
    <3> QED BY <2>2, <3>1, <3>2, <3>3, <3>4
  <2>6. l \in Status /\ l # 0
    BY DEF Status
  <2>7. b.on \in [Chans -> SUBSET (1 .. 3)]
    BY <1>7, <2>2
  <2>8. \A ch \in Chans : ch \in a.left => ch \in b.left
    BY <2>2
  <2>9. InOrder(b, p)
    BY <2>2, <2>4, <2>5, <2>6, <2>7, <2>8, StatusSet
  <2>10. b.pipes[p].st = l /\ b.pipes[p].reg = a.pipes[p].reg
    BY <1>2, <2>2 DEF Pipes
  <2> QED BY <2>1, <2>2, <2>6, <2>9, <2>10 DEF Moves, Settled
<1>11. CASE j # 0
  <2> DEFINE last == {s[i] : i \in {j - 1} \ {0}}
             y == [x EXCEPT !.left = @ \cup last]
  <2>1. Raise(a, p, l) = Lower(y, p, l, j - 1)
    BY <1>11 DEF Raise
  <2>2. /\ Formed(y)
        /\ y.chans = a.chans /\ y.driver = a.driver
        /\ y.pipe = a.pipe /\ y.nextid = a.nextid
        /\ y.pipes = a.pipes
        /\ y.on = x.on /\ y.left = a.left \cup last /\ y.backlog = a.backlog
    <3> HIDE DEF x, last
    <3> QED BY <1>4 DEF KernelFields, Formed
  <2> HIDE DEF y, x, j
  <2>3. Before(y, p, j - 1) = Before(a, p, j - 1)
    BY <2>2, Zenon DEF Before
  <2>4. j - 1 \in 0 .. Len(s)
    BY <1>3, <1>11
  <2>5. \A ch \in Chans : ch \notin Members(a, p) =>
            ch \notin Before(y, p, j - 1) /\ y.on[ch] = a.on[ch]
    BY <1>3, <1>6, <1>9, <2>2, <2>3, <2>4
  <2>6. ASSUME NEW ch \in Chans, ch \in Members(a, p)
        PROVE  /\ 1 .. l - 1 \subseteq Stripped(y, p, l, j - 1, ch)
               /\ \/ Stripped(y, p, l, j - 1, ch) = 1 .. l - 1
                  \/ ch \in y.left
    <3>1. /\ 1 .. l - 1 \subseteq a.on[ch]
          /\ a.on[ch] = 1 .. l - 1 \/ ch \in a.left
      BY <2>6, MemberLevel
    <3>2. y.on[ch] = IF ch \in Before(a, p, j) THEN a.on[ch] \cup {l}
                     ELSE a.on[ch]
      BY <1>6, <2>2
    <3>3. Stripped(y, p, l, j - 1, ch) =
            IF ch \in Before(a, p, j - 1) THEN y.on[ch] \ {l} ELSE y.on[ch]
      BY <2>3 DEF Stripped
    <3>4. 1 .. l - 1 \subseteq Stripped(y, p, l, j - 1, ch)
      BY <3>1, <3>2, <3>3
    <3>5. CASE ch \in a.left
      BY <2>2, <3>4, <3>5
    <3>6. CASE ch \notin a.left /\ ch \in Before(a, p, j - 1)
      <4>1. a.on[ch] = 1 .. l - 1
        BY <3>1, <3>6
      <4>2. y.on[ch] \ {l} = 1 .. l - 1
        BY <3>2, <4>1
      <4> QED BY <3>3, <3>4, <3>6, <4>2
    <3>7. CASE ch \notin a.left /\ ch \notin Before(a, p, j - 1)
                 /\ ch \notin Before(a, p, j)
      BY <3>1, <3>2, <3>3, <3>4, <3>7
    <3>8. CASE ch \notin Before(a, p, j - 1) /\ ch \in Before(a, p, j)
      <4>1. PICK i \in 1 .. j - 1 : ch = s[i]
        BY <1>3, <1>11, <3>8 DEF Before
      <4>2. j - 1 # 0 /\ j - 1 \in Nat
        BY <1>3, <1>11, <4>1
      <4>3. i = j - 1
        BY <1>3, <3>8, <4>1, <4>2 DEF Before
      <4>4. ch \in last
        BY <4>1, <4>2, <4>3
      <4> QED BY <2>2, <3>4, <4>4
    <3> QED BY <3>5, <3>6, <3>7, <3>8
  <2>7. y.on \in [Chans -> SUBSET (1 .. 3)]
    BY <1>7, <2>2
  <2>8. \A ch \in Chans : ch \in a.left => ch \in y.left
    BY <2>2
  <2>9. Ready(a, y, p, l, j - 1)
    BY <2>2, <2>5, <2>6, <2>7, <2>8 DEF Ready
  <2> QED BY <2>1, <2>9, LowerEnds
<1> QED BY <1>10, <1>11

(* The loops of ks_pipeline_change_status.                                 *)
Up(a, p, st, l) ==
    IF l <= st /\ a.pipes[p].st = l - 1 THEN Raise(a, p, l) ELSE a
Down(a, p, st, l) ==
    IF l > st /\ a.pipes[p].st = l THEN Lower(a, p, l, 0) ELSE a

LEMMA UpMoves ==
  ASSUME NEW a, NEW p \in Ids, NEW st, NEW l \in 1 .. 3, InOrder(a, p)
  PROVE  Moves(a, Up(a, p, st, l), p)
BY RaiseMoves, MovesSelf DEF Up

LEMMA DownMoves ==
  ASSUME NEW a, NEW p \in Ids, NEW st, NEW l \in 1 .. 3, InOrder(a, p)
  PROVE  /\ Moves(a, Down(a, p, st, l), p)
         /\ l > st /\ a.pipes[p].st = l
              => Down(a, p, st, l).pipes[p].st = l - 1
         /\ ~(l > st /\ a.pipes[p].st = l) => Down(a, p, st, l) = a
BY LowerMoves, MovesSelf DEF Down

LEMMA ChangeStatusIs ==
  ASSUME NEW a, NEW p, NEW st
  PROVE  ChangeStatus(a, p, st) =
           Down(Down(Down(Up(Up(Up(a, p, st, 1), p, st, 2), p, st, 3),
                          p, st, 3), p, st, 2), p, st, 1)
BY Zenon DEF ChangeStatus, Up, Down

LEMMA ChangeStatusMoves ==
  ASSUME NEW a, NEW p \in Ids, NEW st \in Status, InOrder(a, p)
  PROVE  /\ Moves(a, ChangeStatus(a, p, st), p)
         /\ st = 0 => ChangeStatus(a, p, st).pipes[p].st = 0
<1> DEFINE u1 == Up(a, p, st, 1)
           u2 == Up(u1, p, st, 2)
           u3 == Up(u2, p, st, 3)
           d3 == Down(u3, p, st, 3)
           d2 == Down(d3, p, st, 2)
           d1 == Down(d2, p, st, 1)
<1>0. 1 \in 1 .. 3 /\ 2 \in 1 .. 3 /\ 3 \in 1 .. 3
  OBVIOUS
<1>1. ChangeStatus(a, p, st) = d1
  BY ChangeStatusIs
<1> HIDE DEF d1
<1>2. Moves(a, u1, p)
  BY <1>0, UpMoves
<1> HIDE DEF u1
<1>3. Moves(u1, u2, p)
  BY <1>0, <1>2, UpMoves DEF Moves
<1> HIDE DEF u2
<1>4. Moves(u2, u3, p)
  BY <1>0, <1>3, UpMoves DEF Moves
<1> HIDE DEF u3
<1>5. /\ Moves(u3, d3, p)
      /\ 3 > st /\ u3.pipes[p].st = 3 => d3.pipes[p].st = 2
      /\ ~(3 > st /\ u3.pipes[p].st = 3) => d3 = u3
  BY <1>0, <1>4, DownMoves DEF Moves
<1> HIDE DEF d3
<1>6. /\ Moves(d3, d2, p)
      /\ 2 > st /\ d3.pipes[p].st = 2 => d2.pipes[p].st = 1
      /\ ~(2 > st /\ d3.pipes[p].st = 2) => d2 = d3
  BY <1>0, <1>5, DownMoves DEF Moves
<1> HIDE DEF d2
<1>7. /\ Moves(d2, d1, p)
      /\ 1 > st /\ d2.pipes[p].st = 1 => d1.pipes[p].st = 0
      /\ ~(1 > st /\ d2.pipes[p].st = 1) => d1 = d2
  BY <1>0, <1>6, DownMoves DEF Moves, d1
<1>8. Moves(a, d1, p)
  <2>1. Moves(a, u2, p)
    BY <1>2, <1>3, MovesChain
  <2>2. Moves(a, u3, p)
    BY <1>4, <2>1, MovesChain
  <2>3. Moves(a, d3, p)
    BY <1>5, <2>2, MovesChain
  <2>4. Moves(a, d2, p)
    BY <1>6, <2>3, MovesChain
  <2> QED BY <1>7, <2>4, MovesChain
<1>9. u3.pipes[p].st \in 0 .. 3
  BY <1>4 DEF Moves, InOrder, Shaped, Pipes, Status
<1>10. st = 0 => d1.pipes[p].st = 0
  BY <1>5, <1>6, <1>7, <1>9
<1> QED BY <1>1, <1>8, <1>10

(* A pipeline in the list may be seen as one under construction, and back. *)
LEMMA Open ==
  ASSUME NEW a, NEW p \in Ids, InOrder(a, 0)
  PROVE  InOrder(a, p) /\ Settled(a, p)
BY DEF InOrder, Kept, Settled, Ids

LEMMA Close ==
  ASSUME NEW a, NEW p \in Ids, InOrder(a, p), Settled(a, p),
         a.pipes[p].reg \/ a.pipes[p].st = 0
  PROVE  InOrder(a, 0)
BY DEF InOrder, Kept, Settled, Ids

(* What an operation of the kernel leaves.                                 *)
Serves(a, b) == InOrder(b, 0) /\ b.backlog = a.backlog

LEMMA ServesSame ==
  ASSUME NEW a, NEW b, NEW d, Serves(a, b), Same(b, d)
  PROVE  Serves(a, d)
BY SameKeeps DEF Serves, Same

LEMMA ServesFields ==
  ASSUME NEW a, NEW b, Serves(a, b)
  PROVE  Formed(b) /\ InOrder(b, 0) /\ b.backlog = a.backlog
BY DEF Serves, InOrder, Shaped

(* A pipeline enters or leaves the list.                                   *)
Relists(x, y, p, v) ==
    /\ Formed(y)
    /\ y.chans = x.chans /\ y.driver = x.driver /\ y.pipe = x.pipe
    /\ y.on = x.on /\ y.left = x.left
    /\ y.nextid \in 1 .. MaxPipes + 1
    /\ y.pipes = [x.pipes EXCEPT ![p].reg = v]
    /\ \A o \in Ids : o >= y.nextid => o >= x.nextid /\ (o = p => ~v)

LEMMA Relisted ==
  ASSUME NEW x, NEW y, NEW p \in Ids, InOrder(x, p), NEW v \in BOOLEAN,
         Relists(x, y, p, v)
  PROVE  /\ InOrder(y, p)
         /\ y.pipes[p].st = x.pipes[p].st
         /\ y.pipes[p].chans = x.pipes[p].chans
         /\ y.pipes[p].reg = v
<1> DEFINE w == [x.pipes[p] EXCEPT !.reg = v]
<1>1. x.pipes \in [Ids -> Pipes]
  BY DEF InOrder, Shaped
<1>2. x.pipes[p] \in Pipes
  BY <1>1
<1>3. /\ w \in Pipes /\ w.st = x.pipes[p].st
      /\ w.chans = x.pipes[p].chans /\ w.reg = v
  BY <1>2 DEF Pipes
<1>4. y.pipes = [x.pipes EXCEPT ![p] = w]
  BY DEF Relists
<1> HIDE DEF w
<1>5. y.pipes \in [Ids -> Pipes] /\ y.pipes[p] = w
        /\ \A o \in Ids : o # p => y.pipes[o] = x.pipes[o]
  BY <1>1, <1>3, <1>4
<1>6. \A o \in Ids : y.pipes[o].st = x.pipes[o].st
                        /\ y.pipes[o].chans = x.pipes[o].chans
  BY <1>3, <1>5
<1>7. Shaped(y)
  BY <1>5 DEF InOrder, Shaped, Relists
<1>8. Tied(y)
  BY <1>6 DEF InOrder, Tied, Members, Relists
<1>9. Kept(y, p)
  BY <1>3, <1>5 DEF InOrder, Kept, Relists
<1>10. \A ch \in Chans : LevelOf(y, ch) = LevelOf(x, ch)
  <2>1. \A ch \in Chans : x.pipe[ch] \in 0 .. MaxPipes
    BY DEF InOrder, Shaped
  <2> QED BY <1>6, <2>1 DEF LevelOf, Ids, Relists
<1>11. True(y)
  BY <1>10 DEF InOrder, True, Relists
<1> QED BY <1>3, <1>5, <1>7, <1>8, <1>9, <1>11 DEF InOrder

LEMMA UnregisterServes ==
  ASSUME NEW a, NEW p \in Ids, InOrder(a, 0)
  PROVE  /\ Serves(a, UnregisterPipeline(a, p))
         /\ UnregisterPipeline(a, p).pipes[p].chans = <<>>
         /\ UnregisterPipeline(a, p).chans = a.chans
         /\ \A ch \in Chans :
              UnregisterPipeline(a, p).pipe[ch] \in {a.pipe[ch], 0}
<1> DEFINE x == ChangeStatus(a, p, 0)
           y == [x EXCEPT !.pipes[p].reg = FALSE]
<1>1. InOrder(a, p) /\ Settled(a, p)
  BY Open
<1>2. 0 \in Status
  BY DEF Status
<1>3. Moves(a, x, p) /\ x.pipes[p].st = 0
  BY <1>1, <1>2, ChangeStatusMoves
<1> HIDE DEF x
<1>4. InOrder(x, p) /\ x.pipes[p].chans = <<>>
  BY <1>1, <1>3 DEF Moves, Settled
<1>5. /\ Formed(y)
      /\ y.chans = x.chans /\ y.driver = x.driver
      /\ y.pipe = x.pipe /\ y.nextid = x.nextid
      /\ y.pipes = [x.pipes EXCEPT ![p].reg = FALSE]
      /\ y.on = x.on /\ y.left = x.left /\ y.backlog = x.backlog
  BY <1>4 DEF KernelFields, Formed, InOrder, Shaped
<1> HIDE DEF y
<1>6. x.nextid \in 1 .. MaxPipes + 1
  BY <1>4 DEF InOrder, Shaped
<1>7. InOrder(y, p) /\ y.pipes[p].st = 0 /\ y.pipes[p].chans = <<>>
  <2>1. Relists(x, y, p, FALSE)
    BY <1>5, <1>6 DEF Relists
  <2> QED BY <1>3, <1>4, <2>1, Relisted
<1>8. InOrder(y, 0)
  BY <1>7, Close DEF Settled
<1>9. Same(y, UnregisterPipeline(a, p))
  BY <1>5, McastSendSame DEF UnregisterPipeline, x, y
<1>10. Serves(a, y)
  BY <1>3, <1>5, <1>8 DEF Serves, Moves
<1>11. /\ y.chans = a.chans /\ y.pipes[p].chans = <<>>
       /\ \A ch \in Chans : y.pipe[ch] \in {a.pipe[ch], 0}
  BY <1>3, <1>5, <1>7 DEF Moves
<1> QED BY <1>9, <1>10, <1>11, ServesSame DEF Same

-----------------------------------------------------------------------------
(* The commands.                                                           *)

LEMMA RefusalFree ==
  ASSUME NEW a, NEW s \in Seq(Chans), Refusal(a, s) = "ok"
  PROVE  \A ch \in ToSet(s) : ch \in Chans /\ ch \in a.chans /\ a.pipe[ch] = 0
<1> DEFINE bad == {i \in DOMAIN s : \/ s[i] \notin a.chans
                                    \/ a.pipe[s[i]] # 0
                                    \/ \E n \in 1 .. i - 1 : s[n] = s[i]}
<1>1. bad = {}
  BY DEF Refusal
<1>2. \A i \in DOMAIN s :
          s[i] \in Chans /\ s[i] \in a.chans /\ a.pipe[s[i]] = 0
  BY <1>1
<1> QED BY <1>2 DEF ToSet

LEMMA LinkedInOrder ==
  ASSUME NEW a, NEW p \in Ids, InOrder(a, 0), p = a.nextid,
         NEW s \in Seq(Chans), Refusal(a, s) = "ok"
  PROVE  /\ InOrder(Linked(a, p, s), p)
         /\ Linked(a, p, s).backlog = a.backlog
         /\ Linked(a, p, s).nextid = a.nextid
<1> DEFINE b == Linked(a, p, s)
           u == [ch \in Chans |-> IF ch \in ToSet(s) THEN p ELSE a.pipe[ch]]
           w == [a.pipes[p] EXCEPT !.chans = s]
<1>1. \A ch \in ToSet(s) : ch \in Chans /\ ch \in a.chans /\ a.pipe[ch] = 0
  BY RefusalFree
<1>2. /\ a.pipes \in [Ids -> Pipes] /\ a.pipe \in [Chans -> 0 .. MaxPipes]
      /\ Formed(a)
  BY DEF InOrder, Shaped
<1>3. a.pipes[p] \in Pipes /\ ~a.pipes[p].reg /\ p # 0
  <2>1. p # 0 /\ p >= a.nextid
    BY DEF Ids
  <2>2. ~a.pipes[p].reg
    BY <2>1 DEF InOrder, Kept
  <2> QED BY <1>2, <2>1, <2>2
<1>4. a.pipes[p].st = 0 /\ a.pipes[p].chans = <<>>
  BY <1>3 DEF InOrder, Kept, Ids
<1>5. /\ Formed(b)
      /\ b.chans = a.chans /\ b.driver = a.driver
      /\ b.nextid = a.nextid /\ b.backlog = a.backlog
      /\ b.on = a.on /\ b.left = a.left
      /\ b.pipe = u /\ b.pipes = [a.pipes EXCEPT ![p] = w]
  BY <1>2 DEF Linked, KernelFields, Formed
<1>6. w \in Pipes /\ w.st = 0 /\ w.chans = s /\ ~w.reg
  BY <1>3, <1>4 DEF Pipes
<1> HIDE DEF w
<1>7. p \in 0 .. MaxPipes
  BY DEF Ids
<1>8. u \in [Chans -> 0 .. MaxPipes]
  BY <1>2, <1>7
<1>9. \A ch \in Chans : b.pipe[ch] = IF ch \in ToSet(s) THEN p ELSE a.pipe[ch]
  BY <1>5
<1> HIDE DEF u, b
<1>10. b.pipes \in [Ids -> Pipes] /\ b.pipes[p] = w
         /\ \A o \in Ids : o # p => b.pipes[o] = a.pipes[o]
  BY <1>2, <1>5, <1>6
<1>11. Shaped(b)
  BY <1>5, <1>8, <1>10 DEF InOrder, Shaped
<1>12. /\ Members(b, p) = ToSet(s) /\ Members(a, p) = {}
       /\ \A o \in Ids : o # p => Members(b, o) = Members(a, o)
  BY <1>4, <1>6, <1>10, NoMembers DEF Members
<1>13. 0 \notin Ids
  BY DEF Ids
<1>14. Tied(b)
  <2> SUFFICES ASSUME NEW ch \in Chans
               PROVE  /\ \A o \in Ids : b.pipe[ch] = o <=> ch \in Members(b, o)
                      /\ b.pipe[ch] # 0 => ch \in b.chans
    BY DEF Tied
  <2>1. /\ \A o \in Ids : a.pipe[ch] = o <=> ch \in Members(a, o)
        /\ a.pipe[ch] # 0 => ch \in a.chans
    BY DEF InOrder, Tied
  <2>2. CASE ch \in ToSet(s)
    BY <1>1, <1>5, <1>9, <1>12, <1>13, <2>1, <2>2
  <2>3. CASE ch \notin ToSet(s)
    BY <1>5, <1>9, <1>12, <2>1, <2>3
  <2> QED BY <2>2, <2>3
<1>15. Kept(b, p)
  BY <1>5, <1>6, <1>10, <1>13 DEF InOrder, Kept
<1>16. ASSUME NEW ch \in Chans
       PROVE  LevelOf(b, ch) = LevelOf(a, ch)
  <2>1. a.pipe[ch] \in 0 .. MaxPipes
    BY <1>2
  <2>2. a.pipe[ch] # 0 => a.pipe[ch] \in Ids
    BY <2>1 DEF Ids
  <2>3. a.pipe[ch] # p
    BY <1>12 DEF InOrder, Tied
  <2>4. CASE ch \in ToSet(s)
    BY <1>1, <1>3, <1>6, <1>9, <1>10, <2>4 DEF LevelOf
  <2>5. CASE ch \notin ToSet(s)
    BY <1>9, <1>10, <2>2, <2>3, <2>5 DEF LevelOf
  <2> QED BY <2>4, <2>5
<1>17. True(b)
  BY <1>5, <1>16 DEF InOrder, True
<1> QED BY <1>5, <1>11, <1>14, <1>15, <1>17 DEF InOrder, b

LEMMA AbandonedInOrder ==
  ASSUME NEW x, NEW p \in Ids, InOrder(x, p)
  PROVE  /\ InOrder(Abandoned(x, p), 0)
         /\ Abandoned(x, p).backlog = x.backlog
<1> DEFINE u == Unlink(x, p)
           left == {c \in Members(x, p) : x.on[c] # {}}
           b == Abandoned(x, p)
<1>1. Shaped(x)
  BY DEF InOrder
<1>2. /\ Shaped(u)
      /\ u.chans = x.chans /\ u.driver = x.driver /\ u.nextid = x.nextid
      /\ u.backlog = x.backlog /\ u.on = x.on /\ u.left = x.left
      /\ \A ch \in Chans : u.pipe[ch] = IF ch \in Members(x, p) THEN 0
                                        ELSE x.pipe[ch]
      /\ \A o \in Ids : o # p => u.pipes[o] = x.pipes[o]
  BY <1>1, UnlinkShape
<1>3. b = [u EXCEPT !.pipes[p] = NoPipe, !.left = @ \cup left]
  BY DEF Abandoned
<1> HIDE DEF u, b
<1>4. Formed(u) /\ u.pipes \in [Ids -> Pipes]
  BY <1>2 DEF Shaped
<1>5. /\ Formed(b)
      /\ b.chans = u.chans /\ b.driver = u.driver
      /\ b.pipe = u.pipe /\ b.nextid = u.nextid
      /\ b.pipes = [u.pipes EXCEPT ![p] = NoPipe]
      /\ b.on = u.on /\ b.left = u.left \cup left /\ b.backlog = u.backlog
  <2> HIDE DEF left
  <2> QED BY <1>3, <1>4 DEF KernelFields, Formed
<1>6. /\ NoPipe \in Pipes /\ ~NoPipe.reg /\ NoPipe.st = 0
      /\ NoPipe.chans = <<>>
  <2>1. <<>> \in Seq(Chans)
    OBVIOUS
  <2> QED BY <2>1 DEF NoPipe, Pipes, Status
<1>7. b.pipes \in [Ids -> Pipes] /\ b.pipes[p] = NoPipe
        /\ \A o \in Ids : o # p => b.pipes[o] = x.pipes[o]
  BY <1>2, <1>4, <1>5, <1>6
<1>8. Shaped(b)
  BY <1>2, <1>5, <1>7 DEF Shaped
<1>9. /\ Members(b, p) = {}
      /\ \A o \in Ids : o # p => Members(b, o) = Members(x, o)
  BY <1>6, <1>7, NoMembers DEF Members
<1>10. 0 \notin Ids
  BY DEF Ids
<1>11. Tied(b)
  <2> SUFFICES ASSUME NEW ch \in Chans
               PROVE  /\ \A o \in Ids : b.pipe[ch] = o <=> ch \in Members(b, o)
                      /\ b.pipe[ch] # 0 => ch \in b.chans
    BY DEF Tied
  <2>1. /\ \A o \in Ids : x.pipe[ch] = o <=> ch \in Members(x, o)
        /\ x.pipe[ch] # 0 => ch \in x.chans
    BY DEF InOrder, Tied
  <2>2. b.pipe[ch] = IF ch \in Members(x, p) THEN 0 ELSE x.pipe[ch]
    BY <1>2, <1>5
  <2> QED BY <1>2, <1>5, <1>9, <1>10, <2>1, <2>2
<1>12. Kept(b, 0)
  BY <1>2, <1>5, <1>6, <1>7 DEF InOrder, Kept
<1>13. ASSUME NEW ch \in Chans
       PROVE  /\ 1 .. LevelOf(b, ch) \subseteq b.on[ch]
              /\ b.on[ch] = 1 .. LevelOf(b, ch) \/ ch \in b.left
  <2>1. b.pipe[ch] = IF ch \in Members(x, p) THEN 0 ELSE x.pipe[ch]
    BY <1>2, <1>5
  <2>2. b.on[ch] = x.on[ch]
    BY <1>2, <1>5
  <2>3. CASE ch \in Members(x, p)
    <3>1. LevelOf(b, ch) = 0
      BY <2>1, <2>3 DEF LevelOf
    <3>2. b.on[ch] = {} \/ ch \in b.left
      BY <1>5, <2>2, <2>3
    <3> QED BY <3>1, <3>2
  <2>4. CASE ch \notin Members(x, p)
    <3>1. x.pipe[ch] # p /\ x.pipe[ch] \in 0 .. MaxPipes
      BY <1>1, <2>4 DEF InOrder, Tied, Shaped
    <3>2. x.pipe[ch] # 0 => x.pipe[ch] \in Ids
      BY <3>1 DEF Ids
    <3>3. LevelOf(b, ch) = LevelOf(x, ch)
      BY <1>7, <2>1, <2>4, <3>1, <3>2 DEF LevelOf
    <3> QED BY <1>2, <1>5, <2>2, <3>3 DEF InOrder, True
  <2> QED BY <2>3, <2>4
<1>14. True(b)
  BY <1>13 DEF True
<1> QED BY <1>2, <1>5, <1>8, <1>11, <1>12, <1>14 DEF InOrder, b

LEMMA CmdNewServes ==
  ASSUME NEW a, InOrder(a, 0), NEW r, WellAsked(r)
  PROVE  Serves(a, CmdNew(a, r))
<1> DEFINE p == a.nextid
           st == IF r.st = 0 THEN 1 ELSE r.st
           x == Linked(a, p, r.chans)
           y == ChangeStatus(x, p, st)
           z == [y EXCEPT !.pipes[p].reg = TRUE, !.nextid = @ + 1]
<1>1. CmdNew(a, r) =
        IF p \notin Ids THEN Put(a, r, "ENOMEM", <<>>)
        ELSE IF Refusal(a, r.chans) # "ok"
        THEN Put(a, r, Refusal(a, r.chans), <<>>)
        ELSE IF y.pipes[p].st < st THEN Put(Abandoned(y, p), r, "EIO", <<>>)
        ELSE Put(McastSend(z, "PIPELINE_NEW", p, r.chans), r, "ok", <<p>>)
  BY DEF CmdNew, Made
<1> HIDE DEF x, y, z
<1>2. Formed(a) /\ p \in 1 .. MaxPipes + 1
  BY DEF InOrder, Shaped
<1>3. \A e : Serves(a, Put(a, r, e, <<>>))
  BY <1>2, PutSame, SameKeeps DEF Serves, Same
<1>4. ASSUME p \in Ids, Refusal(a, r.chans) = "ok"
      PROVE  /\ y.pipes[p].st < st
                => Serves(a, Put(Abandoned(y, p), r, "EIO", <<>>))
             /\ ~(y.pipes[p].st < st) =>
                  Serves(a, Put(McastSend(z, "PIPELINE_NEW", p, r.chans),
                                r, "ok", <<p>>))
  <2>1. InOrder(x, p) /\ x.backlog = a.backlog /\ x.nextid = p
    BY <1>4, LinkedInOrder DEF WellAsked, x
  <2>2. st \in Status /\ st >= 1
    BY DEF WellAsked, Status
  <2> HIDE DEF st
  <2>3. Moves(x, y, p)
    BY <1>4, <2>1, <2>2, ChangeStatusMoves DEF y
  <2>4. /\ InOrder(y, p) /\ y.backlog = a.backlog /\ y.nextid = p
    BY <2>1, <2>3 DEF Moves
  <2>5. Serves(a, Abandoned(y, p)) /\ Formed(Abandoned(y, p))
    BY <1>4, <2>4, AbandonedInOrder DEF Serves, InOrder, Shaped
  <2>6. Serves(a, Put(Abandoned(y, p), r, "EIO", <<>>))
    BY <2>5, PutSame, ServesSame
  <2>7. ASSUME ~(y.pipes[p].st < st)
        PROVE  Serves(a, Put(McastSend(z, "PIPELINE_NEW", p, r.chans),
                             r, "ok", <<p>>))
    <3>1. /\ Formed(z)
          /\ z.chans = y.chans /\ z.driver = y.driver /\ z.pipe = y.pipe
          /\ z.on = y.on /\ z.left = y.left /\ z.backlog = y.backlog
          /\ z.nextid = y.nextid + 1
          /\ z.pipes = [y.pipes EXCEPT ![p].reg = TRUE]
      <4>1. Formed(y)
        BY <2>4 DEF InOrder, Shaped
      <4> QED BY <4>1 DEF KernelFields, Formed, z
    <3>2. z.nextid \in 1 .. MaxPipes + 1
      BY <1>4, <2>4, <3>1, SizesAssumption DEF Ids
    <3>3. \A o \in Ids : o >= z.nextid => o >= y.nextid /\ (o = p => ~TRUE)
      BY <1>4, <2>4, <3>1 DEF Ids
    <3>4. Relists(y, z, p, TRUE)
      BY <3>1, <3>2, <3>3 DEF Relists
    <3>5. InOrder(z, p) /\ z.pipes[p].st = y.pipes[p].st /\ z.pipes[p].reg
      BY <1>4, <2>4, <3>4, Relisted
    <3>6. y.pipes[p].st \in 0 .. 3
      BY <1>4, <2>4 DEF InOrder, Shaped, Pipes, Status
    <3>7. z.pipes[p].st # 0
      BY <2>2, <2>7, <3>5, <3>6 DEF Status
    <3>8. Serves(a, z)
      BY <1>4, <2>4, <3>1, <3>5, <3>7, Close DEF Serves, Settled
    <3>9. Same(z, McastSend(z, "PIPELINE_NEW", p, r.chans))
      BY <3>1, McastSendSame
    <3>10. Serves(a, McastSend(z, "PIPELINE_NEW", p, r.chans))
      BY <3>8, <3>9, ServesSame
    <3> QED BY <3>9, <3>10, PutSame, ServesSame DEF Same
  <2> QED BY <2>6, <2>7
<1> QED BY <1>1, <1>3, <1>4

LEMMA CmdDelServes ==
  ASSUME NEW a, InOrder(a, 0), NEW r
  PROVE  Serves(a, CmdDel(a, r))
<1>1. Formed(a)
  BY DEF InOrder, Shaped
<1>2. Serves(a, Put(a, r, "ENOENT", <<>>))
  BY <1>1, PutSame, SameKeeps DEF Serves, Same
<1>3. ASSUME r.pipe \in Ids
      PROVE  Serves(a, Put(UnregisterPipeline(a, r.pipe), r, "ok", <<>>))
  <2>1. Serves(a, UnregisterPipeline(a, r.pipe))
    BY <1>3, UnregisterServes
  <2> QED BY <2>1, PutSame, ServesSame, ServesFields
<1> QED BY <1>2, <1>3 DEF CmdDel, Listed

LEMMA CmdSetServes ==
  ASSUME NEW a, InOrder(a, 0), NEW r, WellAsked(r)
  PROVE  Serves(a, CmdSet(a, r))
<1>1. Formed(a)
  BY DEF InOrder, Shaped
<1>2. Serves(a, Put(a, r, "ENOENT", <<>>))
  BY <1>1, PutSame, SameKeeps DEF Serves, Same
<1>3. ASSUME r.pipe \in Ids, a.pipes[r.pipe].reg, NEW e
      PROVE  Serves(a, Put(ChangeStatus(a, r.pipe, r.st), r, e, <<>>))
  <2> DEFINE x == ChangeStatus(a, r.pipe, r.st)
  <2>1. InOrder(a, r.pipe) /\ Settled(a, r.pipe)
    BY <1>3, Open
  <2>2. Moves(a, x, r.pipe)
    BY <1>3, <2>1, ChangeStatusMoves DEF WellAsked
  <2> HIDE DEF x
  <2>3. Serves(a, x)
    BY <1>3, <2>1, <2>2, Close DEF Moves, Serves
  <2>4. Serves(a, Put(x, r, e, <<>>))
    BY <2>3, PutSame, ServesSame, ServesFields
  <2> QED BY <2>4 DEF x
<1> QED BY <1>2, <1>3 DEF CmdSet, SetAnswer, Listed

LEMMA HandleServes ==
  ASSUME NEW a, InOrder(a, 0), NEW c, NEW r, WellAsked(r)
  PROVE  Serves(a, Handle(a, c, r))
<1>1. Formed(a) /\ Serves(a, a)
  BY DEF InOrder, Shaped, Serves
<1>2. Serves(a, CmdLock(a, c, r)) /\ Serves(a, CmdUnlock(a, c, r))
  BY <1>1, CmdLockSame, CmdUnlockSame, ServesSame
<1>3. Serves(a, CmdChans(a, r)) /\ Serves(a, CmdPipes(a, r))
  BY <1>1, PutSame, ServesSame DEF CmdChans, CmdPipes
<1>4. /\ Serves(a, CmdNew(a, r)) /\ Serves(a, CmdDel(a, r))
      /\ Serves(a, CmdSet(a, r))
  BY CmdNewServes, CmdDelServes, CmdSetServes
<1> QED BY <1>2, <1>3, <1>4 DEF Handle, WellAsked, Commands

LEMMA RcvMsgServes ==
  ASSUME NEW a, InOrder(a, 0), NEW c, NEW r, WellAsked(r)
  PROVE  Serves(a, RcvMsg(a, c, r))
<1> DEFINE x == Handle(a, c, r)
<1>1. Serves(a, x)
  BY HandleServes
<1> HIDE DEF x
<1>2. Same(x, FlushOut(x, c))
  BY <1>1, FlushOutSame, ServesFields
<1>3. Serves(a, FlushOut(x, c))
  BY <1>1, <1>2, ServesSame
<1>4. Same(FlushOut(x, c), McastFlush(FlushOut(x, c)))
  BY <1>2, McastFlushSame DEF Same
<1>5. Serves(a, McastFlush(FlushOut(x, c)))
  BY <1>3, <1>4, ServesSame
<1> QED BY <1>5 DEF RcvMsg, x

-----------------------------------------------------------------------------
(* The loops.                                                              *)

LEMMA Counting ==
  ASSUME NEW T, 0 \in T, \A n \in Nat : n \in T => n + 1 \in T
  PROVE  \A n \in Nat : n \in T
<1> DEFINE B == {n \in Nat : n \notin T}
<1>1. SUFFICES ASSUME B # {} PROVE FALSE
  OBVIOUS
<1>2. PICK m \in B : \A j \in B : m <= j
  <2>1. B \subseteq Nat
    OBVIOUS
  <2> HIDE DEF B
  <2> QED BY <1>1, <2>1, LeastNumber
<1>3. m \in Nat /\ m \notin T /\ m # 0
  OBVIOUS
<1>4. m - 1 \in Nat /\ m - 1 \notin B /\ (m - 1) + 1 = m
  BY <1>2, <1>3
<1> QED BY <1>3, <1>4

(* The n-th step of each loop.                                             *)
Stage(loop, s, a, n) ==
    CASE loop = "taken" -> Take(a, s.from, s.reqs[n])
      [] loop = "passed" -> RcvSkb(a, s.backlog[n])
      [] loop = "after" -> Pass(a)[Len(a.backlog)]

(* f is right for the first n steps.                                       *)
Runs(loop, s, b, n, f) ==
    f[0] = b /\ \A i \in 1 .. n : f[i] = Stage(loop, s, f[i - 1], i)

LEMMA RunsExist ==
  ASSUME NEW loop, NEW s, NEW b, NEW n \in Nat
  PROVE  \E f : Runs(loop, s, b, n, f)
<1> DEFINE T == {i \in Nat : \E f : Runs(loop, s, b, i, f)}
<1>1. 0 \in T
  <2>1. Runs(loop, s, b, 0, [i \in Nat |-> b])
    BY DEF Runs
  <2> QED BY <2>1
<1>2. ASSUME NEW m \in Nat, m \in T
      PROVE  m + 1 \in T
  <2>1. PICK f : Runs(loop, s, b, m, f)
    BY <1>2
  <2> DEFINE g == [i \in Nat |-> IF i = m + 1 THEN Stage(loop, s, f[m], m + 1)
                                 ELSE f[i]]
  <2>2. g[0] = b
    BY <2>1 DEF Runs
  <2>3. ASSUME NEW i \in 1 .. m + 1
        PROVE  g[i] = Stage(loop, s, g[i - 1], i)
    <3>1. i \in Nat /\ i - 1 \in Nat /\ i - 1 # m + 1
      OBVIOUS
    <3>2. g[i - 1] = f[i - 1]
      BY <3>1
    <3>3. CASE i = m + 1
      <4>1. i - 1 = m
        BY <3>3
      <4>2. g[i] = Stage(loop, s, f[m], m + 1)
        BY <3>1, <3>3
      <4> HIDE DEF g
      <4> QED BY <3>2, <3>3, <4>1, <4>2
    <3>4. CASE i # m + 1
      <4>1. i \in 1 .. m
        BY <3>4
      <4>2. f[i] = Stage(loop, s, f[i - 1], i)
        BY <2>1, <4>1 DEF Runs
      <4>3. g[i] = f[i]
        BY <3>1, <3>4
      <4> HIDE DEF g
      <4> QED BY <3>2, <4>2, <4>3
    <3> QED BY <3>3, <3>4
  <2> HIDE DEF g
  <2>4. Runs(loop, s, b, m + 1, g)
    BY <2>2, <2>3 DEF Runs
  <2> QED BY <2>4
<1> HIDE DEF T
<1>3. \A m \in Nat : m \in T
  BY <1>1, <1>2, Counting
<1> QED BY <1>3 DEF T

LEMMA RunsAgree ==
  ASSUME NEW loop, NEW s, NEW b, NEW m \in Nat, NEW f, NEW g,
         Runs(loop, s, b, m, f), Runs(loop, s, b, m + 1, g)
  PROVE  f[m] = g[m]
<1> DEFINE T == {i \in Nat : i <= m => f[i] = g[i]}
<1>1. 0 \in T
  BY DEF Runs
<1>2. ASSUME NEW i \in Nat, i \in T
      PROVE  i + 1 \in T
  <2>1. SUFFICES ASSUME i + 1 <= m PROVE f[i + 1] = g[i + 1]
    OBVIOUS
  <2>2. i + 1 \in 1 .. m /\ i + 1 \in 1 .. m + 1 /\ (i + 1) - 1 = i
    BY <2>1
  <2>3. f[i] = g[i]
    BY <1>2, <2>1
  <2>4. f[i + 1] = Stage(loop, s, f[i], i + 1)
    BY <2>2 DEF Runs
  <2>5. g[i + 1] = Stage(loop, s, g[i], i + 1)
    BY <2>2 DEF Runs
  <2> QED BY <2>3, <2>4, <2>5
<1> HIDE DEF T
<1>3. m \in T
  BY <1>1, <1>2, Counting
<1> QED BY <1>3 DEF T

(* So a loop has a function that counts its steps.                         *)
IsLoop(loop, s, b, g) ==
    g = [n \in Nat |-> IF n = 0 THEN b ELSE Stage(loop, s, g[n - 1], n)]

LEMMA Loops ==
  ASSUME NEW loop, NEW s, NEW b
  PROVE  \E g : IsLoop(loop, s, b, g)
<1> DEFINE h(n) == CHOOSE f : Runs(loop, s, b, n, f)
           G == [n \in Nat |-> h(n)[n]]
<1>1. ASSUME NEW n \in Nat
      PROVE  Runs(loop, s, b, n, h(n))
  BY RunsExist
<1> HIDE DEF h
<1>2. G[0] = b
  BY <1>1 DEF Runs
<1>3. ASSUME NEW n \in Nat, n # 0
      PROVE  G[n] = Stage(loop, s, G[n - 1], n)
  <2>1. n \in 1 .. n /\ n - 1 \in Nat /\ (n - 1) + 1 = n
    BY <1>3
  <2>2. h(n)[n] = Stage(loop, s, h(n)[n - 1], n)
    BY <1>1, <2>1 DEF Runs
  <2>3. h(n - 1)[n - 1] = h(n)[n - 1]
    <3>1. /\ Runs(loop, s, b, n - 1, h(n - 1))
          /\ Runs(loop, s, b, (n - 1) + 1, h(n))
      BY <1>1, <2>1
    <3>2. ASSUME NEW f, NEW g, Runs(loop, s, b, n - 1, f),
                 Runs(loop, s, b, (n - 1) + 1, g)
          PROVE  f[n - 1] = g[n - 1]
      BY <2>1, <3>2, RunsAgree
    <3> QED BY <3>1, <3>2
  <2>4. G[n] = h(n)[n] /\ G[n - 1] = h(n - 1)[n - 1]
    BY <2>1
  <2> HIDE DEF G
  <2> QED BY <2>2, <2>3, <2>4
<1>4. G = [n \in Nat |-> G[n]]
  OBVIOUS
<1> HIDE DEF G
<1>5. G = [n \in Nat |-> IF n = 0 THEN b ELSE Stage(loop, s, G[n - 1], n)]
  BY <1>2, <1>3, <1>4
<1> QED BY <1>5 DEF IsLoop

LEMMA TakenSteps ==
  ASSUME NEW a, NEW skb
  PROVE  /\ Taken(a, skb)[0] = [k |-> a, rest |-> <<>>]
         /\ \A n \in Nat : Taken(a, skb)[n + 1] =
                             Take(Taken(a, skb)[n], skb.from, skb.reqs[n + 1])
<1> DEFINE b == [k |-> a, rest |-> <<>>]
           R == Taken(a, skb)
<1>1. \A x, n : Stage("taken", skb, x, n) = Take(x, skb.from, skb.reqs[n])
  BY DEF Stage
<1>2. PICK h : IsLoop("taken", skb, b, h)
  BY Loops
<1>3. \E g : g = [n \in Nat |-> IF n = 0 THEN b
                                ELSE Take(g[n - 1], skb.from, skb.reqs[n])]
  BY <1>1, <1>2 DEF IsLoop
<1>4. R = [n \in Nat |-> IF n = 0 THEN b
                         ELSE Take(R[n - 1], skb.from, skb.reqs[n])]
  BY <1>3 DEF Taken
<1> HIDE DEF R
<1>5. ASSUME NEW n \in Nat
      PROVE  R[n + 1] = Take(R[n], skb.from, skb.reqs[n + 1])
  <2>1. n + 1 \in Nat /\ n + 1 # 0 /\ (n + 1) - 1 = n
    OBVIOUS
  <2> QED BY <1>4, <2>1
<1>6. R[0] = b
  BY <1>4
<1> QED BY <1>5, <1>6 DEF R

LEMMA PassSteps ==
  ASSUME NEW a
  PROVE  /\ Pass(a)[0] = [a EXCEPT !.backlog = <<>>]
         /\ \A n \in Nat :
              Pass(a)[n + 1] = RcvSkb(Pass(a)[n], a.backlog[n + 1])
<1> DEFINE b == [a EXCEPT !.backlog = <<>>]
           R == Pass(a)
<1>1. \A x, n : Stage("passed", a, x, n) = RcvSkb(x, a.backlog[n])
  BY DEF Stage
<1>2. PICK h : IsLoop("passed", a, b, h)
  BY Loops
<1>3. \E g : g = [n \in Nat |-> IF n = 0 THEN b
                                ELSE RcvSkb(g[n - 1], a.backlog[n])]
  BY <1>1, <1>2 DEF IsLoop
<1>4. R = [n \in Nat |-> IF n = 0 THEN b ELSE RcvSkb(R[n - 1], a.backlog[n])]
  BY <1>3 DEF Pass
<1> HIDE DEF R
<1>5. ASSUME NEW n \in Nat
      PROVE  R[n + 1] = RcvSkb(R[n], a.backlog[n + 1])
  <2>1. n + 1 \in Nat /\ n + 1 # 0 /\ (n + 1) - 1 = n
    OBVIOUS
  <2> QED BY <1>4, <2>1
<1>6. R[0] = b
  BY <1>4
<1> QED BY <1>5, <1>6 DEF R

LEMMA PassesSteps ==
  ASSUME NEW a
  PROVE  /\ Passes(a)[0] = a
         /\ \A n \in Nat : Passes(a)[n + 1] =
                             Pass(Passes(a)[n])[Len(Passes(a)[n].backlog)]
<1> DEFINE R == Passes(a)
<1>1. \A x, n : Stage("after", a, x, n) = Pass(x)[Len(x.backlog)]
  BY DEF Stage
<1>2. PICK h : IsLoop("after", a, a, h)
  BY Loops
<1>3. \E g : g = [n \in Nat |-> IF n = 0 THEN a
                                ELSE Pass(g[n - 1])[Len(g[n - 1].backlog)]]
  BY <1>1, <1>2 DEF IsLoop
<1>4. R = [n \in Nat |-> IF n = 0 THEN a
                         ELSE Pass(R[n - 1])[Len(R[n - 1].backlog)]]
  BY <1>3 DEF Passes
<1> HIDE DEF R
<1>5. ASSUME NEW n \in Nat
      PROVE  R[n + 1] = Pass(R[n])[Len(R[n].backlog)]
  <2>1. n + 1 \in Nat /\ n + 1 # 0 /\ (n + 1) - 1 = n
    OBVIOUS
  <2> QED BY <1>4, <2>1
<1>6. R[0] = a
  BY <1>4
<1> QED BY <1>5, <1>6 DEF R

-----------------------------------------------------------------------------
(* The requests of an sk_buff and the backlog.                             *)

(* The kernel between two calls.                                           *)
Fine(a) == InOrder(a, 0) /\ BacklogAsked(a.backlog)

LEMMA Longer ==
  ASSUME NEW s, NEW e, \E S : s \in Seq(S)
  PROVE  /\ \E S : Append(s, e) \in Seq(S)
         /\ Len(s) \in Nat /\ Len(Append(s, e)) = Len(s) + 1
         /\ \A i \in 1 .. Len(s) : Append(s, e)[i] = s[i]
         /\ Append(s, e)[Len(s) + 1] = e
<1>1. PICK S : s \in Seq(S)
  OBVIOUS
<1> DEFINE U == S \cup {e}
<1>2. s \in Seq(U) /\ e \in U
  <2>1. Len(s) \in Nat /\ s \in [1 .. Len(s) -> S]
    BY <1>1
  <2>2. s \in [1 .. Len(s) -> U]
    BY <2>1
  <2> QED BY <2>1, <2>2
<1> HIDE DEF U
<1>3. Append(s, e) \in Seq(U)
  BY <1>2
<1> QED BY <1>2, <1>3

LEMMA AskedLonger ==
  ASSUME NEW rs, NEW r, AllAsked(rs), WellAsked(r)
  PROVE  AllAsked(Append(rs, r))
<1>1. /\ \E S : Append(rs, r) \in Seq(S)
      /\ Len(rs) \in Nat /\ Len(Append(rs, r)) = Len(rs) + 1
      /\ \A i \in 1 .. Len(rs) : Append(rs, r)[i] = rs[i]
      /\ Append(rs, r)[Len(rs) + 1] = r
  BY Longer DEF AllAsked
<1>2. ASSUME NEW i \in 1 .. Len(rs) + 1
      PROVE  WellAsked(Append(rs, r)[i])
  <2>1. CASE i = Len(rs) + 1
    BY <1>1, <2>1
  <2>2. CASE i # Len(rs) + 1
    BY <1>1, <2>2 DEF AllAsked
  <2> QED BY <2>1, <2>2
<1> QED BY <1>1, <1>2 DEF AllAsked

LEMMA BacklogLonger ==
  ASSUME NEW b, NEW e, BacklogAsked(b), AllAsked(e.reqs)
  PROVE  BacklogAsked(Append(b, e))
<1>1. /\ \E S : Append(b, e) \in Seq(S)
      /\ Len(b) \in Nat /\ Len(Append(b, e)) = Len(b) + 1
      /\ \A i \in 1 .. Len(b) : Append(b, e)[i] = b[i]
      /\ Append(b, e)[Len(b) + 1] = e
  BY Longer DEF BacklogAsked
<1>2. ASSUME NEW i \in 1 .. Len(b) + 1
      PROVE  AllAsked(Append(b, e)[i].reqs)
  <2>1. CASE i = Len(b) + 1
    BY <1>1, <2>1
  <2>2. CASE i # Len(b) + 1
    BY <1>1, <2>2 DEF BacklogAsked
  <2> QED BY <2>1, <2>2
<1> QED BY <1>1, <1>2 DEF BacklogAsked

LEMMA Nothing ==
  AllAsked(<<>>) /\ BacklogAsked(<<>>)
<1>1. <<>> \in Seq({}) /\ Len(<<>>) = 0
  OBVIOUS
<1> QED BY <1>1 DEF AllAsked, BacklogAsked

(* What the loop over the requests holds after some of them.               *)
Taking(a, t) ==
    /\ DOMAIN t = {"k", "rest"}
    /\ Serves(a, t.k) /\ AllAsked(t.rest)

LEMMA TakeGood ==
  ASSUME NEW a, NEW t, Taking(a, t), NEW c, NEW r, WellAsked(r)
  PROVE  Taking(a, Take(t, c, r))
<1>1. AllAsked(Append(t.rest, r))
  BY AskedLonger DEF Taking
<1>2. Serves(a, RcvMsg(t.k, c, r))
  BY RcvMsgServes DEF Taking, Serves
<1> QED BY <1>1, <1>2 DEF Taking, Take

LEMMA RcvSkbFine ==
  ASSUME NEW a, Fine(a), NEW skb, AllAsked(skb.reqs)
  PROVE  Fine(RcvSkb(a, skb))
<1> DEFINE R == Taken(a, skb)
           T == {n \in Nat : n <= Len(skb.reqs) => Taking(a, R[n])}
<1>1. Len(skb.reqs) \in Nat
  BY DEF AllAsked
<1>2. R[0] = [k |-> a, rest |-> <<>>]
  BY TakenSteps
<1>3. \A n \in Nat : R[n + 1] = Take(R[n], skb.from, skb.reqs[n + 1])
  BY TakenSteps
<1> HIDE DEF R
<1>4. 0 \in T
  <2>1. Taking(a, R[0])
    BY <1>2, Nothing DEF Taking, Serves, Fine
  <2> QED BY <2>1
<1>5. ASSUME NEW n \in Nat, n \in T
      PROVE  n + 1 \in T
  <2>1. SUFFICES ASSUME n + 1 <= Len(skb.reqs) PROVE Taking(a, R[n + 1])
    OBVIOUS
  <2>2. n <= Len(skb.reqs) /\ n + 1 \in 1 .. Len(skb.reqs)
    BY <1>1, <2>1
  <2>3. Taking(a, R[n]) /\ WellAsked(skb.reqs[n + 1])
    BY <1>5, <2>2 DEF AllAsked
  <2> QED BY <1>3, <2>3, TakeGood
<1>6. Taking(a, R[Len(skb.reqs)])
  <2> HIDE DEF T
  <2>1. Len(skb.reqs) \in T
    BY <1>1, <1>4, <1>5, Counting
  <2> QED BY <1>1, <2>1 DEF T
<1> DEFINE end == R[Len(skb.reqs)]
           x == [from |-> skb.from, reqs |-> end.rest]
           b == [end.k EXCEPT !.backlog = Append(@, x)]
<1>7. RcvSkb(a, skb) = IF end.rest = <<>> THEN end.k ELSE b
  BY DEF RcvSkb, PutBack, R
<1> HIDE DEF end
<1>8. Serves(a, end.k) /\ AllAsked(end.rest) /\ BacklogAsked(a.backlog)
  BY <1>6 DEF Taking, Fine, end
<1>9. Formed(end.k) /\ InOrder(end.k, 0) /\ end.k.backlog = a.backlog
  BY <1>8, ServesFields
<1>10. x.reqs = end.rest
  OBVIOUS
<1> HIDE DEF x
<1>11. /\ Formed(b) /\ b.backlog = Append(end.k.backlog, x)
       /\ b.chans = end.k.chans /\ b.driver = end.k.driver
       /\ b.pipe = end.k.pipe /\ b.pipes = end.k.pipes
       /\ b.nextid = end.k.nextid /\ b.on = end.k.on /\ b.left = end.k.left
  BY <1>9 DEF KernelFields, Formed
<1> HIDE DEF b
<1>12. InOrder(b, 0)
  BY <1>9, <1>11 DEF InOrder, Shaped, Tied, Kept, True, LevelOf, Members
<1>13. BacklogAsked(b.backlog)
  BY <1>8, <1>9, <1>10, <1>11, BacklogLonger
<1> QED BY <1>7, <1>8, <1>9, <1>12, <1>13 DEF Fine

LEMMA PassFine ==
  ASSUME NEW a, Fine(a)
  PROVE  Fine(Pass(a)[Len(a.backlog)])
<1> DEFINE R == Pass(a)
           T == {n \in Nat : n <= Len(a.backlog) => Fine(R[n])}
           b == [a EXCEPT !.backlog = <<>>]
<1>1. Len(a.backlog) \in Nat
  BY DEF Fine, BacklogAsked
<1>2. R[0] = b /\ \A n \in Nat : R[n + 1] = RcvSkb(R[n], a.backlog[n + 1])
  BY PassSteps
<1> HIDE DEF R
<1>3. /\ Formed(b) /\ b.backlog = <<>>
      /\ b.chans = a.chans /\ b.driver = a.driver
      /\ b.pipe = a.pipe /\ b.pipes = a.pipes
      /\ b.nextid = a.nextid /\ b.on = a.on /\ b.left = a.left
  BY DEF KernelFields, Formed, Fine, InOrder, Shaped
<1> HIDE DEF b
<1>4. 0 \in T
  <2>1. InOrder(b, 0)
    BY <1>3 DEF Fine, InOrder, Shaped, Tied, Kept, True, LevelOf, Members
  <2>2. Fine(b)
    BY <1>3, <2>1, Nothing DEF Fine
  <2> QED BY <1>2, <2>2
<1>5. ASSUME NEW n \in Nat, n \in T
      PROVE  n + 1 \in T
  <2>1. SUFFICES ASSUME n + 1 <= Len(a.backlog) PROVE Fine(R[n + 1])
    OBVIOUS
  <2>2. n <= Len(a.backlog) /\ n + 1 \in 1 .. Len(a.backlog)
    BY <1>1, <2>1
  <2>3. Fine(R[n]) /\ AllAsked(a.backlog[n + 1].reqs)
    BY <1>5, <2>2 DEF Fine, BacklogAsked
  <2> QED BY <1>2, <2>3, RcvSkbFine
<1> HIDE DEF T
<1>6. Len(a.backlog) \in T
  BY <1>1, <1>4, <1>5, Counting
<1> QED BY <1>1, <1>6 DEF T, R

LEMMA RcvFine ==
  ASSUME NEW a, Fine(a), NEW skb, AllAsked(skb.reqs)
  PROVE  Fine(Rcv(a, skb))
<1> DEFINE x == RcvSkb(a, skb)
           R == Passes(x)
           T == {n \in Nat : Fine(R[n])}
<1>1. Fine(x)
  BY RcvSkbFine
<1> HIDE DEF x
<1>2. R[0] = x /\ \A n \in Nat : R[n + 1] = Pass(R[n])[Len(R[n].backlog)]
  BY PassesSteps
<1> HIDE DEF R
<1>3. 0 \in T
  BY <1>1, <1>2
<1>4. ASSUME NEW n \in Nat, n \in T
      PROVE  n + 1 \in T
  <2>1. Fine(R[n])
    BY <1>4
  <2>2. Fine(Pass(R[n])[Len(R[n].backlog)])
    BY <2>1, PassFine
  <2> QED BY <1>2, <2>2
<1>5. Len(x.backlog) \in Nat
  BY <1>1 DEF Fine, BacklogAsked
<1> HIDE DEF T
<1>6. Len(x.backlog) \in T
  BY <1>3, <1>4, <1>5, Counting
<1> QED BY <1>6 DEF T, R, x, Rcv, ProcessBacklog

-----------------------------------------------------------------------------
(* The drivers.                                                            *)

LEMMA SameFine ==
  ASSUME NEW a, NEW b, Same(a, b), Fine(a)
  PROVE  Fine(b)
BY SameKeeps DEF Fine, Same

(* The list of channels changes, where no pipeline is concerned.           *)
LEMMA ChansFine ==
  ASSUME NEW a, Fine(a), NEW C, C \subseteq Chans,
         \A ch \in Chans : a.pipe[ch] # 0 => ch \in C
  PROVE  Fine([a EXCEPT !.chans = C])
<1> DEFINE b == [a EXCEPT !.chans = C]
<1>1. /\ Formed(b) /\ b.chans = C /\ b.driver = a.driver
      /\ b.pipe = a.pipe /\ b.pipes = a.pipes /\ b.backlog = a.backlog
      /\ b.nextid = a.nextid /\ b.on = a.on /\ b.left = a.left
  BY DEF KernelFields, Formed, Fine, InOrder, Shaped
<1> HIDE DEF b
<1>2. Shaped(b) /\ Kept(b, 0) /\ True(b)
  BY <1>1 DEF Fine, InOrder, Shaped, Kept, True, LevelOf
<1>3. Tied(b)
  BY <1>1 DEF Fine, InOrder, Tied, Members
<1> QED BY <1>1, <1>2, <1>3 DEF Fine, InOrder, b

LEMMA ToldFine ==
  ASSUME NEW a, Fine(a), NEW t, NEW o, NEW s
  PROVE  Fine(McastFlush(McastSend(a, t, o, s)))
<1>1. Same(a, McastSend(a, t, o, s))
  BY McastSendSame DEF Fine, InOrder, Shaped
<1>2. Same(a, McastFlush(McastSend(a, t, o, s)))
  BY <1>1, McastFlushSame, SameChain DEF Same
<1> QED BY <1>2, SameFine

LEMMA RegisterChanFine ==
  ASSUME NEW a, Fine(a), NEW ch \in Chans
  PROVE  Fine(RegisterChan(a, ch))
<1>1. Fine([a EXCEPT !.chans = a.chans \cup {ch}])
  <2>1. a.chans \cup {ch} \subseteq Chans
    BY DEF Fine, InOrder, Shaped
  <2>2. \A d \in Chans : a.pipe[d] # 0 => d \in a.chans \cup {ch}
    BY DEF Fine, InOrder, Tied
  <2> QED BY <2>1, <2>2, ChansFine
<1> QED BY <1>1, ToldFine DEF RegisterChan

LEMMA UnregisterChanFine ==
  ASSUME NEW a, Fine(a), NEW ch \in Chans
  PROVE  Fine(UnregisterChan(a, ch))
<1> DEFINE x == IF a.pipe[ch] = 0 THEN a ELSE UnregisterPipeline(a, a.pipe[ch])
<1>1. Fine(x) /\ x.pipe[ch] = 0
  <2>1. CASE a.pipe[ch] = 0
    BY <2>1
  <2>2. CASE a.pipe[ch] # 0
    <3> DEFINE p == a.pipe[ch]
               y == UnregisterPipeline(a, p)
    <3>1. p \in Ids
      BY <2>2 DEF Fine, InOrder, Shaped, Ids
    <3>2. /\ Serves(a, y) /\ y.pipes[p].chans = <<>>
          /\ y.pipe[ch] \in {p, 0}
      BY <3>1, UnregisterServes DEF Fine
    <3> HIDE DEF y
    <3>3. Members(y, p) = {}
      BY <3>2, NoMembers
    <3>4. y.pipe[ch] # p
      BY <3>1, <3>2, <3>3 DEF Serves, InOrder, Tied
    <3>5. Fine(y)
      BY <3>2 DEF Serves, Fine
    <3>6. x = y
      BY <2>2 DEF y
    <3> HIDE DEF x
    <3> QED BY <3>2, <3>4, <3>5, <3>6
  <2> QED BY <2>1, <2>2
<1> HIDE DEF x
<1>2. Fine([x EXCEPT !.chans = x.chans \ {ch}])
  <2>1. x.chans \ {ch} \subseteq Chans
    BY <1>1 DEF Fine, InOrder, Shaped
  <2>2. \A d \in Chans : x.pipe[d] # 0 => d \in x.chans \ {ch}
    BY <1>1 DEF Fine, InOrder, Tied
  <2> QED BY <1>1, <2>1, <2>2, ChansFine
<1> QED BY <1>2, ToldFine DEF UnregisterChan, x

LEMMA LockTimeoutFine ==
  ASSUME NEW a, Fine(a)
  PROVE  Fine(LockTimeout(a))
<1> DEFINE x == [a EXCEPT !.owner = None, !.depth = 0, !.timer = FALSE]
<1>1. Same(a, x)
  BY DEF Same, KernelFields, Formed, Fine, InOrder, Shaped
<1> HIDE DEF x
<1>2. Same(x, WakeUp(x))
  BY <1>1, WakeUpSame DEF Same
<1> QED BY <1>1, <1>2, SameFine DEF LockTimeout, x

(* What the driver waits for.                                              *)
LEMMA DriverFine ==
  ASSUME NEW a, Fine(a), NEW pc, NEW ch \in Chans
  PROVE  Fine([a EXCEPT !.driver = [pc |-> pc, chan |-> ch]])
<1> DEFINE d == [pc |-> pc, chan |-> ch]
           b == [a EXCEPT !.driver = d]
<1>1. DOMAIN d = {"pc", "chan"} /\ d.chan = ch
  OBVIOUS
<1> HIDE DEF d
<1>2. /\ Formed(b) /\ b.chans = a.chans /\ b.driver = d
      /\ b.pipe = a.pipe /\ b.pipes = a.pipes /\ b.backlog = a.backlog
      /\ b.nextid = a.nextid /\ b.on = a.on /\ b.left = a.left
  BY <1>1 DEF KernelFields, Formed, Fine, InOrder, Shaped
<1> HIDE DEF b
<1>3. Shaped(b) /\ Kept(b, 0) /\ True(b) /\ Tied(b)
  BY <1>1, <1>2 DEF Fine, InOrder, Shaped, Kept, True, LevelOf, Tied, Members
<1> QED BY <1>2, <1>3 DEF Fine, InOrder, b, d

LEMMA IdleFine ==
  ASSUME NEW a, Fine(a)
  PROVE  Fine([a EXCEPT !.driver = [pc |-> "idle", chan |-> None]])
<1> DEFINE d == [pc |-> "idle", chan |-> None]
           b == [a EXCEPT !.driver = d]
<1>1. DOMAIN d = {"pc", "chan"} /\ d.pc = "idle"
  OBVIOUS
<1> HIDE DEF d
<1>2. /\ Formed(b) /\ b.chans = a.chans /\ b.driver = d
      /\ b.pipe = a.pipe /\ b.pipes = a.pipes /\ b.backlog = a.backlog
      /\ b.nextid = a.nextid /\ b.on = a.on /\ b.left = a.left
  BY <1>1 DEF KernelFields, Formed, Fine, InOrder, Shaped
<1> HIDE DEF b
<1>3. Shaped(b) /\ Kept(b, 0) /\ True(b) /\ Tied(b)
  BY <1>1, <1>2 DEF Fine, InOrder, Shaped, Kept, True, LevelOf, Tied, Members
<1> QED BY <1>2, <1>3 DEF Fine, InOrder, b, d

-----------------------------------------------------------------------------
(* The processes.                                                          *)

(* What a process has to send are requests the kernel knows.               *)
Asks(l) == DOMAIN l = LibFields /\ AllAsked(l.tx)

(* Its requests are left alone.                                            *)
Quiet(l, m) == DOMAIN m = LibFields /\ m.tx = l.tx

LEMMA QuietAsks ==
  ASSUME NEW l, NEW m, Asks(l), Quiet(l, m)
  PROVE  Asks(m)
BY DEF Asks, Quiet

LEMMA AskAsks ==
  ASSUME NEW l, Asks(l), NEW pc, NEW t \in Commands
  PROVE  Asks(Ask(l, pc, t))
<1> DEFINE r == Req(t, l.n + 1)
           m == Ask(l, pc, t)
<1>1. WellAsked(r)
  <2>1. <<>> \in Seq(Chans)
    OBVIOUS
  <2>2. r.type = t /\ r.chans = <<>> /\ r.st = 0
    BY DEF Req
  <2> HIDE DEF r
  <2> QED BY <2>1, <2>2 DEF WellAsked, Status
<1>2. DOMAIN m = LibFields /\ m.tx = Append(l.tx, r)
  BY DEF Ask, Asks, LibFields
<1> HIDE DEF r, m
<1>3. Asks(m)
  BY <1>1, <1>2, AskedLonger DEF Asks
<1> QED BY <1>3 DEF m

LEMMA AskAboutAsks ==
  ASSUME NEW l, Asks(l), NEW pc, NEW t \in Commands, NEW p,
         NEW st \in Status, NEW s \in Seq(Chans)
  PROVE  Asks(AskAbout(l, pc, t, p, st, s))
<1> DEFINE r == [Req(t, l.n + 1) EXCEPT !.pipe = p, !.st = st, !.chans = s]
           x == Ask(l, pc, t)
           m == AskAbout(l, pc, t, p, st, s)
<1>1. WellAsked(r)
  <2>1. r.type = t /\ r.chans = s /\ r.st = st
    BY DEF Req
  <2> HIDE DEF r
  <2> QED BY <2>1 DEF WellAsked
<1>2. DOMAIN x = LibFields
  BY AskAsks DEF Asks
<1> HIDE DEF r, x
<1>3. m = [x EXCEPT !.tx = Append(l.tx, r)]
  BY DEF AskAbout, r, x
<1>4. DOMAIN m = LibFields /\ m.tx = Append(l.tx, r)
  BY <1>2, <1>3 DEF LibFields
<1> HIDE DEF m
<1>5. Asks(m)
  BY <1>1, <1>4, AskedLonger DEF Asks
<1> QED BY <1>5 DEF m

LEMMA ReceiveAsks ==
  ASSUME NEW l, Asks(l), NEW skb
  PROVE  Asks(Receive(l, skb)) /\ Asks(Complete(l, skb))
BY DEF Asks, Receive, Complete, LibFields

LEMMA ReturnAsks ==
  ASSUME NEW l, Asks(l)
  PROVE  Asks(Return(l))
BY DEF Asks, Return, LibFields

LEMMA SyncFailedAsks ==
  ASSUME NEW l, Asks(l)
  PROVE  Asks(SyncFailed(l))
<1> DEFINE m == [l EXCEPT !.top.st = "INVALID", !.need = {}, !.res = <<>>]
<1>1. Asks(m)
  BY DEF Asks, LibFields
<1> HIDE DEF m
<1>2. "UNLOCK" \in Commands
  BY DEF Commands
<1>3. Asks(Ask(m, "give up", "UNLOCK"))
  BY <1>1, <1>2, AskAsks
<1> QED BY <1>3 DEF SyncFailed, m

-----------------------------------------------------------------------------
(* The steps.                                                              *)

Invariant ==
    Fine(k) /\ DOMAIN lib = Clients /\ \A c \in Clients : Asks(lib[c])

(* Of the processes only c takes a step.                                   *)
Only(c) == \E m : Asks(m) /\ lib' = [lib EXCEPT ![c] = m]

LEMMA OnlyKeeps ==
  ASSUME Invariant, NEW c \in Clients, Only(c), Fine(k')
  PROVE  Invariant'
<1>1. PICK m : Asks(m) /\ lib' = [lib EXCEPT ![c] = m]
  BY DEF Only
<1>2. DOMAIN lib' = Clients /\ \A d \in Clients : Asks(lib'[d])
  BY <1>1 DEF Invariant
<1> QED BY <1>2 DEF Invariant

LEMMA InitInvariant == Init => Invariant
<1> SUFFICES ASSUME Init PROVE Invariant
  OBVIOUS
<1>1. /\ k.chans = Chans /\ k.pipe = [c \in Chans |-> 0]
      /\ k.pipes = [p \in Ids |-> NoPipe] /\ k.nextid = 1
      /\ k.on = [c \in Chans |-> {}] /\ k.left = {} /\ k.backlog = <<>>
      /\ k.driver = [pc |-> "idle", chan |-> None]
      /\ DOMAIN k = KernelFields
  BY DEF Init, InitKernel, KernelFields
<1>2. Formed(k)
  BY <1>1 DEF Formed
<1>3. /\ NoPipe \in Pipes /\ ~NoPipe.reg /\ NoPipe.st = 0
      /\ NoPipe.chans = <<>>
  <2>1. <<>> \in Seq(Chans)
    OBVIOUS
  <2> QED BY <2>1 DEF NoPipe, Pipes, Status
<1>4. 0 \in 0 .. MaxPipes /\ 1 \in 1 .. MaxPipes + 1
  BY SizesAssumption
<1>5. k.pipes \in [Ids -> Pipes] /\ \A p \in Ids : k.pipes[p] = NoPipe
  BY <1>1, <1>3
<1>6. k.driver.pc = "idle"
  BY <1>1
<1>7. Shaped(k)
  BY <1>1, <1>2, <1>4, <1>5, <1>6 DEF Shaped
<1>8. \A p \in Ids : Members(k, p) = {}
  BY <1>3, <1>5, NoMembers
<1>9. Tied(k)
  BY <1>1, <1>8 DEF Tied, Ids
<1>10. Kept(k, 0)
  BY <1>3, <1>5 DEF Kept
<1>11. True(k)
  BY <1>1 DEF True, LevelOf
<1>12. Fine(k)
  BY <1>1, <1>7, <1>9, <1>10, <1>11, Nothing DEF Fine, InOrder
<1>13. Asks(InitLib)
  BY Nothing DEF Asks, InitLib, LibFields
<1>14. DOMAIN lib = Clients /\ \A c \in Clients : lib[c] = InitLib
  BY DEF Init
<1> QED BY <1>12, <1>13, <1>14 DEF Invariant

LEMMA TookAsks ==
  ASSUME Invariant, NEW c \in Clients
  PROVE  Asks(lib[c]) /\ Asks(Took(c))
<1>1. Asks(lib[c])
  BY DEF Invariant
<1> QED BY <1>1 DEF Asks, Took, LibFields

(* The user thread asks for the lock, the lists, a pipeline.               *)
LEMMA SyncSteps ==
  ASSUME Invariant, NEW c \in Clients,
         \/ SyncStart(c) \/ SyncLocked(c) \/ SyncChans(c) \/ SyncPipes(c)
         \/ SyncUnlocked(c)
  PROVE  Only(c) /\ k' = k
<1>0. /\ "LOCK" \in Commands /\ "UNLOCK" \in Commands
      /\ "CHAN_GET" \in Commands /\ "PIPELINE_GET" \in Commands
  BY DEF Commands
<1>1. Asks(lib[c]) /\ Asks(Took(c))
  BY TookAsks
<1>2. Asks(Return(Took(c))) /\ Asks(SyncFailed(Took(c)))
  BY <1>1, ReturnAsks, SyncFailedAsks
<1>3. CASE SyncStart(c)
  <2>1. Asks(Ask(lib[c], "sync lock", "LOCK"))
    BY <1>0, <1>1, AskAsks
  <2> QED BY <1>3, <2>1 DEF SyncStart, UserStep, Only
<1>4. CASE SyncLocked(c)
  <2> DEFINE x == [Took(c) EXCEPT
                     !.top = [InitMirror EXCEPT !.st = "SYNCING",
                                                !.mseq = lib[c].top.mseq]]
             y == Ask(x, "sync chans", "CHAN_GET")
             z == Ask(y, "sync chans", "PIPELINE_GET")
  <2>1. Asks(x)
    BY <1>1 DEF Asks, LibFields
  <2>2. Asks(y)
    BY <1>0, <2>1, AskAsks
  <2>3. Asks(z)
    BY <1>0, <2>2, AskAsks
  <2>4. UserStep(c, IF Failed(c) THEN Return(Took(c)) ELSE z)
    BY <1>4 DEF SyncLocked
  <2> HIDE DEF z
  <2> QED BY <1>2, <2>3, <2>4 DEF UserStep, Only
<1>5. CASE SyncChans(c)
  <2> DEFINE x == [Took(c) EXCEPT !.pc = "sync pipes",
                                  !.top.chans = Reverse(Data(c)) \o @]
  <2>1. Asks(x)
    BY <1>1 DEF Asks, LibFields
  <2>2. UserStep(c, IF Failed(c) THEN SyncFailed(Took(c)) ELSE x)
    BY <1>5 DEF SyncChans
  <2> HIDE DEF x
  <2> QED BY <1>2, <2>1, <2>2 DEF UserStep, Only
<1>6. CASE SyncPipes(c)
  <2> DEFINE new(m, p) ==
                  IF Known(m, p.id) THEN m ELSE AddPipe(m, p.id, p.chans)
             x == [Took(c) EXCEPT
                     !.top =
                        [FoldLeft(new, @, Data(c)) EXCEPT !.st = "SYNCHED"]]
             y == Ask(x, "sync unlock", "UNLOCK")
  <2>1. UserStep(c, IF Failed(c) THEN SyncFailed(Took(c)) ELSE y)
    BY <1>6 DEF SyncPipes
  <2>2. ASSUME NEW t PROVE Asks([Took(c) EXCEPT !.top = t])
    BY <1>1 DEF Asks, LibFields
  <2>3. Asks(x)
    BY <2>2
  <2> HIDE DEF x
  <2>4. Asks(y)
    BY <1>0, <2>3, AskAsks
  <2> HIDE DEF y
  <2> QED BY <1>2, <2>1, <2>4 DEF UserStep, Only
<1>7. CASE SyncUnlocked(c)
  BY <1>2, <1>7 DEF SyncUnlocked, UserStep, Only
<1> QED BY <1>3, <1>4, <1>5, <1>6, <1>7

LEMMA ConnectSteps ==
  ASSUME Invariant, NEW c \in Clients,
         \/ Connect(c) \/ ConnectLocked(c) \/ ConnectCreated(c)
         \/ ConnectUnlocked(c) \/ ConnectStarted(c) \/ GaveUp(c)
  PROVE  Only(c) /\ k' = k
<1>0. /\ "LOCK" \in Commands /\ "UNLOCK" \in Commands
      /\ "PIPELINE_NEW" \in Commands /\ "PIPELINE_SET" \in Commands
      /\ 0 \in Status /\ 3 \in Status /\ <<>> \in Seq(Chans)
  BY DEF Commands, Status
<1>1. Asks(lib[c]) /\ Asks(Took(c))
  BY TookAsks
<1>2. Asks(Return(Took(c))) /\ Asks(Ask(Took(c), "give up", "UNLOCK"))
  BY <1>0, <1>1, ReturnAsks, AskAsks
<1>3. CASE Connect(c)
  <2> DEFINE x == [lib[c] EXCEPT !.jobs = @ + 1]
  <2>1. Asks(x)
    BY <1>1 DEF Asks, LibFields
  <2>2. UserStep(c, Ask(x, "lock", "LOCK"))
    BY <1>3 DEF Connect
  <2> HIDE DEF x
  <2>3. Asks(Ask(x, "lock", "LOCK"))
    BY <1>0, <2>1, AskAsks
  <2> QED BY <2>2, <2>3 DEF UserStep, Only
<1>4. CASE ConnectLocked(c)
  <2>1. CASE UserStep(c, Return(Took(c)))
    BY <1>2, <2>1 DEF UserStep, Only
  <2>2. CASE \E s \in Routes :
               UserStep(c, AskAbout([Took(c) EXCEPT !.route = s], "create",
                                    "PIPELINE_NEW", 0, 0, s))
    <3>1. PICK s \in Routes :
               UserStep(c, AskAbout([Took(c) EXCEPT !.route = s], "create",
                                    "PIPELINE_NEW", 0, 0, s))
      BY <2>2
    <3> DEFINE x == [Took(c) EXCEPT !.route = s]
    <3>2. Asks(x)
      BY <1>1 DEF Asks, LibFields
    <3> HIDE DEF x
    <3>3. s \in Seq(Chans)
      BY RoutesAssumption
    <3>4. Asks(AskAbout(x, "create", "PIPELINE_NEW", 0, 0, s))
      BY <1>0, <3>2, <3>3, AskAboutAsks
    <3> QED BY <3>1, <3>4 DEF UserStep, Only, x
  <2>3. CASE UserStep(c, Ask(Took(c), "give up", "UNLOCK"))
    BY <1>2, <2>3 DEF UserStep, Only
  <2> QED BY <1>4, <2>1, <2>2, <2>3 DEF ConnectLocked
<1>5. CASE ConnectCreated(c)
  <2> DEFINE x == [Took(c) EXCEPT !.mine = Data(c)[1],
                                  !.top = AddPipe(@, Data(c)[1], lib[c].route)]
             y == Ask(x, "unlock", "UNLOCK")
  <2>1. UserStep(c, IF Failed(c) THEN Ask(Took(c), "give up", "UNLOCK") ELSE y)
    BY <1>5 DEF ConnectCreated
  <2>2. Asks(x)
    BY <1>1 DEF Asks, LibFields
  <2> HIDE DEF x
  <2>3. Asks(y)
    BY <1>0, <2>2, AskAsks
  <2> HIDE DEF y
  <2> QED BY <1>2, <2>1, <2>3 DEF UserStep, Only
<1>6. CASE ConnectUnlocked(c)
  <2>1. Asks(AskAbout(Took(c), "start", "PIPELINE_SET", lib[c].mine, 3, <<>>))
    BY <1>0, <1>1, AskAboutAsks
  <2> QED BY <1>6, <2>1 DEF ConnectUnlocked, UserStep, Only
<1>7. CASE ConnectStarted(c)
  <2> DEFINE x == [Took(c) EXCEPT !.mine = 0]
             y == Ask(x, "give up", "UNLOCK")
  <2>1. UserStep(c, IF Failed(c) THEN y ELSE Return(Took(c)))
    BY <1>7 DEF ConnectStarted
  <2>2. Asks(x)
    BY <1>1 DEF Asks, LibFields
  <2> HIDE DEF x
  <2>3. Asks(y)
    BY <1>0, <2>2, AskAsks
  <2> HIDE DEF y
  <2> QED BY <1>2, <2>1, <2>3 DEF UserStep, Only
<1>8. CASE GaveUp(c)
  BY <1>2, <1>8 DEF GaveUp, UserStep, Only
<1> QED BY <1>3, <1>4, <1>5, <1>6, <1>7, <1>8

LEMMA DisconnectSteps ==
  ASSUME Invariant, NEW c \in Clients,
         \/ Disconnect(c) \/ DisconnectStopped(c) \/ Destroy(c)
         \/ Destroyed(c)
  PROVE  Only(c) /\ k' = k
<1>0. /\ "PIPELINE_SET" \in Commands /\ "PIPELINE_DEL" \in Commands
      /\ 0 \in Status /\ 1 \in Status /\ <<>> \in Seq(Chans)
  BY DEF Commands, Status
<1>1. Asks(lib[c]) /\ Asks(Took(c))
  BY TookAsks
<1>2. Asks(Return([Took(c) EXCEPT !.mine = 0]))
  <2> DEFINE x == [Took(c) EXCEPT !.mine = 0]
  <2>1. Asks(x)
    BY <1>1 DEF Asks, LibFields
  <2> HIDE DEF x
  <2>2. Asks(Return(x))
    BY <2>1, ReturnAsks
  <2> QED BY <2>2 DEF x
<1>3. CASE Disconnect(c)
  <2>1. Asks(AskAbout(lib[c], "stop", "PIPELINE_SET", lib[c].mine, 1, <<>>))
    BY <1>0, <1>1, AskAboutAsks
  <2> QED BY <1>3, <2>1 DEF Disconnect, UserStep, Only
<1>4. CASE DisconnectStopped(c)
  <2> DEFINE x == Return([Took(c) EXCEPT !.mine = 0])
             y == AskAbout(Took(c), "destroy", "PIPELINE_DEL", lib[c].mine, 0,
                           <<>>)
  <2>1. UserStep(c, IF Failed(c) THEN x ELSE y)
    BY <1>4 DEF DisconnectStopped
  <2>2. Asks(y)
    BY <1>0, <1>1, AskAboutAsks
  <2>3. Asks(x)
    BY <1>2
  <2> HIDE DEF x, y
  <2> QED BY <2>1, <2>2, <2>3 DEF UserStep, Only
<1>5. CASE Destroy(c)
  <2>1. PICK i \in DOMAIN lib[c].top.pipes :
          UserStep(c, AskAbout([lib[c] EXCEPT !.jobs = @ + 1], "destroy",
                               "PIPELINE_DEL", lib[c].top.pipes[i].id, 0, <<>>))
    BY <1>5 DEF Destroy
  <2> DEFINE x == [lib[c] EXCEPT !.jobs = @ + 1]
  <2>2. Asks(x)
    BY <1>1 DEF Asks, LibFields
  <2> HIDE DEF x
  <2>3. Asks(AskAbout(x, "destroy", "PIPELINE_DEL", lib[c].top.pipes[i].id, 0,
                      <<>>))
    BY <1>0, <2>2, AskAboutAsks
  <2> QED BY <2>1, <2>3 DEF UserStep, Only, x
<1>6. CASE Destroyed(c)
  BY <1>2, <1>6 DEF Destroyed, UserStep, Only
<1> QED BY <1>3, <1>4, <1>5, <1>6

(* A message is received, requests are sent, one times out.                *)
LEMMA ProtocolSteps ==
  ASSUME Invariant, NEW c \in Clients, Protocol(c) \/ RequestTimeout(c)
  PROVE  Only(c) /\ Fine(k')
<1>1. Fine(k) /\ Asks(lib[c]) /\ c \in DOMAIN lib
  BY DEF Invariant
<1>2. CASE ProtocolReceive(c)
  <2>1. Asks(Receive(lib[c], Head(k.rx[c])))
    BY <1>1, ReceiveAsks
  <2>2. Only(c)
    BY <1>2, <2>1 DEF ProtocolReceive, Only
  <2>3. Same(k, k')
    BY <1>1, <1>2 DEF ProtocolReceive, Same, KernelFields, Formed, Fine,
                      InOrder, Shaped
  <2> QED BY <1>1, <2>2, <2>3, SameFine
<1>3. CASE ProtocolSend(c)
  <2> DEFINE skb == [from |-> c, reqs |-> lib[c].tx]
             m == [lib[c] EXCEPT !.tx = <<>>]
  <2>1. AllAsked(skb.reqs)
    BY <1>1 DEF Asks
  <2>2. k' = Rcv(k, skb)
    BY <1>3 DEF ProtocolSend
  <2> HIDE DEF skb
  <2>3. Fine(k')
    BY <1>1, <2>1, <2>2, RcvFine
  <2>4. Asks(m)
    BY <1>1, Nothing DEF Asks, LibFields
  <2>5. lib' = [lib EXCEPT ![c] = m]
    BY <1>3 DEF ProtocolSend
  <2> HIDE DEF m
  <2> QED BY <2>3, <2>4, <2>5 DEF Only
<1>4. CASE RequestTimeout(c)
  <2>1. k' = k
    BY <1>4 DEF RequestTimeout
  <2>2. PICK id \in lib[c].need :
          lib' = [lib EXCEPT ![c] = Complete(@, Answer(id, "ETIMEDOUT", <<>>))]
    BY <1>4 DEF RequestTimeout
  <2>3. Asks(Complete(lib[c], Answer(id, "ETIMEDOUT", <<>>)))
    BY <1>1, ReceiveAsks
  <2> QED BY <1>1, <2>1, <2>2, <2>3 DEF Only
<1> QED BY <1>2, <1>3, <1>4 DEF Protocol

LEMMA CrashStep ==
  ASSUME Invariant, NEW c \in Clients, Crash(c)
  PROVE  Only(c) /\ Fine(k')
<1> DEFINE m == [InitLib EXCEPT !.pc = "dead"]
<1>1. Asks(m)
  BY Nothing DEF Asks, InitLib, LibFields
<1>2. lib' = [lib EXCEPT ![c] = m]
  BY DEF Crash
<1> HIDE DEF m
<1>3. Same(k, k')
  BY DEF Crash, Same, KernelFields, Formed, Fine, InOrder, Shaped, Invariant
<1> QED BY <1>1, <1>2, <1>3, SameFine DEF Only, Invariant

(* The timer, the driver and the losses.                                   *)
LEMMA KernelSteps ==
  ASSUME Invariant,
         \/ BreakLock \/ DriverCall \/ DriverSleeps \/ DriverWakes
         \/ DriverRefuses \/ \E c \in Clients : LoseMulticast(c)
  PROVE  Fine(k') /\ lib' = lib
<1>1. Fine(k) /\ Formed(k)
  BY DEF Invariant, Fine, InOrder, Shaped
<1>2. ASSUME NEW ch \in Chans PROVE Fine(Plug(ch))
  BY <1>1, RegisterChanFine, UnregisterChanFine DEF Plug
<1>3. CASE BreakLock
  BY <1>1, <1>3, LockTimeoutFine DEF BreakLock
<1>4. CASE DriverCall
  <2>1. PICK ch \in Chans :
          k' = IF k.owner = None THEN Plug(ch)
               ELSE [k EXCEPT !.driver = [pc |-> "checked", chan |-> ch]]
    BY <1>4 DEF DriverCall
  <2>2. Fine([k EXCEPT !.driver = [pc |-> "checked", chan |-> ch]])
    BY <1>1, DriverFine
  <2>3. Fine(k')
    BY <1>2, <2>1, <2>2
  <2> QED BY <1>4, <2>3 DEF DriverCall
<1>5. CASE DriverSleeps
  <2>1. Same(k, k')
    BY <1>1, <1>5 DEF DriverSleeps, Same, KernelFields, Formed
  <2> QED BY <1>1, <1>5, <2>1, SameFine DEF DriverSleeps
<1>6. CASE DriverWakes
  <2>1. k.driver.chan \in Chans
    BY <1>1, <1>6 DEF DriverWakes, Fine, InOrder, Shaped
  <2> DEFINE x == Plug(k.driver.chan)
  <2>2. Fine(x)
    BY <1>2, <2>1
  <2>3. k' = IF k.owner = None
             THEN [x EXCEPT !.driver = [pc |-> "idle", chan |-> None]]
             ELSE [k EXCEPT !.driver.pc = "checked"]
    BY <1>6 DEF DriverWakes
  <2> HIDE DEF x
  <2>4. Fine([x EXCEPT !.driver = [pc |-> "idle", chan |-> None]])
    BY <2>2, IdleFine
  <2>5. CASE k.owner # None
    <3>1. Same(k, k')
      BY <1>1, <1>6, <2>3, <2>5 DEF DriverWakes, Same, KernelFields, Formed
    <3> QED BY <1>1, <1>6, <3>1, SameFine DEF DriverWakes
  <2> QED BY <1>6, <2>3, <2>4, <2>5 DEF DriverWakes
<1>7. CASE DriverRefuses
  <2>1. PICK ch \in Chans, l \in 1 .. 3 : k' = [k EXCEPT !.fails[ch] = l]
    BY <1>7 DEF DriverRefuses
  <2>2. Same(k, k')
    BY <1>1, <2>1 DEF Same, KernelFields, Formed
  <2> QED BY <1>1, <1>7, <2>2, SameFine DEF DriverRefuses
<1>8. CASE \E c \in Clients : LoseMulticast(c)
  <2>1. PICK c \in Clients : LoseMulticast(c)
    BY <1>8
  <2>2. PICK i \in DOMAIN k.rx[c] : k' = [k EXCEPT !.rx[c] = RemoveAt(@, i)]
    BY <2>1 DEF LoseMulticast
  <2>3. Same(k, k')
    BY <1>1, <2>2 DEF Same, KernelFields, Formed
  <2> QED BY <1>1, <2>1, <2>3, SameFine DEF LoseMulticast
<1> QED BY <1>3, <1>4, <1>5, <1>6, <1>7, <1>8

LEMMA NextInvariant == Invariant /\ [Next]_vars => Invariant'
<1> SUFFICES ASSUME Invariant, [Next]_vars PROVE Invariant'
  OBVIOUS
<1>1. ASSUME NEW c \in Clients, Only(c), Fine(k') PROVE Invariant'
  BY <1>1, OnlyKeeps
<1>2. Fine(k)
  BY DEF Invariant
<1>3. ASSUME NEW c \in Clients, User(c) \/ SyncStart(c) \/ Connect(c)
                                  \/ Disconnect(c) \/ Destroy(c)
      PROVE  Invariant'
  <2>1. Only(c) /\ k' = k
    BY <1>3, SyncSteps, ConnectSteps, DisconnectSteps DEF User
  <2> QED BY <1>1, <1>2, <2>1
<1>4. ASSUME NEW c \in Clients, Protocol(c) \/ RequestTimeout(c) \/ Crash(c)
      PROVE  Invariant'
  <2>1. Only(c) /\ Fine(k')
    BY <1>4, ProtocolSteps, CrashStep
  <2> QED BY <1>1, <2>1
<1>5. ASSUME \/ BreakLock \/ DriverCall \/ DriverSleeps \/ DriverWakes
             \/ DriverRefuses \/ \E c \in Clients : LoseMulticast(c)
      PROVE  Invariant'
  <2>1. Fine(k') /\ lib' = lib
    BY <1>5, KernelSteps
  <2> QED BY <2>1 DEF Invariant
<1>6. CASE UNCHANGED vars
  BY <1>6 DEF Invariant, vars
<1> QED BY <1>3, <1>4, <1>5, <1>6 DEF Next

(***************************************************************************)
(* The invariant: between two steps of any process, driver or timer, the   *)
(* kernel's pipelines are in order, none is left under construction by a   *)
(* command that failed, and every request that waits on a socket, in the   *)
(* backlog or in a process is one that the commands of netlink.c can       *)
(* serve.                                                                  *)
(***************************************************************************)
THEOREM Invariance == Spec => []Invariant
BY InitInvariant, NextInvariant, PTL DEF Spec

LEMMA TrueThen == Invariant => PipelinesAreTrue
<1> SUFFICES ASSUME Invariant PROVE PipelinesAreTrue
  OBVIOUS
<1>1. Shaped(k) /\ Tied(k) /\ Kept(k, 0) /\ True(k)
  BY DEF Invariant, Fine, InOrder
<1>2. \A ch \in Chans : LevelOf(k, ch) = Level(ch)
  BY DEF LevelOf, Level
<1>3. StatusIsTrue
  BY <1>1, <1>2 DEF StatusIsTrue, True
<1>4. ASSUME NEW ch \in Chans, NEW p \in Ids, ch \in Members(k, p)
      PROVE  k.pipes[p].reg /\ ch \in k.chans
  <2>1. k.pipe[ch] = p /\ p # 0
    BY <1>1, <1>4 DEF Tied, Ids
  <2>2. k.pipes[p].chans # <<>>
    BY <1>4, NoMembers
  <2> QED BY <1>1, <2>1, <2>2 DEF Kept, Tied
<1>5. ChannelsBelong
  BY <1>1, <1>4 DEF ChannelsBelong, Tied
<1> QED BY <1>3, <1>5 DEF PipelinesAreTrue

(***************************************************************************)
(* Channels, pipelines and status agree in every state of the kernel:      *)
(* after any mixture of creations that are refused halfway, rollbacks,     *)
(* deletions, channels that go away and processes that die, a channel      *)
(* points to the pipeline that lists it and was connected, opened and      *)
(* started as far as the status says (pipeline.c, channel.c, netlink.c).   *)
(***************************************************************************)
THEOREM PipelinesTrue == Spec => []PipelinesAreTrue
BY Invariance, TrueThen, PTL

-----------------------------------------------------------------------------
(* The lock: what the commands leave alone.                                *)

IsSeq(s) == \E S : s \in Seq(S)

(* The owner of the lock, the receive queues and the backlog are the same, *)
(* and the multicasts are still a queue.                                   *)
Spares(a, b) ==
    /\ Formed(b)
    /\ b.owner = a.owner /\ b.depth = a.depth /\ b.backlog = a.backlog
    /\ b.rx = a.rx /\ b.out = a.out
    /\ IsSeq(a.mq) => IsSeq(b.mq)

LEMMA SparesChain ==
  ASSUME NEW a, NEW b, NEW d, Spares(a, b), Spares(b, d)
  PROVE  Spares(a, d)
BY DEF Spares

LEMMA LowerSpares ==
  ASSUME NEW a, Formed(a), NEW p, NEW l, NEW stop
  PROVE  Spares(a, Lower(a, p, l, stop))
<1>1. Spares(a, StepDown(a, p, l, stop))
  BY DEF Spares, StepDown, KernelFields, Formed
<1>2. ASSUME NEW x, Formed(x)
      PROVE  Spares(x, Unlink(x, p))
  BY <1>2 DEF Spares, Unlink, KernelFields, Formed
<1>3. Spares(a, Unlink(StepDown(a, p, l, stop), p))
  BY <1>1, <1>2, SparesChain DEF Spares
<1> QED BY <1>1, <1>3 DEF Lower

LEMMA RaiseSpares ==
  ASSUME NEW a, Formed(a), NEW p, NEW l
  PROVE  Spares(a, Raise(a, p, l))
<1> DEFINE j == Refuser(a, p, l)
           x == StepUp(a, p, l, j)
           last == {a.pipes[p].chans[i] : i \in {j - 1} \ {0}}
           y == [x EXCEPT !.left = @ \cup last]
<1>1. Raise(a, p, l) = IF j = 0 THEN [x EXCEPT !.pipes[p].st = l]
                       ELSE Lower(y, p, l, j - 1)
  BY DEF Raise
<1>2. Spares(a, x)
  BY DEF Spares, StepUp, KernelFields, Formed
<1> HIDE DEF x, last, j
<1>3. Spares(x, y) /\ Spares(x, [x EXCEPT !.pipes[p].st = l])
  BY <1>2 DEF Spares, KernelFields, Formed
<1>4. Spares(a, y)
  BY <1>2, <1>3, SparesChain
<1> HIDE DEF y
<1>5. Spares(a, Lower(y, p, l, j - 1))
  BY <1>4, LowerSpares, SparesChain DEF Spares
<1> QED BY <1>1, <1>2, <1>3, <1>5, SparesChain

LEMMA ChangeStatusSpares ==
  ASSUME NEW a, Formed(a), NEW p, NEW st
  PROVE  Spares(a, ChangeStatus(a, p, st))
<1>1. ASSUME NEW x, Spares(a, x), NEW l
      PROVE  Spares(a, Up(x, p, st, l)) /\ Spares(a, Down(x, p, st, l))
  BY <1>1, RaiseSpares, LowerSpares, SparesChain DEF Up, Down, Spares
<1>2. Spares(a, a)
  BY DEF Spares
<1> QED BY <1>1, <1>2, ChangeStatusIs

LEMMA McastSendSpares ==
  ASSUME NEW a, Formed(a), NEW t, NEW o, NEW s
  PROVE  Spares(a, McastSend(a, t, o, s))
<1>1. IsSeq(a.mq) => IsSeq(Append(a.mq, a.mcur))
  BY Longer DEF IsSeq
<1> QED BY <1>1 DEF Spares, McastSend, KernelFields, Formed

LEMMA UnregisterPipelineSpares ==
  ASSUME NEW a, Formed(a), NEW p
  PROVE  Spares(a, UnregisterPipeline(a, p))
<1> DEFINE x == ChangeStatus(a, p, 0)
           y == [x EXCEPT !.pipes[p].reg = FALSE]
<1>1. Spares(a, x)
  BY ChangeStatusSpares
<1> HIDE DEF x
<1>2. Spares(x, y)
  BY <1>1 DEF Spares, KernelFields, Formed
<1>3. Spares(a, y)
  BY <1>1, <1>2, SparesChain
<1> HIDE DEF y
<1>4. Spares(a, McastSend(y, "PIPELINE_DEL", p, <<>>))
  BY <1>3, McastSendSpares, SparesChain DEF Spares
<1> QED BY <1>4 DEF UnregisterPipeline, x, y

(* A command that leaves the lock alone and answers its request.           *)
Answers(a, b, r) ==
    /\ Formed(b)
    /\ b.owner = a.owner /\ b.depth = a.depth /\ b.backlog = a.backlog
    /\ b.rx = a.rx
    /\ IsSeq(a.mq) => IsSeq(b.mq)
    /\ \E e, d : b.out = Append(a.out, Answer(r.id, e, d))

LEMMA SparesAnswers ==
  ASSUME NEW a, NEW x, Spares(a, x), NEW r, NEW e, NEW d
  PROVE  Answers(a, Put(x, r, e, d), r)
BY DEF Spares, Answers, Put, KernelFields, Formed

LEMMA HandleAnswers ==
  ASSUME NEW a, Formed(a), NEW c, NEW r, WellAsked(r),
         r.type \notin {"LOCK", "UNLOCK"}
  PROVE  Answers(a, Handle(a, c, r), r)
<1>1. Spares(a, a)
  BY DEF Spares
<1>2. \A e, d : Answers(a, Put(a, r, e, d), r)
  BY <1>1, SparesAnswers
<1>3. Answers(a, CmdChans(a, r), r) /\ Answers(a, CmdPipes(a, r), r)
  BY <1>2 DEF CmdChans, CmdPipes
<1>4. Answers(a, CmdDel(a, r), r)
  BY <1>2, UnregisterPipelineSpares, SparesAnswers DEF CmdDel
<1>5. Answers(a, CmdSet(a, r), r)
  BY <1>2, ChangeStatusSpares, SparesAnswers DEF CmdSet, SetAnswer
<1>6. Answers(a, CmdNew(a, r), r)
  <2> DEFINE p == a.nextid
             st == IF r.st = 0 THEN 1 ELSE r.st
             x == Linked(a, p, r.chans)
             y == ChangeStatus(x, p, st)
  <2>1. Spares(a, x)
    BY DEF Spares, Linked, KernelFields, Formed
  <2> HIDE DEF x
  <2>2. Spares(a, y)
    BY <2>1, ChangeStatusSpares, SparesChain DEF Spares
  <2> HIDE DEF y
  <2>3. Answers(a, Made(y, p, st, r), r)
    <3> DEFINE z == [y EXCEPT !.pipes[p].reg = TRUE, !.nextid = @ + 1]
    <3>1. Spares(y, Unlink(y, p))
      BY <2>2 DEF Spares, Unlink, KernelFields, Formed
    <3>2. Spares(Unlink(y, p), Abandoned(y, p))
      BY <3>1 DEF Spares, Abandoned, KernelFields, Formed
    <3>3. Spares(a, Abandoned(y, p))
      BY <2>2, <3>1, <3>2, SparesChain
    <3>4. Spares(a, z)
      BY <2>2 DEF Spares, KernelFields, Formed
    <3> HIDE DEF z
    <3>5. Spares(a, McastSend(z, "PIPELINE_NEW", p, r.chans))
      BY <3>4, McastSendSpares, SparesChain DEF Spares
    <3> QED BY <3>3, <3>5, SparesAnswers DEF Made, z
  <2> HIDE DEF st
  <2> QED BY <1>2, <2>3 DEF CmdNew, x, y, st
<1> QED BY <1>3, <1>4, <1>5, <1>6 DEF Handle, WellAsked, Commands

(* The queues are queues.                                                  *)
Queues(a) ==
    /\ Formed(a) /\ IsSeq(a.mq)
    /\ DOMAIN a.rx = Clients /\ \A o \in Clients : IsSeq(a.rx[o])

(* An answer to the request r; one for the lock is never refused.          *)
Meets(m, r) == m.id = r.id /\ (r.type = "LOCK" => m.err = "ok")

(* All a process finds in its receive queue was there before, is a         *)
(* multicast or, for c, the answer to the request r.                       *)
Flows(a, b, c, r) ==
    /\ Queues(b)
    /\ b.backlog = a.backlog
    /\ \A o \in Clients : \A i \in 1 .. Len(b.rx[o]) :
        \/ b.rx[o][i].mcast
        \/ \E j \in 1 .. Len(a.rx[o]) : b.rx[o][i] = a.rx[o][j]
        \/ o = c /\ Meets(b.rx[o][i], r)

LEMMA FlowsChain ==
  ASSUME NEW a, NEW b, NEW d, NEW c, NEW r,
         Flows(a, b, c, r), Flows(b, d, c, r)
  PROVE  Flows(a, d, c, r)
<1>1. ASSUME NEW o \in Clients, NEW i \in 1 .. Len(d.rx[o])
      PROVE  \/ d.rx[o][i].mcast
             \/ \E j \in 1 .. Len(a.rx[o]) : d.rx[o][i] = a.rx[o][j]
             \/ o = c /\ Meets(d.rx[o][i], r)
  <2>1. CASE \E j \in 1 .. Len(b.rx[o]) : d.rx[o][i] = b.rx[o][j]
    BY <1>1, <2>1 DEF Flows
  <2> QED BY <1>1, <2>1 DEF Flows
<1> QED BY <1>1 DEF Flows

LEMMA Joined ==
  ASSUME NEW s, NEW t, IsSeq(s), IsSeq(t)
  PROVE  /\ IsSeq(s \o t) /\ Len(s) \in Nat /\ Len(t) \in Nat
         /\ \A i \in 1 .. Len(s \o t) :
              \/ \E j \in 1 .. Len(s) : (s \o t)[i] = s[j]
              \/ \E j \in 1 .. Len(t) : (s \o t)[i] = t[j]
<1>1. PICK S : s \in Seq(S)
  BY DEF IsSeq
<1>2. PICK T : t \in Seq(T)
  BY DEF IsSeq
<1>3. s \in Seq(S \cup T) /\ t \in Seq(S \cup T)
  BY <1>1, <1>2
<1>4. s \o t \in Seq(S \cup T)
  BY <1>3
<1>5. ASSUME NEW i \in 1 .. Len(s \o t)
      PROVE  \/ \E j \in 1 .. Len(s) : (s \o t)[i] = s[j]
             \/ \E j \in 1 .. Len(t) : (s \o t)[i] = t[j]
  <2>1. Len(s \o t) = Len(s) + Len(t) /\ Len(s) \in Nat /\ Len(t) \in Nat
    BY <1>3
  <2>2. CASE i <= Len(s)
    <3>1. i \in 1 .. Len(s) /\ (s \o t)[i] = s[i]
      BY <1>3, <2>1, <2>2
    <3> QED BY <3>1
  <2>3. CASE i > Len(s)
    <3>1. i - Len(s) \in 1 .. Len(t) /\ (s \o t)[i] = t[i - Len(s)]
      BY <1>3, <2>1, <2>3
    <3> QED BY <3>1
  <2> QED BY <2>1, <2>2, <2>3
<1> QED BY <1>3, <1>4, <1>5 DEF IsSeq

LEMMA McastFlushFlows ==
  ASSUME NEW a, Queues(a), NEW c, NEW r
  PROVE  LET b == McastFlush(a)
         IN /\ Flows(a, b, c, r)
            /\ b.owner = a.owner /\ b.depth = a.depth /\ b.out = a.out
<1> DEFINE skbs == a.mq \o (IF a.mcur = <<>> THEN <<>> ELSE <<a.mcur>>)
           new == [i \in DOMAIN skbs |-> Mcasts(skbs[i])]
           f == [o \in Clients |-> IF o \in a.bound THEN a.rx[o] \o new
                                   ELSE a.rx[o]]
           b == [a EXCEPT !.mq = <<>>, !.mcur = <<>>, !.rx = f]
<1>1. McastFlush(a) = IF a.owner # None THEN a ELSE b
  <2>1. [o \in Clients |-> IF o \in a.bound THEN a.rx[o] \o new ELSE a.rx[o]]
          = f
    OBVIOUS
  <2> QED BY DEF McastFlush, Queues, Formed, KernelFields
<1>2. IsSeq(new) /\ \A i \in 1 .. Len(new) : new[i].mcast
  <2>1. IsSeq(IF a.mcur = <<>> THEN <<>> ELSE <<a.mcur>>)
    <3>1. <<>> \in Seq({a.mcur}) /\ <<a.mcur>> \in Seq({a.mcur})
      OBVIOUS
    <3> QED BY <3>1 DEF IsSeq
  <2>2. IsSeq(skbs)
    BY <2>1, Joined DEF Queues
  <2> HIDE DEF skbs
  <2>3. DOMAIN skbs = 1 .. Len(skbs) /\ Len(skbs) \in Nat
    BY <2>2 DEF IsSeq
  <2>4. new \in Seq({Mcasts(skbs[i]) : i \in DOMAIN skbs})
    BY <2>3
  <2>5. Len(new) = Len(skbs) /\ \A i \in 1 .. Len(new) : new[i].mcast
    BY <2>3, <2>4 DEF Mcasts
  <2> QED BY <2>4, <2>5 DEF IsSeq
<1> HIDE DEF new
<1>3. /\ Formed(b) /\ b.mq = <<>> /\ b.rx = f /\ b.backlog = a.backlog
      /\ b.owner = a.owner /\ b.depth = a.depth
      /\ b.out = a.out
  BY DEF Queues, Formed, KernelFields
<1> HIDE DEF b
<1>4. ASSUME NEW o \in Clients
      PROVE  /\ IsSeq(f[o])
             /\ \A i \in 1 .. Len(f[o]) :
                  \/ f[o][i].mcast
                  \/ \E j \in 1 .. Len(a.rx[o]) : f[o][i] = a.rx[o][j]
  <2>1. IsSeq(a.rx[o])
    BY DEF Queues
  <2>2. /\ IsSeq(a.rx[o] \o new)
        /\ \A i \in 1 .. Len(a.rx[o] \o new) :
             \/ (a.rx[o] \o new)[i].mcast
             \/ \E j \in 1 .. Len(a.rx[o]) : (a.rx[o] \o new)[i] = a.rx[o][j]
    BY <1>2, <2>1, Joined
  <2>3. f[o] = IF o \in a.bound THEN a.rx[o] \o new ELSE a.rx[o]
    OBVIOUS
  <2> HIDE DEF f
  <2> QED BY <2>1, <2>2, <2>3
<1>5. IsSeq(b.mq)
  <2>1. <<>> \in Seq({})
    OBVIOUS
  <2> QED BY <1>3, <2>1 DEF IsSeq
<1>6. DOMAIN f = Clients
  OBVIOUS
<1> HIDE DEF f
<1>7. Flows(a, b, c, r)
  BY <1>3, <1>4, <1>5, <1>6 DEF Flows, Queues
<1>8. Flows(a, a, c, r)
  BY DEF Flows
<1> QED BY <1>1, <1>3, <1>7, <1>8

LEMMA FlushOutFlows ==
  ASSUME NEW a, Queues(a), NEW c \in Clients, NEW r,
         \E m : a.out = <<m>> /\ Meets(m, r)
  PROVE  LET b == FlushOut(a, c)
         IN /\ Flows(a, b, c, r)
            /\ b.owner = a.owner /\ b.depth = a.depth /\ b.out = <<>>
<1> DEFINE f == [a.rx EXCEPT ![c] = IF c \in a.bound THEN a.rx[c] \o a.out
                                    ELSE a.rx[c]]
           b == [a EXCEPT !.out = <<>>, !.rx = f]
<1>1. FlushOut(a, c) = b
  BY DEF FlushOut, Queues, Formed, KernelFields
<1>2. /\ Formed(b) /\ b.mq = a.mq /\ b.rx = f /\ b.backlog = a.backlog
      /\ b.owner = a.owner /\ b.depth = a.depth
      /\ b.out = <<>>
  BY DEF Queues, Formed, KernelFields
<1> HIDE DEF b
<1>3. IsSeq(a.out) /\ \A i \in 1 .. Len(a.out) : Meets(a.out[i], r)
  <2>1. PICK x : a.out = <<x>> /\ Meets(x, r)
    OBVIOUS
  <2>2. a.out \in Seq({x}) /\ Len(a.out) = 1 /\ a.out[1] = x
    BY <2>1
  <2>3. IsSeq(a.out)
    BY <2>2 DEF IsSeq
  <2> QED BY <2>1, <2>2, <2>3
<1>4. /\ IsSeq(a.rx[c] \o a.out)
      /\ \A i \in 1 .. Len(a.rx[c] \o a.out) :
           \/ \E j \in 1 .. Len(a.rx[c]) : (a.rx[c] \o a.out)[i] = a.rx[c][j]
           \/ Meets((a.rx[c] \o a.out)[i], r)
  BY <1>3, Joined DEF Queues
<1>5. /\ DOMAIN f = Clients
      /\ \A o \in Clients : o # c => f[o] = a.rx[o]
      /\ f[c] = IF c \in a.bound THEN a.rx[c] \o a.out ELSE a.rx[c]
  BY DEF Queues
<1> HIDE DEF f
<1>6. ASSUME NEW o \in Clients
      PROVE  /\ IsSeq(f[o])
             /\ \A i \in 1 .. Len(f[o]) :
                  \/ \E j \in 1 .. Len(a.rx[o]) : f[o][i] = a.rx[o][j]
                  \/ o = c /\ Meets(f[o][i], r)
  <2>1. IsSeq(a.rx[o])
    BY DEF Queues
  <2>2. CASE f[o] = a.rx[o]
    BY <2>1, <2>2
  <2>3. CASE o = c /\ c \in a.bound
    BY <1>4, <1>5, <2>3
  <2> QED BY <1>5, <2>2, <2>3
<1> QED BY <1>1, <1>2, <1>5, <1>6 DEF Flows, Queues

(* What a request does to the lock, when it is taken.                      *)
Locks(a, b, c, r) ==
    CASE r.type = "LOCK" -> b.owner = c /\ b.depth = a.depth + 1
      [] r.type = "UNLOCK" ->
           IF a.owner = None THEN b.owner = None /\ b.depth = a.depth
           ELSE IF a.depth > 1 THEN b.owner = a.owner /\ b.depth = a.depth - 1
           ELSE b.owner = None /\ b.depth = 0
      [] OTHER -> b.owner = a.owner /\ b.depth = a.depth

LEMMA PutOut ==
  ASSUME NEW a, Queues(a), a.out = <<>>, NEW r, NEW e, NEW d,
         r.type = "LOCK" => e = "ok"
  PROVE  LET b == Put(a, r, e, d)
         IN /\ Queues(b) /\ b.owner = a.owner /\ b.depth = a.depth
            /\ \E m : b.out = <<m>> /\ Meets(m, r)
            /\ \A c : Flows(a, b, c, r)
<1> DEFINE b == Put(a, r, e, d)
<1>1. /\ Formed(b) /\ b.mq = a.mq /\ b.rx = a.rx /\ b.backlog = a.backlog
      /\ b.owner = a.owner /\ b.depth = a.depth
      /\ b.out = Append(a.out, Answer(r.id, e, d))
  BY DEF Put, Queues, Formed, KernelFields
<1> HIDE DEF b
<1>2. b.out = <<Answer(r.id, e, d)>>
  BY <1>1
<1>3. Queues(b)
  BY <1>1 DEF Queues
<1>4. Meets(Answer(r.id, e, d), r)
  BY DEF Meets, Answer
<1> QED BY <1>1, <1>2, <1>3, <1>4 DEF b, Flows

LEMMA HandleLocks ==
  ASSUME NEW a, Queues(a), a.out = <<>>, NEW c \in Clients,
         NEW r, WellAsked(r), a.owner \in {None, c}, a.depth \in Nat
  PROVE  LET b == Handle(a, c, r)
         IN /\ Flows(a, b, c, r) /\ Locks(a, b, c, r)
            /\ \E m : b.out = <<m>> /\ Meets(m, r)
<1> DEFINE b == Handle(a, c, r)
<1>1. c # None
  BY NoneAssumption
<1>2. CASE r.type = "LOCK"
  <2> DEFINE x == [a EXCEPT !.owner = c, !.depth = @ + 1, !.timer = TRUE]
             y == [a EXCEPT !.depth = @ + 1]
             z == IF a.owner = None THEN x ELSE y
  <2>1. McastFlush(x) = x
    BY <1>1 DEF McastFlush, Queues, Formed, KernelFields
  <2>2. b = Put(z, r, "ok", <<>>)
    BY <1>2, <2>1 DEF Handle, CmdLock
  <2>3. /\ Queues(z) /\ z.out = <<>> /\ z.owner = c /\ z.depth = a.depth + 1
        /\ z.backlog = a.backlog /\ z.rx = a.rx
    BY DEF Queues, Formed, KernelFields
  <2> HIDE DEF z, b
  <2>4. Flows(a, z, c, r)
    BY <2>3 DEF Flows
  <2>5. /\ b.owner = c /\ b.depth = a.depth + 1 /\ Flows(z, b, c, r)
        /\ \E m : b.out = <<m>> /\ Meets(m, r)
    BY <2>2, <2>3, PutOut
  <2>6. Flows(a, b, c, r)
    BY <2>4, <2>5, FlowsChain
  <2>7. Locks(a, b, c, r)
    BY <1>2, <2>5 DEF Locks
  <2> QED BY <2>5, <2>6, <2>7 DEF b
<1>3. CASE r.type = "UNLOCK"
  <2> DEFINE x == [a EXCEPT !.depth = @ - 1]
             y == [a EXCEPT !.depth = 0, !.owner = None, !.timer = FALSE]
             w == Put(y, r, "ok", <<>>)
             v == McastFlush(w)
  <2>1. b = IF a.owner = None THEN Put(a, r, "ENOENT", <<>>)
            ELSE IF a.depth > 1 THEN Put(x, r, "ok", <<>>)
            ELSE WakeUp(v)
    BY <1>3 DEF Handle, CmdUnlock
  <2>2. /\ Queues(x) /\ x.out = <<>> /\ x.owner = a.owner
        /\ x.depth = a.depth - 1
        /\ x.backlog = a.backlog /\ x.rx = a.rx
    BY DEF Queues, Formed, KernelFields
  <2>3. /\ Queues(y) /\ y.out = <<>> /\ y.owner = None /\ y.depth = 0
        /\ y.backlog = a.backlog /\ y.rx = a.rx
    BY DEF Queues, Formed, KernelFields
  <2> HIDE DEF x, y, b
  <2>4. Flows(a, x, c, r) /\ Flows(a, y, c, r)
    BY <2>2, <2>3 DEF Flows
  <2>5. CASE a.owner = None
    <3>1. /\ b.owner = None /\ b.depth = a.depth /\ Flows(a, b, c, r)
          /\ \E m : b.out = <<m>> /\ Meets(m, r)
      BY <1>3, <2>1, <2>5, PutOut
    <3> QED BY <1>3, <2>5, <3>1 DEF b, Locks
  <2>6. CASE a.owner # None /\ a.depth > 1
    <3>1. /\ b.owner = a.owner /\ b.depth = a.depth - 1
          /\ Flows(x, b, c, r)
          /\ \E m : b.out = <<m>> /\ Meets(m, r)
      BY <2>1, <2>2, <2>6, PutOut
    <3>2. Flows(a, b, c, r)
      BY <2>4, <3>1, FlowsChain
    <3> QED BY <1>3, <2>6, <3>1, <3>2 DEF b, Locks
  <2>7. CASE a.owner # None /\ ~(a.depth > 1)
    <3>1. /\ Queues(w) /\ w.owner = None /\ w.depth = 0
          /\ Flows(y, w, c, r)
          /\ \E m : w.out = <<m>> /\ Meets(m, r)
      BY <2>3, PutOut
    <3> HIDE DEF w
    <3>2. /\ Flows(w, v, c, r) /\ v.owner = None /\ v.depth = 0
          /\ v.out = w.out
      BY <3>1, McastFlushFlows
    <3> HIDE DEF v
    <3>3. /\ Queues(b) /\ b.owner = v.owner /\ b.depth = v.depth
          /\ b.out = v.out /\ b.rx = v.rx
          /\ b.backlog = v.backlog
      BY <2>1, <2>7, <3>2 DEF WakeUp, Flows, Queues, Formed, KernelFields
    <3>4. Flows(v, b, c, r)
      BY <3>3 DEF Flows
    <3>5. Flows(a, b, c, r)
      BY <2>4, <3>1, <3>2, <3>4, FlowsChain
    <3>6. Locks(a, b, c, r)
      BY <1>3, <2>7, <3>2, <3>3 DEF Locks
    <3> QED BY <3>1, <3>2, <3>3, <3>5, <3>6 DEF b
  <2> QED BY <2>5, <2>6, <2>7
<1>4. CASE r.type \notin {"LOCK", "UNLOCK"}
  <2>1. Answers(a, b, r)
    BY <1>4, HandleAnswers DEF Queues
  <2> HIDE DEF b
  <2>2. Flows(a, b, c, r)
    BY <2>1 DEF Answers, Flows, Queues
  <2>3. \E m : b.out = <<m>> /\ Meets(m, r)
    <3>1. PICK e, d : b.out = Append(a.out, Answer(r.id, e, d))
      BY <2>1 DEF Answers
    <3>2. b.out = <<Answer(r.id, e, d)>>
      BY <3>1
    <3>3. Meets(Answer(r.id, e, d), r)
      BY <1>4 DEF Meets, Answer
    <3> QED BY <3>2, <3>3
  <2>4. Locks(a, b, c, r)
    BY <1>4, <2>1 DEF Answers, Locks
  <2> QED BY <2>2, <2>3, <2>4 DEF b
<1> QED BY <1>2, <1>3, <1>4

LEMMA RcvMsgLocks ==
  ASSUME NEW a, Queues(a), a.out = <<>>, NEW c \in Clients,
         NEW r, WellAsked(r), a.owner \in {None, c}, a.depth \in Nat
  PROVE  LET b == RcvMsg(a, c, r)
         IN Flows(a, b, c, r) /\ Locks(a, b, c, r) /\ b.out = <<>>
<1> DEFINE x == Handle(a, c, r)
           y == FlushOut(x, c)
           z == McastFlush(y)
<1>1. /\ Flows(a, x, c, r) /\ Locks(a, x, c, r)
      /\ \E m : x.out = <<m>> /\ Meets(m, r)
  BY HandleLocks
<1> HIDE DEF x
<1>2. /\ Flows(x, y, c, r)
      /\ y.owner = x.owner /\ y.depth = x.depth /\ y.out = <<>>
  <2>1. Queues(x)
    BY <1>1 DEF Flows
  <2> QED BY <1>1, <2>1, FlushOutFlows
<1> HIDE DEF y
<1>3. /\ Flows(y, z, c, r)
      /\ z.owner = y.owner /\ z.depth = y.depth /\ z.out = y.out
  <2>1. Queues(y)
    BY <1>2 DEF Flows
  <2> QED BY <2>1, McastFlushFlows
<1> HIDE DEF z
<1>4. Flows(a, z, c, r)
  BY <1>1, <1>2, <1>3, FlowsChain
<1>5. Locks(a, z, c, r)
  BY <1>1, <1>2, <1>3 DEF Locks
<1>6. RcvMsg(a, c, r) = z
  BY DEF RcvMsg, x, y, z
<1> QED BY <1>2, <1>3, <1>4, <1>5, <1>6

-----------------------------------------------------------------------------
(* The lock and the requests on their way.                                 *)

(* S is the set of requests of a process that were not taken yet.          *)
Isnt(S, type) == \A q \in S : q.type # type
Sent(S, n) == \A q \in S : q.id # n

(* The kernel's side: answers come before what is still to be taken; no    *)
(* release is behind a request for the lock; and who never stopped waiting *)
(* for the lock has asked for it once.                                     *)
Lined(a, S, c) ==
    /\ \A q \in S : WellAsked(q) /\ q.id \in Nat
    /\ \A q, r \in S :
        /\ q.type = "LOCK" /\ r.type = "UNLOCK" => r.id < q.id
        /\ c \notin gaveUp /\ q.type = "LOCK" /\ r.type = "LOCK" => q = r
    /\ \A i \in 1 .. Len(a.rx[c]) : ~a.rx[c][i].mcast =>
        a.rx[c][i].id \in Nat /\ \A q \in S : a.rx[c][i].id < q.id
    /\ a.owner = c /\ c \notin gaveUp => a.depth = 1 /\ Isnt(S, "LOCK")

Asking == {"sync lock", "lock"}
Releasing == {"sync unlock", "unlock", "give up"}
Outside == {"off", "idle", "start", "stop", "destroy"}

(* The process's side, in each state of its user thread.                   *)
Stands(a, S, c, l) ==
    /\ \A q \in S : q.id <= l.n
    /\ l.pc \in Asking =>
        /\ \A q \in S : q.id = l.n => q.type = "LOCK"
        /\ Sent(S, l.n) => S = {} /\ a.owner = c
        /\ l.res # <<>> =>
             IF l.res[1].err = "ok" THEN Sent(S, l.n)
                                         ELSE c \in gaveUp
    /\ l.pc \in Inside =>
        a.owner = c /\ Isnt(S, "LOCK") /\ Isnt(S, "UNLOCK")
    /\ l.pc \in Releasing =>
        /\ Isnt(S, "LOCK")
        /\ \A q \in S : q.id = l.n => q.type = "UNLOCK"
        /\ l.res # <<>> \/ Sent(S, l.n)
             => c \in gaveUp \/ a.owner # c
    /\ l.pc = "start" => Isnt(S, "LOCK")
    /\ l.pc \in Outside /\ c \notin gaveUp =>
        a.owner # c /\ Isnt(S, "LOCK")

Sound(a) ==
    /\ Queues(a) /\ a.out = <<>>
    /\ a.owner \in Clients \cup {None} /\ a.depth \in Nat
    /\ a.owner = None => a.depth = 0

(* What it has been answered.                                              *)
Heard(a, c, l) ==
    \A i \in 1 .. Len(a.rx[c]) : ~a.rx[c][i].mcast =>
        /\ a.rx[c][i].id <= l.n
        /\ l.pc \in Asking /\ a.rx[c][i].id = l.n =>
             a.rx[c][i].err = "ok"

Agreed(a, S, c) ==
    /\ Lined(a, S, c)
    /\ Alive(c) => /\ lib[c].n \in Nat
                   /\ Stands(a, S, c, lib[c]) /\ Heard(a, c, lib[c])

LEMMA OthersAgree ==
  ASSUME NEW a, NEW b, NEW c, NEW r, Flows(a, b, c, r),
         NEW o \in Clients, o # c, NEW S, Agreed(a, S, o),
         a.owner # o, b.owner # o
  PROVE  Agreed(b, S, o)
<1>1. ASSUME NEW i \in 1 .. Len(b.rx[o]), ~b.rx[o][i].mcast
      PROVE  b.rx[o][i].id \in Nat /\ \A q \in S : b.rx[o][i].id < q.id
  <2>1. PICK j \in 1 .. Len(a.rx[o]) : b.rx[o][i] = a.rx[o][j]
    BY <1>1 DEF Flows
  <2> QED BY <1>1, <2>1 DEF Agreed, Lined
<1>2. Lined(b, S, o)
  BY <1>1 DEF Agreed, Lined
<1>3. Stands(a, S, o, lib[o]) => Stands(b, S, o, lib[o])
  BY DEF Stands
<1>4. ASSUME Heard(a, o, lib[o]) PROVE Heard(b, o, lib[o])
  <2>1. ASSUME NEW i \in 1 .. Len(b.rx[o]), ~b.rx[o][i].mcast
        PROVE  \E j \in 1 .. Len(a.rx[o]) : b.rx[o][i] = a.rx[o][j]
    BY <2>1 DEF Flows
  <2> QED BY <1>4, <2>1 DEF Heard
<1> QED BY <1>2, <1>3, <1>4 DEF Agreed

(* A request is taken: the earliest of a process that is not kept waiting. *)
LEMMA TakenAgree ==
  ASSUME NEW a, NEW b, NEW c \in Clients, NEW S, NEW r \in S, Sound(a),
         Agreed(a, S, c), \A q \in S : q = r \/ r.id < q.id,
         a.owner \in {None, c}, Flows(a, b, c, r), Locks(a, b, c, r)
  PROVE  Agreed(b, S \ {r}, c)
<1> DEFINE T == S \ {r}
<1>1. c # None
  BY NoneAssumption
<1>2. WellAsked(r) /\ r.id \in Nat /\ Lined(a, S, c)
  BY DEF Agreed, Lined
<1>3. ASSUME NEW i \in 1 .. Len(b.rx[c]), ~b.rx[c][i].mcast
      PROVE  b.rx[c][i].id \in Nat /\ \A q \in T : b.rx[c][i].id < q.id
  <2>1. CASE \E j \in 1 .. Len(a.rx[c]) : b.rx[c][i] = a.rx[c][j]
    BY <1>2, <1>3, <2>1 DEF Lined
  <2>2. CASE Meets(b.rx[c][i], r)
    BY <1>2, <2>2 DEF Meets
  <2> QED BY <1>3, <2>1, <2>2 DEF Flows
<1>6. ASSUME Alive(c) PROVE Heard(b, c, lib[c])
  <2>1. ASSUME NEW i \in 1 .. Len(b.rx[c]), ~b.rx[c][i].mcast
        PROVE  \/ \E j \in 1 .. Len(a.rx[c]) : b.rx[c][i] = a.rx[c][j]
               \/ Meets(b.rx[c][i], r)
    BY <2>1 DEF Flows
  <2>2. r.id <= lib[c].n
        /\ (lib[c].pc \in Asking /\ r.id = lib[c].n => r.type = "LOCK")
    BY <1>6 DEF Agreed, Stands
  <2>3. Heard(a, c, lib[c])
    BY <1>6 DEF Agreed
  <2> QED BY <2>1, <2>2, <2>3 DEF Heard, Meets
<1>4. CASE r.type = "LOCK"
  <2>1. b.owner = c /\ b.depth = a.depth + 1
    BY <1>4 DEF Locks
  <2>2. c \notin gaveUp => b.depth = 1 /\ Isnt(T, "LOCK")
    BY <1>1, <1>2, <1>4, <2>1 DEF Lined, Isnt, Sound
  <2>3. Lined(b, T, c)
    BY <1>2, <1>3, <2>2 DEF Lined
  <2>4. ASSUME Alive(c) PROVE Stands(b, T, c, lib[c])
    <3>1. Stands(a, S, c, lib[c]) /\ lib[c].n \in Nat
      BY <2>4 DEF Agreed
    <3>2. lib[c].pc \notin Inside \cup Releasing \cup {"start"}
      BY <1>4, <3>1 DEF Stands, Isnt
    <3>3. lib[c].pc \notin Outside \/ c \in gaveUp
      BY <1>4, <3>1 DEF Stands, Isnt
    <3>4. ASSUME lib[c].pc \in Asking, Sent(T, lib[c].n)
          PROVE  T = {}
      <4>1. r.id = lib[c].n
        BY <3>1, <3>4 DEF Stands, Sent
      <4>2. \A q \in T : q.id \in Nat /\ r.id < q.id /\ q.id <= lib[c].n
        BY <1>2, <3>1 DEF Stands, Lined
      <4> QED BY <3>1, <4>1, <4>2
    <3> QED BY <2>1, <3>1, <3>2, <3>3, <3>4 DEF Stands, Sent
  <2> QED BY <1>6, <2>3, <2>4 DEF Agreed
<1>5. CASE r.type # "LOCK"
  <2>1. b.owner = c => a.owner = c
    BY <1>1, <1>5 DEF Locks
  <2>2. b.owner = c /\ c \notin gaveUp => b.depth = 1 /\ r.type # "UNLOCK"
    BY <1>1, <1>2, <1>5, <2>1 DEF Locks, Lined
  <2>3. Lined(b, T, c)
    BY <1>2, <1>3, <2>1, <2>2 DEF Lined, Isnt
  <2>4. ASSUME Alive(c) PROVE Stands(b, T, c, lib[c])
    <3>1. Stands(a, S, c, lib[c]) /\ lib[c].n \in Nat
      BY <2>4 DEF Agreed
    <3>2. ASSUME lib[c].pc \in Asking
          PROVE  ~Sent(T, lib[c].n)
      <4>1. r.id # lib[c].n
        BY <1>5, <3>1, <3>2 DEF Stands
      <4>2. ~Sent(S, lib[c].n)
        BY <3>1, <3>2 DEF Stands
      <4> QED BY <4>1, <4>2 DEF Sent
    <3>3. ASSUME lib[c].pc \in Asking, lib[c].res # <<>>
          PROVE  IF lib[c].res[1].err = "ok" THEN Sent(T, lib[c].n)
                 ELSE c \in gaveUp
      <4>1. lib[c].res[1].err = "ok" => Sent(S, lib[c].n)
        BY <3>1, <3>3 DEF Stands
      <4>2. lib[c].res[1].err # "ok" => c \in gaveUp
        BY <3>1, <3>3 DEF Stands
      <4> QED BY <4>1, <4>2 DEF Sent
    <3>4. lib[c].pc \in Inside => b.owner = c
      BY <1>5, <3>1 DEF Stands, Isnt, Locks
    <3>5. ASSUME lib[c].pc \in Releasing,
                 lib[c].res # <<>> \/ Sent(T, lib[c].n),
                 c \notin gaveUp, b.owner = c
          PROVE  FALSE
      <4>1. r.type # "UNLOCK" /\ a.owner = c
        BY <2>1, <2>2, <3>5
      <4>2. r.id # lib[c].n
        BY <3>1, <3>5, <4>1 DEF Stands
      <4>3. lib[c].res # <<>> \/ Sent(S, lib[c].n)
        BY <3>5, <4>2 DEF Sent
      <4> QED BY <3>1, <3>5, <4>1, <4>3 DEF Stands
    <3> QED BY <2>1, <3>1, <3>2, <3>3, <3>4, <3>5 DEF Stands, Isnt
  <2> QED BY <1>6, <2>3, <2>4 DEF Agreed
<1> QED BY <1>4, <1>5

(* All processes agree with the kernel.                                    *)
AllAgree(a, u) ==
    /\ Sound(a)
    /\ \A o \in Clients : Agreed(a, u[o], o)

LEMMA RcvMsgAgree ==
  ASSUME NEW a, NEW u, AllAgree(a, u), NEW c \in Clients, NEW r \in u[c],
         \A q \in u[c] : q = r \/ r.id < q.id, a.owner \in {None, c},
         NEW v, v[c] = u[c] \ {r}, \A o \in Clients : o # c => v[o] = u[o]
  PROVE  LET b == RcvMsg(a, c, r)
         IN /\ AllAgree(b, v)
            /\ b.backlog = a.backlog /\ Locks(a, b, c, r)
<1> DEFINE b == RcvMsg(a, c, r)
<1>1. WellAsked(r) /\ c # None
  BY NoneAssumption DEF AllAgree, Agreed, Lined
<1>2. Flows(a, b, c, r) /\ Locks(a, b, c, r) /\ b.out = <<>>
  BY <1>1, RcvMsgLocks DEF AllAgree, Sound
<1> HIDE DEF b
<1>3. /\ b.owner \in {None, c} /\ b.depth \in Nat
      /\ b.owner = None => b.depth = 0
  BY <1>1, <1>2 DEF Locks, AllAgree, Sound
<1>4. Sound(b)
  BY <1>2, <1>3 DEF Sound, Flows
<1>5. ASSUME NEW o \in Clients PROVE Agreed(b, v[o], o)
  <2>1. CASE o = c
    <3>1. Agreed(b, u[c] \ {r}, c)
      BY <1>2, TakenAgree DEF AllAgree
    <3> QED BY <2>1, <3>1
  <2>2. CASE o # c
    <3>1. a.owner # o /\ b.owner # o
      BY <1>3, <2>2, NoneAssumption
    <3>2. Agreed(b, u[o], o)
      BY <1>2, <2>2, <3>1, OthersAgree DEF AllAgree
    <3> QED BY <2>2, <3>2
  <2> QED BY <2>1, <2>2
<1>6. AllAgree(b, v)
  BY <1>4, <1>5 DEF AllAgree
<1>7. b.backlog = a.backlog
  BY <1>2 DEF Flows
<1> QED BY <1>2, <1>6, <1>7 DEF b

-----------------------------------------------------------------------------
(* The requests of an sk_buff are all taken, or all kept waiting.          *)

Ascending(s) == \A m, n \in 1 .. Len(s) : m < n => s[m].id < s[n].id

Rest(s, n) == {s[m] : m \in n + 1 .. Len(s)}

LEMMA RestAll ==
  ASSUME NEW s, IsSeq(s)
  PROVE  Rest(s, 0) = ToSet(s) /\ Rest(s, Len(s)) = {}
<1>1. Len(s) \in Nat /\ DOMAIN s = 1 .. Len(s)
  BY DEF IsSeq
<1>2. 0 + 1 .. Len(s) = 1 .. Len(s) /\ Len(s) + 1 .. Len(s) = {}
  BY <1>1
<1>3. Rest(s, 0) = ToSet(s)
  BY <1>1, <1>2 DEF Rest, ToSet
<1>4. Rest(s, Len(s)) = {}
  BY <1>2 DEF Rest
<1> QED BY <1>3, <1>4

(* One request of the loop.  W is what of V a later skb of the same pass   *)
(* will bring: it has no release behind a lock that was granted.           *)
Calm(a, b, c, S, T) ==
    (a.owner = c => Isnt(S, "UNLOCK")) =>
        /\ b.owner = c => Isnt(T, "UNLOCK")
        /\ a.owner = c => b.owner = c

LEMMA CalmStep ==
  ASSUME NEW a, NEW b, NEW d, NEW c \in Clients, NEW S, NEW T, NEW r \in T,
         Calm(a, b, c, S, T), Locks(b, d, c, r), b.owner \in {None, c},
         r.type = "LOCK" => Isnt(T \ {r}, "UNLOCK")
  PROVE  Calm(a, d, c, S, T \ {r})
<1>1. c # None
  BY NoneAssumption
<1>2. CASE r.type = "LOCK"
  BY <1>2 DEF Calm, Locks
<1>3. CASE r.type = "UNLOCK"
  <2>1. b.owner = c => ~Isnt(T, "UNLOCK")
    BY <1>3 DEF Isnt
  <2>2. b.owner = None => d.owner = None
    BY <1>3 DEF Locks
  <2> QED BY <1>1, <2>1, <2>2 DEF Calm
<1>4. CASE r.type \notin {"LOCK", "UNLOCK"}
  <2>1. d.owner = b.owner
    BY <1>4 DEF Locks
  <2> QED BY <2>1 DEF Calm, Isnt
<1> QED BY <1>2, <1>3, <1>4

(* An sk_buff in order, with the requests V of its process behind it.      *)
Proper(skb, V) ==
    /\ skb.from \in Clients /\ IsSeq(skb.reqs) /\ Ascending(skb.reqs)
    /\ \A q \in ToSet(skb.reqs), r \in V : q.id < r.id

(* It need not wait: what is undone changes from u to v.                   *)
Proceeds(a, skb, u, v, W) ==
    /\ AllAgree(a, u) /\ Proper(skb, v[skb.from]) /\ W \subseteq v[skb.from]
    /\ u[skb.from] = ToSet(skb.reqs) \cup v[skb.from]
    /\ \A o \in Clients : o # skb.from => v[o] = u[o]
    /\ a.owner \in {None, skb.from}

LEMMA SkbTaken ==
  ASSUME NEW a, NEW skb, NEW u, NEW v, NEW W, Proceeds(a, skb, u, v, W)
  PROVE  LET b == RcvSkb(a, skb)
         IN /\ AllAgree(b, v)
            /\ b.backlog = a.backlog /\ b.owner \in {None, skb.from}
            /\ Calm(a, b, skb.from, ToSet(skb.reqs) \cup W, W)
<1> DEFINE c == skb.from
           s == skb.reqs
           V == v[c]
           R == Taken(a, skb)
           At(n) == [o \in Clients |-> IF o = c THEN Rest(s, n) \cup V
                                      ELSE u[o]]
           Good(n) == /\ DOMAIN R[n] = {"k", "rest"} /\ R[n].rest = <<>>
                      /\ AllAgree(R[n].k, At(n))
                      /\ R[n].k.backlog = a.backlog
                      /\ R[n].k.owner \in {None, c}
                      /\ Calm(a, R[n].k, c, ToSet(s) \cup W, Rest(s, n) \cup W)
           T == {n \in Nat : n <= Len(s) => Good(n)}
<1> USE DEF Proceeds, Proper
<1>1. Len(s) \in Nat /\ DOMAIN s = 1 .. Len(s)
  BY DEF IsSeq
<1>2. R[0] = [k |-> a, rest |-> <<>>]
  BY TakenSteps
<1>3. \A n \in Nat : R[n + 1] = Take(R[n], c, s[n + 1])
  BY ONLY TakenSteps
<1> HIDE DEF R
<1>4. 0 \in T
  <2>1. Rest(s, 0) = ToSet(s)
    BY RestAll
  <2>2. AllAgree(a, At(0))
    BY <2>1 DEF AllAgree
  <2>3. Calm(a, a, c, ToSet(s) \cup W, ToSet(s) \cup W)
    BY DEF Calm
  <2> HIDE DEF At
  <2>4. DOMAIN R[0] = {"k", "rest"} /\ R[0].k = a /\ R[0].rest = <<>>
    BY <1>2
  <2>5. Good(0)
    BY <2>1, <2>2, <2>3, <2>4
  <2> QED BY <2>5
<1>5. ASSUME NEW n \in Nat, n \in T
      PROVE  n + 1 \in T
  <2>1. SUFFICES ASSUME n + 1 <= Len(s) PROVE Good(n + 1)
    OBVIOUS
  <2> DEFINE x == R[n].k
             r == s[n + 1]
             y == RcvMsg(x, c, r)
  <2>2. n + 1 \in 1 .. Len(s) /\ n <= Len(s)
    BY <1>1, <2>1
  <2>3. Good(n)
    BY <1>5, <2>2
  <2>4. Rest(s, n) = Rest(s, n + 1) \cup {r}
    <3>1. n + 1 .. Len(s) = (n + 1 + 1 .. Len(s)) \cup {n + 1}
      BY <1>1, <2>2
    <3> QED BY <3>1 DEF Rest
  <2>5. \A q \in Rest(s, n + 1) : r.id < q.id
    <3>1. \A m \in n + 1 + 1 .. Len(s) : m \in 1 .. Len(s) /\ n + 1 < m
      BY <1>1
    <3> QED BY <2>2, <3>1 DEF Rest, Ascending
  <2>6. r \in ToSet(s) /\ \A q \in V : r.id < q.id
    BY <1>1, <2>2 DEF ToSet
  <2>7. At(n)[c] = Rest(s, n) \cup V /\ r \in At(n)[c]
    BY <2>4
  <2>8. r.id \in Nat
    <3>1. r \in u[c]
      BY <2>6
    <3> QED BY <3>1 DEF AllAgree, Agreed, Lined
  <2>9. r \notin Rest(s, n + 1) \cup V
    BY <2>5, <2>6, <2>8
  <2>10. /\ At(n + 1)[c] = At(n)[c] \ {r}
         /\ \A o \in Clients : o # c => At(n + 1)[o] = At(n)[o]
    <3>1. (Rest(s, n) \cup V) \ {r} = Rest(s, n + 1) \cup V
      BY <2>4, <2>9
    <3>2. At(n + 1)[c] = Rest(s, n + 1) \cup V
      OBVIOUS
    <3>3. ASSUME NEW o \in Clients, o # c PROVE At(n + 1)[o] = At(n)[o]
      BY <3>3
    <3> QED BY <2>7, <3>1, <3>2, <3>3
  <2>11. \A q \in At(n)[c] : q = r \/ r.id < q.id
    BY <2>4, <2>5, <2>6, <2>7
  <2>12. /\ R[n].rest = <<>> /\ DOMAIN R[n] = {"k", "rest"}
         /\ AllAgree(x, At(n)) /\ x.backlog = a.backlog
         /\ x.owner \in {None, c}
         /\ Calm(a, x, c, ToSet(s) \cup W, Rest(s, n) \cup W)
    BY <2>3
  <2> HIDE DEF At, x
  <2>13. /\ AllAgree(y, At(n + 1)) /\ y.backlog = x.backlog
         /\ Locks(x, y, c, r)
    BY <2>7, <2>10, <2>11, <2>12, RcvMsgAgree
  <2> HIDE DEF y
  <2>14. y.owner \in {None, c}
    BY <2>12, <2>13 DEF Locks
  <2>15. Calm(a, y, c, ToSet(s) \cup W, Rest(s, n + 1) \cup W)
    <3>1. (Rest(s, n) \cup W) \ {r} = Rest(s, n + 1) \cup W
      BY <2>4, <2>9
    <3>2. r \in Rest(s, n) \cup W
      BY <2>4
    <3>3. ASSUME r.type = "LOCK", NEW q \in Rest(s, n + 1) \cup W
          PROVE  q.type # "UNLOCK"
      <4>1. q \in At(n)[c] /\ r \in At(n)[c] /\ r.id < q.id
        BY <2>4, <2>5, <2>6, <2>7, <3>3
      <4>2. Lined(x, At(n)[c], c)
        BY <2>12 DEF AllAgree, Agreed
      <4>3. q.id \in Nat /\ r.id \in Nat
        BY <4>1, <4>2 DEF Lined
      <4> QED BY <3>3, <4>1, <4>2, <4>3 DEF Lined
    <3>4. r.type = "LOCK" => Isnt((Rest(s, n) \cup W) \ {r}, "UNLOCK")
      BY <3>1, <3>3 DEF Isnt
    <3>5. Calm(a, y, c, ToSet(s) \cup W, (Rest(s, n) \cup W) \ {r})
      BY <2>12, <2>13, <3>2, <3>4, CalmStep
    <3> QED BY <3>1, <3>5
  <2>16. R[n + 1] = [R[n] EXCEPT !.k = y]
    <3>1. ~Blocked(R[n].k, c) /\ R[n].rest = <<>>
      BY <2>12 DEF Blocked, x
    <3> QED BY <1>3, <3>1 DEF Take, x, y
  <2>17. /\ DOMAIN R[n + 1] = {"k", "rest"} /\ R[n + 1].rest = <<>>
         /\ R[n + 1].k = y
    BY <2>12, <2>16
  <2> QED BY <2>12, <2>13, <2>14, <2>15, <2>17
<1>6. Good(Len(s))
  <2> HIDE DEF Good
  <2>1. \A n \in Nat : n \in T
    <3> HIDE DEF T
    <3> QED BY <1>4, <1>5, Counting
  <2> QED BY <1>1, <2>1
<1>7. Rest(s, Len(s)) \cup W = W /\ Rest(s, Len(s)) \cup V = V
  BY RestAll
<1>9. \A o \in Clients : At(Len(s))[o] = v[o]
  BY <1>7
<1>8. RcvSkb(a, skb) = R[Len(s)].k
  BY <1>6 DEF RcvSkb, PutBack, R
<1>10. AllAgree(R[Len(s)].k, v)
  <2>1. AllAgree(R[Len(s)].k, At(Len(s)))
    BY <1>6
  <2> HIDE DEF At
  <2> QED BY <1>9, <2>1 DEF AllAgree
<1> QED BY <1>6, <1>7, <1>8, <1>10

(* While another process holds the lock all of them are kept.              *)
LEMMA SkbKept ==
  ASSUME NEW a, NEW skb, IsSeq(skb.reqs), a.owner \notin {None, skb.from}
  PROVE  RcvSkb(a, skb) =
           IF skb.reqs = <<>> THEN a
           ELSE [a EXCEPT !.backlog = Append(@, [from |-> skb.from,
                                                 reqs |-> skb.reqs])]
<1> DEFINE s == skb.reqs
           R == Taken(a, skb)
<1>1. PICK S : s \in Seq(S)
  BY DEF IsSeq
<1> DEFINE Kept0(n) == /\ DOMAIN R[n] = {"k", "rest"} /\ R[n].k = a
                       /\ R[n].rest \in Seq(S) /\ Len(R[n].rest) = n
                       /\ \A i \in 1 .. n : R[n].rest[i] = s[i]
           T == {n \in Nat : n <= Len(s) => Kept0(n)}
<1>2. R[0] = [k |-> a, rest |-> <<>>]
  BY ONLY TakenSteps
<1>3. \A n \in Nat : R[n + 1] = Take(R[n], skb.from, s[n + 1])
  BY ONLY TakenSteps
<1> HIDE DEF R
<1>4. 0 \in T
  <2>1. DOMAIN R[0] = {"k", "rest"} /\ R[0].k = a /\ R[0].rest = <<>>
    BY <1>2
  <2>2. <<>> \in Seq(S) /\ Len(<<>>) = 0 /\ 1 .. 0 = {}
    OBVIOUS
  <2> QED BY <2>1, <2>2
<1>5. ASSUME NEW n \in Nat, n \in T
      PROVE  n + 1 \in T
  <2>1. SUFFICES ASSUME n + 1 <= Len(s) PROVE Kept0(n + 1)
    OBVIOUS
  <2> DEFINE q == R[n].rest
             r == s[n + 1]
  <2>2. Kept0(n) /\ r \in S
    BY <1>1, <1>5, <2>1
  <2>3. R[n + 1] = [R[n] EXCEPT !.rest = Append(q, r)]
    <3>1. Blocked(R[n].k, skb.from)
      BY <2>2 DEF Blocked
    <3> QED BY <1>3, <3>1 DEF Take
  <2>4. /\ Append(q, r) \in Seq(S) /\ Len(Append(q, r)) = n + 1
        /\ \A i \in 1 .. n : Append(q, r)[i] = q[i]
        /\ Append(q, r)[n + 1] = r
    BY <2>2
  <2>5. ASSUME NEW i \in 1 .. n + 1 PROVE Append(q, r)[i] = s[i]
    <3>1. i \in 1 .. n \/ i = n + 1
      OBVIOUS
    <3> HIDE DEF q
    <3> QED BY <2>2, <2>4, <3>1 DEF q
  <2> QED BY <2>2, <2>3, <2>4, <2>5
<1>6. Kept0(Len(s))
  <2> HIDE DEF Kept0
  <2>1. Len(s) \in Nat
    BY <1>1
  <2>2. Len(s) \in T
    <3> HIDE DEF T
    <3> QED BY <1>4, <1>5, <2>1, Counting
  <2> QED BY <2>1, <2>2
<1>7. R[Len(s)].rest = s
  <2> DEFINE q == R[Len(s)].rest
  <2>1. q \in Seq(S) /\ Len(q) = Len(s) /\ \A i \in 1 .. Len(s) : q[i] = s[i]
    BY <1>6
  <2> HIDE DEF q
  <2>2. q = s
    BY <1>1, <2>1
  <2> QED BY <2>2 DEF q
<1> QED BY <1>6, <1>7 DEF RcvSkb, PutBack, R

-----------------------------------------------------------------------------
(* What waits in the backlog.                                              *)

(* The requests of a process behind the i-th sk_buff of a backlog.         *)
Left(b, i, o) ==
    UNION {ToSet(b[j].reqs) : j \in {m \in i + 1 .. Len(b) : b[m].from = o}}

(* The requests of each process wait in the order it sent them.            *)
Orderly(b) ==
    /\ IsSeq(b)
    /\ \A i \in 1 .. Len(b) :
        /\ b[i].from \in Clients
        /\ IsSeq(b[i].reqs) /\ Ascending(b[i].reqs)
        /\ \A j \in 1 .. Len(b) : i < j /\ b[i].from = b[j].from =>
            \A q \in ToSet(b[i].reqs), r \in ToSet(b[j].reqs) : q.id < r.id

Brings(skb, o) == IF skb.from = o THEN ToSet(skb.reqs) ELSE {}

LEMMA LeftIs ==
  ASSUME NEW b, NEW i, NEW o, NEW q
  PROVE  q \in Left(b, i, o) <=>
           \E j \in i + 1 .. Len(b) : b[j].from = o /\ q \in ToSet(b[j].reqs)
BY DEF Left

LEMMA LeftStep ==
  ASSUME NEW b, Len(b) \in Nat, NEW i \in Nat, i + 1 <= Len(b), NEW o
  PROVE  Left(b, i, o) = Brings(b[i + 1], o) \cup Left(b, i + 1, o)
<1>1. i + 1 .. Len(b) = {i + 1} \cup (i + 1 + 1 .. Len(b))
  OBVIOUS
<1>2. ASSUME NEW q
      PROVE  q \in Left(b, i, o) <=>
               q \in Brings(b[i + 1], o) \cup Left(b, i + 1, o)
  <2>1. /\ q \in Left(b, i, o) <=>
             \E j \in i + 1 .. Len(b) : b[j].from = o /\ q \in ToSet(b[j].reqs)
        /\ q \in Left(b, i + 1, o) <=>
             \E j \in i + 1 + 1 .. Len(b) :
               b[j].from = o /\ q \in ToSet(b[j].reqs)
    BY LeftIs
  <2>2. q \in Brings(b[i + 1], o) <=>
          b[i + 1].from = o /\ q \in ToSet(b[i + 1].reqs)
    BY DEF Brings
  <2> QED BY <1>1, <2>1, <2>2
<1> QED BY <1>2

LEMMA LeftEnd ==
  /\ \A b, o : Len(b) \in Nat => Left(b, Len(b), o) = {}
  /\ \A o : Left(<<>>, 0, o) = {}
<1>1. ASSUME NEW b, NEW o, Len(b) \in Nat PROVE Left(b, Len(b), o) = {}
  <2>1. Len(b) + 1 .. Len(b) = {}
    BY <1>1
  <2> QED BY <2>1 DEF Left
<1>2. Len(<<>>) = 0
  OBVIOUS
<1>3. ASSUME NEW o PROVE Left(<<>>, 0, o) = {}
  <2>1. 0 + 1 .. Len(<<>>) = {}
    BY <1>2
  <2> QED BY <2>1 DEF Left
<1> QED BY <1>1, <1>3

LEMMA LeftAppend ==
  ASSUME NEW b, IsSeq(b), NEW x, NEW o
  PROVE  Left(Append(b, x), 0, o) = Left(b, 0, o) \cup Brings(x, o)
<1> DEFINE d == Append(b, x)
<1>1. /\ Len(b) \in Nat /\ Len(d) = Len(b) + 1
      /\ \A i \in 1 .. Len(b) : d[i] = b[i]
      /\ d[Len(b) + 1] = x
  BY Longer DEF IsSeq
<1> HIDE DEF d
<1>2. /\ 0 + 1 .. Len(d) = (1 .. Len(b)) \cup {Len(b) + 1}
      /\ 0 + 1 .. Len(b) = 1 .. Len(b)
  BY <1>1
<1>3. ASSUME NEW q
      PROVE  q \in Left(d, 0, o) <=> q \in Left(b, 0, o) \cup Brings(x, o)
  <2>1. /\ q \in Left(d, 0, o) <=>
             \E j \in 0 + 1 .. Len(d) : d[j].from = o /\ q \in ToSet(d[j].reqs)
        /\ q \in Left(b, 0, o) <=>
             \E j \in 0 + 1 .. Len(b) : b[j].from = o /\ q \in ToSet(b[j].reqs)
    BY LeftIs
  <2>2. q \in Brings(x, o) <=> x.from = o /\ q \in ToSet(x.reqs)
    BY DEF Brings
  <2> QED BY <1>1, <1>2, <2>1, <2>2
<1> QED BY <1>3 DEF d

LEMMA LeftLater ==
  ASSUME NEW b, Orderly(b), NEW i \in Nat, i + 1 <= Len(b)
  PROVE  \A q \in ToSet(b[i + 1].reqs), r \in Left(b, i + 1, b[i + 1].from) :
           q.id < r.id
<1>1. Len(b) \in Nat
  BY DEF Orderly, IsSeq
<1>2. ASSUME NEW q \in ToSet(b[i + 1].reqs),
             NEW r \in Left(b, i + 1, b[i + 1].from)
      PROVE  q.id < r.id
  <2>1. PICK j \in i + 1 + 1 .. Len(b) :
          b[j].from = b[i + 1].from /\ r \in ToSet(b[j].reqs)
    BY LeftIs
  <2>2. i + 1 \in 1 .. Len(b) /\ j \in 1 .. Len(b) /\ i + 1 < j
    BY <1>1
  <2> QED BY <2>1, <2>2 DEF Orderly
<1> QED BY <1>2

LEMMA OrderlyAppend ==
  ASSUME NEW b, Orderly(b), NEW x, x.from \in Clients, IsSeq(x.reqs),
         Ascending(x.reqs),
         \A q \in Left(b, 0, x.from), r \in ToSet(x.reqs) : q.id < r.id
  PROVE  Orderly(Append(b, x))
<1> DEFINE d == Append(b, x)
<1>1. /\ IsSeq(d) /\ Len(b) \in Nat /\ Len(d) = Len(b) + 1
      /\ \A i \in 1 .. Len(b) : d[i] = b[i]
      /\ d[Len(b) + 1] = x
  <2>1. \E S : b \in Seq(S)
    BY DEF Orderly, IsSeq
  <2>2. /\ \E S : d \in Seq(S)
        /\ Len(b) \in Nat /\ Len(d) = Len(b) + 1
        /\ \A i \in 1 .. Len(b) : d[i] = b[i]
        /\ d[Len(b) + 1] = x
    BY <2>1, Longer
  <2> QED BY <2>2 DEF IsSeq
<1> HIDE DEF d
<1>2. \A i \in 1 .. Len(d) : i \in 1 .. Len(b) \/ i = Len(b) + 1
  BY <1>1
<1>3. ASSUME NEW i \in 1 .. Len(d)
      PROVE  d[i].from \in Clients /\ IsSeq(d[i].reqs) /\ Ascending(d[i].reqs)
  <2>1. CASE i \in 1 .. Len(b)
    <3>1. d[i] = b[i]
      BY <1>1, <2>1
    <3> QED BY <2>1, <3>1 DEF Orderly
  <2>2. CASE i = Len(b) + 1
    BY <1>1, <2>2
  <2> QED BY <1>2, <2>1, <2>2
<1>4. ASSUME NEW i \in 1 .. Len(d), NEW j \in 1 .. Len(d), i < j,
             d[i].from = d[j].from,
             NEW q \in ToSet(d[i].reqs), NEW r \in ToSet(d[j].reqs)
      PROVE  q.id < r.id
  <2>1. i \in 1 .. Len(b) /\ d[i] = b[i]
    BY <1>1, <1>4
  <2>2. CASE j \in 1 .. Len(b)
    BY <1>1, <1>4, <2>1, <2>2 DEF Orderly
  <2>3. CASE j = Len(b) + 1
    <3>1. i \in 0 + 1 .. Len(b) /\ b[i].from = x.from
      BY <1>1, <1>4, <2>1, <2>3
    <3>2. q \in Left(b, 0, x.from)
      BY <2>1, <3>1, LeftIs
    <3> QED BY <1>1, <2>3, <3>2
  <2> QED BY <1>2, <2>2, <2>3
<1> QED BY <1>1, <1>3, <1>4 DEF Orderly, d

-----------------------------------------------------------------------------
(* A pass over the backlog.                                                *)

(* What is undone: the backlog, and X of what a process has still to send. *)
Und(a, X) == [o \in Clients |-> Left(a.backlog, 0, o) \cup X[o]]

(* Nobody waits who need not.                                              *)
Apart(a) == \A i \in 1 .. Len(a.backlog) : a.backlog[i].from # a.owner
Resting(a) ==
    /\ Orderly(a.backlog) /\ Apart(a)
    /\ a.owner = None => a.backlog = <<>>

Behind(a, X) ==
    \A o \in Clients : \A q \in Left(a.backlog, 0, o), r \in X[o] : q.id < r.id

LEMMA BacklogAgree ==
  ASSUME NEW a, NEW u, AllAgree(a, u), NEW b
  PROVE  LET d == [a EXCEPT !.backlog = b]
         IN /\ AllAgree(d, u) /\ d.backlog = b /\ d.owner = a.owner
<1> DEFINE d == [a EXCEPT !.backlog = b]
<1>1. /\ Formed(d) /\ d.backlog = b /\ d.owner = a.owner /\ d.depth = a.depth
      /\ d.rx = a.rx /\ d.out = a.out /\ d.mq = a.mq
  BY DEF AllAgree, Sound, Queues, Formed, KernelFields
<1> HIDE DEF d
<1>2. Sound(d)
  BY <1>1 DEF AllAgree, Sound, Queues
<1>3. ASSUME NEW o \in Clients PROVE Agreed(d, u[o], o)
  <2>1. Agreed(a, u[o], o)
    BY DEF AllAgree
  <2>2. Lined(d, u[o], o)
    BY <1>1, <2>1 DEF Agreed, Lined
  <2>3. /\ Stands(a, u[o], o, lib[o]) => Stands(d, u[o], o, lib[o])
        /\ Heard(a, o, lib[o]) => Heard(d, o, lib[o])
    BY <1>1 DEF Stands, Heard
  <2> QED BY <2>1, <2>2, <2>3 DEF Agreed
<1>4. AllAgree(d, u)
  BY <1>2, <1>3 DEF AllAgree
<1> QED BY <1>1, <1>4 DEF d

LEMMA AloneLeft ==
  ASSUME NEW a, Apart(a), NEW o, a.owner = o
  PROVE  Left(a.backlog, 0, o) = {}
<1>1. 0 + 1 .. Len(a.backlog) = 1 .. Len(a.backlog)
  OBVIOUS
<1> QED BY <1>1 DEF Left, Apart

(* An sk_buff arrives.  W is what of X[skb.from] the same pass will bring. *)
Arrives(a, skb, X, Y, W) ==
    /\ AllAgree(a, Und(a, Y)) /\ Resting(a)
    /\ Proper(skb, X[skb.from]) /\ W \subseteq X[skb.from]
    /\ \A o \in Clients : Y[o] = Brings(skb, o) \cup X[o]
    /\ \A q \in Left(a.backlog, 0, skb.from), r \in ToSet(skb.reqs) :
         q.id < r.id

LEMMA SkbAgree ==
  ASSUME NEW a, NEW skb, NEW X, NEW Y, NEW W, Arrives(a, skb, X, Y, W)
  PROVE  LET b == RcvSkb(a, skb)
         IN /\ AllAgree(b, Und(b, X)) /\ Orderly(b.backlog) /\ Apart(b)
            /\ (a.owner = skb.from => Isnt(ToSet(skb.reqs) \cup W, "UNLOCK"))
                 => Resting(b) /\ (b.owner = skb.from => Isnt(W, "UNLOCK"))
            /\ \A o \in Clients :
                 /\ Left(b.backlog, 0, o) \subseteq
                      Left(a.backlog, 0, o) \cup Brings(skb, o)
                 /\ o # skb.from /\ b.owner = o => a.owner = o
<1> DEFINE c == skb.from
           b == RcvSkb(a, skb)
           A == ToSet(skb.reqs)
<1> USE DEF Arrives
<1>0. c \in Clients /\ c # None /\ Brings(skb, c) = A
      /\ \A o \in Clients : o # c => Brings(skb, o) = {}
  BY NoneAssumption DEF Brings, Proper
<1>1. CASE a.owner \in {None, c}
  <2>0. \A i \in 1 .. Len(a.backlog) :
          a.backlog[i].from \in Clients /\ a.backlog[i].from # c
    <3>1. CASE a.owner = None
      <4>1. a.backlog = <<>> /\ 1 .. Len(<<>>) = {}
        BY <3>1 DEF Resting
      <4> QED BY <4>1
    <3>2. CASE a.owner = c
      BY <3>2 DEF Resting, Apart, Orderly
    <3> QED BY <1>1, <3>1, <3>2
  <2>1. Left(a.backlog, 0, c) = {}
    <3>1. 0 + 1 .. Len(a.backlog) = 1 .. Len(a.backlog)
      OBVIOUS
    <3> QED BY <2>0, <3>1 DEF Left
  <2>2. Und(a, Y)[c] = A \cup X[c]
    BY <1>0, <2>1 DEF Und
  <2>3. \A o \in Clients : o # c => Und(a, X)[o] = Und(a, Y)[o]
    BY <1>0 DEF Und
  <2>4. Und(a, X)[c] = X[c]
    BY <1>0, <2>1 DEF Und
  <2>5. /\ AllAgree(b, Und(a, X)) /\ b.backlog = a.backlog
        /\ b.owner \in {None, c} /\ Calm(a, b, c, A \cup W, W)
    <3>1. Proceeds(a, skb, Und(a, Y), Und(a, X), W)
      BY <1>1, <2>2, <2>3, <2>4 DEF Proceeds, Arrives
    <3> QED BY <3>1, SkbTaken
  <2> HIDE DEF b
  <2>6. Und(b, X) = Und(a, X)
    BY <2>5 DEF Und
  <2>7. Apart(b)
    BY <2>0, <2>5, NoneAssumption DEF Apart
  <2>8. ASSUME a.owner = c => Isnt(A \cup W, "UNLOCK")
        PROVE  Resting(b) /\ (b.owner = c => Isnt(W, "UNLOCK"))
    <3>1. (b.owner = c => Isnt(W, "UNLOCK")) /\ (a.owner = c => b.owner = c)
      BY <2>5, <2>8 DEF Calm
    <3>2. b.owner = None => b.backlog = <<>>
      BY <1>0, <1>1, <2>5, <3>1 DEF Resting
    <3> QED BY <2>5, <2>7, <3>1, <3>2 DEF Resting
  <2>9. Orderly(b.backlog)
    BY <2>5 DEF Resting
  <2>10. \A o \in Clients : o # c => b.owner # o
    BY <2>5, NoneAssumption
  <2> QED BY <2>5, <2>6, <2>7, <2>8, <2>9, <2>10 DEF b
<1>2. CASE a.owner \notin {None, c}
  <2> DEFINE x == [from |-> c, reqs |-> skb.reqs]
  <2>1. b = IF skb.reqs = <<>> THEN a
            ELSE [a EXCEPT !.backlog = Append(@, x)]
    BY <1>2, SkbKept DEF Proper
  <2>2. x.from = c /\ x.reqs = skb.reqs
    OBVIOUS
  <2> HIDE DEF b, x
  <2>3. CASE skb.reqs = <<>>
    <3>1. b = a /\ A = {}
      BY <2>1, <2>3 DEF ToSet
    <3>2. \A o \in Clients : Und(a, X)[o] = Und(a, Y)[o]
      BY <1>0, <3>1 DEF Und
    <3>3. AllAgree(a, Und(a, X))
      BY <3>2 DEF AllAgree
    <3>4. b.owner # c
      BY <1>2, <3>1
    <3> QED BY <3>1, <3>3, <3>4 DEF b, Resting
  <2>4. CASE skb.reqs # <<>>
    <3>1. AllAgree(b, Und(a, Y)) /\ b.backlog = Append(a.backlog, x)
          /\ b.owner = a.owner
      BY <2>1, <2>4, BacklogAgree
    <3>2. \A o : Brings(x, o) = Brings(skb, o)
      BY <2>2 DEF Brings
    <3>3. \A o : Left(b.backlog, 0, o) = Left(a.backlog, 0, o)
                                           \cup Brings(skb, o)
      BY <3>1, <3>2, LeftAppend DEF Resting, Orderly
    <3>4. \A o \in Clients : Und(b, X)[o] = Und(a, Y)[o]
      BY <3>3 DEF Und
    <3>5. AllAgree(b, Und(b, X))
      BY <3>1, <3>4 DEF AllAgree
    <3>6. Orderly(b.backlog)
      BY <2>2, <3>1, OrderlyAppend DEF Resting, Proper
    <3>7. Apart(b)
      <4>1. /\ Len(a.backlog) \in Nat /\ Len(b.backlog) = Len(a.backlog) + 1
            /\ \A i \in 1 .. Len(a.backlog) : b.backlog[i] = a.backlog[i]
            /\ b.backlog[Len(a.backlog) + 1] = x
        BY <3>1, Longer DEF Resting, Orderly, IsSeq
      <4>2. ASSUME NEW i \in 1 .. Len(b.backlog)
            PROVE  b.backlog[i].from # b.owner
        <5>1. CASE i = Len(a.backlog) + 1
          BY <1>2, <2>2, <3>1, <4>1, <5>1
        <5>2. CASE i # Len(a.backlog) + 1
          <6>1. i \in 1 .. Len(a.backlog)
            BY <4>1, <5>2
          <6> QED BY <3>1, <4>1, <6>1 DEF Resting, Apart
        <5> QED BY <5>1, <5>2
      <4> QED BY <4>2 DEF Apart
    <3>8. Resting(b) /\ b.owner # c
      BY <1>2, <3>1, <3>6, <3>7 DEF Resting
    <3> QED BY <3>1, <3>3, <3>5, <3>6, <3>7, <3>8 DEF b
  <2> QED BY <2>3, <2>4
<1> QED BY <1>1, <1>2

(* The kernel with the processes' X behind the backlog, when a pass may    *)
(* begin, and when none is needed.                                         *)
Passable(a, X) ==
    AllAgree(a, Und(a, X)) /\ Orderly(a.backlog) /\ Apart(a) /\ Behind(a, X)
Done(a, X) == Passable(a, X) /\ Resting(a)

LEMMA PassAgree ==
  ASSUME NEW a, NEW X, Passable(a, X)
  PROVE  Done(Pass(a)[Len(a.backlog)], X)
<1> DEFINE L == a.backlog
           R == Pass(a)
           U(i) == [o \in Clients |-> Left(L, i, o) \cup X[o]]
           On(x, i) == /\ AllAgree(x, Und(x, U(i))) /\ Resting(x)
                       /\ \A o \in Clients :
                            /\ Left(x.backlog, 0, o) \subseteq Left(L, 0, o)
                            /\ \A q \in Left(x.backlog, 0, o),
                                  r \in Left(L, i, o) : q.id < r.id
                            /\ x.owner = o => Isnt(Left(L, i, o), "UNLOCK")
           T == {i \in Nat : i <= Len(L) => On(R[i], i)}
<1>0. Orderly(L) /\ Len(L) \in Nat
  BY DEF Passable, Orderly, IsSeq
<1>1. R[0] = [a EXCEPT !.backlog = <<>>]
  BY ONLY PassSteps
<1>2. \A n \in Nat : R[n + 1] = RcvSkb(R[n], L[n + 1])
  BY ONLY PassSteps
<1> HIDE DEF R
<1>3. On(R[0], 0)
  <2> DEFINE x == R[0]
  <2>1. AllAgree(x, Und(a, X)) /\ x.backlog = <<>> /\ x.owner = a.owner
    BY <1>1, BacklogAgree DEF Passable
  <2> HIDE DEF x
  <2>2. \A o : Left(x.backlog, 0, o) = {}
    BY <2>1, LeftEnd
  <2>3. \A o \in Clients : Und(x, U(0))[o] = Und(a, X)[o]
    BY <2>2 DEF Und
  <2>4. AllAgree(x, Und(x, U(0)))
    BY <2>1, <2>3 DEF AllAgree
  <2>5. 1 .. Len(x.backlog) = {} /\ IsSeq(x.backlog)
    <3>1. <<>> \in Seq({}) /\ Len(<<>>) = 0
      OBVIOUS
    <3> QED BY <2>1, <3>1 DEF IsSeq
  <2>6. Resting(x)
    BY <2>1, <2>5 DEF Resting, Apart, Orderly
  <2>7. ASSUME NEW o \in Clients, x.owner = o
        PROVE  Isnt(Left(L, 0, o), "UNLOCK")
    <3>1. Left(L, 0, o) = {}
      BY <2>1, <2>7, AloneLeft DEF Passable
    <3> QED BY <3>1 DEF Isnt
  <2> QED BY <2>2, <2>4, <2>6, <2>7 DEF x
<1>4. ASSUME NEW i \in Nat, i + 1 <= Len(L), On(R[i], i)
      PROVE  On(R[i + 1], i + 1)
  <2> DEFINE x == R[i]
             y == R[i + 1]
             skb == L[i + 1]
             c == skb.from
             W == Left(L, i + 1, c)
             Z == U(i + 1)
  <2>1. y = RcvSkb(x, skb)
    BY <1>2
  <2>2. i + 1 \in 1 .. Len(L)
    BY <1>0, <1>4
  <2>3. c \in Clients /\ IsSeq(skb.reqs) /\ Ascending(skb.reqs)
    BY <1>0, <2>2 DEF Orderly
  <2>4. \A o : Left(L, i, o) = Brings(skb, o) \cup Left(L, i + 1, o)
    BY <1>0, <1>4, LeftStep
  <2>5. ToSet(skb.reqs) \subseteq Left(L, i, c) /\ W \subseteq Left(L, i, c)
    BY <2>4 DEF Brings
  <2>6. Left(L, i, c) \subseteq Left(L, 0, c)
    <3>1. ASSUME NEW q \in Left(L, i, c) PROVE q \in Left(L, 0, c)
      <4>1. PICK j \in i + 1 .. Len(L) :
              L[j].from = c /\ q \in ToSet(L[j].reqs)
        BY <3>1, LeftIs
      <4>2. j \in 0 + 1 .. Len(L)
        BY <1>0
      <4> QED BY <4>1, <4>2, LeftIs
    <3> QED BY <3>1
  <2>7. Arrives(x, skb, Z, U(i), W)
    <3>1. Z[c] = W \cup X[c]
      BY <2>3
    <3>2. \A q \in ToSet(skb.reqs), r \in W : q.id < r.id
      BY <1>0, <1>4, LeftLater
    <3>3. \A q \in ToSet(skb.reqs), r \in X[c] : q.id < r.id
      BY <2>3, <2>5, <2>6 DEF Passable, Behind
    <3>4. Proper(skb, Z[c])
      BY <2>3, <3>1, <3>2, <3>3 DEF Proper
    <3>5. \A o \in Clients : U(i)[o] = Brings(skb, o) \cup Z[o]
      BY <2>4
    <3>6. \A q \in Left(x.backlog, 0, c), r \in ToSet(skb.reqs) : q.id < r.id
      BY <1>4, <2>3, <2>5
    <3>7. AllAgree(x, Und(x, U(i))) /\ Resting(x)
      BY <1>4
    <3> HIDE DEF U, Z, W, skb, x
    <3> QED BY <3>1, <3>4, <3>5, <3>6, <3>7 DEF Arrives, c
  <2>8. x.owner = c => Isnt(ToSet(skb.reqs) \cup W, "UNLOCK")
    BY <1>4, <2>3, <2>5 DEF Isnt
  <2>9. /\ AllAgree(y, Und(y, Z)) /\ Resting(y)
        /\ y.owner = c => Isnt(W, "UNLOCK")
        /\ \A o \in Clients :
             /\ Left(y.backlog, 0, o) \subseteq
                  Left(x.backlog, 0, o) \cup Brings(skb, o)
             /\ o # c /\ y.owner = o => x.owner = o
    <3> HIDE DEF U, Z, W, skb, x, y
    <3> QED BY <2>1, <2>7, <2>8, SkbAgree DEF c
  <2> HIDE DEF y, x
  <2>10. ASSUME NEW o \in Clients
         PROVE  /\ Left(y.backlog, 0, o) \subseteq Left(L, 0, o)
                /\ \A q \in Left(y.backlog, 0, o),
                      r \in Left(L, i + 1, o) : q.id < r.id
                /\ y.owner = o => Isnt(Left(L, i + 1, o), "UNLOCK")
    <3>1. /\ Left(x.backlog, 0, o) \subseteq Left(L, 0, o)
          /\ \A q \in Left(x.backlog, 0, o), r \in Left(L, i, o) : q.id < r.id
          /\ x.owner = o => Isnt(Left(L, i, o), "UNLOCK")
      BY <1>4 DEF x
    <3>2. CASE o = c
      <4>1. \A q \in ToSet(skb.reqs), r \in W : q.id < r.id
        BY <1>0, <1>4, LeftLater
      <4>2. Brings(skb, o) = ToSet(skb.reqs)
        BY <3>2 DEF Brings
      <4>3. Left(y.backlog, 0, o) \subseteq
              Left(x.backlog, 0, o) \cup ToSet(skb.reqs)
        BY <2>9, <4>2
      <4> HIDE DEF skb, W
      <4>4. W \subseteq Left(L, i, o) /\ Left(L, i + 1, o) = W
        BY <2>5, <3>2 DEF W
      <4>5. Left(y.backlog, 0, o) \subseteq Left(L, 0, o)
        BY <2>5, <2>6, <3>1, <3>2, <4>3
      <4>6. \A q \in Left(y.backlog, 0, o), r \in W : q.id < r.id
        BY <3>1, <4>1, <4>3, <4>4
      <4> QED BY <2>9, <3>2, <4>4, <4>5, <4>6
    <3>3. CASE o # c
      <4>1. Brings(skb, o) = {}
        BY <3>3 DEF Brings
      <4>2. Left(y.backlog, 0, o) \subseteq Left(x.backlog, 0, o)
            /\ (y.owner = o => x.owner = o)
        BY <2>9, <3>3, <4>1
      <4>3. Left(L, i + 1, o) \subseteq Left(L, i, o)
        BY <2>4
      <4> QED BY <3>1, <4>2, <4>3 DEF Isnt
    <3> QED BY <3>2, <3>3
  <2> QED BY <2>9, <2>10 DEF y
<1> HIDE DEF On
<1>5. 0 \in T
  BY <1>3
<1>6. ASSUME NEW i \in Nat, i \in T
      PROVE  i + 1 \in T
  BY <1>0, <1>4, <1>6
<1>7. Len(L) \in T
  <2> HIDE DEF T
  <2> QED BY <1>0, <1>5, <1>6, Counting
<1>8. On(R[Len(L)], Len(L))
  BY <1>0, <1>7
<1> DEFINE z == R[Len(L)]
<1>9. Resting(z) /\ Behind(z, X)
  BY <1>8 DEF On, Passable, Behind
<1>10. AllAgree(z, Und(z, X))
  <2>1. \A o : Left(L, Len(L), o) = {}
    BY <1>0, LeftEnd
  <2>2. \A o \in Clients : Und(z, U(Len(L)))[o] = Und(z, X)[o]
    BY <2>1 DEF Und
  <2>3. AllAgree(z, Und(z, U(Len(L))))
    BY <1>8 DEF On
  <2> HIDE DEF z, U
  <2> QED BY <2>2, <2>3 DEF AllAgree
<1> QED BY <1>9, <1>10 DEF Done, Passable, Resting, R

(* A call of ks_netlink_rcv: what is undone changes from Y to X.           *)
Sends(a, skb, X, Y) ==
    /\ Done(a, Y) /\ Proper(skb, X[skb.from])
    /\ \A o \in Clients : Y[o] = Brings(skb, o) \cup X[o]

LEMMA RcvAgree ==
  ASSUME NEW a, NEW skb, NEW X, NEW Y, Sends(a, skb, X, Y)
  PROVE  Done(Rcv(a, skb), X)
<1> DEFINE x == RcvSkb(a, skb)
           c == skb.from
           R == Passes(x)
           T == {n \in Nat : Passable(R[n], X) /\ (n # 0 => Done(R[n], X))}
<1>0. c \in Clients /\ \A o \in Clients : o # c => Brings(skb, o) = {}
  BY DEF Sends, Proper, Brings
<1>1. Arrives(a, skb, X, Y, {})
  <2>1. ToSet(skb.reqs) \subseteq Y[c]
    BY <1>0 DEF Sends, Brings
  <2>2. \A q \in Left(a.backlog, 0, c), r \in ToSet(skb.reqs) : q.id < r.id
    BY <1>0, <2>1 DEF Sends, Done, Passable, Behind
  <2> QED BY <2>2 DEF Arrives, Sends, Done, Passable
<1>2. /\ AllAgree(x, Und(x, X)) /\ Orderly(x.backlog) /\ Apart(x)
      /\ \A o \in Clients : Left(x.backlog, 0, o) \subseteq
                              Left(a.backlog, 0, o) \cup Brings(skb, o)
  BY <1>1, SkbAgree
<1> HIDE DEF x
<1>3. ASSUME NEW o \in Clients, NEW q \in Left(x.backlog, 0, o), NEW r \in X[o]
      PROVE  q.id < r.id
  <2>1. CASE q \in Left(a.backlog, 0, o)
    BY <1>3, <2>1 DEF Sends, Done, Passable, Behind
  <2>2. CASE q \in Brings(skb, o)
    <3>1. o = c /\ q \in ToSet(skb.reqs)
      BY <1>0, <2>2 DEF Brings
    <3> QED BY <1>3, <3>1 DEF Sends, Proper
  <2> QED BY <1>2, <1>3, <2>1, <2>2
<1>4. Passable(x, X)
  BY <1>2, <1>3 DEF Passable, Behind
<1>5. R[0] = x /\ \A n \in Nat : R[n + 1] = Pass(R[n])[Len(R[n].backlog)]
  BY PassesSteps
<1> HIDE DEF R
<1>6. 0 \in T
  BY <1>4, <1>5
<1>7. ASSUME NEW n \in Nat, n \in T
      PROVE  n + 1 \in T
  <2>1. Passable(R[n], X)
    BY <1>7
  <2>2. Done(Pass(R[n])[Len(R[n].backlog)], X)
    BY <2>1, PassAgree
  <2>3. Done(R[n + 1], X)
    BY <1>5, <2>2
  <2> QED BY <2>3 DEF Done
<1>8. Len(x.backlog) \in Nat
  BY <1>2 DEF Orderly, IsSeq
<1>9. Len(x.backlog) \in T
  <2> HIDE DEF T
  <2> QED BY <1>6, <1>7, <1>8, Counting
<1>10. Rcv(a, skb) = R[Len(x.backlog)]
  BY DEF Rcv, ProcessBacklog, R, x
<1>11. CASE Len(x.backlog) = 0
  <2>1. x.backlog = <<>>
    BY <1>2, <1>11 DEF Orderly, IsSeq
  <2>2. Done(x, X)
    BY <1>4, <2>1 DEF Done, Passable, Resting
  <2> QED BY <1>5, <1>10, <1>11, <2>2
<1>12. CASE Len(x.backlog) # 0
  BY <1>9, <1>10, <1>12
<1> QED BY <1>11, <1>12

-----------------------------------------------------------------------------
(* The processes and the lock.                                             *)

(* Results that wait for the user thread and requests it waits for.        *)
Single(l) ==
    \/ l.res = <<>> /\ l.need \subseteq {l.n}
    \/ (\E m : l.res = <<m>>) /\ l.need = {}
Waiting(l) ==
    /\ l.pc \in {"off", "idle"} => l.res = <<>> /\ l.need = {}
    /\ l.pc = "sync chans" =>
        \/ l.res = <<>> /\ l.need \subseteq {l.n - 1, l.n}
        \/ (\E m : l.res = <<m>>) /\ \E i : l.need \subseteq {i}
        \/ (\E m, p : l.res = <<m, p>>) /\ l.need = {}
    /\ l.pc = "sync pipes" =>
        \/ l.res = <<>> /\ \E i : l.need \subseteq {i}
        \/ (\E m : l.res = <<m>>) /\ l.need = {}
    /\ l.pc \notin {"off", "idle", "sync chans", "sync pipes"} => Single(l)

Held(l) == l.pc \in Pcs /\ Ascending(l.tx) /\ Waiting(l)

(* The requests of c that the kernel has not taken.                        *)
Owes(c, l) == Left(k.backlog, 0, c) \cup ToSet(l.tx)
Trails(S, T) == \A q \in S, r \in T : q.id < r.id

Locked ==
    /\ Sound(k) /\ Resting(k)
    /\ \A c \in Clients :
        /\ Agreed(k, Owes(c, lib[c]), c) /\ Held(lib[c])
        /\ Trails(Left(k.backlog, 0, c), ToSet(lib[c].tx))

(* A step of c, seen by the others.                                        *)
LEMMA StepLock ==
  ASSUME DOMAIN lib = Clients, Locked,
         NEW c \in Clients, NEW m, lib' = [lib EXCEPT ![c] = m],
         k'.backlog = k.backlog, k'.owner = k.owner, k'.depth = k.depth,
         Sound(k'),
         \A o \in Clients : o # c => /\ k'.rx[o] = k.rx[o]
                                     /\ o \in gaveUp' <=> o \in gaveUp,
         Held(m), Trails(Left(k.backlog, 0, c), ToSet(m.tx)),
         Agreed(k, Owes(c, lib[c]), c)'
  PROVE  Locked'
<1>1. lib'[c] = m /\ \A o \in Clients : o # c => lib'[o] = lib[o]
  OBVIOUS
<1>2. Resting(k)'
  BY DEF Locked, Resting, Apart
<1>3. ASSUME NEW o \in Clients
      PROVE  /\ Agreed(k, Owes(o, lib[o]), o)' /\ Held(lib[o])'
             /\ Trails(Left(k.backlog, 0, o), ToSet(lib[o].tx))'
  <2>1. CASE o = c
    BY <1>1, <2>1
  <2>2. CASE o # c
    <3>1. /\ lib'[o] = lib[o] /\ k'.rx[o] = k.rx[o]
          /\ o \in gaveUp' <=> o \in gaveUp
      BY <1>1, <2>2
    <3> DEFINE S == Owes(o, lib[o])
    <3>2. S' = S
      BY <3>1 DEF Owes
    <3>3. /\ Agreed(k, S, o) /\ Held(lib[o])
          /\ Trails(Left(k.backlog, 0, o), ToSet(lib[o].tx))
      BY DEF Locked
    <3> HIDE DEF S
    <3>4. Lined(k, S, o)'
      BY <3>1, <3>2, <3>3 DEF Agreed, Lined
    <3>5. ASSUME Alive(o)' PROVE (lib[o].n \in Nat /\ Heard(k, o, lib[o]))'
      BY <3>1, <3>3, <3>5 DEF Agreed, Alive, Heard
    <3>6. ASSUME Alive(o)' PROVE Stands(k, S, o, lib[o])'
      BY <3>1, <3>2, <3>3, <3>6 DEF Agreed, Alive, Stands
    <3>7. Agreed(k, S, o)'
      BY <3>4, <3>5, <3>6 DEF Agreed
    <3> QED BY <3>1, <3>3, <3>7 DEF S
  <2> QED BY <2>1, <2>2
<1> QED BY <1>2, <1>3 DEF Locked

(* What the user thread does not change by asking: its requests are in     *)
(* order and behind all that was answered.                                 *)
Tidy(c, l) ==
    /\ l.n \in Nat /\ IsSeq(l.tx) /\ Ascending(l.tx)
    /\ Lined(k, Owes(c, l), c) /\ \A q \in Owes(c, l) : q.id <= l.n
    /\ Trails(Left(k.backlog, 0, c), ToSet(l.tx))
    /\ \A i \in 1 .. Len(k.rx[c]) : ~k.rx[c][i].mcast => k.rx[c][i].id <= l.n

LEMMA TidyNow ==
  ASSUME Invariant, Locked, NEW c \in Clients, Alive(c)
  PROVE  /\ Tidy(c, lib[c]) /\ Stands(k, Owes(c, lib[c]), c, lib[c])
         /\ Heard(k, c, lib[c]) /\ Held(lib[c])
<1>1. IsSeq(lib[c].tx)
  BY DEF Invariant, Asks, AllAsked, IsSeq
<1>2. /\ Agreed(k, Owes(c, lib[c]), c) /\ Held(lib[c])
      /\ Trails(Left(k.backlog, 0, c), ToSet(lib[c].tx))
  BY DEF Locked
<1>3. /\ Lined(k, Owes(c, lib[c]), c) /\ Stands(k, Owes(c, lib[c]), c, lib[c])
      /\ Heard(k, c, lib[c]) /\ lib[c].n \in Nat
  BY <1>2 DEF Agreed
<1>4. \A q \in Owes(c, lib[c]) : q.id <= lib[c].n
  BY <1>3 DEF Stands
<1> QED BY <1>1, <1>2, <1>3, <1>4 DEF Tidy, Heard, Held

LEMMA TidySame ==
  ASSUME NEW c, NEW l, NEW m, Tidy(c, l), m.n = l.n, m.tx = l.tx
  PROVE  Tidy(c, m) /\ Owes(c, m) = Owes(c, l)
<1>1. Owes(c, m) = Owes(c, l)
  BY DEF Owes
<1> QED BY <1>1 DEF Tidy

(* One more request.                                                       *)
Asked(l, m, r) ==
    /\ m.n = l.n + 1 /\ r.id = m.n /\ WellAsked(r) /\ m.tx = Append(l.tx, r)
    /\ m.need = l.need \cup {m.n} /\ m.res = l.res

LEMMA AskTidy ==
  ASSUME NEW c, NEW l, NEW m, NEW r, Tidy(c, l), Asked(l, m, r),
         r.type = "LOCK" /\ c \notin gaveUp =>
            k.owner # c /\ Isnt(Owes(c, l), "LOCK"),
         r.type = "UNLOCK" => Isnt(Owes(c, l), "LOCK")
  PROVE  /\ Tidy(c, m) /\ Owes(c, m) = Owes(c, l) \cup {r}
         /\ \A q \in Owes(c, l) : q.id # m.n
         /\ Heard(k, c, m)
<1> DEFINE S == Owes(c, l)
           T == S \cup {r}
           s == Append(l.tx, r)
<1>1. /\ IsSeq(s) /\ Len(l.tx) \in Nat /\ Len(s) = Len(l.tx) + 1
      /\ \A i \in 1 .. Len(l.tx) : s[i] = l.tx[i]
      /\ s[Len(l.tx) + 1] = r
  BY Longer DEF Tidy, IsSeq
<1>2. DOMAIN s = 1 .. Len(s) /\ DOMAIN l.tx = 1 .. Len(l.tx)
  BY <1>1 DEF Tidy, IsSeq
<1> HIDE DEF s
<1>3. ToSet(s) = ToSet(l.tx) \cup {r}
  <2>1. DOMAIN s = DOMAIN l.tx \cup {Len(l.tx) + 1}
    BY <1>1, <1>2
  <2> QED BY <1>1, <1>2, <2>1 DEF ToSet
<1>4. Owes(c, m) = T
  BY <1>3 DEF Owes, Asked, s
<1>5. l.n \in Nat /\ r.id = l.n + 1 /\ m.n = l.n + 1
  BY DEF Tidy, Asked
<1>6. \A q \in S : q.id \in Nat /\ q.id <= l.n
  BY DEF Tidy, Lined
<1>7. ToSet(l.tx) \subseteq S /\ Left(k.backlog, 0, c) \subseteq S
  BY DEF Owes
<1>8. Ascending(s)
  <2> SUFFICES ASSUME NEW i \in 1 .. Len(s), NEW j \in 1 .. Len(s), i < j
               PROVE  s[i].id < s[j].id
    BY DEF Ascending
  <2>1. i \in 1 .. Len(l.tx) /\ s[i] = l.tx[i]
    BY <1>1
  <2>2. CASE j = Len(l.tx) + 1
    <3>1. l.tx[i] \in S
      BY <1>2, <1>7, <2>1 DEF ToSet
    <3> QED BY <1>1, <1>5, <1>6, <2>1, <2>2, <3>1
  <2>3. CASE j # Len(l.tx) + 1
    <3>1. j \in 1 .. Len(l.tx) /\ s[j] = l.tx[j]
      BY <1>1, <2>3
    <3> QED BY <2>1, <3>1 DEF Tidy, Ascending
  <2> QED BY <2>2, <2>3
<1>9. Trails(Left(k.backlog, 0, c), ToSet(s))
  BY <1>3, <1>5, <1>6, <1>7 DEF Trails, Tidy
<1>10. \A i \in 1 .. Len(k.rx[c]) : ~k.rx[c][i].mcast =>
         k.rx[c][i].id \in Nat /\ k.rx[c][i].id <= l.n
  BY DEF Tidy, Lined
<1>11. Lined(k, T, c)
  <2> HIDE DEF S
  <2>0. Lined(k, S, c)
    BY DEF Tidy, S
  <2>1. \A q \in T : WellAsked(q) /\ q.id \in Nat
    BY <1>5, <2>0 DEF Lined, Asked
  <2>2. ASSUME NEW p \in T, NEW q \in T, p.type = "LOCK", q.type = "UNLOCK"
        PROVE  q.id < p.id
    BY <1>5, <1>6, <2>0, <2>2 DEF Lined, Isnt, S
  <2>3. ASSUME NEW p \in T, NEW q \in T, p.type = "LOCK", q.type = "LOCK",
               c \notin gaveUp
        PROVE  p = q
    BY <2>0, <2>3 DEF Lined, Isnt, S
  <2>4. \A i \in 1 .. Len(k.rx[c]) : ~k.rx[c][i].mcast =>
          k.rx[c][i].id \in Nat /\ \A q \in T : k.rx[c][i].id < q.id
    BY <1>5, <1>10, <2>0 DEF Lined
  <2>5. k.owner = c /\ c \notin gaveUp => k.depth = 1 /\ Isnt(T, "LOCK")
    BY <2>0 DEF Lined, Isnt, S
  <2> QED BY <2>1, <2>2, <2>3, <2>4, <2>5 DEF Lined
<1>12. Tidy(c, m)
  <2>1. m.tx = s
    BY DEF Asked, s
  <2>2. \A q \in T : q.id <= m.n
    BY <1>5, <1>6
  <2>3. m.n \in Nat /\ \A i \in 1 .. Len(k.rx[c]) :
          ~k.rx[c][i].mcast => k.rx[c][i].id <= m.n
    BY <1>5, <1>10
  <2> HIDE DEF T
  <2> QED BY <1>1, <1>4, <1>8, <1>9, <1>11, <2>1, <2>2, <2>3 DEF Tidy
<1>13. Heard(k, c, m)
  BY <1>5, <1>10 DEF Heard
<1>14. \A q \in S : q.id # m.n
  BY <1>5, <1>6
<1> QED BY <1>4, <1>12, <1>13, <1>14

LEMMA TidyLock ==
  ASSUME Invariant, Locked, NEW c \in Clients, NEW m, UserStep(c, m),
         Tidy(c, m), Stands(k, Owes(c, m), c, m), Heard(k, c, m),
         m.pc \in Pcs, Waiting(m)
  PROVE  Locked'
<1>1. k' = k /\ gaveUp' = gaveUp /\ lib' = [lib EXCEPT ![c] = m]
  BY DEF UserStep, history
<1>2. lib'[c] = m
  BY <1>1 DEF Invariant
<1>3. Owes(c, lib[c])' = Owes(c, m)
  BY <1>1, <1>2 DEF Owes
<1> DEFINE S == Owes(c, lib[c])
<1>4. S' = Owes(c, m)
  BY <1>3
<1> HIDE DEF S
<1>5. Lined(k, S, c)'
  <2>1. Lined(k, Owes(c, m), c)
    BY DEF Tidy
  <2> QED BY <1>1, <1>4, <2>1 DEF Lined
<1>6. Stands(k, S, c, lib[c])'
  BY <1>1, <1>2, <1>4 DEF Stands
<1>7. Heard(k, c, lib[c])'
  BY <1>1, <1>2 DEF Heard
<1>8. Agreed(k, S, c)'
  BY <1>2, <1>5, <1>6, <1>7 DEF Agreed, Tidy
<1>9. /\ Held(m) /\ Trails(Left(k.backlog, 0, c), ToSet(m.tx))
      /\ DOMAIN lib = Clients
  BY DEF Held, Tidy, Invariant
<1>10. Sound(k') /\ Agreed(k, Owes(c, lib[c]), c)'
  BY <1>1, <1>8 DEF Locked, S
<1> QED BY <1>1, <1>9, <1>10, StepLock

(* The record of a user thread whose wait is over.                         *)
Rested(c, l) ==
    /\ DOMAIN l = LibFields /\ l.tx = lib[c].tx /\ l.n = lib[c].n
    /\ l.res = <<>> /\ l.need = {}

LEMMA AskIs ==
  ASSUME NEW l, DOMAIN l = LibFields, NEW pc, NEW t \in Commands
  PROVE  LET m == Ask(l, pc, t)
         IN /\ DOMAIN m = LibFields /\ m.pc = pc
            /\ \E r : Asked(l, m, r) /\ r.type = t
<1> DEFINE r == Req(t, l.n + 1)
           m == Ask(l, pc, t)
<1>1. WellAsked(r) /\ r.type = t /\ r.id = l.n + 1
  <2>1. <<>> \in Seq(Chans)
    OBVIOUS
  <2>2. r.type = t /\ r.chans = <<>> /\ r.st = 0 /\ r.id = l.n + 1
    BY DEF Req
  <2> HIDE DEF r
  <2> QED BY <2>1, <2>2 DEF WellAsked, Status
<1>2. /\ DOMAIN m = LibFields /\ m.tx = Append(l.tx, r) /\ m.pc = pc
      /\ m.n = l.n + 1 /\ m.need = l.need \cup {l.n + 1} /\ m.res = l.res
  BY DEF Ask, LibFields
<1> HIDE DEF r, m
<1>3. Asked(l, m, r)
  BY <1>1, <1>2 DEF Asked
<1> QED BY <1>1, <1>2, <1>3 DEF m

LEMMA AskAboutIs ==
  ASSUME NEW l, DOMAIN l = LibFields, NEW pc, NEW t \in Commands, NEW p,
         NEW st \in Status, NEW s \in Seq(Chans)
  PROVE  LET m == AskAbout(l, pc, t, p, st, s)
         IN /\ DOMAIN m = LibFields /\ m.pc = pc
            /\ \E r : Asked(l, m, r) /\ r.type = t
<1> DEFINE r == [Req(t, l.n + 1) EXCEPT !.pipe = p, !.st = st, !.chans = s]
           x == Ask(l, pc, t)
           m == AskAbout(l, pc, t, p, st, s)
<1>1. WellAsked(r) /\ r.type = t /\ r.id = l.n + 1
  <2>1. r.type = t /\ r.chans = s /\ r.st = st /\ r.id = l.n + 1
    BY DEF Req
  <2> HIDE DEF r
  <2> QED BY <2>1 DEF WellAsked
<1>2. /\ DOMAIN x = LibFields /\ x.pc = pc
      /\ x.n = l.n + 1 /\ x.need = l.need \cup {l.n + 1} /\ x.res = l.res
  BY DEF Ask, LibFields
<1> HIDE DEF r, x
<1>3. m = [x EXCEPT !.tx = Append(l.tx, r)]
  BY DEF AskAbout, r, x
<1>4. /\ DOMAIN m = LibFields /\ m.tx = Append(l.tx, r) /\ m.pc = pc
      /\ m.n = l.n + 1 /\ m.need = l.need \cup {l.n + 1} /\ m.res = l.res
  BY <1>2, <1>3 DEF LibFields
<1> HIDE DEF m
<1>5. Asked(l, m, r)
  BY <1>1, <1>4 DEF Asked
<1> QED BY <1>1, <1>4, <1>5 DEF m

(* It has asked again, and waits.                                          *)
LEMMA Goes ==
  ASSUME Invariant, Locked, NEW c \in Clients, Alive(c), NEW l, Rested(c, l),
         NEW m, NEW r, Asked(l, m, r), m.pc \in Pcs,
         m.pc \notin {"off", "idle", "sync chans", "sync pipes", "dead"},
         r.type = "LOCK" /\ c \notin gaveUp =>
            k.owner # c /\ Isnt(Owes(c, lib[c]), "LOCK"),
         r.type = "UNLOCK" => Isnt(Owes(c, lib[c]), "LOCK")
  PROVE  /\ Tidy(c, m) /\ Heard(k, c, m) /\ Waiting(m) /\ m.res = <<>>
         /\ Owes(c, m) = Owes(c, lib[c]) \cup {r}
         /\ r.id = m.n /\ \A q \in Owes(c, m) : q.id <= m.n
         /\ \A q \in Owes(c, lib[c]) : q.id # m.n
<1>1. Tidy(c, lib[c])
  BY TidyNow
<1>2. Tidy(c, l) /\ Owes(c, l) = Owes(c, lib[c])
  BY <1>1, TidySame DEF Rested
<1>3. /\ Tidy(c, m) /\ Owes(c, m) = Owes(c, l) \cup {r}
      /\ \A q \in Owes(c, l) : q.id # m.n
      /\ Heard(k, c, m)
  BY <1>2, AskTidy
<1>4. m.res = <<>> /\ m.need \subseteq {m.n} /\ r.id = m.n
  BY DEF Asked, Rested
<1>5. Waiting(m)
  BY <1>4 DEF Waiting, Single
<1>6. \A q \in Owes(c, m) : q.id <= m.n
  BY <1>3 DEF Tidy
<1> QED BY <1>2, <1>3, <1>4, <1>5, <1>6

(* Where it goes: to ask for the lock, to release it, or on without it.    *)
LEMMA GoAsk ==
  ASSUME Invariant, Locked, NEW c \in Clients, lib[c].pc \in {"off", "idle"},
         NEW l, Rested(c, l), NEW m, NEW r, Asked(l, m, r), UserStep(c, m),
         m.pc \in Asking, r.type = "LOCK"
  PROVE  Locked'
<1>1. /\ Alive(c) /\ m.pc \in Pcs
      /\ m.pc \notin {"off", "idle", "sync chans", "sync pipes", "dead"}
  BY DEF Alive, Asking, Pcs
<1>2. c \notin gaveUp => k.owner # c /\ Isnt(Owes(c, lib[c]), "LOCK")
  BY <1>1, TidyNow DEF Stands, Outside
<1>3. /\ Tidy(c, m) /\ Heard(k, c, m) /\ Waiting(m) /\ m.res = <<>>
      /\ Owes(c, m) = Owes(c, lib[c]) \cup {r}
      /\ r.id = m.n /\ \A q \in Owes(c, m) : q.id <= m.n
      /\ \A q \in Owes(c, lib[c]) : q.id # m.n
  BY <1>1, <1>2, Goes
<1>4. Stands(k, Owes(c, m), c, m)
  BY <1>3 DEF Stands, Sent, Asking, Inside, Releasing, Outside
<1> QED BY <1>1, <1>3, <1>4, TidyLock

LEMMA GoRelease ==
  ASSUME Invariant, Locked, NEW c \in Clients, Alive(c),
         NEW l, Rested(c, l), NEW m, NEW r, Asked(l, m, r), UserStep(c, m),
         m.pc \in Releasing, r.type = "UNLOCK",
         Isnt(Owes(c, lib[c]), "LOCK")
  PROVE  Locked'
<1>1. /\ m.pc \in Pcs
      /\ m.pc \notin {"off", "idle", "sync chans", "sync pipes", "dead"}
  BY DEF Releasing, Pcs
<1>3. /\ Tidy(c, m) /\ Heard(k, c, m) /\ Waiting(m) /\ m.res = <<>>
      /\ Owes(c, m) = Owes(c, lib[c]) \cup {r}
      /\ r.id = m.n /\ \A q \in Owes(c, m) : q.id <= m.n
      /\ \A q \in Owes(c, lib[c]) : q.id # m.n
  BY <1>1, Goes
<1>4. Stands(k, Owes(c, m), c, m)
  BY <1>3 DEF Stands, Sent, Asking, Inside, Releasing, Outside, Isnt
<1> QED BY <1>1, <1>3, <1>4, TidyLock

LEMMA GoOn ==
  ASSUME Invariant, Locked, NEW c \in Clients, Alive(c),
         NEW l, Rested(c, l), NEW m, NEW r, Asked(l, m, r), UserStep(c, m),
         m.pc \in {"start", "stop", "destroy"},
         r.type \notin {"LOCK", "UNLOCK"},
         c \notin gaveUp => k.owner # c /\ Isnt(Owes(c, lib[c]), "LOCK"),
         m.pc = "start" => Isnt(Owes(c, lib[c]), "LOCK")
  PROVE  Locked'
<1>1. /\ m.pc \in Pcs
      /\ m.pc \notin {"off", "idle", "sync chans", "sync pipes", "dead"}
  BY DEF Pcs
<1>3. /\ Tidy(c, m) /\ Heard(k, c, m) /\ Waiting(m) /\ m.res = <<>>
      /\ Owes(c, m) = Owes(c, lib[c]) \cup {r}
      /\ r.id = m.n /\ \A q \in Owes(c, m) : q.id <= m.n
      /\ \A q \in Owes(c, lib[c]) : q.id # m.n
  BY <1>1, Goes
<1>4. Stands(k, Owes(c, m), c, m)
  BY <1>3 DEF Stands, Sent, Asking, Inside, Releasing, Outside, Isnt
<1> QED BY <1>1, <1>3, <1>4, TidyLock

LEMMA GoCreate ==
  ASSUME Invariant, Locked, NEW c \in Clients, Alive(c),
         NEW l, Rested(c, l), NEW m, NEW r, Asked(l, m, r), UserStep(c, m),
         m.pc = "create", r.type \notin {"LOCK", "UNLOCK"},
         k.owner = c, Owes(c, lib[c]) = {}
  PROVE  Locked'
<1>1. /\ m.pc \in Pcs
      /\ m.pc \notin {"off", "idle", "sync chans", "sync pipes", "dead"}
  BY DEF Pcs
<1>3. /\ Tidy(c, m) /\ Heard(k, c, m) /\ Waiting(m) /\ m.res = <<>>
      /\ Owes(c, m) = Owes(c, lib[c]) \cup {r}
      /\ r.id = m.n /\ \A q \in Owes(c, m) : q.id <= m.n
      /\ \A q \in Owes(c, lib[c]) : q.id # m.n
  BY <1>1, Goes
<1>4. Stands(k, Owes(c, m), c, m)
  BY <1>3 DEF Stands, Sent, Asking, Inside, Releasing, Outside, Isnt
<1> QED BY <1>1, <1>3, <1>4, TidyLock

LEMMA GoIdle ==
  ASSUME Invariant, Locked, NEW c \in Clients, Alive(c),
         NEW l, DOMAIN l = LibFields, l.tx = lib[c].tx, l.n = lib[c].n,
         UserStep(c, Return(l)),
         c \notin gaveUp => k.owner # c /\ Isnt(Owes(c, lib[c]), "LOCK")
  PROVE  Locked'
<1> DEFINE m == Return(l)
<1>1. /\ m.pc = "idle" /\ m.tx = lib[c].tx /\ m.n = lib[c].n
      /\ m.res = <<>> /\ m.need = {}
  BY DEF Return, LibFields
<1> HIDE DEF m
<1>2. Tidy(c, lib[c]) /\ Heard(k, c, lib[c])
  BY TidyNow
<1>3. Tidy(c, m) /\ Owes(c, m) = Owes(c, lib[c])
  BY <1>1, <1>2, TidySame
<1>4. Heard(k, c, m)
  BY <1>1, <1>2 DEF Heard, Asking
<1>5. Waiting(m) /\ m.pc \in Pcs
  BY <1>1 DEF Waiting, Pcs
<1>6. \A q \in Owes(c, m) : q.id <= m.n
  BY <1>3 DEF Tidy
<1>7. Stands(k, Owes(c, m), c, m)
  BY <1>1, <1>3, <1>6 DEF Stands, Asking, Inside, Releasing, Outside
<1>8. UserStep(c, m)
  BY DEF m
<1> QED BY <1>3, <1>4, <1>5, <1>7, <1>8, TidyLock

LEMMA RestedStill ==
  ASSUME NEW c, NEW l, Rested(c, l), NEW v
  PROVE  /\ Rested(c, [l EXCEPT !.top = v]) /\ Rested(c, [l EXCEPT !.mine = v])
         /\ Rested(c, [l EXCEPT !.route = v])
         /\ Rested(c, [l EXCEPT !.jobs = v])
BY DEF Rested, LibFields

LEMMA TookIs ==
  ASSUME Invariant, NEW c \in Clients
  PROVE  /\ DOMAIN Took(c) = LibFields /\ Took(c).tx = lib[c].tx
         /\ Took(c).n = lib[c].n /\ Took(c).need = lib[c].need
         /\ Took(c).pc = lib[c].pc /\ Took(c).res = Tail(lib[c].res)
BY DEF Invariant, Asks, Took, LibFields

(* Results in their queue.                                                 *)
LEMMA OneResult ==
  ASSUME NEW m
  PROVE  /\ Head(<<m>>) = m /\ <<m>>[1] = m /\ Tail(<<m>>) = <<>>
         /\ <<m>> # <<>> /\ Append(<<>>, m) = <<m>>
<1>1. <<m>> \in Seq({m}) /\ Len(<<m>>) = 1 /\ <<m>> # <<>>
  OBVIOUS
<1>2. Tail(<<m>>) \in Seq({m}) /\ Len(Tail(<<m>>)) = 0
  BY <1>1
<1>3. Tail(<<m>>) = <<>>
  BY <1>2
<1> QED BY <1>1, <1>3

LEMMA SameSeq ==
  ASSUME NEW S, NEW s \in Seq(S), NEW t \in Seq(S), Len(s) = Len(t),
         \A i \in 1 .. Len(s) : s[i] = t[i]
  PROVE  s = t
OBVIOUS

LEMMA TwoResults ==
  ASSUME NEW m, NEW p
  PROVE  /\ Append(<<m>>, p) = <<m, p>> /\ Tail(<<m, p>>) = <<p>>
         /\ <<m, p>>[1] = m /\ <<m, p>> # <<>>
<1>1. /\ <<m, p>> \in Seq({m, p}) /\ Len(<<m, p>>) = 2 /\ <<m, p>> # <<>>
      /\ <<m, p>>[1] = m /\ <<m, p>>[2] = p
  OBVIOUS
<1>2. /\ Tail(<<m, p>>) \in Seq({m, p}) /\ Len(Tail(<<m, p>>)) = 1
      /\ Tail(<<m, p>>)[1] = p
  BY <1>1
<1>3. Tail(<<m, p>>) = <<p>>
  BY <1>2
<1>4. <<m>> \in Seq({m, p}) /\ Len(<<m>>) = 1 /\ <<m>>[1] = m
  OBVIOUS
<1>5. /\ Append(<<m>>, p) \in Seq({m, p}) /\ Len(Append(<<m>>, p)) = 2
      /\ Append(<<m>>, p)[1] = m /\ Append(<<m>>, p)[2] = p
  BY <1>4
<1>6. Append(<<m>>, p) = <<m, p>>
  <2> DEFINE s == Append(<<m>>, p)
             t == <<m, p>>
  <2>1. /\ s \in Seq({m, p}) /\ t \in Seq({m, p}) /\ Len(s) = Len(t)
        /\ Len(s) = 2 /\ s[1] = t[1] /\ s[2] = t[2]
    BY <1>1, <1>5
  <2> HIDE DEF s, t
  <2>2. \A i \in 1 .. Len(s) : s[i] = t[i]
    BY <2>1
  <2>3. s = t
    BY <2>1, <2>2, SameSeq
  <2> QED BY <2>3 DEF s, t
<1> QED BY <1>1, <1>3, <1>6

LEMMA WokenRested ==
  ASSUME Invariant, Locked, NEW c \in Clients,
         NEW pc \in Pcs \ {"off", "idle", "dead", "sync chans"}, Woken(c, pc)
  PROVE  /\ Rested(c, Took(c)) /\ Alive(c)
         /\ lib[c].pc = pc /\ lib[c].res # <<>>
         /\ Head(lib[c].res) = lib[c].res[1]
         /\ Stands(k, Owes(c, lib[c]), c, lib[c])
<1>1. lib[c].pc = pc /\ lib[c].res # <<>> /\ Alive(c)
  BY DEF Woken, Alive
<1>2. Held(lib[c]) /\ Stands(k, Owes(c, lib[c]), c, lib[c])
  BY <1>1, TidyNow
<1>3. (\E m : lib[c].res = <<m>>) /\ lib[c].need = {}
  BY <1>1, <1>2 DEF Held, Waiting, Single
<1>4. Head(lib[c].res) = lib[c].res[1] /\ Tail(lib[c].res) = <<>>
  <2>1. PICK m : lib[c].res = <<m>>
    BY <1>3
  <2>4. Head(<<m>>) = m /\ <<m>>[1] = m /\ Tail(<<m>>) = <<>>
    BY OneResult
  <2> QED BY <2>1, <2>4
<1>5. Rested(c, Took(c))
  BY <1>3, <1>4, TookIs DEF Rested
<1> QED BY <1>1, <1>2, <1>4, <1>5

(* The lock is asked for.                                                  *)
LEMMA AskingSteps ==
  ASSUME Invariant, Locked, NEW c \in Clients, SyncStart(c) \/ Connect(c)
  PROVE  Locked'
<1>0. "LOCK" \in Commands
  BY DEF Commands
<1>1. lib[c].pc \in {"off", "idle"} /\ Alive(c)
  BY DEF SyncStart, Connect, Alive
<1>2. Rested(c, lib[c])
  <2>1. Held(lib[c]) /\ DOMAIN lib[c] = LibFields
    BY <1>1, TidyNow DEF Invariant, Asks
  <2> QED BY <1>1, <2>1 DEF Held, Waiting, Rested
<1>3. CASE SyncStart(c)
  <2> DEFINE m == Ask(lib[c], "sync lock", "LOCK")
  <2>1. m.pc = "sync lock" /\ \E r : Asked(lib[c], m, r) /\ r.type = "LOCK"
    <3> DEFINE pc == "sync lock"
    <3>1. DOMAIN lib[c] = LibFields
      BY <1>2 DEF Rested
    <3> HIDE DEF pc
    <3>2. /\ Ask(lib[c], pc, "LOCK").pc = pc
          /\ \E r : /\ Asked(lib[c], Ask(lib[c], pc, "LOCK"), r)
                   /\ r.type = "LOCK"
      BY <1>0, <3>1, AskIs
    <3> QED BY <3>2 DEF pc
  <2>2. UserStep(c, m)
    BY <1>3 DEF SyncStart
  <2> HIDE DEF m
  <2> QED BY <1>1, <1>2, <2>1, <2>2, GoAsk DEF Asking
<1>4. CASE Connect(c)
  <2> DEFINE l == [lib[c] EXCEPT !.jobs = lib[c].jobs + 1]
             m == Ask(l, "lock", "LOCK")
  <2>1. Rested(c, l)
    BY <1>2, RestedStill
  <2>2. UserStep(c, m)
    BY <1>4 DEF Connect
  <2> HIDE DEF l
  <2>3. m.pc = "lock" /\ \E r : Asked(l, m, r) /\ r.type = "LOCK"
    BY <1>0, <2>1, AskIs DEF Rested
  <2> HIDE DEF m
  <2> QED BY <1>1, <2>1, <2>2, <2>3, GoAsk DEF Asking
<1> QED BY <1>3, <1>4

LEMMA ReleaseBy ==
  ASSUME Invariant, Locked, NEW c \in Clients, Alive(c), NEW l, Rested(c, l),
         NEW pc \in Releasing, UserStep(c, Ask(l, pc, "UNLOCK")),
         Isnt(Owes(c, lib[c]), "LOCK")
  PROVE  Locked'
<1> DEFINE m == Ask(l, pc, "UNLOCK")
<1>1. "UNLOCK" \in Commands
  BY DEF Commands
<1>2. m.pc = pc /\ \E r : Asked(l, m, r) /\ r.type = "UNLOCK"
  BY <1>1, AskIs DEF Rested
<1>3. UserStep(c, m)
  OBVIOUS
<1> HIDE DEF m
<1> QED BY <1>2, <1>3, GoRelease

LEMMA FailedBy ==
  ASSUME Invariant, Locked, NEW c \in Clients, Alive(c),
         UserStep(c, SyncFailed(Took(c))), Isnt(Owes(c, lib[c]), "LOCK")
  PROVE  Locked'
<1> DEFINE t == Took(c)
           l == [t EXCEPT !.top.st = "INVALID", !.need = {}, !.res = <<>>]
<1>1. /\ DOMAIN t = LibFields /\ t.tx = lib[c].tx /\ t.n = lib[c].n
  BY TookIs
<1>2. SyncFailed(t) = Ask(l, "give up", "UNLOCK")
  BY DEF SyncFailed
<1> HIDE DEF t
<1>3. Rested(c, l)
  BY <1>1 DEF Rested, LibFields
<1>4. "give up" \in Releasing
  BY DEF Releasing
<1> HIDE DEF l
<1> QED BY <1>2, <1>3, <1>4, ReleaseBy DEF t

LEMMA LockAnswered ==
  ASSUME Invariant, Locked, NEW c \in Clients, NEW pc \in Asking, Woken(c, pc)
  PROVE  /\ Rested(c, Took(c)) /\ Alive(c)
         /\ Failed(c) => c \in gaveUp
         /\ ~Failed(c) => Owes(c, lib[c]) = {} /\ k.owner = c
<1>1. pc \in Pcs \ {"off", "idle", "dead", "sync chans"}
  BY DEF Asking, Pcs
<1>2. /\ Rested(c, Took(c)) /\ Alive(c)
      /\ lib[c].pc = pc /\ lib[c].res # <<>>
      /\ Head(lib[c].res) = lib[c].res[1]
      /\ Stands(k, Owes(c, lib[c]), c, lib[c])
  BY <1>1, WokenRested
<1> QED BY <1>2 DEF Failed, Stands

LEMMA SyncLockedStep ==
  ASSUME Invariant, Locked, NEW c \in Clients, SyncLocked(c)
  PROVE  Locked'
<1>1. /\ Rested(c, Took(c)) /\ Alive(c)
      /\ Failed(c) => c \in gaveUp
      /\ ~Failed(c) => Owes(c, lib[c]) = {} /\ k.owner = c
  BY LockAnswered DEF SyncLocked, Asking
<1>2. CASE Failed(c)
  <2>1. UserStep(c, Return(Took(c)))
    BY <1>2 DEF SyncLocked
  <2> QED BY <1>1, <1>2, <2>1, GoIdle DEF Rested
<1>3. CASE ~Failed(c)
  <2> DEFINE l == [Took(c) EXCEPT
                     !.top = [InitMirror EXCEPT !.st = "SYNCING",
                                                !.mseq = lib[c].top.mseq]]
             x == Ask(l, "sync chans", "CHAN_GET")
             m == Ask(x, "sync chans", "PIPELINE_GET")
  <2>0. "CHAN_GET" \in Commands /\ "PIPELINE_GET" \in Commands
    BY DEF Commands
  <2>1. UserStep(c, m)
    BY <1>3 DEF SyncLocked
  <2>2. Rested(c, l)
    BY <1>1, RestedStill
  <2> HIDE DEF l
  <2>3. DOMAIN x = LibFields /\ \E r : Asked(l, x, r) /\ r.type = "CHAN_GET"
    <3> DEFINE pc == "sync chans"
    <3>1. DOMAIN l = LibFields
      BY <2>2 DEF Rested
    <3> HIDE DEF pc
    <3>2. /\ DOMAIN Ask(l, pc, "CHAN_GET") = LibFields
          /\ \E r : /\ Asked(l, Ask(l, pc, "CHAN_GET"), r)
                   /\ r.type = "CHAN_GET"
      BY <2>0, <3>1, AskIs
    <3> QED BY <3>2 DEF pc
  <2> HIDE DEF x
  <2>4. /\ m.pc = "sync chans"
        /\ \E r : Asked(x, m, r) /\ r.type = "PIPELINE_GET"
    <3> DEFINE pc == "sync chans"
    <3>1. DOMAIN x = LibFields
      BY <2>3
    <3> HIDE DEF pc
    <3>2. /\ Ask(x, pc, "PIPELINE_GET").pc = pc
          /\ \E r : /\ Asked(x, Ask(x, pc, "PIPELINE_GET"), r)
                   /\ r.type = "PIPELINE_GET"
      BY <2>0, <3>1, AskIs
    <3> QED BY <3>2 DEF pc
  <2> HIDE DEF m
  <2>5. PICK r : Asked(l, x, r) /\ r.type = "CHAN_GET"
    BY <2>3
  <2>6. PICK s : Asked(x, m, s) /\ s.type = "PIPELINE_GET"
    BY <2>4
  <2>7. Tidy(c, l) /\ Owes(c, l) = {}
    BY <1>1, <1>3, <2>2, TidyNow, TidySame DEF Rested
  <2>8. Tidy(c, x) /\ Owes(c, x) = {r}
    <3>1. Tidy(c, x) /\ Owes(c, x) = Owes(c, l) \cup {r}
      BY <2>5, <2>7, AskTidy
    <3> QED BY <2>7, <3>1
  <2>9. Tidy(c, m) /\ Owes(c, m) = {r, s} /\ Heard(k, c, m)
    <3>1. Tidy(c, m) /\ Owes(c, m) = Owes(c, x) \cup {s} /\ Heard(k, c, m)
      BY <2>6, <2>8, AskTidy
    <3> QED BY <2>8, <3>1
  <2>10. \A q \in Owes(c, m) : q.id <= m.n
    BY <2>9 DEF Tidy
  <2>11. Stands(k, Owes(c, m), c, m)
    BY <1>1, <1>3, <2>4, <2>5, <2>6, <2>9, <2>10
       DEF Stands, Isnt, Asking, Inside, Releasing, Outside
  <2>12. Waiting(m) /\ m.pc \in Pcs
    <3>1. /\ m.res = <<>> /\ m.need = {x.n, m.n} /\ x.n = l.n + 1
          /\ m.n = x.n + 1 /\ l.n \in Nat
      BY <2>2, <2>5, <2>6, <2>7 DEF Rested, Asked, Tidy
    <3>2. x.n = m.n - 1
      BY <3>1
    <3> QED BY <2>4, <3>1, <3>2 DEF Waiting, Pcs
  <2> QED BY <2>1, <2>9, <2>11, <2>12, TidyLock
<1> QED BY <1>2, <1>3

LEMMA SyncChansStep ==
  ASSUME Invariant, Locked, NEW c \in Clients, SyncChans(c)
  PROVE  Locked'
<1>1. lib[c].pc = "sync chans" /\ lib[c].res # <<>> /\ Alive(c)
  BY DEF SyncChans, Woken, Alive
<1>2. /\ Tidy(c, lib[c]) /\ Stands(k, Owes(c, lib[c]), c, lib[c])
      /\ Heard(k, c, lib[c]) /\ Held(lib[c])
  BY <1>1, TidyNow
<1>3. /\ k.owner = c /\ Isnt(Owes(c, lib[c]), "LOCK")
      /\ Isnt(Owes(c, lib[c]), "UNLOCK")
  BY <1>1, <1>2 DEF Stands, Inside
<1>4. CASE Failed(c)
  <2>1. UserStep(c, SyncFailed(Took(c)))
    BY <1>4 DEF SyncChans
  <2> QED BY <1>1, <1>3, <2>1, FailedBy
<1>5. CASE ~Failed(c)
  <2> DEFINE t == Took(c)
             m == [t EXCEPT !.pc = "sync pipes",
                            !.top.chans = Reverse(Data(c)) \o @]
  <2>1. UserStep(c, m)
    BY <1>5 DEF SyncChans
  <2>2. /\ DOMAIN t = LibFields /\ t.tx = lib[c].tx
        /\ t.n = lib[c].n /\ t.need = lib[c].need
        /\ t.res = Tail(lib[c].res)
    BY TookIs
  <2> HIDE DEF t
  <2>3. /\ m.pc = "sync pipes" /\ m.tx = lib[c].tx
        /\ m.n = lib[c].n /\ m.need = lib[c].need
        /\ m.res = Tail(lib[c].res)
    BY <2>2 DEF LibFields
  <2> HIDE DEF m
  <2>4. Tidy(c, m) /\ Owes(c, m) = Owes(c, lib[c])
    BY <1>2, <2>3, TidySame
  <2>5. Heard(k, c, m)
    BY <1>2, <2>3 DEF Heard, Asking
  <2>6. Waiting(m) /\ m.pc \in Pcs
    <3>1. CASE (\E x : lib[c].res = <<x>>) /\ \E i : lib[c].need \subseteq {i}
      <4>1. m.res = <<>>
        BY <2>3, <3>1, OneResult
      <4> QED BY <2>3, <3>1, <4>1 DEF Waiting, Pcs
    <3>2. CASE (\E x, p : lib[c].res = <<x, p>>) /\ lib[c].need = {}
      <4>1. \E p : m.res = <<p>>
        <5>1. PICK x, p : lib[c].res = <<x, p>>
          BY <3>2
        <5>2. Tail(<<x, p>>) = <<p>>
          BY TwoResults
        <5> QED BY <2>3, <5>1, <5>2
      <4> QED BY <2>3, <3>2, <4>1 DEF Waiting, Pcs
    <3> QED BY <1>1, <1>2, <3>1, <3>2 DEF Held, Waiting
  <2>7. \A q \in Owes(c, m) : q.id <= m.n
    BY <2>4 DEF Tidy
  <2>8. Stands(k, Owes(c, m), c, m)
    BY <1>3, <2>3, <2>4, <2>7 DEF Stands, Asking, Inside, Releasing, Outside
  <2> QED BY <2>1, <2>4, <2>5, <2>6, <2>8, TidyLock
<1> QED BY <1>4, <1>5

LEMMA SyncPipesStep ==
  ASSUME Invariant, Locked, NEW c \in Clients, SyncPipes(c)
  PROVE  Locked'
<1>1. Rested(c, Took(c)) /\ Alive(c) /\ Isnt(Owes(c, lib[c]), "LOCK")
  <2>1. "sync pipes" \in Pcs \ {"off", "idle", "dead", "sync chans"}
    BY DEF Pcs
  <2>2. /\ Rested(c, Took(c)) /\ Alive(c) /\ lib[c].pc = "sync pipes"
        /\ Stands(k, Owes(c, lib[c]), c, lib[c])
    BY <2>1, WokenRested DEF SyncPipes
  <2> QED BY <2>2 DEF Stands, Inside
<1>2. CASE Failed(c)
  <2>1. UserStep(c, SyncFailed(Took(c)))
    BY <1>2 DEF SyncPipes
  <2> QED BY <1>1, <2>1, FailedBy
<1>3. CASE ~Failed(c)
  <2> DEFINE new(m, p) ==
                  IF Known(m, p.id) THEN m ELSE AddPipe(m, p.id, p.chans)
             l == [Took(c) EXCEPT
                     !.top =
                        [FoldLeft(new, @, Data(c)) EXCEPT !.st = "SYNCHED"]]
  <2>1. UserStep(c, Ask(l, "sync unlock", "UNLOCK"))
    BY <1>3 DEF SyncPipes
  <2>2. Rested(c, l)
    BY <1>1, RestedStill
  <2> HIDE DEF l
  <2>3. "sync unlock" \in Releasing
    BY DEF Releasing
  <2> QED BY <1>1, <2>1, <2>2, <2>3, ReleaseBy
<1> QED BY <1>2, <1>3

(* A request about a pipeline, without the lock.                           *)
LEMMA OnBy ==
  ASSUME Invariant, Locked, NEW c \in Clients, Alive(c), NEW l, Rested(c, l),
         NEW pc \in {"start", "stop", "destroy"},
         NEW t \in {"PIPELINE_SET", "PIPELINE_DEL"}, NEW p, NEW st \in Status,
         NEW e \in Seq(Chans), UserStep(c, AskAbout(l, pc, t, p, st, e)),
         c \notin gaveUp => k.owner # c /\ Isnt(Owes(c, lib[c]), "LOCK"),
         pc = "start" => Isnt(Owes(c, lib[c]), "LOCK")
  PROVE  Locked'
<1> DEFINE m == AskAbout(l, pc, t, p, st, e)
<1>1. t \in Commands /\ DOMAIN l = LibFields
  BY DEF Commands, Rested
<1>2. m.pc = pc /\ \E r : Asked(l, m, r) /\ r.type = t
  BY <1>1, AskAboutIs
<1>3. UserStep(c, m)
  OBVIOUS
<1> HIDE DEF m
<1>4. PICK r : Asked(l, m, r) /\ r.type = t
  BY <1>2
<1> QED BY <1>2, <1>3, <1>4, GoOn

(* The answer to a release.                                                *)
LEMMA ReleaseAnswered ==
  ASSUME Invariant, Locked, NEW c \in Clients, NEW pc \in Releasing,
         Woken(c, pc)
  PROVE  /\ Rested(c, Took(c)) /\ Alive(c) /\ Isnt(Owes(c, lib[c]), "LOCK")
         /\ c \notin gaveUp => k.owner # c
<1>1. pc \in Pcs \ {"off", "idle", "dead", "sync chans"}
  BY DEF Releasing, Pcs
<1>2. /\ Rested(c, Took(c)) /\ Alive(c)
      /\ lib[c].pc = pc /\ lib[c].res # <<>>
      /\ Stands(k, Owes(c, lib[c]), c, lib[c])
  BY <1>1, WokenRested
<1> QED BY <1>2 DEF Stands

LEMMA ReleasedSteps ==
  ASSUME Invariant, Locked, NEW c \in Clients,
         SyncUnlocked(c) \/ GaveUp(c) \/ ConnectUnlocked(c)
  PROVE  Locked'
<1>1. \A pc \in Releasing : Woken(c, pc) =>
        /\ Rested(c, Took(c)) /\ Alive(c) /\ Isnt(Owes(c, lib[c]), "LOCK")
        /\ c \notin gaveUp => k.owner # c
  BY ReleaseAnswered
<1>2. /\ Rested(c, Took(c)) /\ Alive(c) /\ Isnt(Owes(c, lib[c]), "LOCK")
      /\ c \notin gaveUp => k.owner # c
  BY <1>1 DEF SyncUnlocked, GaveUp, ConnectUnlocked, Releasing
<1>3. CASE UserStep(c, Return(Took(c)))
  BY <1>2, <1>3, GoIdle DEF Rested
<1>4. CASE UserStep(c, SyncFailed(Took(c)))
  BY <1>2, <1>4, FailedBy
<1>5. CASE ConnectUnlocked(c)
  <2> DEFINE st == 3
             e == <<>>
             t == "PIPELINE_SET"
  <2>1. /\ st \in Status /\ e \in Seq(Chans)
        /\ t \in {"PIPELINE_SET", "PIPELINE_DEL"}
    BY DEF Status
  <2>2. UserStep(c, AskAbout(Took(c), "start", t, lib[c].mine, st, e))
    BY <1>5 DEF ConnectUnlocked
  <2> HIDE DEF st, e, t
  <2> QED BY <1>2, <2>1, <2>2, OnBy
<1> QED BY <1>3, <1>4, <1>5 DEF SyncUnlocked, GaveUp

LEMMA ConnectLockedStep ==
  ASSUME Invariant, Locked, NEW c \in Clients, ConnectLocked(c)
  PROVE  Locked'
<1>1. /\ Rested(c, Took(c)) /\ Alive(c)
      /\ Failed(c) => c \in gaveUp
      /\ ~Failed(c) => Owes(c, lib[c]) = {} /\ k.owner = c
  BY LockAnswered DEF ConnectLocked, Asking
<1>2. CASE Failed(c) /\ UserStep(c, Return(Took(c)))
  BY <1>1, <1>2, GoIdle DEF Rested
<1>3. CASE ~Failed(c) /\ UserStep(c, Ask(Took(c), "give up", "UNLOCK"))
  <2>1. "give up" \in Releasing
    BY DEF Releasing
  <2>2. Isnt(Owes(c, lib[c]), "LOCK")
    BY <1>1, <1>3 DEF Isnt
  <2> QED BY <1>1, <1>3, <2>1, <2>2, ReleaseBy
<1>4. CASE ~Failed(c) /\ \E s \in Routes :
             UserStep(c, AskAbout([Took(c) EXCEPT !.route = s], "create",
                                  "PIPELINE_NEW", 0, 0, s))
  <2>1. PICK s \in Routes :
             UserStep(c, AskAbout([Took(c) EXCEPT !.route = s], "create",
                                  "PIPELINE_NEW", 0, 0, s))
    BY <1>4
  <2> DEFINE l == [Took(c) EXCEPT !.route = s]
             m == AskAbout(l, "create", "PIPELINE_NEW", 0, 0, s)
  <2>2. "PIPELINE_NEW" \in Commands /\ 0 \in Status /\ s \in Seq(Chans)
    BY RoutesAssumption DEF Commands, Status
  <2>3. Rested(c, l)
    BY <1>1, RestedStill
  <2>4. UserStep(c, m)
    BY <2>1
  <2> HIDE DEF l
  <2>5. m.pc = "create" /\ \E r : Asked(l, m, r) /\ r.type = "PIPELINE_NEW"
    BY <2>2, <2>3, AskAboutIs DEF Rested
  <2> HIDE DEF m
  <2> QED BY <1>1, <1>4, <2>3, <2>4, <2>5, GoCreate
<1> QED BY <1>2, <1>3, <1>4 DEF ConnectLocked

LEMMA ConnectCreatedStep ==
  ASSUME Invariant, Locked, NEW c \in Clients, ConnectCreated(c)
  PROVE  Locked'
<1>1. Rested(c, Took(c)) /\ Alive(c) /\ Isnt(Owes(c, lib[c]), "LOCK")
  <2>1. "create" \in Pcs \ {"off", "idle", "dead", "sync chans"}
    BY DEF Pcs
  <2>2. /\ Rested(c, Took(c)) /\ Alive(c) /\ lib[c].pc = "create"
        /\ Stands(k, Owes(c, lib[c]), c, lib[c])
    BY <2>1, WokenRested DEF ConnectCreated
  <2> QED BY <2>2 DEF Stands, Inside
<1> DEFINE x == [Took(c) EXCEPT !.mine = Data(c)[1],
                                !.top = AddPipe(@, Data(c)[1], lib[c].route)]
<1>2. UserStep(c, IF Failed(c) THEN Ask(Took(c), "give up", "UNLOCK")
                  ELSE Ask(x, "unlock", "UNLOCK"))
  BY DEF ConnectCreated
<1>3. Rested(c, x)
  BY <1>1 DEF Rested, LibFields
<1> HIDE DEF x
<1>4. "give up" \in Releasing /\ "unlock" \in Releasing
  BY DEF Releasing
<1>5. CASE Failed(c)
  <2>1. UserStep(c, Ask(Took(c), "give up", "UNLOCK"))
    BY <1>2, <1>5
  <2> QED BY <1>1, <1>4, <2>1, ReleaseBy
<1>6. CASE ~Failed(c)
  <2>1. UserStep(c, Ask(x, "unlock", "UNLOCK"))
    BY <1>2, <1>6
  <2> QED BY <1>1, <1>3, <1>4, <2>1, ReleaseBy
<1> QED BY <1>5, <1>6

(* Outside the lock.                                                       *)
LEMMA OutsideAnswered ==
  ASSUME Invariant, Locked, NEW c \in Clients,
         NEW pc \in {"start", "stop", "destroy"}, Woken(c, pc)
  PROVE  /\ Rested(c, Took(c)) /\ Alive(c)
         /\ c \notin gaveUp => k.owner # c /\ Isnt(Owes(c, lib[c]), "LOCK")
         /\ pc = "start" => Isnt(Owes(c, lib[c]), "LOCK")
<1>1. pc \in Pcs \ {"off", "idle", "dead", "sync chans"}
  BY DEF Pcs
<1>2. /\ Rested(c, Took(c)) /\ Alive(c) /\ lib[c].pc = pc
      /\ Stands(k, Owes(c, lib[c]), c, lib[c])
  BY <1>1, WokenRested
<1> QED BY <1>2 DEF Stands, Outside

LEMMA OutsideSteps ==
  ASSUME Invariant, Locked, NEW c \in Clients,
         ConnectStarted(c) \/ DisconnectStopped(c) \/ Destroyed(c)
  PROVE  Locked'
<1> DEFINE x == [Took(c) EXCEPT !.mine = 0]
<1>1. CASE ConnectStarted(c)
  <2>1. /\ Rested(c, Took(c)) /\ Alive(c)
        /\ c \notin gaveUp => k.owner # c /\ Isnt(Owes(c, lib[c]), "LOCK")
        /\ Isnt(Owes(c, lib[c]), "LOCK")
    BY <1>1, OutsideAnswered DEF ConnectStarted
  <2>2. Rested(c, x)
    BY <2>1, RestedStill
  <2>3. UserStep(c, IF Failed(c) THEN Ask(x, "give up", "UNLOCK")
                    ELSE Return(Took(c)))
    BY <1>1 DEF ConnectStarted
  <2> HIDE DEF x
  <2>4. CASE Failed(c)
    <3>1. "give up" \in Releasing
      BY DEF Releasing
    <3>2. UserStep(c, Ask(x, "give up", "UNLOCK"))
      BY <2>3, <2>4
    <3> QED BY <2>1, <2>2, <3>1, <3>2, ReleaseBy
  <2>5. CASE ~Failed(c)
    <3>1. UserStep(c, Return(Took(c)))
      BY <2>3, <2>5
    <3> QED BY <2>1, <3>1, GoIdle DEF Rested
  <2> QED BY <2>4, <2>5
<1>2. CASE DisconnectStopped(c)
  <2> DEFINE st == 0
             e == <<>>
             t == "PIPELINE_DEL"
             y == AskAbout(Took(c), "destroy", t, lib[c].mine, st, e)
  <2>1. /\ Rested(c, Took(c)) /\ Alive(c)
        /\ c \notin gaveUp => k.owner # c /\ Isnt(Owes(c, lib[c]), "LOCK")
    BY <1>2, OutsideAnswered DEF DisconnectStopped
  <2>2. Rested(c, x)
    BY <2>1, RestedStill
  <2>3. UserStep(c, IF Failed(c) THEN Return(x) ELSE y)
    BY <1>2 DEF DisconnectStopped
  <2>4. /\ st \in Status /\ e \in Seq(Chans)
        /\ t \in {"PIPELINE_SET", "PIPELINE_DEL"}
    BY DEF Status
  <2> HIDE DEF x, st, e, t
  <2>5. CASE Failed(c)
    <3>1. UserStep(c, Return(x))
      BY <2>3, <2>5
    <3> QED BY <2>1, <2>2, <3>1, GoIdle DEF Rested
  <2>6. CASE ~Failed(c)
    <3>1. UserStep(c, y)
      BY <2>3, <2>6
    <3> QED BY <2>1, <2>4, <3>1, OnBy
  <2> QED BY <2>5, <2>6
<1>3. CASE Destroyed(c)
  <2>1. /\ Rested(c, Took(c)) /\ Alive(c)
        /\ c \notin gaveUp => k.owner # c /\ Isnt(Owes(c, lib[c]), "LOCK")
    BY <1>3, OutsideAnswered DEF Destroyed
  <2>2. Rested(c, x)
    BY <2>1, RestedStill
  <2>3. UserStep(c, Return(x))
    BY <1>3 DEF Destroyed
  <2> HIDE DEF x
  <2> QED BY <2>1, <2>2, <2>3, GoIdle DEF Rested
<1> QED BY <1>1, <1>2, <1>3

LEMMA IdleSteps ==
  ASSUME Invariant, Locked, NEW c \in Clients, Disconnect(c) \/ Destroy(c)
  PROVE  Locked'
<1>1. lib[c].pc = "idle" /\ Alive(c)
  BY DEF Disconnect, Destroy, Alive
<1>2. /\ Rested(c, lib[c])
      /\ c \notin gaveUp => k.owner # c /\ Isnt(Owes(c, lib[c]), "LOCK")
  <2>1. /\ Held(lib[c]) /\ DOMAIN lib[c] = LibFields
        /\ Stands(k, Owes(c, lib[c]), c, lib[c])
    BY <1>1, TidyNow DEF Invariant, Asks
  <2> QED BY <1>1, <2>1 DEF Held, Waiting, Rested, Stands, Outside
<1> DEFINE e == <<>>
           t == "PIPELINE_SET"
           d == "PIPELINE_DEL"
           zero == 0
           one == 1
<1>3. /\ zero \in Status /\ one \in Status /\ e \in Seq(Chans)
      /\ t \in {"PIPELINE_SET", "PIPELINE_DEL"}
      /\ d \in {"PIPELINE_SET", "PIPELINE_DEL"}
  BY DEF Status
<1>4. CASE Disconnect(c)
  <2>1. UserStep(c, AskAbout(lib[c], "stop", t, lib[c].mine, one, e))
    BY <1>4 DEF Disconnect
  <2> HIDE DEF e, t, d, zero, one
  <2> QED BY <1>1, <1>2, <1>3, <2>1, OnBy
<1>5. CASE Destroy(c)
  <2> DEFINE l == [lib[c] EXCEPT !.jobs = lib[c].jobs + 1]
  <2>1. PICK i \in DOMAIN lib[c].top.pipes :
          UserStep(c, AskAbout(l, "destroy", d, lib[c].top.pipes[i].id, zero,
                               e))
    BY <1>5 DEF Destroy
  <2>2. Rested(c, l)
    BY <1>2, RestedStill
  <2> HIDE DEF e, t, d, zero, one, l
  <2> QED BY <1>1, <1>2, <1>3, <2>1, <2>2, OnBy
<1> QED BY <1>4, <1>5

-----------------------------------------------------------------------------
(* Answers and timeouts.                                                   *)

(* The lock is left alone, and what c finds in its receive queue was there *)
(* before or is a multicast.                                               *)
Rests(a, b) ==
    /\ Sound(b)
    /\ b.backlog = a.backlog /\ b.owner = a.owner /\ b.depth = a.depth
Fewer(a, b, c) ==
    \A i \in 1 .. Len(b.rx[c]) : ~b.rx[c][i].mcast =>
        \E j \in 1 .. Len(a.rx[c]) : b.rx[c][i] = a.rx[c][j]

LEMMA FewerAgree ==
  ASSUME NEW a, NEW b, NEW c, NEW S, Rests(a, b), Fewer(a, b, c)
  PROVE  /\ Lined(a, S, c) => Lined(b, S, c)
         /\ \A l : Heard(a, c, l) => Heard(b, c, l)
         /\ \A l : Stands(a, S, c, l) => Stands(b, S, c, l)
<1>1. ASSUME Lined(a, S, c) PROVE Lined(b, S, c)
  <2>1. \A i \in 1 .. Len(b.rx[c]) : ~b.rx[c][i].mcast =>
          b.rx[c][i].id \in Nat /\ \A q \in S : b.rx[c][i].id < q.id
    BY <1>1 DEF Lined, Fewer
  <2> QED BY <1>1, <2>1 DEF Lined, Rests
<1>2. ASSUME NEW l, Heard(a, c, l) PROVE Heard(b, c, l)
  BY <1>2 DEF Heard, Fewer
<1>3. ASSUME NEW l, Stands(a, S, c, l) PROVE Stands(b, S, c, l)
  BY <1>3 DEF Stands, Rests
<1> QED BY <1>1, <1>2, <1>3

(* A result for the user thread of c, which goes on waiting.               *)
Told(c, m) ==
    /\ m.pc = lib[c].pc /\ m.n = lib[c].n /\ m.tx = lib[c].tx /\ Waiting(m)
    /\ \/ m.res = lib[c].res
       \/ /\ m.pc \in Asking =>
               IF m.res[1].err = "ok" THEN Sent(Owes(c, lib[c]), m.n)
                                      ELSE c \in gaveUp'
          /\ m.pc \in Releasing =>
               \/ c \in gaveUp' \/ k.owner # c \/ Sent(Owes(c, lib[c]), m.n)

LEMMA ResultLock ==
  ASSUME Invariant, Locked, NEW c \in Clients, Alive(c), NEW m, Told(c, m),
         lib' = [lib EXCEPT ![c] = m], Rests(k, k'), Fewer(k, k', c),
         \A o \in Clients : o # c => /\ k'.rx[o] = k.rx[o]
                                     /\ o \in gaveUp' <=> o \in gaveUp,
         gaveUp \subseteq gaveUp'
  PROVE  Locked'
<1>0. DOMAIN lib = Clients
  BY DEF Invariant
<1>1. lib'[c] = m
  BY <1>0
<1> DEFINE S == Owes(c, lib[c])
<1>2. S' = S
  BY <1>1 DEF Owes, Told, Rests
<1>3. /\ Lined(k, S, c) /\ Stands(k, S, c, lib[c]) /\ Heard(k, c, lib[c])
      /\ Held(lib[c]) /\ Trails(Left(k.backlog, 0, c), ToSet(lib[c].tx))
      /\ lib[c].n \in Nat
  BY TidyNow DEF Tidy, S
<1>4. /\ Lined(k', S, c) /\ Stands(k', S, c, lib[c]) /\ Heard(k', c, lib[c])
  BY <1>3, FewerAgree
<1>10. /\ m.res = lib[c].res
         \/ /\ m.pc \in Asking =>
                 IF m.res[1].err = "ok" THEN Sent(S, m.n) ELSE c \in gaveUp'
            /\ m.pc \in Releasing =>
                 \/ c \in gaveUp' \/ k.owner # c \/ Sent(S, m.n)
      /\ k'.owner = k.owner
  BY DEF Told, Rests, S
<1> HIDE DEF S
<1>5. Lined(k, S, c)'
  BY <1>2, <1>4 DEF Lined
<1>6. Heard(k, c, lib[c])'
  BY <1>1, <1>4 DEF Heard, Told
<1>7. Stands(k, S, c, lib[c])'
  <2>1. m.pc = lib[c].pc /\ m.n = lib[c].n
    BY DEF Told
  <2> QED BY <1>1, <1>2, <1>4, <1>10, <2>1 DEF Stands
<1>8. Agreed(k, S, c)'
  BY <1>1, <1>3, <1>5, <1>6, <1>7 DEF Agreed, Told
<1>9. Held(m) /\ Trails(Left(k.backlog, 0, c), ToSet(m.tx))
  BY <1>3 DEF Held, Told
<1> QED BY <1>0, <1>8, <1>9, StepLock DEF Rests, S

LEMMA RxRests ==
  ASSUME NEW a, Sound(a), NEW c \in Clients, NEW s, IsSeq(s)
  PROVE  LET b == [a EXCEPT !.rx[c] = s]
         IN /\ Rests(a, b) /\ b.rx[c] = s
            /\ \A o \in Clients : o # c => b.rx[o] = a.rx[o]
<1> DEFINE b == [a EXCEPT !.rx[c] = s]
<1>1. /\ Formed(b) /\ b.backlog = a.backlog /\ b.owner = a.owner
      /\ b.depth = a.depth /\ b.mq = a.mq /\ b.out = a.out
      /\ b.rx = [a.rx EXCEPT ![c] = s]
  BY DEF Sound, Queues, Formed, KernelFields
<1> HIDE DEF b
<1>2. /\ DOMAIN b.rx = Clients /\ b.rx[c] = s
      /\ \A o \in Clients : o # c => b.rx[o] = a.rx[o]
  BY <1>1 DEF Sound, Queues
<1>3. \A o \in Clients : IsSeq(b.rx[o])
  BY <1>2 DEF Sound, Queues
<1>4. Sound(b)
  BY <1>1, <1>2, <1>3 DEF Sound, Queues
<1> QED BY <1>1, <1>2, <1>4 DEF Rests, b

LEMMA TailIs ==
  ASSUME NEW s, IsSeq(s), s # <<>>
  PROVE  /\ IsSeq(Tail(s)) /\ 1 \in 1 .. Len(s) /\ Head(s) = s[1]
         /\ \A i \in 1 .. Len(Tail(s)) :
              \E j \in 1 .. Len(s) : Tail(s)[i] = s[j]
<1>1. PICK S : s \in Seq(S)
  BY DEF IsSeq
<1>2. /\ Tail(s) \in Seq(S) /\ Len(s) \in Nat /\ Len(s) > 0
      /\ Len(Tail(s)) = Len(s) - 1
      /\ \A i \in 1 .. Len(Tail(s)) : Tail(s)[i] = s[i + 1]
  BY <1>1
<1>3. \A i \in 1 .. Len(Tail(s)) : i + 1 \in 1 .. Len(s)
  BY <1>2
<1> QED BY <1>1, <1>2, <1>3 DEF IsSeq

(* ks_req_complete for a request that is waited for.                       *)
LEMMA CompleteIs ==
  ASSUME NEW l, DOMAIN l = LibFields, Waiting(l), NEW a, a.id \in l.need
  PROVE  LET m == Complete(l, a)
         IN /\ m.pc = l.pc /\ m.n = l.n /\ m.tx = l.tx /\ Waiting(m)
            /\ l.pc \notin {"sync chans", "sync pipes"} =>
                 a.id = l.n /\ m.res[1] = a
<1> DEFINE m == Complete(l, a)
           N == l.need \ {a.id}
<1>1. /\ m.pc = l.pc /\ m.n = l.n /\ m.tx = l.tx
      /\ m.need = N /\ m.res = Append(l.res, a)
  BY DEF Complete, LibFields
<1> HIDE DEF m
<1>2. l.res = <<>> => m.res = <<a>> /\ m.res[1] = a
  BY <1>1, OneResult
<1>3. ASSUME NEW x, l.res = <<x>> PROVE \E y, p : m.res = <<y, p>>
  <2>1. Append(<<x>>, a) = <<x, a>>
    BY TwoResults
  <2> QED BY <1>1, <1>3, <2>1
<1>4. /\ \A i : l.need \subseteq {i} => N = {} /\ a.id = i
      /\ \A i, j : l.need \subseteq {i, j} => \E h : N \subseteq {h}
      /\ l.need # {}
  <2>1. ASSUME NEW i, NEW j, l.need \subseteq {i, j}
        PROVE  \E h : N \subseteq {h}
    <3>1. CASE a.id = i
      BY <2>1, <3>1
    <3>2. CASE a.id = j
      BY <2>1, <3>2
    <3> QED BY <2>1, <3>1, <3>2
  <2> QED BY <2>1
<1> HIDE DEF N
<1>5. ASSUME Single(l) PROVE Single(m) /\ a.id = l.n /\ m.res[1] = a
  <2>1. l.res = <<>> /\ l.need \subseteq {l.n}
    BY <1>4, <1>5 DEF Single
  <2> QED BY <1>1, <1>2, <1>4, <2>1 DEF Single
<1>6. ASSUME l.pc = "sync chans" PROVE Waiting(m)
  <2> DEFINE i == l.n - 1
             j == l.n
  <2>1. \/ l.res = <<>> /\ l.need \subseteq {i, j}
        \/ (\E x : l.res = <<x>>) /\ \E h : l.need \subseteq {h}
    BY <1>4, <1>6 DEF Waiting
  <2> HIDE DEF i, j
  <2>2. \/ (\E x : m.res = <<x>>) /\ \E h : m.need \subseteq {h}
        \/ (\E x, p : m.res = <<x, p>>) /\ m.need = {}
    BY <1>1, <1>2, <1>3, <1>4, <2>1
  <2> QED BY <1>1, <1>6, <2>2 DEF Waiting
<1>7. ASSUME l.pc = "sync pipes" PROVE Waiting(m)
  <2>1. l.res = <<>> /\ \E h : l.need \subseteq {h}
    BY <1>4, <1>7 DEF Waiting
  <2>2. (\E x : m.res = <<x>>) /\ m.need = {}
    BY <1>1, <1>2, <1>4, <2>1
  <2> QED BY <1>1, <1>7, <2>2 DEF Waiting
<1>8. l.pc \notin {"off", "idle"}
  BY <1>4 DEF Waiting
<1>9. ASSUME l.pc \notin {"sync chans", "sync pipes"}
      PROVE  Waiting(m) /\ a.id = l.n /\ m.res[1] = a
  <2>1. Single(l)
    BY <1>8, <1>9 DEF Waiting
  <2>2. Single(m) /\ a.id = l.n /\ m.res[1] = a
    BY <1>5, <2>1
  <2> QED BY <1>1, <1>8, <1>9, <2>2 DEF Waiting
<1>10. Waiting(m)
  BY <1>6, <1>7, <1>9
<1> QED BY <1>1, <1>9, <1>10 DEF m

LEMMA AskingIs ==
  ASSUME NEW pc, pc \in Asking \cup Releasing
  PROVE  pc \notin {"sync chans", "sync pipes"}
BY DEF Asking, Releasing

LEMMA ReceiveStep ==
  ASSUME Invariant, Locked, NEW c \in Clients, ProtocolReceive(c)
  PROVE  Locked'
<1> DEFINE l == lib[c]
           s == k.rx[c]
           a == Head(s)
           m == Receive(l, a)
<1>1. /\ Alive(c) /\ s # <<>> /\ gaveUp' = gaveUp
      /\ lib' = [lib EXCEPT ![c] = m]
      /\ k' = [k EXCEPT !.rx[c] = Tail(s)]
  BY DEF ProtocolReceive, history
<1>2. Sound(k) /\ IsSeq(s) /\ DOMAIN l = LibFields
  BY DEF Locked, Sound, Queues, Invariant, Asks
<1>3. /\ IsSeq(Tail(s)) /\ 1 \in 1 .. Len(s) /\ a = s[1]
      /\ \A i \in 1 .. Len(Tail(s)) : \E j \in 1 .. Len(s) : Tail(s)[i] = s[j]
  BY <1>1, <1>2, TailIs
<1>4. /\ Rests(k, k') /\ k'.rx[c] = Tail(s)
      /\ \A o \in Clients : o # c => k'.rx[o] = k.rx[o]
  <2> DEFINE t == Tail(s)
  <2>1. k' = [k EXCEPT !.rx[c] = t] /\ IsSeq(t)
    BY <1>1, <1>3
  <2> HIDE DEF t
  <2>2. /\ Rests(k, k') /\ k'.rx[c] = t
        /\ \A o \in Clients : o # c => k'.rx[o] = k.rx[o]
    BY <1>2, <2>1, RxRests
  <2> QED BY <2>2 DEF t
<1>5. Fewer(k, k', c)
  BY <1>3, <1>4 DEF Fewer
<1>6. /\ Lined(k, Owes(c, l), c) /\ Heard(k, c, l) /\ Held(l)
  BY <1>1, TidyNow DEF Tidy
<1>7. Told(c, m)
  <2>1. CASE m.res = l.res /\ m.pc = l.pc /\ m.n = l.n /\ m.tx = l.tx
             /\ m.need = l.need
    <3>1. Waiting(m)
      BY <1>6, <2>1 DEF Held, Waiting, Single
    <3> QED BY <2>1, <3>1 DEF Told
  <2>2. CASE a.mcast
    <3>1. m.res = l.res /\ m.pc = l.pc /\ m.n = l.n /\ m.tx = l.tx
          /\ m.need = l.need
      BY <1>2, <2>2 DEF Receive, LibFields
    <3> QED BY <2>1, <3>1
  <2>3. CASE ~a.mcast /\ a.id \notin l.need
    <3>1. m = l
      BY <2>3 DEF Receive, Complete
    <3> QED BY <2>1, <3>1
  <2>4. CASE ~a.mcast /\ a.id \in l.need
    <3>1. m = Complete(l, a)
      BY <2>4 DEF Receive
    <3>2. /\ m.pc = l.pc /\ m.n = l.n /\ m.tx = l.tx /\ Waiting(m)
          /\ l.pc \notin {"sync chans", "sync pipes"} =>
               a.id = l.n /\ m.res[1] = a
      <4>1. DOMAIN l = LibFields /\ Waiting(l) /\ a.id \in l.need
        BY <1>2, <1>6, <2>4 DEF Held
      <4> HIDE DEF m, a, l
      <4> QED BY ONLY <3>1, <4>1, CompleteIs
    <3>8. m.n = l.n
      BY <3>2
    <3> DEFINE S == Owes(c, l)
    <3>3. \A q \in S : a.id < q.id /\ a.id \in Nat /\ q.id \in Nat
      BY <1>3, <1>6, <2>4 DEF Lined
    <3>4. a.id = l.n /\ l.pc \in Asking => a.err = "ok"
      BY <1>3, <1>6, <2>4 DEF Heard
    <3> HIDE DEF S, m, a, l
    <3>5. a.id = l.n => Sent(S, m.n)
      BY <3>8, <3>3 DEF Sent
    <3>6. m.pc \in Asking \cup Releasing => a.id = l.n /\ m.res[1] = a
      BY <3>2, AskingIs
    <3>7. /\ m.pc \in Asking => m.res[1].err = "ok" /\ Sent(S, m.n)
          /\ m.pc \in Releasing => Sent(S, m.n)
      BY <3>2, <3>4, <3>5, <3>6
    <3> QED BY <3>2, <3>7 DEF Told, S, l
  <2> QED BY <2>2, <2>3, <2>4
<1> HIDE DEF m, s
<1>8. \A o \in Clients : o # c => /\ k'.rx[o] = k.rx[o]
                                  /\ o \in gaveUp' <=> o \in gaveUp
  BY <1>1, <1>4
<1> QED BY <1>1, <1>4, <1>5, <1>7, <1>8, ResultLock

LEMMA TimeoutStep ==
  ASSUME Invariant, Locked, NEW c \in Clients, RequestTimeout(c)
  PROVE  Locked'
<1> DEFINE l == lib[c]
           S == Owes(c, l)
<1>1. PICK id \in l.need :
        /\ \A i \in DOMAIN l.tx : l.tx[i].id # id
        /\ lib' = [lib EXCEPT ![c] =
                     Complete(l, Answer(id, "ETIMEDOUT", <<>>))]
  BY DEF RequestTimeout
<1> DEFINE a == Answer(id, "ETIMEDOUT", <<>>)
           m == Complete(l, a)
<1>2. /\ Alive(c) /\ k' = k /\ lib' = [lib EXCEPT ![c] = m]
      /\ gaveUp' = IF l.pc \in Asking THEN gaveUp \cup {c} ELSE gaveUp
  BY <1>1 DEF RequestTimeout, Asking
<1>3. a.id = id /\ a.err # "ok"
  BY DEF Answer
<1>4. Held(l) /\ DOMAIN l = LibFields /\ Sound(k) /\ Apart(k)
  BY <1>2, TidyNow DEF Invariant, Asks, Locked, Resting
<1> HIDE DEF a
<1>5. /\ m.pc = l.pc /\ m.n = l.n /\ m.tx = l.tx /\ Waiting(m)
      /\ l.pc \notin {"sync chans", "sync pipes"} =>
           a.id = l.n /\ m.res[1] = a
  BY <1>3, <1>4, CompleteIs DEF Held
<1>6. k.owner = c => Sent(S, id)
  <2>1. ASSUME k.owner = c PROVE Left(k.backlog, 0, c) = {}
    BY <1>4, <2>1, AloneLeft
  <2>2. \A q \in ToSet(l.tx) : q.id # id
    BY <1>1 DEF ToSet
  <2> QED BY <2>1, <2>2 DEF Sent, Owes
<1> HIDE DEF m, S, l
<1>7. m.pc \in Asking \cup Releasing => id = m.n /\ m.res[1] = a
  BY <1>3, <1>5, AskingIs
<1>8. /\ m.pc \in Asking => c \in gaveUp' /\ m.res[1].err # "ok"
      /\ m.pc \in Releasing => k.owner # c \/ Sent(S, m.n)
  BY <1>2, <1>3, <1>5, <1>6, <1>7
<1>9. Told(c, m)
  BY <1>5, <1>8 DEF Told, S, l
<1>10. Rests(k, k') /\ Fewer(k, k', c)
  BY <1>2, <1>4 DEF Rests, Fewer
<1>11. /\ \A o \in Clients : o # c => /\ k'.rx[o] = k.rx[o]
                                      /\ o \in gaveUp' <=> o \in gaveUp
       /\ gaveUp \subseteq gaveUp'
  BY <1>2
<1> QED BY <1>2, <1>9, <1>10, <1>11, ResultLock

-----------------------------------------------------------------------------
(* Requests sent.                                                          *)

LEMMA LockedDone ==
  ASSUME Locked
  PROVE  Done(k, [o \in Clients |-> ToSet(lib[o].tx)])
<1> DEFINE Y == [o \in Clients |-> ToSet(lib[o].tx)]
<1>1. \A o \in Clients : Und(k, Y)[o] = Owes(o, lib[o])
  BY DEF Und, Owes
<1>2. AllAgree(k, Und(k, Y))
  BY <1>1 DEF AllAgree, Locked
<1>3. Behind(k, Y)
  BY DEF Behind, Locked, Trails
<1> QED BY <1>2, <1>3 DEF Done, Passable, Locked, Resting

(* The same of two processes but for the requests they have to send.       *)
Alike(l, m) ==
    l.pc = m.pc /\ l.n = m.n /\ l.res = m.res /\ l.need = m.need

LEMMA DoneLocked ==
  ASSUME NEW X, Done(k', X), gaveUp' = gaveUp,
         \A o \in Clients : /\ Alike(lib'[o], lib[o]) /\ Held(lib[o])
                            /\ ToSet(lib'[o].tx) = X[o]
                            /\ Ascending(lib'[o].tx)
  PROVE  Locked'
<1>1. /\ AllAgree(k', Und(k', X)) /\ Behind(k', X) /\ Sound(k') /\ Resting(k')
  BY DEF Done, Passable, AllAgree
<1>2. ASSUME NEW o \in Clients
      PROVE  /\ Agreed(k, Owes(o, lib[o]), o)' /\ Held(lib[o])'
             /\ Trails(Left(k.backlog, 0, o), ToSet(lib[o].tx))'
  <2> DEFINE S == Owes(o, lib[o])
             V == Und(k', X)[o]
  <2>1. S' = V
    BY DEF Owes, Und
  <2>2. Agreed(k', V, o)
    BY <1>1 DEF AllAgree
  <2>3. Alike(lib'[o], lib[o])
    OBVIOUS
  <2> HIDE DEF S, V
  <2>4. Lined(k, S, o)'
    BY <2>1, <2>2 DEF Agreed, Lined
  <2>5. ASSUME Alive(o)' PROVE (lib[o].n \in Nat /\ Heard(k, o, lib[o]))'
    BY <2>2, <2>3, <2>5 DEF Agreed, Alive, Heard, Alike
  <2>6. ASSUME Alive(o)' PROVE Stands(k, S, o, lib[o])'
    BY <2>1, <2>2, <2>3, <2>6 DEF Agreed, Alive, Stands, Alike
  <2>7. Agreed(k, S, o)'
    BY <2>4, <2>5, <2>6 DEF Agreed
  <2>8. Held(lib[o])'
    <3>1. Waiting(lib[o])'
      <4> DEFINE l == lib[o]
                 m == lib'[o]
      <4>1. Waiting(lib[o]) /\ Alike(m, l)
        <5>1. Held(lib[o])
          OBVIOUS
        <5> QED BY <2>3, <5>1 DEF Held
      <4> HIDE DEF l, m
      <4>2. Waiting(m)
        BY <4>1 DEF Waiting, Single, Alike, l
      <4> QED BY <4>2 DEF m
    <3> QED BY <2>3, <3>1 DEF Held, Alike
  <2>9. Trails(Left(k.backlog, 0, o), ToSet(lib[o].tx))'
    BY <1>1 DEF Trails, Behind
  <2> QED BY <2>7, <2>8, <2>9 DEF S
<1> QED BY <1>1, <1>2 DEF Locked

LEMMA NoRequests ==
  ToSet(<<>>) = {} /\ Ascending(<<>>)
<1>1. Len(<<>>) = 0 /\ DOMAIN <<>> = {}
  OBVIOUS
<1> QED BY <1>1 DEF ToSet, Ascending

LEMMA SendStep ==
  ASSUME Invariant, Locked, NEW c \in Clients, ProtocolSend(c)
  PROVE  Locked'
<1> DEFINE skb == [from |-> c, reqs |-> lib[c].tx]
           X == [o \in Clients |-> IF o = c THEN {} ELSE ToSet(lib[o].tx)]
           Y == [o \in Clients |-> ToSet(lib[o].tx)]
<1>1. /\ k' = Rcv(k, skb) /\ lib' = [lib EXCEPT ![c].tx = <<>>]
      /\ gaveUp' = gaveUp
  BY DEF ProtocolSend, history
<1>2. IsSeq(lib[c].tx) /\ Held(lib[c])
  BY DEF Invariant, Asks, AllAsked, IsSeq, Locked
<1>3. Sends(k, skb, X, Y)
  <2>1. Done(k, Y)
    BY LockedDone
  <2>2. Proper(skb, X[skb.from])
    BY <1>2 DEF Proper, Held
  <2>3. \A o \in Clients : Y[o] = Brings(skb, o) \cup X[o]
    BY DEF Brings
  <2> HIDE DEF skb, X, Y
  <2> QED BY <2>1, <2>2, <2>3 DEF Sends
<1>4. Done(k', X)
  <2> HIDE DEF skb, X, Y
  <2> QED BY <1>1, <1>3, RcvAgree
<1>5. ASSUME NEW o \in Clients
      PROVE  /\ Alike(lib'[o], lib[o]) /\ Held(lib[o])
             /\ ToSet(lib'[o].tx) = X[o] /\ Ascending(lib'[o].tx)
  <2>1. Held(lib[o])
    BY DEF Locked
  <2>2. CASE o = c
    <3>1. /\ lib'[c].tx = <<>> /\ Alike(lib'[c], lib[c])
      BY <1>1 DEF Alike, Invariant, Asks, LibFields
    <3> QED BY <2>1, <2>2, <3>1, NoRequests
  <2>3. CASE o # c
    <3>1. lib'[o] = lib[o]
      BY <1>1, <2>3 DEF Invariant
    <3> QED BY <2>1, <2>3, <3>1 DEF Alike, Held
  <2> QED BY <2>2, <2>3
<1> HIDE DEF X
<1> QED BY <1>1, <1>4, <1>5, DoneLocked

-----------------------------------------------------------------------------
(* A process dies; the drivers and the losses.                             *)

LEMMA CrashLock ==
  ASSUME Invariant, Locked, NEW c \in Clients, Crash(c)
  PROVE  Locked'
<1> DEFINE m == [InitLib EXCEPT !.pc = "dead"]
           e == <<>>
           x == [k EXCEPT !.bound = @ \ {c}]
<1>1. /\ lib' = [lib EXCEPT ![c] = m] /\ gaveUp' = gaveUp
      /\ k' = [k EXCEPT !.bound = @ \ {c}, !.rx[c] = e]
  BY DEF Crash, history
<1>2. /\ m.pc = "dead" /\ m.tx = <<>> /\ m.res = <<>> /\ m.need = {}
  BY DEF InitLib
<1>3. IsSeq(e) /\ Len(e) = 0
  <2>1. <<>> \in Seq({})
    OBVIOUS
  <2> QED BY <2>1 DEF IsSeq
<1>4. k' = [x EXCEPT !.rx[c] = e]
  BY <1>1 DEF Locked, Sound, Queues, Formed, KernelFields
<1>5. /\ Sound(x) /\ x.backlog = k.backlog /\ x.owner = k.owner
      /\ x.depth = k.depth /\ x.rx = k.rx
  BY DEF Locked, Sound, Queues, Formed, KernelFields
<1> HIDE DEF e, x, m
<1>6. /\ Rests(x, k') /\ k'.rx[c] = e
      /\ \A o \in Clients : o # c => k'.rx[o] = x.rx[o]
  <2>1. Sound(x) /\ IsSeq(e)
    BY <1>3, <1>5
  <2> DEFINE y == [x EXCEPT !.rx[c] = e]
  <2>2. /\ Rests(x, y) /\ y.rx[c] = e
        /\ \A o \in Clients : o # c => y.rx[o] = x.rx[o]
    BY <2>1, RxRests
  <2>3. k' = y
    BY <1>4
  <2> HIDE DEF y
  <2> QED BY <2>2, <2>3
<1>7. Rests(k, k') /\ Fewer(k, k', c)
  BY <1>3, <1>5, <1>6 DEF Rests, Fewer
<1>8. /\ Held(m) /\ ToSet(m.tx) = {}
  <2>1. ToSet(m.tx) = {} /\ Ascending(m.tx)
    BY <1>2, NoRequests
  <2>2. Single(m)
    BY <1>2 DEF Single
  <2>3. Waiting(m)
    BY <1>2, <2>2 DEF Waiting
  <2>4. m.pc \in Pcs
    BY <1>2 DEF Pcs
  <2> QED BY <2>1, <2>3, <2>4 DEF Held
<1>9. DOMAIN lib = Clients /\ lib'[c] = m
  BY <1>1 DEF Invariant
<1> DEFINE S == Owes(c, lib[c])
<1>10. S' \subseteq S
  BY <1>7, <1>8, <1>9 DEF Owes, Rests
<1>11. Lined(k', S, c)
  BY <1>7, FewerAgree DEF Locked, Agreed, S
<1> HIDE DEF S
<1>12. Lined(k, S, c)'
  BY <1>1, <1>10, <1>11 DEF Lined, Isnt
<1>13. Agreed(k, S, c)'
  BY <1>2, <1>9, <1>12 DEF Agreed, Alive
<1>14. Trails(Left(k.backlog, 0, c), ToSet(m.tx))
  BY <1>8 DEF Trails
<1>15. \A o \in Clients : o # c => /\ k'.rx[o] = k.rx[o]
                                   /\ o \in gaveUp' <=> o \in gaveUp
  BY <1>1, <1>5, <1>6
<1> QED BY <1>1, <1>7, <1>8, <1>9, <1>13, <1>14, <1>15, StepLock
        DEF Rests, S

LEMMA KernelLock ==
  ASSUME Locked, lib' = lib, gaveUp' = gaveUp, Rests(k, k'),
         \A o \in Clients : Fewer(k, k', o)
  PROVE  Locked'
<1>1. Resting(k)'
  BY DEF Locked, Resting, Apart, Rests
<1>2. ASSUME NEW o \in Clients
      PROVE  /\ Agreed(k, Owes(o, lib[o]), o)' /\ Held(lib[o])'
             /\ Trails(Left(k.backlog, 0, o), ToSet(lib[o].tx))'
  <2> DEFINE S == Owes(o, lib[o])
  <2>1. S' = S
    BY DEF Owes, Rests
  <2>2. /\ Agreed(k, S, o) /\ Held(lib[o])
        /\ Trails(Left(k.backlog, 0, o), ToSet(lib[o].tx))
    BY DEF Locked
  <2> HIDE DEF S
  <2>3. /\ Lined(k', S, o)
        /\ Alive(o) => Stands(k', S, o, lib[o]) /\ Heard(k', o, lib[o])
    BY <2>2, FewerAgree DEF Agreed
  <2>4. Lined(k, S, o)'
    BY <2>1, <2>3 DEF Lined
  <2>5. ASSUME Alive(o)' PROVE (lib[o].n \in Nat /\ Heard(k, o, lib[o]))'
    BY <2>2, <2>3, <2>5 DEF Agreed, Alive, Heard
  <2>6. ASSUME Alive(o)' PROVE Stands(k, S, o, lib[o])'
    BY <2>1, <2>3, <2>6 DEF Alive, Stands
  <2>7. Agreed(k, S, o)'
    BY <2>4, <2>5, <2>6 DEF Agreed
  <2> QED BY <2>2, <2>7 DEF S, Rests
<1> QED BY <1>1, <1>2 DEF Locked, Rests

LEMMA SparesRests ==
  ASSUME NEW a, NEW b, Sound(a), Spares(a, b)
  PROVE  Rests(a, b) /\ \A o \in Clients : Fewer(a, b, o)
BY DEF Sound, Queues, Spares, Rests, Fewer

LEMMA RestsChain ==
  ASSUME NEW a, NEW b, NEW d,
         Rests(a, b), \A o \in Clients : Fewer(a, b, o),
         Rests(b, d), \A o \in Clients : Fewer(b, d, o)
  PROVE  Rests(a, d) /\ \A o \in Clients : Fewer(a, d, o)
<1>1. ASSUME NEW o \in Clients PROVE Fewer(a, d, o)
  <2>1. Fewer(a, b, o) /\ Fewer(b, d, o)
    OBVIOUS
  <2>2. ASSUME NEW i \in 1 .. Len(d.rx[o]), ~d.rx[o][i].mcast
        PROVE  \E j \in 1 .. Len(a.rx[o]) : d.rx[o][i] = a.rx[o][j]
    <3>1. PICK j \in 1 .. Len(b.rx[o]) : d.rx[o][i] = b.rx[o][j]
      BY <2>1, <2>2 DEF Fewer
    <3>2. ~b.rx[o][j].mcast
      BY <2>2, <3>1
    <3>3. PICK h \in 1 .. Len(a.rx[o]) : b.rx[o][j] = a.rx[o][h]
      BY <2>1, <3>2 DEF Fewer
    <3> QED BY <3>1, <3>3
  <2> QED BY <2>2 DEF Fewer
<1> QED BY <1>1 DEF Rests

LEMMA McastFlushRests ==
  ASSUME NEW a, Sound(a)
  PROVE  LET b == McastFlush(a)
         IN Rests(a, b) /\ \A o \in Clients : Fewer(a, b, o)
<1> DEFINE b == McastFlush(a)
<1>1. /\ Flows(a, b, None, None)
      /\ b.owner = a.owner /\ b.depth = a.depth /\ b.out = a.out
  BY McastFlushFlows DEF Sound
<1> HIDE DEF b
<1>2. Rests(a, b)
  BY <1>1 DEF Rests, Sound, Flows
<1>3. ASSUME NEW o \in Clients PROVE Fewer(a, b, o)
  BY <1>1, NoneAssumption DEF Fewer, Flows
<1> QED BY <1>2, <1>3 DEF b

(* The kernel after a driver's step or a loss.                             *)
Calmly(a, b) == Rests(a, b) /\ \A o \in Clients : Fewer(a, b, o)

LEMMA PlugRests ==
  ASSUME NEW ch, Sound(k)
  PROVE  Calmly(k, Plug(ch))
<1>0. Formed(k)
  BY DEF Sound, Queues
<1>1. ASSUME NEW a, Spares(k, a), NEW S, NEW t
      PROVE  Calmly(k, McastFlush(McastSend([a EXCEPT !.chans = S],
                                            t, ch, <<>>)))
  <2> DEFINE x == [a EXCEPT !.chans = S]
             e == <<>>
             y == McastSend(x, t, ch, e)
  <2>1. Spares(a, x)
    BY <1>1 DEF Spares, KernelFields, Formed
  <2>2. Spares(k, x)
    BY <1>1, <2>1, SparesChain
  <2> HIDE DEF x, e
  <2>3. Spares(x, y)
    BY <2>2, McastSendSpares DEF Spares
  <2> HIDE DEF y
  <2>4. Spares(k, y)
    BY <2>2, <2>3, SparesChain
  <2>5. Calmly(k, y)
    BY <2>4, SparesRests DEF Calmly
  <2>6. Sound(y)
    BY <2>5 DEF Calmly, Rests
  <2>7. Calmly(y, McastFlush(y))
    BY <2>6, McastFlushRests DEF Calmly
  <2>8. Calmly(k, McastFlush(y))
    BY <2>5, <2>7, RestsChain DEF Calmly
  <2> QED BY <2>8 DEF x, y, e
<1>2. Spares(k, k)
  BY <1>0 DEF Spares
<1>3. Calmly(k, RegisterChan(k, ch))
  BY <1>1, <1>2 DEF RegisterChan
<1>4. Calmly(k, UnregisterChan(k, ch))
  <2> DEFINE k1 == IF k.pipe[ch] = 0 THEN k
                   ELSE UnregisterPipeline(k, k.pipe[ch])
  <2>1. Spares(k, k1)
    BY <1>0, <1>2, UnregisterPipelineSpares
  <2>2. UnregisterChan(k, ch) =
          McastFlush(McastSend([k1 EXCEPT !.chans = @ \ {ch}],
                               "CHAN_DEL", ch, <<>>))
    BY DEF UnregisterChan
  <2> HIDE DEF k1
  <2> QED BY <1>1, <2>1, <2>2
<1> QED BY <1>3, <1>4 DEF Plug

LEMMA DriverRests ==
  ASSUME NEW a, Sound(a), NEW d, DOMAIN d = {"pc", "chan"}
  PROVE  Calmly(a, [a EXCEPT !.driver = d])
<1> DEFINE b == [a EXCEPT !.driver = d]
<1>1. Spares(a, b)
  BY DEF Spares, KernelFields, Formed, Sound, Queues
<1> HIDE DEF b
<1>2. Calmly(a, b)
  BY <1>1, SparesRests DEF Calmly
<1> QED BY <1>2 DEF b

LEMMA RemovedIs ==
  ASSUME NEW s, IsSeq(s), NEW i \in DOMAIN s
  PROVE  /\ IsSeq(RemoveAt(s, i))
         /\ \A j \in 1 .. Len(RemoveAt(s, i)) :
              \E h \in 1 .. Len(s) : RemoveAt(s, i)[j] = s[h]
<1>1. PICK S : s \in Seq(S)
  BY DEF IsSeq
<1> DEFINE u == SubSeq(s, 1, i - 1)
           v == SubSeq(s, i + 1, Len(s))
<1>2. i \in 1 .. Len(s) /\ Len(s) \in Nat
  BY <1>1
<1>3. /\ u \in Seq(S) /\ Len(u) = i - 1
      /\ \A j \in 1 .. Len(u) : u[j] = s[j]
  BY <1>1, <1>2
<1>4. /\ v \in Seq(S) /\ Len(v) = Len(s) - i
      /\ \A j \in 1 .. Len(v) : v[j] = s[i + j]
  BY <1>1, <1>2
<1>5. RemoveAt(s, i) = u \o v
  BY DEF RemoveAt
<1> HIDE DEF u, v
<1>6. /\ IsSeq(u \o v)
      /\ \A j \in 1 .. Len(u \o v) :
           \/ \E h \in 1 .. Len(u) : (u \o v)[j] = u[h]
           \/ \E h \in 1 .. Len(v) : (u \o v)[j] = v[h]
  <2>1. IsSeq(u) /\ IsSeq(v)
    BY <1>3, <1>4 DEF IsSeq
  <2> QED BY <2>1, Joined
<1>7. \A h \in 1 .. Len(u) : h \in 1 .. Len(s) /\ u[h] = s[h]
  BY <1>2, <1>3
<1>8. \A h \in 1 .. Len(v) : i + h \in 1 .. Len(s) /\ v[h] = s[i + h]
  BY <1>2, <1>4
<1>9. ASSUME NEW j \in 1 .. Len(u \o v)
      PROVE  \E h \in 1 .. Len(s) : (u \o v)[j] = s[h]
  BY <1>6, <1>7, <1>8
<1> QED BY <1>5, <1>6, <1>9

LEMMA LossRests ==
  ASSUME Sound(k), NEW c \in Clients, LoseMulticast(c)
  PROVE  Calmly(k, k')
<1>1. PICK i \in DOMAIN k.rx[c] :
        k' = [k EXCEPT !.rx[c] = RemoveAt(k.rx[c], i)]
  BY DEF LoseMulticast
<1> DEFINE s == k.rx[c]
           t == RemoveAt(s, i)
<1>2. IsSeq(s)
  BY DEF Sound, Queues
<1>3. /\ IsSeq(t)
      /\ \A j \in 1 .. Len(t) : \E h \in 1 .. Len(s) : t[j] = s[h]
  BY <1>2, RemovedIs
<1>4. k' = [k EXCEPT !.rx[c] = t]
  BY <1>1
<1> HIDE DEF t
<1>5. /\ Rests(k, k') /\ k'.rx[c] = t
      /\ \A o \in Clients : o # c => k'.rx[o] = k.rx[o]
  <2> DEFINE y == [k EXCEPT !.rx[c] = t]
  <2>1. /\ Rests(k, y) /\ y.rx[c] = t
        /\ \A o \in Clients : o # c => y.rx[o] = k.rx[o]
    BY <1>3, RxRests
  <2>2. k' = y
    BY <1>4
  <2> HIDE DEF y
  <2> QED BY <2>1, <2>2
<1>6. ASSUME NEW o \in Clients PROVE Fewer(k, k', o)
  <2>1. CASE o = c
    BY <1>3, <1>5, <2>1 DEF Fewer
  <2>2. CASE o # c
    BY <1>5, <2>2 DEF Fewer
  <2> QED BY <2>1, <2>2
<1> QED BY <1>5, <1>6 DEF Calmly

LEMMA DriverSteps ==
  ASSUME Locked, \/ DriverCall \/ DriverSleeps \/ DriverWakes
                 \/ DriverRefuses \/ \E c \in Clients : LoseMulticast(c)
  PROVE  Locked'
<1>1. Sound(k) /\ DOMAIN k.driver = {"pc", "chan"}
  BY DEF Locked, Sound, Queues, Formed
<1>2. lib' = lib /\ gaveUp' = gaveUp
  BY DEF DriverCall, DriverSleeps, DriverWakes, DriverRefuses,
         LoseMulticast, history
<1>3. CASE DriverCall
  <2>1. PICK ch \in Chans :
          k' = IF k.owner = None THEN Plug(ch)
               ELSE [k EXCEPT !.driver = [pc |-> "checked", chan |-> ch]]
    BY <1>3 DEF DriverCall
  <2> DEFINE d == [pc |-> "checked", chan |-> ch]
  <2>2. DOMAIN d = {"pc", "chan"}
    OBVIOUS
  <2> HIDE DEF d
  <2>3. Calmly(k, [k EXCEPT !.driver = d]) /\ Calmly(k, Plug(ch))
    BY <1>1, <2>2, DriverRests, PlugRests
  <2>4. Calmly(k, k')
    BY <2>1, <2>3 DEF d
  <2> QED BY <1>2, <2>4, KernelLock DEF Calmly
<1>4. ASSUME NEW st, k' = [k EXCEPT !.driver.pc = st] PROVE Locked'
  <2> DEFINE d == [k.driver EXCEPT !.pc = st]
  <2>1. k' = [k EXCEPT !.driver = d] /\ DOMAIN d = {"pc", "chan"}
    BY <1>1, <1>4
  <2> HIDE DEF d
  <2>2. Calmly(k, [k EXCEPT !.driver = d])
    BY <1>1, <2>1, DriverRests
  <2>3. Calmly(k, k')
    BY <2>1, <2>2
  <2> QED BY <1>2, <2>3, KernelLock DEF Calmly
<1>5. CASE DriverSleeps
  BY <1>4, <1>5 DEF DriverSleeps
<1>6. CASE DriverWakes
  <2> DEFINE x == Plug(k.driver.chan)
             d == [pc |-> "idle", chan |-> None]
  <2>1. k' = IF k.owner = None THEN [x EXCEPT !.driver = d]
             ELSE [k EXCEPT !.driver.pc = "checked"]
    BY <1>6 DEF DriverWakes
  <2>2. DOMAIN d = {"pc", "chan"} /\ Calmly(k, x)
    BY <1>1, PlugRests
  <2> HIDE DEF x, d
  <2>3. CASE k.owner = None
    <3>1. Calmly(x, [x EXCEPT !.driver = d])
      BY <2>2, DriverRests DEF Calmly, Rests
    <3>2. Calmly(k, [x EXCEPT !.driver = d])
      <4> DEFINE y == [x EXCEPT !.driver = d]
      <4>1. Calmly(x, y)
        BY <3>1
      <4> HIDE DEF y
      <4>2. Calmly(k, y)
        BY <2>2, <4>1, RestsChain DEF Calmly
      <4> QED BY <4>2 DEF y
    <3>3. Calmly(k, k')
      BY <2>1, <2>3, <3>2
    <3> QED BY <1>2, <3>3, KernelLock DEF Calmly
  <2>4. CASE k.owner # None
    BY <1>4, <2>1, <2>4
  <2> QED BY <2>3, <2>4
<1>7. CASE DriverRefuses
  <2>1. PICK ch \in Chans, l \in 1 .. 3 : k' = [k EXCEPT !.fails[ch] = l]
    BY <1>7 DEF DriverRefuses
  <2>2. Spares(k, k')
    BY <1>1, <2>1 DEF Spares, KernelFields, Formed, Sound, Queues
  <2> QED BY <1>1, <1>2, <2>2, SparesRests, KernelLock
<1>8. CASE \E c \in Clients : LoseMulticast(c)
  <2>1. Calmly(k, k')
    BY <1>1, <1>8, LossRests
  <2> QED BY <1>2, <2>1, KernelLock DEF Calmly
<1> QED BY <1>3, <1>5, <1>6, <1>7, <1>8

-----------------------------------------------------------------------------
(* The lock excludes.                                                      *)

LockInv == broken \/ Locked

LEMMA InitLocked == Init => LockInv
<1> SUFFICES ASSUME Init PROVE Locked
  BY DEF LockInv
<1> DEFINE e == <<>>
<1>1. /\ k.owner = None /\ k.depth = 0 /\ k.backlog = e /\ k.mq = e
      /\ k.out = <<>> /\ k.rx = [c \in Clients |-> e] /\ Formed(k)
  BY DEF Init, InitKernel, Formed, KernelFields
<1>2. \A c \in Clients :
        /\ lib[c].pc = "off" /\ lib[c].n = 0 /\ lib[c].tx = e
        /\ lib[c].res = <<>> /\ lib[c].need = {}
  BY DEF Init, InitLib
<1>3. /\ IsSeq(e) /\ Len(e) = 0 /\ ToSet(e) = {} /\ Ascending(e)
      /\ \A c : Left(e, 0, c) = {}
  <2>1. <<>> \in Seq({}) /\ Len(<<>>) = 0
    OBVIOUS
  <2> QED BY <2>1, NoRequests, LeftEnd DEF IsSeq
<1> HIDE DEF e
<1>4. Sound(k)
  BY <1>1, <1>3 DEF Sound, Queues, e
<1>5. Resting(k)
  BY <1>1, <1>3 DEF Resting, Orderly, Apart, e
<1>6. ASSUME NEW c \in Clients
      PROVE  /\ Agreed(k, Owes(c, lib[c]), c) /\ Held(lib[c])
             /\ Trails(Left(k.backlog, 0, c), ToSet(lib[c].tx))
  <2>1. Owes(c, lib[c]) = {}
    BY <1>1, <1>2, <1>3 DEF Owes
  <2>2. c # None /\ k.owner # c /\ Len(k.rx[c]) = 0
    BY <1>1, <1>3, NoneAssumption
  <2>3. Lined(k, {}, c) /\ Heard(k, c, lib[c])
    BY <2>2 DEF Lined, Heard
  <2>4. Stands(k, {}, c, lib[c])
    <3>1. lib[c].pc \notin Asking \cup Inside \cup Releasing
      BY <1>2 DEF Asking, Inside, Releasing
    <3> QED BY <1>2, <2>2, <3>1 DEF Stands, Isnt
  <2>5. lib[c].n \in Nat
    BY <1>2
  <2>6. Held(lib[c])
    <3>1. Waiting(lib[c])
      BY <1>2 DEF Waiting
    <3>2. lib[c].pc \in Pcs
      BY <1>2 DEF Pcs
    <3> QED BY <1>2, <1>3, <3>1, <3>2 DEF Held
  <2>7. Trails(Left(k.backlog, 0, c), ToSet(lib[c].tx))
    BY <1>1, <1>2, <1>3 DEF Trails
  <2> QED BY <2>1, <2>3, <2>4, <2>5, <2>6, <2>7 DEF Agreed
<1> QED BY <1>4, <1>5, <1>6 DEF Locked

LEMMA NextLocked == Invariant /\ LockInv /\ [Next]_vars => LockInv'
<1> SUFFICES ASSUME Invariant, LockInv, [Next]_vars PROVE LockInv'
  OBVIOUS
<1>1. CASE BreakLock
  BY <1>1 DEF BreakLock, LockInv
<1>2. ASSUME NEW c \in Clients, Locked,
             User(c) \/ SyncStart(c) \/ Connect(c) \/ Disconnect(c)
               \/ Destroy(c)
      PROVE  Locked'
  <2>1. CASE SyncStart(c) \/ Connect(c)
    BY <1>2, <2>1, AskingSteps
  <2>2. CASE Disconnect(c) \/ Destroy(c)
    BY <1>2, <2>2, IdleSteps
  <2>3. CASE SyncLocked(c) \/ SyncChans(c) \/ SyncPipes(c)
    BY <1>2, <2>3, SyncLockedStep, SyncChansStep, SyncPipesStep
  <2>4. CASE SyncUnlocked(c) \/ GaveUp(c) \/ ConnectUnlocked(c)
    BY <1>2, <2>4, ReleasedSteps
  <2>5. CASE ConnectLocked(c) \/ ConnectCreated(c)
    BY <1>2, <2>5, ConnectLockedStep, ConnectCreatedStep
  <2>6. CASE ConnectStarted(c) \/ DisconnectStopped(c) \/ Destroyed(c)
    BY <1>2, <2>6, OutsideSteps
  <2> QED BY <1>2, <2>1, <2>2, <2>3, <2>4, <2>5, <2>6 DEF User
<1>3. ASSUME NEW c \in Clients, Locked,
             Protocol(c) \/ RequestTimeout(c) \/ Crash(c)
      PROVE  Locked'
  BY <1>3, ReceiveStep, SendStep, TimeoutStep, CrashLock DEF Protocol
<1>4. ASSUME Locked, UNCHANGED vars PROVE Locked'
  <2>1. Calmly(k, k') /\ lib' = lib /\ gaveUp' = gaveUp
    BY <1>4 DEF vars, Calmly, Locked, Rests, Fewer
  <2> QED BY <1>4, <2>1, KernelLock DEF Calmly
<1>5. ASSUME Locked, ~BreakLock PROVE Locked'
  BY <1>2, <1>3, <1>4, <1>5, DriverSteps DEF Next
<1>6. ASSUME broken, ~BreakLock PROVE broken'
  BY <1>6 DEF Next, User, Protocol, ProtocolReceive, ProtocolSend,
     RequestTimeout, SyncLocked, SyncChans, SyncPipes, SyncUnlocked,
     ConnectLocked, ConnectCreated, ConnectUnlocked, ConnectStarted, GaveUp,
     DisconnectStopped, Destroyed, SyncStart, Connect, Disconnect, Destroy,
     Crash, LoseMulticast, DriverCall, DriverSleeps, DriverWakes,
     DriverRefuses, UserStep, history, vars
<1> QED BY <1>1, <1>5, <1>6 DEF LockInv

LEMMA LockThen == Invariant /\ LockInv => LockExcludes
<1> SUFFICES ASSUME Invariant, Locked, NEW c \in Clients
             PROVE  /\ lib[c].pc \in Inside => k.owner = c
                    /\ k.owner = c /\ c \notin gaveUp => lib[c].pc \in Around
  BY DEF LockInv, LockExcludes
<1>1. lib[c].pc \in Pcs
  BY DEF Locked, Held
<1>2. CASE ~Alive(c)
  BY <1>2 DEF Alive, Inside, Around
<1>3. CASE Alive(c)
  <2>1. Stands(k, Owes(c, lib[c]), c, lib[c])
    BY <1>3, TidyNow
  <2>2. /\ lib[c].pc \in Inside => k.owner = c
        /\ k.owner = c /\ c \notin gaveUp => lib[c].pc \notin Outside
    BY <2>1 DEF Stands
  <2>3. lib[c].pc \notin Outside => lib[c].pc \in Around
    BY <1>1 DEF Pcs, Outside, Around, Inside
  <2> QED BY <2>2, <2>3
<1> QED BY <1>2, <1>3

(***************************************************************************)
(* The topology lock excludes, for any number of processes and requests:   *)
(* until the timer breaks a lock, a process that copies the topology or    *)
(* builds a pipeline is the kernel's owner of the lock, and no process     *)
(* owns it without knowing unless it died or stopped waiting for it,       *)
(* whatever is put back on the backlog, answered late, timed out or lost   *)
(* (netlink.c, ks_do_lock, ks_netlink_process_backlog; conn.c,             *)
(* ks_conn_remote_topology_lock).                                          *)
(***************************************************************************)
THEOREM LockIsExclusive == Spec => []LockExcludes
<1>1. Invariant /\ LockInv /\ [Next]_vars /\ Invariant' => LockInv'
  BY NextLocked
<1> QED BY <1>1, Invariance, InitLocked, LockThen, PTL DEF Spec

=============================================================================
