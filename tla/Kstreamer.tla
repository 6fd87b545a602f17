----------------------------- MODULE Kstreamer -----------------------------
(***************************************************************************)
(* kstreamer in the kernel: the channels drivers register, the pipelines   *)
(* processes build of them over netlink, the topology lock a process may   *)
(* hold for a few requests, and the multicasts that tell every process     *)
(* what changed (modules/kstreamer: netlink.c, pipeline.c, channel.c).     *)
(*                                                                         *)
(* Every operator maps the kernel's record k to the next one.  A request   *)
(* runs to its end under the semaphore topology_lock, so one command is    *)
(* one operator.  Of a message only its type and what it names is kept.    *)
(* Nodes follow their channels: an operation of a channel stands for that  *)
(* of the node it comes from and its own.                                  *)
(***************************************************************************)
EXTENDS Integers, Sequences, SequencesExt, FiniteSets

CONSTANTS
    Clients,    \* processes with a netlink socket
    Chans,      \* channels of the drivers
    MaxPipes,   \* bound: pipelines ever made
    SkbCap      \* multicasts that fit into one sk_buff

None == "none"          \* lock_owner = 0

ASSUME NoneAssumption == None \notin Clients
ASSUME SizesAssumption == MaxPipes \in Nat \ {0} /\ SkbCap \in Nat \ {0}

Ids == 1 .. MaxPipes
Status == 0 .. 3        \* NULL, CONNECTED, OPEN, FLOWING

NoPipe == [reg |-> FALSE, st |-> 0, chans |-> <<>>]

(* A request, and an answer to it.                                         *)
Req(type, id) == [type |-> type, id |-> id, chans |-> <<>>, pipe |-> 0,
                  st |-> 0]
Answer(id, err, data) ==
    [mcast |-> FALSE, id |-> id, err |-> err, data |-> data]
(* An sk_buff of multicasts.                                               *)
Mcasts(ms) == [mcast |-> TRUE, ms |-> ms]

(* ks_netlink_modinit, and all the channels registered.                    *)
InitKernel ==
    [chans |-> Chans,                   \* ks_chans_list
     pipe |-> [c \in Chans |-> 0],      \* chan->pipeline
     pipes |-> [p \in Ids |-> NoPipe],  \* pipelines; reg: in the list
     nextid |-> 1,                      \* _ks_pipeline_new_id
     on |-> [c \in Chans |-> {}],       \* 1 connected, 2 opened, 3 started
     fails |-> [c \in Chans |-> 0],     \* the operation its driver refuses
     left |-> {},                       \* history: left on by a rollback
     owner |-> None, depth |-> 0, timer |-> FALSE,
     backlog |-> <<>>,                  \* ks_backlog: [from, reqs]
     mq |-> <<>>, mcur |-> <<>>,        \* mcast_queue, mcast_skb
     mseq |-> 1,                        \* mcast_seqnum, less 0xBEEE
     out |-> <<>>,                      \* out_skb
     driver |-> [pc |-> "idle", chan |-> None], \* a driver's thread
     bound |-> Clients,                 \* netlink sockets that are open
     rx |-> [c \in Clients |-> <<>>]]   \* their receive queues

----------------------------------------------------------------------------
(* Multicasts and answers.                                                 *)

(* A message that does not fit goes into another sk_buff, with the next    *)
(* number: the one it was first given is never sent.                       *)
McastSend(k, type, obj, chans) ==
    LET m(seq) == [seq |-> seq, type |-> type, obj |-> obj, chans |-> chans]
    IN IF Len(k.mcur) < SkbCap
       THEN [k EXCEPT !.mcur = Append(@, m(k.mseq)), !.mseq = @ + 1]
       ELSE [k EXCEPT !.mq = Append(@, k.mcur),
                      !.mcur = <<m(k.mseq + 1)>>, !.mseq = @ + 2]

(* ks_netlink_mcast_flush: not while a process holds the lock.             *)
McastFlush(k) ==
    LET skbs == k.mq \o (IF k.mcur = <<>> THEN <<>> ELSE <<k.mcur>>)
        new == [i \in DOMAIN skbs |-> Mcasts(skbs[i])]
    IN IF k.owner # None THEN k
       ELSE [k EXCEPT !.mq = <<>>, !.mcur = <<>>,
                      !.rx = [c \in Clients |->
                                IF c \in k.bound THEN @[c] \o new ELSE @[c]]]

(* What ks_netlink_send_ack, _send_error and _respond put into out_skb.    *)
Put(k, r, err, data) ==
    [k EXCEPT !.out = Append(@, Answer(r.id, err, data))]

(* ks_netlink_flush: the answers go to the process that asked.             *)
FlushOut(k, c) ==
    [k EXCEPT !.out = <<>>,
              !.rx[c] = IF c \in k.bound THEN @ \o k.out ELSE @]

----------------------------------------------------------------------------
(* The status of a pipeline.                                               *)

Members(k, p) == ToSet(k.pipes[p].chans)

(* The loop that ends ks_pipeline_connected_to_null.                       *)
Unlink(k, p) ==
    [k EXCEPT !.pipe = [c \in Chans |-> IF c \in Members(k, p) THEN 0
                                                               ELSE @[c]],
              !.pipes[p].chans = <<>>]

(* The channels before stop_at, which is the stop-th; all of them when     *)
(* there is none.                                                          *)
Before(k, p, stop) ==
    LET s == k.pipes[p].chans
    IN IF stop = 0 THEN ToSet(s) ELSE {s[i] : i \in 1 .. stop - 1}

(* One step down from status l, over the channels before stop_at.          *)
StepDown(k, p, l, stop) ==
    [k EXCEPT !.on = [c \in Chans |-> IF c \in Before(k, p, stop)
                                      THEN @[c] \ {l} ELSE @[c]],
              !.pipes[p].st = l - 1]

Lower(k, p, l, stop) ==
    IF l = 1 THEN Unlink(StepDown(k, p, l, stop), p)
             ELSE StepDown(k, p, l, stop)

(* Mutant: the status is taken although a driver refused.                  *)
RaiseAnyway(k, p, l) ==
    LET willing == {c \in Members(k, p) : k.fails[c] # l}
    IN [k EXCEPT !.on = [c \in Chans |-> IF c \in willing THEN @[c] \cup {l}
                                                          ELSE @[c]],
                 !.pipes[p].st = l]

(* The first channel whose driver refuses, 0 when none does.               *)
Refuser(k, p, l) ==
    LET refuses(c) == k.fails[c] = l
    IN SelectInSeq(k.pipes[p].chans, refuses)

StepUp(k, p, l, stop) ==
    [k EXCEPT !.on = [c \in Chans |-> IF c \in Before(k, p, stop)
                                      THEN @[c] \cup {l} ELSE @[c]]]

(* One step up to status l.  When the driver of the j-th channel refuses,  *)
(* the step is taken back up to the last channel that succeeded, and that  *)
(* one is where Lower stops.                                               *)
Raise(k, p, l) ==
    LET j == Refuser(k, p, l)
        k1 == StepUp(k, p, l, j)
        last == {k.pipes[p].chans[i] : i \in {j - 1} \ {0}}
    IN IF j = 0 THEN [k1 EXCEPT !.pipes[p].st = l]
       ELSE Lower([k1 EXCEPT !.left = @ \cup last], p, l, j - 1)

(* ks_pipeline_change_status: one status after the other, until one fails. *)
ChangeStatus(k, p, st) ==
    LET up(a, l) == IF l <= st /\ a.pipes[p].st = l - 1 THEN Raise(a, p, l)
                                                        ELSE a
        down(a, l) == IF l > st /\ a.pipes[p].st = l THEN Lower(a, p, l, 0)
                                                     ELSE a
    IN down(down(down(up(up(up(k, 1), 2), 3), 3), 2), 1)

(* ks_pipeline_unregister_no_topology_lock.                                *)
UnregisterPipeline(k, p) ==
    McastSend([ChangeStatus(k, p, 0) EXCEPT !.pipes[p].reg = FALSE],
              "PIPELINE_DEL", p, <<>>)

----------------------------------------------------------------------------
(* The commands.                                                           *)

(* Why ks_pipeline_create_from_nlmsg refuses the channels of a request.    *)
Refusal(k, s) ==
    LET bad == {i \in DOMAIN s : \/ s[i] \notin k.chans
                                 \/ k.pipe[s[i]] # 0
                                 \/ \E n \in 1 .. i - 1 : s[n] = s[i]}
        j == CHOOSE i \in bad : \A n \in bad : i <= n
    IN IF bad = {} THEN "ok"
       ELSE IF s[j] \notin k.chans THEN "ENODEV" ELSE "EBUSY"

(* The channels of a request are given to the new pipeline.                *)
Linked(k, p, s) ==
    [k EXCEPT !.pipe = [c \in Chans |-> IF c \in ToSet(s) THEN p ELSE @[c]],
              !.pipes[p].chans = s]

(* When the status cannot be reached they are let go as they are.          *)
Abandoned(k, p) ==
    [Unlink(k, p) EXCEPT
        !.pipes[p] = NoPipe,
        !.left = @ \cup {c \in Members(k, p) : k.on[c] # {}}]

Made(k, p, st, r) ==
    IF k.pipes[p].st < st THEN Put(Abandoned(k, p), r, "EIO", <<>>)
    ELSE Put(McastSend([k EXCEPT !.pipes[p].reg = TRUE, !.nextid = @ + 1],
                       "PIPELINE_NEW", p, r.chans),
             r, "ok", <<p>>)

(* ks_pipeline_cmd_new.  A pipeline beyond the bound is one for which      *)
(* ks_pipeline_create finds no memory.                                     *)
CmdNew(k, r) ==
    LET why == Refusal(k, r.chans)
        p == k.nextid
        st == IF r.st = 0 THEN 1 ELSE r.st
    IN IF p \notin Ids THEN Put(k, r, "ENOMEM", <<>>)
       ELSE IF why # "ok" THEN Put(k, r, why, <<>>)
       ELSE Made(ChangeStatus(Linked(k, p, r.chans), p, st), p, st, r)

(* ks_pipeline_get_by_id finds it.                                         *)
Listed(k, id) == id \in Ids /\ k.pipes[id].reg

(* ks_pipeline_cmd_del, ks_pipeline_cmd_set.                               *)
CmdDel(k, r) ==
    IF ~Listed(k, r.pipe) THEN Put(k, r, "ENOENT", <<>>)
    ELSE Put(UnregisterPipeline(k, r.pipe), r, "ok", <<>>)

SetAnswer(k, r) ==
    Put(k, r, IF k.pipes[r.pipe].st = r.st THEN "ok" ELSE "EIO", <<>>)

CmdSet(k, r) ==
    IF ~Listed(k, r.pipe) THEN Put(k, r, "ENOENT", <<>>)
    ELSE SetAnswer(ChangeStatus(k, r.pipe, r.st), r)

(* ks_chan_cmd_get, ks_pipeline_cmd_get: the lists as they are now.        *)
CmdChans(k, r) == Put(k, r, "ok", SetToSeq(k.chans))
CmdPipes(k, r) ==
    LET listed == SetToSeq({p \in Ids : k.pipes[p].reg})
    IN Put(k, r, "ok", [i \in DOMAIN listed |->
                          [id |-> listed[i],
                           chans |-> k.pipes[listed[i]].chans]])

(* ks_cmd_topology_lock.  The flush of ks_do_lock comes after the owner is *)
(* set and therefore does nothing.                                         *)
CmdLock(k, c, r) ==
    Put(IF k.owner = None
        THEN McastFlush([k EXCEPT !.owner = c, !.depth = @ + 1,
                                  !.timer = TRUE])
        ELSE [k EXCEPT !.depth = @ + 1],
        r, "ok", <<>>)

(* wake_up(&lock_sleep).                                                   *)
WakeUp(k) == IF k.driver.pc = "asleep" THEN [k EXCEPT !.driver.pc = "woken"]
                                       ELSE k

(* ks_cmd_topology_unlock.                                                 *)
CmdUnlock(k, c, r) ==
    IF k.owner = None THEN Put(k, r, "ENOENT", <<>>)
    ELSE IF k.depth > 1 THEN Put([k EXCEPT !.depth = @ - 1], r, "ok", <<>>)
    ELSE WakeUp(McastFlush(Put([k EXCEPT !.depth = 0, !.owner = None,
                                         !.timer = FALSE], r, "ok", <<>>)))

Handle(k, c, r) ==
    CASE r.type = "LOCK" -> CmdLock(k, c, r)
      [] r.type = "UNLOCK" -> CmdUnlock(k, c, r)
      [] r.type = "CHAN_GET" -> CmdChans(k, r)
      [] r.type = "PIPELINE_GET" -> CmdPipes(k, r)
      [] r.type = "PIPELINE_NEW" -> CmdNew(k, r)
      [] r.type = "PIPELINE_DEL" -> CmdDel(k, r)
      [] r.type = "PIPELINE_SET" -> CmdSet(k, r)

----------------------------------------------------------------------------
(* netlink.c: reception, the backlog and the lock.                         *)

(* Mutant: requests are taken whoever holds the lock.                      *)
NeverBlocked(k, c) == FALSE

(* The EAGAIN of ks_netlink_rcv_msg: another process holds the lock.       *)
Blocked(k, c) == k.owner \notin {None, c}

RcvMsg(k, c, r) == McastFlush(FlushOut(Handle(k, c, r), c))

(* One request of an sk_buff; those behind one that must wait are left.    *)
Take(a, c, r) ==
    IF a.rest # <<>> \/ Blocked(a.k, c)
    THEN [a EXCEPT !.rest = Append(@, r)]
    ELSE [a EXCEPT !.k = RcvMsg(a.k, c, r)]

Taken(k, skb) ==
    LET taken[n \in Nat] ==
          IF n = 0 THEN [k |-> k, rest |-> <<>>]
          ELSE Take(taken[n - 1], skb.from, skb.reqs[n])
    IN  taken

(* What is left of an sk_buff goes to the end of the backlog.              *)
PutBack(end, c) ==
    IF end.rest = <<>> THEN end.k
    ELSE [end.k EXCEPT !.backlog = Append(@, [from |-> c, reqs |-> end.rest])]

(* ks_netlink_rcv_skb: the requests of one sk_buff, until one must wait.   *)
RcvSkb(k, skb) == PutBack(Taken(k, skb)[Len(skb.reqs)], skb.from)

(* A pass over the backlog, and after n passes.                            *)
Pass(k) ==
    LET passed[n \in Nat] ==
          IF n = 0 THEN [k EXCEPT !.backlog = <<>>]
          ELSE RcvSkb(passed[n - 1], k.backlog[n])
    IN  passed

Passes(k) ==
    LET after[n \in Nat] ==
          IF n = 0 THEN k
          ELSE Pass(after[n - 1])[Len(after[n - 1].backlog)]
    IN  after

(* ks_netlink_process_backlog: passes over the backlog while one of them   *)
(* finishes an sk_buff; no more are needed than there are sk_buffs.        *)
ProcessBacklog(k) == Passes(k)[Len(k.backlog)]

(* Mutant: the backlog is left for later.                                  *)
RcvAlone(k, skb) == RcvSkb(k, skb)

(* ks_netlink_rcv.                                                         *)
Rcv(k, skb) == ProcessBacklog(RcvSkb(k, skb))

(* ks_lock_timeout: neither the multicasts nor the backlog are looked at.  *)
LockTimeout(k) ==
    WakeUp([k EXCEPT !.owner = None, !.depth = 0, !.timer = FALSE])

----------------------------------------------------------------------------
(* The drivers, between ks_topology_lock and ks_topology_unlock.           *)

(* ks_chan_register.                                                       *)
RegisterChan(k, ch) ==
    McastFlush(McastSend([k EXCEPT !.chans = @ \cup {ch}],
                         "CHAN_NEW", ch, <<>>))

(* ks_chan_unregister: its pipeline goes first.                            *)
UnregisterChan(k, ch) ==
    LET k1 == IF k.pipe[ch] = 0 THEN k ELSE UnregisterPipeline(k, k.pipe[ch])
    IN McastFlush(McastSend([k1 EXCEPT !.chans = @ \ {ch}],
                            "CHAN_DEL", ch, <<>>))
=============================================================================
