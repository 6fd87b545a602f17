------------------------------- MODULE KsLink -------------------------------
(***************************************************************************)
(* kstreamer together with the processes that use it through libkstreamer. *)
(* Each process mirrors the kernel's channels and pipelines: it copies     *)
(* them once under the topology lock and then follows the multicasts.  Its *)
(* protocol thread exchanges messages with the kernel, a user thread       *)
(* builds and destroys pipelines (conn.c, libkstreamer.c, pipeline.c;      *)
(* the callers in chan_visdn, chan_vgsm and kstool).  A driver registers   *)
(* and unregisters channels meanwhile, the kernel breaks a lock held too   *)
(* long, multicasts are lost and a process dies.                           *)
(***************************************************************************)
EXTENDS Kstreamer

CONSTANTS
    Routes,         \* sequences of channels that lead from node to node
    MaxJobs,        \* bound: pipelines a process builds, or removes by id
    MaxFaults,      \* bound: requests that time out, locks broken, losses,
                    \*        refusals and deaths, taken together
    MaxPlugs        \* bound: channels registered or unregistered

ASSUME RoutesAssumption == Routes \subseteq Seq(Chans)
ASSUME BoundsAssumption ==
    {MaxJobs, MaxFaults, MaxPlugs} \subseteq Nat

VARIABLES
    k,          \* the kernel
    lib,        \* of each process: struct ks_conn and its user thread
    faults, plugs,  \* what was used of each bound
    broken,     \* history: a lock was broken
    missed,     \* history: processes that cannot know of a lost multicast
    gaveUp,     \* history: processes whose request for the lock timed out
    unwoken     \* history: a lock was broken before the driver slept

vars == <<k, lib, faults, plugs, broken, missed, gaveUp, unwoken>>

(* ks_conn_create, ks_conn_establish.                                      *)
InitMirror ==
    [st |-> "NULL",         \* topology_state
     mseq |-> 0,            \* multicast_seqnum, 0: take the next one's
     chans |-> <<>>,        \* chans_hash, the last added first
     busy |-> {},           \* channels whose pipeline is set
     pipes |-> <<>>]        \* pipelines_hash, likewise

InitLib ==
    [pc |-> "off",          \* what the user thread waits for
     top |-> InitMirror,    \* the mirror
     n |-> 0,               \* requests so far
     tx |-> <<>>,           \* requests_pending
     need |-> {},           \* requests not completed
     res |-> <<>>,          \* results the user thread has not looked at
     route |-> <<>>,        \* the pipeline being built
     mine |-> 0,            \* the pipeline it built
     jobs |-> 0]

Init ==
    /\ k = InitKernel
    /\ lib = [c \in Clients |-> InitLib]
    /\ faults = 0 /\ plugs = 0
    /\ broken = FALSE /\ missed = {} /\ gaveUp = {} /\ unwoken = FALSE

history == <<broken, missed, gaveUp, unwoken>>
bounds == <<faults, plugs>>
Fault == faults < MaxFaults /\ faults' = faults + 1 /\ UNCHANGED plugs

----------------------------------------------------------------------------
(* The mirror.                                                             *)

Known(l, id) == \E i \in DOMAIN l.pipes : l.pipes[i].id = id

AddPipe(l, id, chans) ==
    [l EXCEPT !.pipes = <<[id |-> id, chans |-> chans]>> \o @,
              !.busy = @ \cup (ToSet(chans) \cap ToSet(l.chans))]

(* ks_pipeline_del: the first of the list with that id, and no other.      *)
DelPipe(l, id) ==
    LET is(p) == p.id = id
        first == SelectInSeq(l.pipes, is)
    IN IF first = 0 THEN l
       ELSE [l EXCEPT !.pipes = RemoveAt(@, first),
                      !.busy = @ \ ToSet(l.pipes[first].chans)]

(* ks_chan_handle_topology_update, ks_pipeline_handle_topology_update.     *)
Update(l, m) ==
    CASE m.type = "CHAN_NEW" -> [l EXCEPT !.chans = <<m.obj>> \o @,
                                          !.busy = @ \ {m.obj}]
      [] m.type = "CHAN_DEL" ->
            [l EXCEPT !.chans = RemoveFirst(@, m.obj)]
      [] m.type = "PIPELINE_NEW" -> IF Known(l, m.obj) THEN l
                                    ELSE AddPipe(l, m.obj, m.chans)
      [] m.type = "PIPELINE_DEL" -> DelPipe(l, m.obj)

(* Mutant: gaps in the numbers are not noticed.                            *)
ReceiveAnyMulticast(l, m) ==
    [(IF l.st = "SYNCHED" THEN Update(l, m) ELSE l) EXCEPT !.mseq = m.seq + 1]

(* ks_conn_receive_multicast: a gap makes the mirror invalid.              *)
ReceiveMulticast(l, m) ==
    IF l.mseq \notin {0, m.seq} THEN [l EXCEPT !.st = "INVALID", !.mseq = 0]
    ELSE [(IF l.st = "SYNCHED" THEN Update(l, m) ELSE l)
            EXCEPT !.mseq = m.seq + 1]

(* ks_req_complete.                                                        *)
Complete(l, a) ==
    IF a.id \in l.need
    THEN [l EXCEPT !.need = @ \ {a.id}, !.res = Append(@, a)] ELSE l

(* ks_conn_receive: the messages of one sk_buff.  For an answer that is     *)
(* ks_conn_receive_acknowledge or _multi; the answer to a request that     *)
(* timed out finds it completed already.                                   *)
Receive(l, skb) ==
    IF skb.mcast
    THEN [l EXCEPT !.top = FoldLeft(ReceiveMulticast, @, skb.ms)]
    ELSE Complete(l, skb)

----------------------------------------------------------------------------
(* The protocol thread.                                                    *)

Alive(c) == lib[c].pc # "dead"

ProtocolReceive(c) ==
    /\ Alive(c) /\ k.rx[c] # <<>>
    /\ lib' = [lib EXCEPT ![c] = Receive(@, Head(k.rx[c]))]
    /\ k' = [k EXCEPT !.rx[c] = Tail(@)]
    /\ UNCHANGED <<bounds, history>>

(* ks_conn_send_requests, and the kernel's ks_netlink_rcv in the same      *)
(* call; its semaphore is free unless the driver is about to sleep.        *)
ProtocolSend(c) ==
    /\ Alive(c) /\ lib[c].tx # <<>>
    /\ k.driver.pc # "checked"
    /\ k' = Rcv(k, [from |-> c, reqs |-> lib[c].tx])
    /\ lib' = [lib EXCEPT ![c].tx = <<>>]
    /\ UNCHANGED <<bounds, history>>

(* ks_req_timer: no answer within five seconds.                            *)
RequestTimeout(c) ==
    /\ Alive(c)
    /\ \E id \in lib[c].need :
        /\ \A i \in DOMAIN lib[c].tx : lib[c].tx[i].id # id
        /\ lib' = [lib EXCEPT ![c] =
                     Complete(@, Answer(id, "ETIMEDOUT", <<>>))]
    /\ Fault
    /\ gaveUp' = IF lib[c].pc \in {"sync lock", "lock"} THEN gaveUp \cup {c}
                                                        ELSE gaveUp
    /\ UNCHANGED <<k, broken, missed, unwoken>>

----------------------------------------------------------------------------
(* The user thread: each step ends with a request and the wait for it.     *)

(* ks_conn_queue_request, ks_conn_flush_requests, then ks_req_wait.        *)
Ask(l, pc, type) ==
    [l EXCEPT !.pc = pc, !.n = @ + 1, !.need = @ \cup {l.n + 1},
              !.tx = Append(@, Req(type, l.n + 1))]

AskAbout(l, pc, type, pipe, st, chans) ==
    [Ask(l, pc, type) EXCEPT
        !.tx = Append(l.tx, [Req(type, l.n + 1) EXCEPT
                               !.pipe = pipe, !.st = st, !.chans = chans])]

(* The thread wakes up with the result of the request it waited for.       *)
Woken(c, pc) == lib[c].pc = pc /\ lib[c].res # <<>>
Failed(c) == Head(lib[c].res).err # "ok"
Data(c) == Head(lib[c].res).data
Took(c) == [lib[c] EXCEPT !.res = Tail(@)]

UserStep(c, l) ==
    /\ lib' = [lib EXCEPT ![c] = l]
    /\ UNCHANGED <<k, bounds, history>>

Return(l) == [l EXCEPT !.pc = "idle", !.need = {}, !.res = <<>>,
                       !.route = <<>>]

(* ks_update_topology, at start.                                           *)
SyncStart(c) ==
    /\ lib[c].pc = "off"
    /\ UserStep(c, Ask(lib[c], "sync lock", "LOCK"))

SyncLocked(c) ==
    /\ Woken(c, "sync lock")
    /\ UserStep(c, IF Failed(c) THEN Return(Took(c))
                   ELSE Ask(Ask([Took(c) EXCEPT
                                   !.top = [InitMirror EXCEPT
                                              !.st = "SYNCING",
                                              !.mseq = lib[c].top.mseq]],
                                "sync chans", "CHAN_GET"),
                            "sync chans", "PIPELINE_GET"))

(* The labels err_req_result_*: the answers still due are not waited for.  *)
SyncFailed(l) ==
    Ask([l EXCEPT !.top.st = "INVALID", !.need = {}, !.res = <<>>],
        "give up", "UNLOCK")

SyncChans(c) ==
    /\ Woken(c, "sync chans")
    /\ UserStep(c, IF Failed(c) THEN SyncFailed(Took(c))
                   ELSE [Took(c) EXCEPT !.pc = "sync pipes",
                                        !.top.chans = Reverse(Data(c)) \o @])

SyncPipes(c) ==
    /\ Woken(c, "sync pipes")
    /\ UserStep(c,
         IF Failed(c) THEN SyncFailed(Took(c))
         ELSE LET new(m, p) == IF Known(m, p.id) THEN m
                               ELSE AddPipe(m, p.id, p.chans)
              IN Ask([Took(c) EXCEPT
                        !.top = [FoldLeft(new, @, Data(c)) EXCEPT
                                   !.st = "SYNCHED"]],
                     "sync unlock", "UNLOCK"))

SyncUnlocked(c) ==
    /\ Woken(c, "sync unlock")
    /\ UserStep(c, IF Failed(c) THEN SyncFailed(Took(c)) ELSE Return(Took(c)))

(* The lock, a route, the pipeline, and the lock released: the way         *)
(* chan_visdn, chan_vgsm and kstool connect.  One pipeline stands for the  *)
(* two directions, which are built alike under the same lock.              *)
Connect(c) ==
    /\ lib[c].pc = "idle" /\ lib[c].mine = 0 /\ lib[c].jobs < MaxJobs
    /\ UserStep(c, Ask([lib[c] EXCEPT !.jobs = @ + 1], "lock", "LOCK"))

(* Mutant: channels in use are not passed over.                            *)
FreeOrNot(l, s) == ToSet(s) \subseteq ToSet(l.chans)

(* ks_pipeline_autoroute passes over channels the mirror says are in use.  *)
Free(l, s) == ToSet(s) \subseteq ToSet(l.chans) \ l.busy

ConnectLocked(c) ==
    /\ Woken(c, "lock")
    /\ \/ /\ Failed(c)
          /\ UserStep(c, Return(Took(c)))
       \/ /\ ~Failed(c)
          /\ \E s \in Routes :
               /\ Free(lib[c].top, s)
               /\ UserStep(c, AskAbout([Took(c) EXCEPT !.route = s], "create",
                                       "PIPELINE_NEW", 0, 0, s))
       \/ /\ ~Failed(c)
          /\ \A s \in Routes : ~Free(lib[c].top, s)
          /\ UserStep(c, Ask(Took(c), "give up", "UNLOCK"))

(* ks_pipeline_create adds the pipeline to the mirror without looking      *)
(* whether a multicast has added it before.                                *)
ConnectCreated(c) ==
    /\ Woken(c, "create")
    /\ UserStep(c,
         IF Failed(c) THEN Ask(Took(c), "give up", "UNLOCK")
         ELSE Ask([Took(c) EXCEPT
                     !.mine = Data(c)[1],
                     !.top = AddPipe(@, Data(c)[1], lib[c].route)],
                  "unlock", "UNLOCK"))

ConnectUnlocked(c) ==
    /\ Woken(c, "unlock")
    /\ UserStep(c, AskAbout(Took(c), "start", "PIPELINE_SET", lib[c].mine, 3,
                            <<>>))

(* When it cannot be started the pipeline is forgotten and the lock        *)
(* released a second time.                                                 *)
ConnectStarted(c) ==
    /\ Woken(c, "start")
    /\ UserStep(c, IF Failed(c)
                   THEN Ask([Took(c) EXCEPT !.mine = 0], "give up", "UNLOCK")
                   ELSE Return(Took(c)))

GaveUp(c) ==
    /\ Woken(c, "give up")
    /\ UserStep(c, Return(Took(c)))

(* vgsm_disconnect_channel: stop, then destroy.  After an error it leaves  *)
(* the pipeline to the kernel, and the hangup goes on to forget it.        *)
Disconnect(c) ==
    /\ lib[c].pc = "idle" /\ lib[c].mine # 0
    /\ UserStep(c, AskAbout(lib[c], "stop", "PIPELINE_SET", lib[c].mine, 1,
                            <<>>))

DisconnectStopped(c) ==
    /\ Woken(c, "stop")
    /\ UserStep(c, IF Failed(c) THEN Return([Took(c) EXCEPT !.mine = 0])
                   ELSE AskAbout(Took(c), "destroy", "PIPELINE_DEL",
                                 lib[c].mine, 0, <<>>))

(* kstool disconnect: any pipeline of the mirror.                          *)
Destroy(c) ==
    /\ lib[c].pc = "idle" /\ lib[c].jobs < MaxJobs
    /\ \E i \in DOMAIN lib[c].top.pipes :
        UserStep(c, AskAbout([lib[c] EXCEPT !.jobs = @ + 1], "destroy",
                             "PIPELINE_DEL", lib[c].top.pipes[i].id, 0, <<>>))

Destroyed(c) ==
    /\ Woken(c, "destroy")
    /\ UserStep(c, Return([Took(c) EXCEPT !.mine = 0]))

(* The process dies; the kernel keeps its lock and its pipelines.          *)
Crash(c) ==
    /\ Alive(c) /\ lib[c].pc # "off"
    /\ Fault
    /\ lib' = [lib EXCEPT ![c] = [InitLib EXCEPT !.pc = "dead"]]
    /\ k' = [k EXCEPT !.bound = @ \ {c}, !.rx[c] = <<>>]
    /\ UNCHANGED history

----------------------------------------------------------------------------
(* The kernel's timer, the driver and the losses.                          *)

(* The timer takes no semaphore: it may fire after the driver has seen the *)
(* lock held and before it sleeps.                                         *)
BreakLock ==
    /\ k.timer
    /\ Fault
    /\ k' = LockTimeout(k)
    /\ broken' = TRUE
    /\ unwoken' = (unwoken \/ k.driver.pc = "checked")
    /\ UNCHANGED <<lib, missed, gaveUp>>

Plug(ch) == IF ch \in k.chans THEN UnregisterChan(k, ch)
                              ELSE RegisterChan(k, ch)

(* ks_topology_lock, and what the driver does with it.                     *)
DriverCall ==
    /\ k.driver.pc = "idle"
    /\ \E ch \in Chans :
        k' = IF k.owner = None THEN Plug(ch)
             ELSE [k EXCEPT !.driver = [pc |-> "checked", chan |-> ch]]
    /\ plugs < MaxPlugs /\ plugs' = plugs + 1 /\ UNCHANGED faults
    /\ UNCHANGED <<lib, history>>

DriverSleeps ==
    /\ k.driver.pc = "checked"
    /\ k' = [k EXCEPT !.driver.pc = "asleep"]
    /\ UNCHANGED <<lib, bounds, history>>

DriverWakes ==
    /\ k.driver.pc = "woken"
    /\ k' = IF k.owner = None
            THEN [Plug(k.driver.chan) EXCEPT
                    !.driver = [pc |-> "idle", chan |-> None]]
            ELSE [k EXCEPT !.driver.pc = "checked"]
    /\ UNCHANGED <<lib, bounds, history>>

DriverRefuses ==
    /\ Fault
    /\ \E ch \in Chans, l \in 1 .. 3 : k' = [k EXCEPT !.fails[ch] = l]
    /\ UNCHANGED <<lib, history>>

(* netlink_broadcast finds the receive queue full.  A process that has not *)
(* seen a multicast yet cannot notice that one is missing.                 *)
LoseMulticast(c) ==
    /\ \E i \in DOMAIN k.rx[c] :
        /\ k.rx[c][i].mcast
        /\ k' = [k EXCEPT !.rx[c] = RemoveAt(@, i)]
        /\ missed' = IF lib[c].top.mseq = 0
                        /\ \A j \in 1 .. i - 1 : ~k.rx[c][j].mcast
                     THEN missed \cup {c} ELSE missed
    /\ Fault
    /\ UNCHANGED <<lib, broken, gaveUp, unwoken>>

User(c) ==
    \/ SyncLocked(c) \/ SyncChans(c) \/ SyncPipes(c) \/ SyncUnlocked(c)
    \/ ConnectLocked(c) \/ ConnectCreated(c) \/ ConnectUnlocked(c)
    \/ ConnectStarted(c) \/ GaveUp(c) \/ DisconnectStopped(c) \/ Destroyed(c)

Protocol(c) == ProtocolReceive(c) \/ ProtocolSend(c)

Next ==
    \/ \E c \in Clients :
        \/ Protocol(c) \/ RequestTimeout(c) \/ User(c)
        \/ SyncStart(c) \/ Connect(c) \/ Disconnect(c) \/ Destroy(c)
        \/ Crash(c) \/ LoseMulticast(c)
    \/ BreakLock \/ DriverCall \/ DriverSleeps \/ DriverWakes
    \/ DriverRefuses

(* Both threads of a process and the driver's thread run when they can:    *)
(* weak fairness of Protocol, User and the driver's steps.  What enables   *)
(* each is written out, and its steps are told by what only they change.   *)
CanExchange(c) ==
    /\ Alive(c)
    /\ k.rx[c] # <<>> \/ (lib[c].tx # <<>> /\ k.driver.pc # "checked")

Fairness ==
    /\ \A c \in Clients :
        /\ []<>~CanExchange(c)
             \/ []<><<\/ Len(k'.rx[c]) < Len(k.rx[c])
                      \/ Len(lib'[c].tx) < Len(lib[c].tx)>>_vars
        /\ []<>~(Alive(c) /\ lib[c].res # <<>>)
             \/ []<><<Len(lib'[c].res) < Len(lib[c].res)>>_vars
    /\ []<>~(k.driver.pc \in {"checked", "woken"})
         \/ []<><<k.driver.pc \in {"checked", "woken"}
                    /\ k'.driver # k.driver>>_vars

Spec == Init /\ [][Next]_vars /\ Fairness

----------------------------------------------------------------------------
(* Types.                                                                  *)
Pcs == {"off", "idle", "dead", "sync lock", "sync chans", "sync pipes",
        "sync unlock", "lock", "create", "unlock", "start", "give up",
        "stop", "destroy"}
Waits(c) == lib[c].pc \notin {"off", "idle", "dead"}

TypeOK ==
    /\ k.chans \subseteq Chans
    /\ k.pipe \in [Chans -> 0 .. MaxPipes]
    /\ \A p \in Ids : k.pipes[p].st \in Status
    /\ k.on \in [Chans -> SUBSET (1 .. 3)]
    /\ k.owner \in Clients \cup {None} /\ k.depth \in Nat
    /\ k.out = <<>>
    /\ k.driver.pc \in {"idle", "checked", "asleep", "woken"}
    /\ \A c \in Clients :
        /\ lib[c].pc \in Pcs
        /\ lib[c].top.st \in {"NULL", "SYNCING", "SYNCHED", "INVALID"}
        /\ lib[c].top.mseq \in Nat /\ lib[c].mine \in 0 .. MaxPipes

(***************************************************************************)
(* The channel's pointer to its pipeline and the pipeline's list of        *)
(* channels agree, and only registered objects point at each other, after  *)
(* any mixture of failed creations, deletions and channels that go away    *)
(* (pipeline.c, ks_pipeline_create_from_nlmsg and connected_to_null).      *)
(***************************************************************************)
ChannelsBelong ==
    \A ch \in Chans, p \in Ids :
        (k.pipe[ch] = p) <=> (ch \in Members(k, p) /\ k.pipes[p].reg
                                                  /\ ch \in k.chans)

(***************************************************************************)
(* A pipeline's status is true of its channels: each was connected, opened *)
(* and started as far as the status says, and no channel is left further   *)
(* on than its pipeline, except the one a rollback stops at (the stop_at   *)
(* of pipeline.c's down steps).                                            *)
(***************************************************************************)
Level(ch) == IF k.pipe[ch] = 0 THEN 0 ELSE k.pipes[k.pipe[ch]].st

StatusIsTrue ==
    \A ch \in Chans :
        /\ 1 .. Level(ch) \subseteq k.on[ch]
        /\ k.on[ch] = 1 .. Level(ch) \/ ch \in k.left

(***************************************************************************)
(* The topology lock excludes: while a process copies the topology or      *)
(* builds a pipeline the kernel has it as owner, unless the timer broke    *)
(* the lock; and no process owns the lock without knowing, unless it died  *)
(* or stopped waiting for it (netlink.c, ks_do_lock and the backlog;       *)
(* conn.c, ks_conn_remote_topology_lock).                                  *)
(***************************************************************************)
Inside == {"sync chans", "sync pipes", "create"}
Around == Inside \cup {"sync lock", "sync unlock", "lock", "unlock",
                       "give up", "dead"}

LockExcludes ==
    \A c \in Clients :
        /\ lib[c].pc \in Inside /\ ~broken => k.owner = c
        /\ k.owner = c /\ c \notin gaveUp /\ ~broken => lib[c].pc \in Around

(* What a process will have seen once all multicasts have reached it.      *)
Pending(c) ==
    FlattenSeq([i \in DOMAIN k.rx[c] |->
                  IF k.rx[c][i].mcast THEN k.rx[c][i].ms ELSE <<>>])
      \o FlattenSeq(k.mq) \o k.mcur
CaughtUp(c) == FoldLeft(ReceiveMulticast, lib[c].top, Pending(c))

(* Nothing is lost that the process could not have noticed by then.        *)
Follows(c) ==
    /\ CaughtUp(c).st = "SYNCHED" /\ CaughtUp(c).mseq \in {0, k.mseq}
    /\ c \notin missed /\ ~broken

(***************************************************************************)
(* A mirror that calls itself SYNCHED is one: with the multicasts still on *)
(* their way it holds exactly the kernel's channels and pipelines, each    *)
(* once, and marks the same channels as in use, although it was copied in  *)
(* several requests, pipelines are added by their own process and by       *)
(* multicast, and lost multicasts are seen only by their numbers           *)
(* (libkstreamer.c, ks_update_topology; conn.c, ks_conn_receive_multicast).*)
(***************************************************************************)
MirrorAgrees ==
    \A c \in Clients :
        Follows(c) =>
          LET l == CaughtUp(c)
          IN /\ IsInjective(l.chans) /\ ToSet(l.chans) = k.chans
             /\ IsInjective(l.pipes)
             /\ ToSet(l.pipes) = {[id |-> p, chans |-> k.pipes[p].chans] :
                                  p \in {q \in Ids : k.pipes[q].reg}}
             /\ l.busy = {ch \in Chans : k.pipe[ch] # 0}

(***************************************************************************)
(* A process that routes under the lock asks for channels that are there   *)
(* and free: the answer to its request for the lock came behind every      *)
(* multicast sent before, so its mirror was current (pipeline.c,           *)
(* ks_pipeline_autoroute; netlink.c, ks_netlink_mcast_flush).              *)
(***************************************************************************)
RouteIsFree ==
    \A c \in Clients :
        lib[c].pc = "create" /\ lib[c].tx # <<>> /\ Follows(c) =>
            Refusal(k, lib[c].route) = "ok"

(* A lock nobody will release: its process died, or stopped waiting for it *)
(* before it was granted.                                                  *)
Orphaned == gaveUp # {} \/ \E c \in Clients : ~Alive(c)

(***************************************************************************)
(* Every call of libkstreamer returns without a timeout of its own while   *)
(* locks are released by those who took them: a request put back for the   *)
(* lock is taken up again when the lock is released, whatever the driver,  *)
(* lost multicasts and refusing channels do (netlink.c,                    *)
(* ks_netlink_process_backlog; req.c, ks_req_wait).                        *)
(***************************************************************************)
CallsReturn ==
    \A c \in Clients : []<>(~Waits(c) \/ Orphaned \/ broken)

(***************************************************************************)
(* A driver that waits for the topology lock gets it, also when the lock   *)
(* is taken again before it has woken up and when the lock is broken,      *)
(* unless the break came just before its sleep (netlink.c,                 *)
(* ks_topology_lock).                                                      *)
(***************************************************************************)
DriverReturns ==
    []<>(k.driver.pc = "idle" \/ Orphaned \/ unwoken)

(***************************************************************************)
(* Pipelines are what they seem: channels, pipelines and status agree.     *)
(***************************************************************************)
PipelinesAreTrue == ChannelsBelong /\ StatusIsTrue

(***************************************************************************)
(* Nobody waits for ever, neither a process for its answers nor a driver   *)
(* for the lock.                                                           *)
(***************************************************************************)
WaitsEnd == CallsReturn /\ DriverReturns
=============================================================================
