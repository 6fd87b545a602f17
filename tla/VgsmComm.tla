------------------------------ MODULE VgsmComm ------------------------------
(***************************************************************************)
(* chan_vgsm's serial link to a GSM module (comm.c): any thread queues an  *)
(* AT request and may wait for it; the comm thread sends the requests one  *)
(* at a time, reads echoes, responses and unsolicited result codes (URCs), *)
(* and after a timeout resynchronises and sends the request again; the     *)
(* completion thread runs callbacks, the URC thread runs handlers, which   *)
(* make requests themselves; the monitor thread closes the link and opens  *)
(* it again after a failure (me.c).                                        *)
(*                                                                         *)
(* What crosses the serial line is a sequence of whole lines: of a command *)
(* or a line only what it is and whose it is matters.  The model stops     *)
(* where the code fails an assertion (~comm.ok).                           *)
(***************************************************************************)
EXTENDS Integers, Sequences, SequencesExt, FiniteSets

CONSTANTS
    CallerReqs,     \* requests made by the monitor, channels and the CLI
    HandlerReqs,    \* requests made by URC handlers, which wait for them
    Attempts,       \* times a request is sent: 3, req->retransmit_cnt
    MaxOpens,       \* bound: times the link is opened
    MaxUrcs         \* bound: URCs the module sends

Reqs == CallerReqs \cup HandlerReqs

ASSUME KindsAssumption == CallerReqs \cap HandlerReqs = {}
ASSUME BoundsAssumption ==
    Attempts \in Nat \ {0} /\ MaxOpens \in Nat /\ MaxUrcs \in Nat

None == "none"          \* no request
Recovery == "recovery"  \* the command of vgsm_comm_send_recovery_sequence

ASSUME NamesAssumption ==
    Reqs \cap {None, Recovery, "line", "sms", "gone", "idle"} = {}

VARIABLES
    comm,       \* struct vgsm_comm, its requests and the two ends of the tty
    run,        \* comm thread: "none", "starting", "loop", "reading" or "exiting"
    pipe,       \* messages in cmd_pipe
    compl,      \* completion thread: "gone" or "idle"
    urct,       \* URC thread: "gone", "idle", a URC's kind or a request
    caller,     \* of each request: "none", "waits" or "left"
    closing,    \* the monitor thread is in vgsm_comm_close
    module,     \* the GSM module: what it does, and for which command
    ended,      \* history: requests the module has run to their end
    made, completed, called,    \* history: requests, in order
    opens, urcs                 \* bounds

vars == <<comm, run, pipe, compl, urct, caller, closing, module, ended, made,
          completed, called, opens, urcs>>

Waiting == {"RECOVERING", "READING_URC", "AWAITING_SMS_ECHO",
            "AWAITING_SMS_ECHO_1A", "AWAITING_ECHO",
            "AWAITING_ECHO_READING_URC", "READING_RESPONSE"}
Looping == {"loop", "reading"}      \* in poll, in vgsm_comm_receive
CommStates == Waiting \cup {"CLOSED", "CLOSING", "FAILED", "IDLE"}

Line(k, of) == [k |-> k, of |-> of]
Urcs == {"line", "sms"}

----------------------------------------------------------------------------
(* vgsm_comm_init, and the requests before they are allocated.             *)
NewComm ==
    [ok |-> TRUE, state |-> "CLOSED", timer |-> FALSE, current_req |-> None,
     current_urc |-> FALSE, requests_queue |-> <<>>, completion_queue |-> <<>>,
     urc_queue |-> <<>>, tx |-> <<>>, rx |-> <<>>,
     req |-> [r \in Reqs |-> [refcnt |-> 0, ready |-> FALSE, err |-> None,
                              retransmit_cnt |-> 0, pdu |-> FALSE]]]

(* vgsm_comm_change_state: "on" starts the timer, "off" stops it.          *)
change_state(c, s, t) ==
    [c EXCEPT !.state = s, !.timer = (t = "on") \/ (t = "kept" /\ @)]

Write(c, k, of) == [c EXCEPT !.tx = Append(@, Line(k, of))]

req_get(c, r) == [c EXCEPT !.req[r].refcnt = @ + 1]
req_put(c, r) == [c EXCEPT !.req[r].refcnt = @ - 1]

(* Mutant: list_add in the place of list_add_tail.                         *)
req_make_first(c, r, pdu) ==
    req_get([c EXCEPT !.req[r] = [refcnt |-> 1, ready |-> FALSE, err |-> None,
                                  retransmit_cnt |-> Attempts, pdu |-> pdu],
                      !.requests_queue = <<r>> \o @], r)

(* vgsm_req_make_va: the new request has its maker's reference and the     *)
(* queue's.  It may carry the PDU of a short message.                      *)
req_make(c, r, pdu) ==
    req_get([c EXCEPT !.req[r] = [refcnt |-> 1, ready |-> FALSE, err |-> None,
                                  retransmit_cnt |-> Attempts, pdu |-> pdu],
                      !.requests_queue = Append(@, r)], r)

(* Mutant: the completion queue takes no reference of its own.             *)
CompleteUncounted(c, r, err) ==
    req_put([c EXCEPT !.req[r].err = err, !.req[r].ready = TRUE,
                      !.completion_queue = Append(@, r)], r)

(* A request that is over is made ready, goes to the completion thread and *)
(* loses the reference it had as the current or as a queued one.           *)
Complete(c, r, err) ==
    LET d == req_get([c EXCEPT !.req[r].err = err, !.req[r].ready = TRUE], r)
    IN  req_put([d EXCEPT !.completion_queue = Append(@, r)], r)

process_next_request(c) ==
    IF c.current_req # None THEN [c EXCEPT !.ok = FALSE]
    ELSE IF c.requests_queue = <<>> THEN c
    ELSE LET r == Head(c.requests_queue)
             d == [c EXCEPT !.current_req = r, !.requests_queue = Tail(@)]
         IN  change_state(Write(d, "cmd", r), "AWAITING_ECHO", "on")

(* vgsm_flush_requests: Complete, with VGSM_RESP_FAILED, of every request  *)
(* of the queue in turn: its reference passes to the completion queue.     *)
flush_requests(c) ==
    LET Queued(r) == \E i \in 1..Len(c.requests_queue) : c.requests_queue[i] = r
    IN  [c EXCEPT !.req = [r \in Reqs |->
                              IF Queued(r) THEN [@[r] EXCEPT !.err = "FAILED", !.ready = TRUE]
                              ELSE @[r]],
                  !.completion_queue = @ \o c.requests_queue,
                  !.requests_queue = <<>>]

(* The top of the loop of vgsm_comm_thread_main.                           *)
Top(c) ==
    CASE c.ok /\ c.state = "IDLE"   -> process_next_request(c)
      [] c.ok /\ c.state = "FAILED" -> flush_requests(c)
      [] OTHER                      -> c

----------------------------------------------------------------------------
(* vgsm_match_response.                                                    *)
match_response(c, t) ==
    LET r == c.current_req
    IN  CASE t.k = "prompt" /\ ~c.req[r].pdu -> Write(c, "esc", r)
          [] t.k = "prompt" /\ c.req[r].pdu ->
               change_state(Write(c, "pdu", r), "AWAITING_SMS_ECHO", "on")
          [] t.k = "final" ->
               [Complete(change_state(c, "IDLE", "off"), r, "answered")
                    EXCEPT !.current_req = None]
          [] OTHER -> c     \* a line of the response

(* vgsm_comm_match_urc: what is no URC is dropped.  A prompt has no end of *)
(* line, so that an echo after it goes with it.                            *)
match_urc(c, t) ==
    CASE t.k = "echo" -> c
      [] t.k = "prompt" -> IF Head(c.rx).k = "echo" THEN [c EXCEPT !.rx = Tail(@)] ELSE c
      [] t.k \notin {"echo", "prompt"} /\ c.current_urc -> [c EXCEPT !.ok = FALSE]
      [] t.k = "urc" /\ t.of = "sms" /\ ~c.current_urc ->
           change_state([c EXCEPT !.current_urc = TRUE],
               IF c.state = "AWAITING_ECHO" THEN "AWAITING_ECHO_READING_URC"
               ELSE "READING_URC", "on")
      [] t.k = "urc" /\ t.of # "sms" /\ ~c.current_urc ->
           [c EXCEPT !.urc_queue = Append(@, t.of),
                     !.timer = @ \/ c.state = "AWAITING_ECHO"]
      [] OTHER -> c

(* Mutant: the end of the URC stops the timer of the echo.                 *)
ContUnsupervised(c, t) ==
    LET d == [c EXCEPT !.urc_queue = Append(@, "sms"), !.current_urc = FALSE]
    IN  IF c.state = "READING_URC" THEN change_state(d, "IDLE", "off")
        ELSE change_state(d, "AWAITING_ECHO", "off")

(* vgsm_comm_match_urc_cont: every class takes the next line for its last. *)
match_urc_cont(c, t) ==
    LET d == [c EXCEPT !.urc_queue = Append(@, "sms"), !.current_urc = FALSE]
    IN  IF c.state = "READING_URC" THEN change_state(d, "IDLE", "off")
        ELSE change_state(d, "AWAITING_ECHO", "on")

(* FAILED and RECOVERING throw away everything; what arrives once the comm *)
(* thread has left its loop is flushed before the tty is opened again.     *)
Listens(c) == c.state \notin {"FAILED", "RECOVERING", "CLOSING", "CLOSED"}

(* While it awaits the echo of a PDU it leaves anything else in comm->buf; *)
(* so does vgsm_comm_match_urc with a line that has not ended.             *)
Takes(c) ==
    /\ c.ok /\ c.rx # <<>>
    /\ c.state \in {"IDLE", "AWAITING_ECHO"} /\ Head(c.rx).k = "prompt" => Len(c.rx) > 1
    /\ c.state = "AWAITING_SMS_ECHO" => Head(c.rx) = Line("pduecho", c.current_req)
    /\ c.state = "AWAITING_SMS_ECHO_1A" => Head(c.rx) = Line("eofecho", c.current_req)

(* Mutant: any line is taken for the echo of the request.                  *)
ReceiveAnyEcho(b) ==
    LET t == Head(b.rx)
        c == [b EXCEPT !.rx = Tail(@)]
    IN  CASE ~Takes(b) -> b
          [] Takes(b) /\ c.state = "IDLE" -> match_urc(c, t)
          [] Takes(b) /\ c.state = "AWAITING_ECHO" ->
               change_state(c, "READING_RESPONSE", "on")
          [] Takes(b) /\ c.state = "READING_RESPONSE" -> match_response(c, t)
          [] OTHER -> c

(* A turn of the loop in vgsm_comm_receive.                                *)
receive(b) ==
    LET t == Head(b.rx)
        c == [b EXCEPT !.rx = Tail(@)]
    IN  CASE ~Takes(b) -> b
          [] Takes(b) /\ c.state = "IDLE" -> match_urc(c, t)
          [] Takes(b) /\ c.state = "AWAITING_ECHO" ->
               IF t = Line("echo", c.current_req)
               THEN change_state(c, "READING_RESPONSE", "on") ELSE match_urc(c, t)
          [] Takes(b) /\ c.state \in {"READING_URC", "AWAITING_ECHO_READING_URC"} ->
               match_urc_cont(c, t)
          [] Takes(b) /\ c.state = "AWAITING_SMS_ECHO" ->
               change_state(Write(c, "eof", c.current_req),
                            "AWAITING_SMS_ECHO_1A", "kept")
          [] Takes(b) /\ c.state = "AWAITING_SMS_ECHO_1A" ->
               change_state(c, "READING_RESPONSE", "on")
          [] Takes(b) /\ c.state = "READING_RESPONSE" -> match_response(c, t)

(* Mutant: a request is sent again for ever.                               *)
RetryForever(c, kept) ==
    LET r == c.current_req
        d == [c EXCEPT !.timer = FALSE]
        lost == [d EXCEPT !.current_urc = FALSE, !.rx = <<>>, !.tx = kept]
    IN  CASE d.state = "RECOVERING" /\ r = None -> change_state(d, "IDLE", "off")
          [] d.state = "RECOVERING" /\ r # None ->
               change_state(Write(d, "cmd", r), "AWAITING_ECHO", "on")
          [] d.state \in Waiting \ {"RECOVERING"} ->
               Write(change_state(lost, "RECOVERING", "on"), "cmd", Recovery)
          [] OTHER -> d

(* vgsm_comm_timer_fired; `kept' is what of tx was transmitted already     *)
(* when tcflush discards the rest.                                         *)
timer_fired(c, kept) ==
    LET r == c.current_req
        d == [c EXCEPT !.timer = FALSE]
        again == [d EXCEPT !.req[r].retransmit_cnt = @ - 1]
        lost == [d EXCEPT !.current_urc = FALSE, !.rx = <<>>, !.tx = kept]
    IN  CASE d.state = "RECOVERING" /\ r = None -> change_state(d, "IDLE", "off")
          [] d.state = "RECOVERING" /\ r # None ->
               IF again.req[r].retransmit_cnt = 0
               THEN [Complete(change_state(again, "FAILED", "off"), r, "FAILED")
                         EXCEPT !.current_req = None]
               ELSE change_state(Write(again, "cmd", r), "AWAITING_ECHO", "on")
          [] d.state \in Waiting \ {"RECOVERING"} ->
               Write(change_state(lost, "RECOVERING", "on"), "cmd", Recovery)
          [] OTHER -> d

----------------------------------------------------------------------------
Init ==
    /\ comm = NewComm /\ run = "none" /\ pipe = <<>>
    /\ compl = "gone" /\ urct = "gone"
    /\ caller = [r \in Reqs |-> "none"] /\ closing = FALSE
    /\ module = [mode |-> "idle", of |-> None]
    /\ ended = {} /\ made = <<>> /\ completed = <<>> /\ called = {}
    /\ opens = 0 /\ urcs = 0

(* What a step of the comm thread makes of comm, and the requests it ended. *)
Becomes(c) ==
    /\ comm' = c
    /\ completed' = completed \o SubSeq(c.completion_queue,
           Len(comm.completion_queue) + 1, Len(c.completion_queue))

env == <<module, ended, opens, urcs>>
threads == <<compl, urct, caller, called>>

(* vgsm_comm_open, for a tty just flushed (vgsm_me_open).  The message     *)
(* INITIALIZE it may be sent has no effect.                                *)
Open ==
    /\ comm.ok /\ run = "none" /\ ~closing /\ opens < MaxOpens
    /\ opens' = opens + 1
    /\ run' = "starting" /\ compl' = "idle" /\ urct' = "idle"
    /\ UNCHANGED <<comm, pipe, caller, closing, module, ended, made, completed, called,
                   urcs>>

Start ==
    /\ comm.ok /\ run = "starting"
    /\ run' = "loop"
    /\ Becomes(Top(change_state(comm, "IDLE", "off")))
    /\ UNCHANGED <<pipe, closing, made, env, threads>>

(* vgsm_comm_send_message, to a pipe that is open; two REFRESH in a row do *)
(* what one does.                                                          *)
Sent(m) ==
    IF run = "none" \/ (pipe # <<>> /\ Last(pipe) = m) THEN pipe ELSE Append(pipe, m)

(* A thread makes request r: it waits for it (vgsm_req_make_wait,          *)
(* vgsm_req_make_sms), or puts its reference at once and leaves the rest   *)
(* to the callback (vgsm_req_make_callback).                               *)
Make(r) ==
    /\ comm.ok /\ caller[r] = "none"
    /\ pipe' = Sent("REFRESH") /\ made' = Append(made, r)
    /\ \/ /\ \E pdu \in BOOLEAN : comm' = req_make(comm, r, pdu)
          /\ caller' = [caller EXCEPT ![r] = "waits"]
       \/ /\ comm' = req_put(req_make(comm, r, FALSE), r)
          /\ caller' = [caller EXCEPT ![r] = "left"]
    /\ UNCHANGED <<run, compl, urct, closing, completed, called, env>>

(* vgsm_req_wait returns and the caller puts the request.                  *)
WaitReturns(r) ==
    /\ comm.ok /\ caller[r] = "waits" /\ comm.req[r].ready
    /\ comm' = req_put(comm, r) /\ caller' = [caller EXCEPT ![r] = "left"]
    /\ UNCHANGED <<run, pipe, compl, urct, closing, made, completed, called, env>>

ReadMessage ==
    /\ comm.ok /\ run = "loop" /\ pipe # <<>>
    /\ pipe' = Tail(pipe)
    /\ \/ /\ Head(pipe) = "CLOSE" /\ run' = "exiting"
          /\ comm' = [change_state(comm, "CLOSING", "off") EXCEPT !.rx = <<>>]
          /\ UNCHANGED completed
       \/ /\ Head(pipe) # "CLOSE" /\ UNCHANGED run
          /\ Becomes(Top(comm))
    /\ UNCHANGED <<closing, made, env, threads>>

(* vgsm_comm_receive: a read returns one or more of the lines that wait.   *)
(* After a line the comm thread takes another one of comm->buf, or goes    *)
(* through the top of its loop and polls again.                            *)
Receive ==
    /\ run \in Looping /\ Takes(comm)
    /\ LET c == receive(comm)
       IN  \/ run' = "reading" /\ Takes(c) /\ Becomes(c)
           \/ run' = "loop" /\ Becomes(Top(c))
    /\ UNCHANGED <<pipe, closing, made, env, threads>>

Timeout ==
    /\ comm.ok /\ run = "loop" /\ comm.timer
    /\ \E n \in {0, Len(comm.tx)} :
         /\ comm.state = "RECOVERING" => n = 0
         /\ Becomes(Top(timer_fired(comm, SubSeq(comm.tx, 1, n))))
    /\ UNCHANGED <<run, pipe, closing, made, env, threads>>

(* vgsm_comm_close: it returns when the state is CLOSED; vgsm_me_timer_    *)
(* fired then flushes and closes the tty.                                  *)
Close ==
    /\ comm.ok /\ run \in Looping /\ ~closing
    /\ closing' = TRUE /\ pipe' = Sent("CLOSE")
    /\ UNCHANGED <<comm, run, made, completed, env, threads>>

(* Mutant: the comm thread leaves without telling its state.               *)
JoinedSilently ==
    /\ comm.ok /\ run = "exiting" /\ compl = "gone" /\ urct = "gone"
    /\ run' = "none" /\ pipe' = <<>>
    /\ UNCHANGED <<comm, closing, made, completed, env, threads>>

Joined ==
    /\ comm.ok /\ run = "exiting" /\ compl = "gone" /\ urct = "gone"
    /\ run' = "none" /\ pipe' = <<>>
    /\ comm' = change_state(comm, "CLOSED", "off")
    /\ UNCHANGED <<closing, made, completed, env, threads>>

CloseReturns ==
    /\ comm.ok /\ closing /\ comm.state = "CLOSED"
    /\ closing' = FALSE
    /\ \E n \in {0, Len(comm.tx)} :
         comm' = [comm EXCEPT !.tx = SubSeq(@, 1, n)]
    /\ UNCHANGED <<run, pipe, made, completed, env, threads>>

----------------------------------------------------------------------------
(* vgsm_comm_completion_thread_main: it calls completion_func, and leaves  *)
(* when nothing is queued.                                                 *)
CompletionThread ==
    /\ comm.ok /\ compl = "idle"
    /\ IF comm.completion_queue # <<>>
       THEN LET r == Head(comm.completion_queue)
            IN  /\ comm' = req_put([comm EXCEPT !.completion_queue = Tail(@)], r)
                /\ called' = called \cup {r} /\ UNCHANGED compl
       ELSE run = "exiting" /\ compl' = "gone" /\ UNCHANGED <<comm, called>>
    /\ UNCHANGED <<run, pipe, urct, caller, closing, made, completed, env>>

(* vgsm_comm_urc_thread_main.                                              *)
TakeUrc ==
    /\ comm.ok /\ urct = "idle"
    /\ IF comm.urc_queue # <<>>
       THEN /\ urct' = Head(comm.urc_queue)
            /\ comm' = [comm EXCEPT !.urc_queue = Tail(@)]
       ELSE run = "exiting" /\ urct' = "gone" /\ UNCHANGED comm
    /\ UNCHANGED <<run, pipe, compl, caller, closing, made, completed, called, env>>

(* handle_unsolicited_ciev_call asks for the list of calls (AT^SLCC), vgsm_ *)
(* me_handle_sms_deliver acknowledges a message it could spool (AT+CNMA);  *)
(* other handlers make no request.                                         *)
HandleUrc ==
    /\ comm.ok /\ urct \in Urcs
    /\ \/ /\ \E r \in HandlerReqs :
               /\ caller[r] = "none"
               /\ comm' = req_make(comm, r, FALSE) /\ urct' = r
               /\ caller' = [caller EXCEPT ![r] = "waits"]
               /\ made' = Append(made, r) /\ pipe' = Sent("REFRESH")
       \/ /\ urct' = "idle" /\ UNCHANGED <<comm, caller, made, pipe>>
    /\ UNCHANGED <<run, compl, closing, completed, called, env>>

HandlerReturns ==
    /\ comm.ok /\ urct \in Reqs /\ comm.req[urct].ready
    /\ comm' = req_put(comm, urct) /\ caller' = [caller EXCEPT ![urct] = "left"]
    /\ urct' = "idle"
    /\ UNCHANGED <<run, pipe, compl, closing, made, completed, called, env>>

----------------------------------------------------------------------------
(* The GSM module: it may be slow or stop.  A line that comes after the    *)
(* timeout is as good as lost.                                             *)
Does(mode, of) == module' = [mode |-> mode, of |-> of]
Says(c, lines) == comm' = IF Listens(c) THEN [c EXCEPT !.rx = @ \o lines] ELSE c
others == <<run, pipe, closing, made, completed, opens, threads>>

(* It takes one command at a time and echoes what it takes.  At its prompt *)
(* everything is text until an end of file or an escape.                   *)
ModuleTakes ==
    /\ comm.ok /\ comm.tx # <<>> /\ module.mode \in {"idle", "prompt"}
    /\ LET t == Head(comm.tx)
           c == [comm EXCEPT !.tx = Tail(@)]
       IN  \/ /\ t.k = "cmd" /\ Says(c, <<Line("echo", t.of)>>)
              /\ IF module.mode = "idle" THEN Does("run", t.of) ELSE UNCHANGED module
           \/ /\ t.k = "pdu" /\ Says(c, <<Line("pduecho", t.of)>>) /\ UNCHANGED module
           \/ /\ t.k = "eof" /\ Says(c, <<Line("eofecho", t.of)>>)
              /\ IF module.mode = "prompt" THEN Does("send", module.of)
                 ELSE UNCHANGED module
           \/ /\ t.k = "esc" /\ comm' = c
              /\ IF module.mode = "prompt" THEN Does("send", module.of)
                 ELSE UNCHANGED module
    /\ UNCHANGED <<others, ended, urcs>>

ModuleAnswers ==
    /\ comm.ok
    /\ \/ /\ module.mode = "run" /\ module.of \in CallerReqs
          /\ Says(comm, <<Line("prompt", module.of)>>) /\ Does("prompt", module.of)
          /\ UNCHANGED ended
       \/ /\ module.mode \in {"run", "send"} /\ Says(comm, <<Line("final", module.of)>>)
          /\ Does("idle", None) /\ ended' = ended \cup {module.of}
    /\ UNCHANGED <<others, urcs>>

(* It sends URCs between commands only.  The URC of a message has a second *)
(* line.                                                                   *)
ModuleUrc(u) ==
    /\ comm.ok /\ module.mode = "idle" /\ urcs < MaxUrcs
    /\ urcs' = urcs + 1
    /\ Says(comm, IF u = "sms" THEN <<Line("urc", u), Line("body", u)>>
                  ELSE <<Line("urc", u)>>)
    /\ UNCHANGED <<others, module, ended>>

CommThread == Start \/ ReadMessage \/ Receive \/ Timeout \/ Joined
UrcThread == TakeUrc \/ HandleUrc \/ HandlerReturns

Next ==
    \/ Open \/ Close \/ CloseReturns
    \/ \E r \in CallerReqs : Make(r) \/ WaitReturns(r)
    \/ CommThread \/ CompletionThread \/ UrcThread
    \/ ModuleTakes \/ ModuleAnswers
    \/ \E u \in Urcs : ModuleUrc(u)

(* The threads run when they can and a timer that runs expires, whatever   *)
(* the module does; nothing is assumed of the module or the callers: weak  *)
(* fairness of the comm thread while it reads, on its pipe and on its      *)
(* timer, of the other two threads and of CloseReturns.  What enables each *)
(* is written out, and its steps are told by what only they change.        *)
Fairness ==
    /\ []<>~(comm.ok /\ (\/ run \in {"starting", "reading"}
                         \/ run = "loop" /\ pipe # <<>>
                         \/ run = "exiting" /\ compl = "gone" /\ urct = "gone"))
         \/ []<><<run' # run \/ Len(pipe') < Len(pipe)>>_vars
    /\ []<>~(comm.ok /\ run = "loop" /\ comm.timer)
         \/ []<><<(comm'.state = "RECOVERING") # (comm.state = "RECOVERING")>>_vars
    /\ []<>~(comm.ok /\ compl = "idle" /\
               (comm.completion_queue # <<>> \/ run = "exiting"))
         \/ []<><<compl' # compl \/ called' # called>>_vars
    /\ []<>~(comm.ok /\ (\/ urct = "idle" /\ (comm.urc_queue # <<>> \/ run = "exiting")
                         \/ urct \in Urcs
                         \/ urct \in Reqs /\ comm.req[urct].ready))
         \/ []<><<urct' # urct>>_vars
    /\ []<>~(comm.ok /\ closing /\ comm.state = "CLOSED") \/ []<><<closing' # closing>>_vars

Spec == Init /\ [][Next]_vars /\ Fairness

----------------------------------------------------------------------------
(* The shapes of the state.                                                *)
ReqRecords ==
    [refcnt : Int, ready : BOOLEAN, err : {None, "answered", "FAILED"},
     retransmit_cnt : Int, pdu : BOOLEAN]
Commands == Reqs \cup {Recovery}
TxLines == [k : {"cmd", "pdu", "eof", "esc"}, of : Commands]
RxLines == [k : {"echo", "pduecho", "eofecho", "prompt", "final"}, of : Commands]
             \cup [k : {"urc", "body"}, of : Urcs]
Comms ==
    [ok : BOOLEAN, state : CommStates, timer : BOOLEAN,
     current_req : Reqs \cup {None}, current_urc : BOOLEAN,
     requests_queue : Seq(Reqs), completion_queue : Seq(Reqs),
     urc_queue : Seq(Urcs), tx : Seq(TxLines), rx : Seq(RxLines),
     req : [Reqs -> ReqRecords]]

TypeOK ==
    /\ comm \in Comms
    /\ run \in Looping \cup {"none", "starting", "exiting"}
    /\ pipe \in Seq({"CLOSE", "REFRESH"})
    /\ compl \in {"gone", "idle"}
    /\ urct \in Reqs \cup Urcs \cup {"gone", "idle"}
    /\ caller \in [Reqs -> {"none", "waits", "left"}]
    /\ closing \in BOOLEAN
    /\ module \in [mode : {"idle"}, of : {None}]
                    \cup [mode : {"run", "prompt", "send"}, of : Commands]
    /\ ended \subseteq Commands /\ called \subseteq Reqs
    /\ made \in Seq(Reqs) /\ completed \in Seq(Reqs)
    /\ opens \in 0..MaxOpens /\ urcs \in 0..MaxUrcs

(* The comm thread never waits for the module without its timer, nor has a *)
(* timer that vgsm_comm_timer_fired does not expect; it waits for an echo  *)
(* or a response only with a request, for the rest of a URC only with one; *)
(* and it never sleeps on a queued request without something to wake it.   *)
WaitIsSupervised ==
    comm.ok /\ run = "loop" =>
        /\ comm.timer = (comm.state \in Waiting)
        /\ comm.state \in Waiting \ {"RECOVERING", "READING_URC"}
               => comm.current_req # None
        /\ comm.state \in {"IDLE", "FAILED"} =>
               /\ comm.current_req = None
               /\ comm.requests_queue = <<>> \/ pipe # <<>>
        /\ comm.state \in {"READING_URC", "AWAITING_ECHO_READING_URC"}
               => comm.current_urc

Holders(r) ==
    Cardinality({i \in DOMAIN comm.requests_queue : comm.requests_queue[i] = r})
      + Cardinality({i \in DOMAIN comm.completion_queue : comm.completion_queue[i] = r})
      + (IF comm.current_req = r THEN 1 ELSE 0)

(* vgsm_req_get and vgsm_req_put balance: a request's references are its   *)
(* maker's and that of the one queue or variable that has it: the queues   *)
(* share its list node.  It is freed when nobody knows it any more.        *)
HoldersCounted ==
    \A r \in Reqs :
        /\ Holders(r) <= 1
        /\ comm.req[r].refcnt = Holders(r) + (IF caller[r] = "waits" THEN 1 ELSE 0)

(* A request that ended with a response of the module was run to its end   *)
(* by the module: the echo and the discarding of what arrives while        *)
(* recovering keep late lines of other commands apart.                     *)
AnswerMeansRun ==
    \A r \in Reqs : comm.req[r].err = "answered" => r \in ended

(* Requests end in the order they were made, each once, whether answered,  *)
(* given up or flushed, and also across a close.                           *)
EndInOrder == IsPrefix(completed, made)

(* The requests in the comm thread's hands end, whatever the module does:  *)
(* after the last attempt they fail.  Only a close can strand them.        *)
Ended == \A r \in Reqs : caller[r] # "none" => comm.req[r].ready
RequestsReady == run \in Looping ~> Ended \/ run \notin Looping \/ ~comm.ok

(* The callbacks of the requests that ended run, also when the link is     *)
(* being closed: the completion thread empties its queue first.            *)
Called == \A r \in Reqs : comm.req[r].ready => r \in called
CallbacksRun == ~Called ~> Called \/ ~comm.ok

(* vgsm_comm_close returns, unless the URC thread it joins is in a handler *)
(* that waits for a request: nothing answers that any more.                *)
CloseReturnsOrHandlerWaits ==
    closing ~> ~closing \/ urct \in Reqs \/ ~comm.ok

(* A request that was made ends and is reported: it is answered or failed, *)
(* and its callback runs.                                                  *)
RequestsEnd == RequestsReady /\ CallbacksRun
=============================================================================
