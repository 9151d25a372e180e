----------------------------- MODULE DiagMaster -----------------------------
(***************************************************************************)
(* One diag master (diag_master.c): a pool of UDS clients, the commands    *)
(* the API sends for them, and the DoIP clients bound to them.  Its event  *)
(* loop runs one handler at a time: the read handler of the socket, which  *)
(* takes one command and replies to it, the timers of the clients and the  *)
(* handlers of the DoIP connections.                                       *)
(*                                                                         *)
(* The run of a client is seen from outside, as UdsRun describes it: it    *)
(* moves forward or repeats an item, is reported, or strands behind its    *)
(* list.  UdsClient models the same run with its items, rules and timers.  *)
(***************************************************************************)
EXTENDS DmIpc

CONSTANTS
  Default,    \* DM_UDSC_CAPACITY_DEF: clients a diag master starts with
  ListSize,   \* capacity of the list of a client
  TpEnable,   \* tester present is sent during a run
  MaxSteps    \* bound: steps of the clients' timers

ASSUME MasterAssumption ==
  /\ Default \in 0..Capacity /\ ListSize \in Nat \ {0}
  /\ TpEnable \in BOOLEAN /\ MaxSteps \in Nat

VARIABLES
  udsc_cnt,   \* clients allocated: those below udsc_cnt
  udscs       \* the clients

VARIABLES     \* history
  lease,      \* per client: the call that created it, 0 if there is none
  run,        \* per client: the call that started its last run
  handled,    \* the calls whose command was carried out
  upset,      \* the pool was full, or was reset while in use
  abandoned,  \* clients that refused to be destroyed
  steps       \* steps of the clients' request and response timers

master == <<udsc_cnt, udscs, lease, run, handled, upset, abandoned, steps>>

\* The state of a DoIP connection: the three states of con_stat, and isactive
\* after a successful routing activation.
DoipStats == {"disconnected", "connecting", "connected", "active"}

NoDoipc == "none"

\* Bytes of a request, and what DoIP puts before it: DOIP_DIAG_COMMON_TARGET_OFFSET.
RequestLength == 2
DoipHeader == 10

\* running: a timer of the run is armed; tester: the tester present timer is.
Udsc == [isidle : BOOLEAN, service_cnt : 0..ListSize, sindex : -1..ListSize,
         running : BOOLEAN, tester : BOOLEAN, doipc : DoipStats \cup {NoDoipc}]

NewUdsc == [isidle |-> TRUE, service_cnt |-> 0, sindex |-> -1,
            running |-> FALSE, tester |-> FALSE, doipc |-> NoDoipc]

MasterOK ==
  /\ udsc_cnt \in 0..Capacity
  /\ udscs \in [Ids -> Udsc]
  /\ lease \in [Ids -> Nat]
  /\ run \in [Ids -> Nat]
  /\ handled \subseteq Nat
  /\ upset \in BOOLEAN
  /\ abandoned \subseteq Ids
  /\ steps \in Nat

MasterInit ==
  /\ udsc_cnt = Default
  /\ udscs = [id \in Ids |-> NewUdsc]
  /\ lease = [id \in Ids |-> 0]
  /\ run = [id \in Ids |-> 0]
  /\ handled = {}
  /\ upset = FALSE
  /\ abandoned = {}
  /\ steps = 0

\* diag_master_udsc: a client that is allocated and in use.
InUse(id) == id < udsc_cnt /\ ~udscs[id].isidle

\* udsc_service_isactive
Active(u) == 0 <= u.sindex /\ u.sindex < u.service_cnt

\* udsc_services_stop
Stopped(u) == [u EXCEPT !.sindex = -1, !.running = FALSE, !.tester = FALSE]

\* udsc_reset: the DoIP client stays bound, and no timer is stopped.
Reset(u) == [NewUdsc EXCEPT !.running = u.running, !.tester = u.tester,
                            !.doipc = u.doipc]

-----------------------------------------------------------------------------
(***************************************************************************)
(* The read handler of the socket                                          *)
(***************************************************************************)

Take(m) ==
  /\ toMaster # <<>>
  /\ m = Head(toMaster)
  /\ toMaster' = Tail(toMaster)

\* A reply of the API.
ReplyIgnored(m) ==
  /\ Take(m)
  /\ m.isreply
  /\ UNCHANGED <<toApi, master>>

\* Mutant: the error code of the reply is not set.
RefuseUnmarked(m) ==
  /\ Take(m) /\ ~m.isreply
  /\ m.cmd \notin {"create", "reset"}
  /\ ~InUse(m.id)
  /\ toApi' = Sent(toApi, Reply(m, "no", m.id))
  /\ UNCHANGED master

\* A command for a client that is not in use.
Refuse(m) ==
  /\ Take(m) /\ ~m.isreply
  /\ m.cmd \notin {"create", "reset"}
  /\ ~InUse(m.id)
  /\ toApi' = Sent(toApi, Reply(m, "invalid", m.id))
  /\ UNCHANGED master

\* A command that took longer than the valid time of the client: no reply.
Ignore(m) ==
  /\ Take(m) /\ ~m.isreply
  /\ m.cmd \notin {"create", "reset"}
  /\ InUse(m.id)
  /\ UNCHANGED <<toApi, master>>

\* A command that is carried out.
Accept(m, cmd) ==
  /\ Take(m) /\ ~m.isreply
  /\ m.cmd = cmd
  /\ cmd \in {"create", "reset"} \/ InUse(m.id)
  /\ handled' = handled \cup {m.tag}
  /\ UNCHANGED steps

IsIdle(id) == id < udsc_cnt /\ udscs[id].isidle

Granted(m, id) ==
  /\ udscs' = [udscs EXCEPT ![id].isidle = FALSE]
  /\ lease' = [lease EXCEPT ![id] = m.tag]
  /\ toApi' = Sent(toApi, Reply(m, "no", id))
  /\ UNCHANGED <<run, upset, abandoned>>

\* The first idle client is handed out, else a new one.
UdscCreate(m) ==
  /\ Accept(m, "create")
  /\ \E id \in Ids :
       /\ \A k \in Ids : k < id => ~IsIdle(k)
       /\ IsIdle(id) \/ id = udsc_cnt
       /\ Granted(m, id)
       /\ udsc_cnt' = IF id = udsc_cnt THEN udsc_cnt + 1 ELSE udsc_cnt

\* With no slot left the new client is not stored, and its id is still 0.
UdscCreateFull(m) ==
  /\ Accept(m, "create")
  /\ udsc_cnt = Capacity
  /\ \A id \in Ids : ~udscs[id].isidle
  /\ toApi' = Sent(toApi, Reply(m, "no", 0))
  /\ upset' = TRUE
  /\ UNCHANGED <<udsc_cnt, udscs, lease, run, abandoned>>

\* There is no memory for a new client.
UdscCreateFailed(m) ==
  /\ Accept(m, "create")
  /\ \A id \in Ids : ~IsIdle(id)
  /\ toApi' = Sent(toApi, Reply(m, "create", 0))
  /\ UNCHANGED <<udsc_cnt, udscs, lease, run, upset, abandoned>>

\* Mutant: an active client is reset as well.
UdscDestoryActive(m) ==
  /\ Accept(m, "destory")
  /\ udscs' = [udscs EXCEPT ![m.id] = [Reset(@) EXCEPT !.doipc = NoDoipc]]
  /\ lease' = [lease EXCEPT ![m.id] = 0]
  /\ toApi' = Sent(toApi, Reply(m, "no", m.id))
  /\ UNCHANGED <<udsc_cnt, run, upset, abandoned>>

\* Mutant: the client is reset, but not set idle.
UdscDestoryKept(m) ==
  /\ Accept(m, "destory")
  /\ udscs' = [udscs EXCEPT ![m.id] = IF Active(@) THEN @
                                      ELSE [NewUdsc EXCEPT !.isidle = FALSE]]
  /\ abandoned' = IF Active(udscs[m.id]) THEN abandoned \cup {m.id} ELSE abandoned
  /\ toApi' = Sent(toApi, Reply(m, "no", m.id))
  /\ UNCHANGED <<udsc_cnt, lease, run, upset>>

\* The DoIP client is freed; the client itself only unless it is active.  The
\* reply is the same.
UdscDestory(m) ==
  /\ Accept(m, "destory")
  /\ LET u == [udscs[m.id] EXCEPT !.doipc = NoDoipc]
     IN  /\ udscs' = [udscs EXCEPT ![m.id] = IF Active(u) THEN u ELSE Reset(u)]
         /\ lease' = IF Active(u) THEN lease ELSE [lease EXCEPT ![m.id] = 0]
         /\ abandoned' = IF Active(u) THEN abandoned \cup {m.id}
                         ELSE abandoned \ {m.id}
  /\ toApi' = Sent(toApi, Reply(m, "no", m.id))
  /\ UNCHANGED <<udsc_cnt, run, upset>>

\* An active client ignores the command; a list without items leaves sindex
\* behind its end.  The reply is the same.
UdscStart(m) ==
  /\ Accept(m, "start")
  /\ IF Active(udscs[m.id])
     THEN UNCHANGED <<udscs, run>>
     ELSE /\ udscs' = [udscs EXCEPT
              ![m.id].sindex = 0,
              ![m.id].running = udscs[m.id].service_cnt > 0,
              ![m.id].tester = @ \/ (TpEnable /\ udscs[m.id].service_cnt > 0)]
          /\ run' = [run EXCEPT ![m.id] = m.tag]
  /\ toApi' = Sent(toApi, Reply(m, "no", m.id))
  /\ UNCHANGED <<udsc_cnt, lease, upset, abandoned>>

\* Mutant: only the list is stopped, tester present goes on.
UdscStopListOnly(m) ==
  /\ Accept(m, "stop")
  /\ udscs' = [udscs EXCEPT ![m.id].sindex = -1, ![m.id].running = FALSE]
  /\ toApi' = Sent(toApi, Reply(m, "no", m.id))
  /\ UNCHANGED <<udsc_cnt, lease, run, upset, abandoned>>

UdscStop(m) ==
  /\ Accept(m, "stop")
  /\ udscs' = [udscs EXCEPT ![m.id] = Stopped(@)]
  /\ toApi' = Sent(toApi, Reply(m, "no", m.id))
  /\ UNCHANGED <<udsc_cnt, lease, run, upset, abandoned>>

\* Every client is stopped and reset, in use or not.
MasterReset(m) ==
  /\ Accept(m, "reset")
  /\ udscs' = [id \in Ids |-> IF id < udsc_cnt THEN Reset(Stopped(udscs[id]))
                              ELSE udscs[id]]
  /\ lease' = [id \in Ids |-> 0]
  /\ upset' = (upset \/ \E id \in Ids : ~udscs[id].isidle)
  /\ abandoned' = {}
  /\ toApi' = Sent(toApi, Reply(m, "no", m.id))
  /\ UNCHANGED <<udsc_cnt, run>>

\* Mutant: the capacity of the list is not checked.
ServiceConfigUnchecked(m) ==
  /\ Accept(m, "config")
  /\ udscs' = [udscs EXCEPT ![m.id].service_cnt = @ + 1]
  /\ toApi' = Sent(toApi, Reply(m, "no", m.id))
  /\ UNCHANGED <<udsc_cnt, lease, run, upset, abandoned>>

\* An item is added, also to a client that is running; a full list refuses.
ServiceConfig(m) ==
  /\ Accept(m, "config")
  /\ IF udscs[m.id].service_cnt < ListSize
     THEN /\ udscs' = [udscs EXCEPT ![m.id].service_cnt = @ + 1]
          /\ toApi' = Sent(toApi, Reply(m, "no", m.id))
     ELSE /\ toApi' = Sent(toApi, Reply(m, "service_add", m.id))
          /\ UNCHANGED udscs
  /\ UNCHANGED <<udsc_cnt, lease, run, upset, abandoned>>

\* Flags and keys, which UdsClient models.
Configure(m) ==
  /\ \E cmd \in {"general_config", "sa_key"} : Accept(m, cmd)
  /\ toApi' = Sent(toApi, Reply(m, "no", m.id))
  /\ UNCHANGED <<udsc_cnt, udscs, lease, run, upset, abandoned>>

\* A bound DoIP client is connected anew, else one is created; the connection is
\* made in the background, at once, or not at all.
DoipcCreate(m) ==
  /\ Accept(m, "doipc_create")
  /\ \E stat \in {"connecting", "connected", "disconnected"} :
       udscs' = [udscs EXCEPT ![m.id].doipc = stat]
  /\ toApi' = Sent(toApi, Reply(m, "no", m.id))
  /\ UNCHANGED <<udsc_cnt, lease, run, upset, abandoned>>

\* There is no memory for a new DoIP client.
DoipcCreateFailed(m) ==
  /\ Accept(m, "doipc_create")
  /\ udscs[m.id].doipc = NoDoipc
  /\ toApi' = Sent(toApi, Reply(m, "doipc_create", m.id))
  /\ UNCHANGED <<udsc_cnt, udscs, lease, run, upset, abandoned>>

-----------------------------------------------------------------------------
(***************************************************************************)
(* The run of a client                                                     *)
(***************************************************************************)

Notice(cmd, recode, id) == Request(cmd, recode, id, run[id])

\* The client executes item i.
MoveTo(id, i) == udscs' = [udscs EXCEPT ![id].sindex = i, ![id].running = TRUE]

\* finish_callback, then udsc_services_stop
Finish(id, recode, queue) ==
  /\ udscs' = [udscs EXCEPT ![id] = Stopped(@)]
  /\ toApi' = Sent(queue, Notice("script_result", recode, id))

\* udsc_service_response_finish: the item is repeated, a later one follows, or
\* the run is over.
Progress(id, recodes, queue) ==
  \/ \E i \in udscs[id].sindex..(udscs[id].service_cnt - 1) :
       MoveTo(id, i) /\ toApi' = queue
  \/ \E recode \in recodes : Finish(id, recode, queue)

\* What a response is to the current item: its answer, or a positive or negative
\* response of another service.
Answers == {"own", "other_positive", "other_negative"}

\* The reply comes first.  The response is passed on to the API if the current
\* item has a callback there, unless it is a negative one of another service.
Forwarded(m, answer, queue) ==
  {queue} \cup
    (IF Active(udscs[m.id]) /\ answer # "other_negative"
     THEN {Sent(queue, Notice("service_result", "no", m.id))} ELSE {})

\* A seed is passed on before the run goes on.  A pending response, or one of
\* another service, leaves the run alone.
ServiceResponse(m, answer) ==
  /\ Accept(m, "response")
  /\ \E queue \in Forwarded(m, answer, Sent(toApi, Reply(m, "no", m.id))) :
       \/ toApi' = queue /\ UNCHANGED udscs
       \/ /\ Active(udscs[m.id]) /\ answer = "own"
          /\ \E seed \in {queue, Sent(queue, Notice("sa_seed", "no", m.id))} :
               Progress(m.id, {"no", "response_unexpect"}, seed)
  /\ UNCHANGED <<udsc_cnt, lease, run, upset, abandoned>>

Step ==
  /\ steps < MaxSteps
  /\ steps' = steps + 1
  /\ UNCHANGED <<toMaster, udsc_cnt, lease, run, handled, upset, abandoned>>

\* udsc_service_tester_present_refresh, if it is enabled.
Refreshed(u) == [u EXCEPT !.tester = @ \/ TpEnable]

\* What is sent of a request.  Without a DoIP client it goes to the API, and all
\* of it counts as sent; with one it goes there, if routing is activated, and the
\* bytes of the DoIP header are counted as well.
SentBytes(u) ==
  CASE u.doipc = NoDoipc -> {RequestLength}
    [] u.doipc = "active" -> {-1, RequestLength + DoipHeader}
    [] OTHER -> {-1}

\* A request counts as sent if its bytes are; the response timer is armed.
RequestSent(id) ==
  /\ Step
  /\ udscs[id].running
  /\ RequestLength \in SentBytes(udscs[id])
  /\ udscs' = [udscs EXCEPT ![id] = Refreshed(@)]
  /\ toApi' = IF udscs[id].doipc = NoDoipc
              THEN Sent(toApi, Notice("indication", "no", id)) ELSE toApi

\* No request of the rest of the list counts as sent.
RequestsExhausted(id, bytes) ==
  /\ Step
  /\ udscs[id].running
  /\ bytes \in SentBytes(udscs[id]) \ {RequestLength}
  /\ udscs' = [udscs EXCEPT ![id] = [Refreshed(@) EXCEPT
                            !.sindex = udscs[id].service_cnt, !.running = FALSE]]
  /\ UNCHANGED toApi

\* A request does not count as sent and ends the run.
RequestAborted(id, bytes) ==
  /\ Step
  /\ udscs[id].running
  /\ bytes \in SentBytes(udscs[id]) \ {RequestLength}
  /\ Finish(id, "no", toApi)

\* A client that was reset has no callback to send with until it is in use again.
TesterPresent(id) ==
  /\ udscs[id].tester /\ ~udscs[id].isidle
  /\ toApi' = IF udscs[id].doipc = NoDoipc
              THEN Sent(toApi, Notice("indication", "no", id)) ELSE toApi
  /\ UNCHANGED <<toMaster, master>>

ResponseTimeout(id) ==
  /\ Step
  /\ Active(udscs[id])
  /\ Progress(id, {"no", "response_timeout"}, toApi)

-----------------------------------------------------------------------------
(***************************************************************************)
(* The DoIP connection of a client                                         *)
(***************************************************************************)

\* The connection is established, and routing activation requested.
DoipcConnected(id) ==
  /\ udscs[id].doipc = "connecting"
  /\ udscs' = [udscs EXCEPT ![id].doipc = "connected"]

\* It could not be established, or was closed by the server.
DoipcDisconnected(id) ==
  /\ udscs[id].doipc \in {"connecting", "connected", "active"}
  /\ udscs' = [udscs EXCEPT ![id].doipc = "disconnected"]

\* A routing activation response, of code 0x10 or another.
RoutingActivated(id) ==
  /\ udscs[id].doipc \in {"connected", "active"}
  /\ \E stat \in {"connected", "active"} :
       udscs' = [udscs EXCEPT ![id].doipc = stat]

DoipcRead(id) ==
  /\ DoipcConnected(id) \/ DoipcDisconnected(id) \/ RoutingActivated(id)
  /\ UNCHANGED <<toMaster, toApi, udsc_cnt, lease, run, handled, upset, abandoned, steps>>

-----------------------------------------------------------------------------

IpcRead(m) ==
  \/ ReplyIgnored(m)
  \/ Refuse(m)
  \/ Ignore(m)
  \/ UdscCreate(m) \/ UdscCreateFull(m) \/ UdscCreateFailed(m)
  \/ UdscDestory(m)
  \/ UdscStart(m) \/ UdscStop(m)
  \/ MasterReset(m)
  \/ ServiceConfig(m) \/ Configure(m)
  \/ DoipcCreate(m) \/ DoipcCreateFailed(m)
  \/ \E answer \in Answers : ServiceResponse(m, answer)

Timers(id) ==
  \/ RequestSent(id)
  \/ \E bytes \in SentBytes(udscs[id]) :
       RequestsExhausted(id, bytes) \/ RequestAborted(id, bytes)
  \/ ResponseTimeout(id)
  \/ TesterPresent(id)

MasterNext ==
  \/ toMaster # <<>> /\ IpcRead(Head(toMaster))
  \/ \E id \in Ids : Timers(id) \/ DoipcRead(id)
=============================================================================
