------------------------------ MODULE DmSystem ------------------------------
(***************************************************************************)
(* A diag master and its API, joined by their sockets.                     *)
(***************************************************************************)
EXTENDS DiagMaster, DmApi, FiniteSets

vars == <<channels, master, api>>

TypeOK == IpcOK /\ MasterOK /\ ApiOK

Init ==
  /\ toMaster = <<>>
  /\ toApi = <<>>
  /\ MasterInit
  /\ ApiInit

Next ==
  \/ MasterNext /\ UNCHANGED api
  \/ ApiNext /\ UNCHANGED master

Spec == Init /\ [][Next]_vars

\* The user's thread reads on as long as it is in a call; nothing is assumed of
\* the diag master.
Fairness == WF_vars(calls # <<>> /\ (Receive \/ RecvTimeout) /\ UNCHANGED master)

FairSpec == Spec /\ Fairness

-----------------------------------------------------------------------------
(***************************************************************************)
(* Properties                                                              *)
(***************************************************************************)

\* A client the API has a record of is leased to the call that made the record,
\* whatever timed out, came late or was dropped: no two handles name one client,
\* and none names a client that was given back.  The pool must not have been full
\* and not have been reset while in use.
HandleIsLease == ~upset => \A id \in Ids : isvalid[id] => lease[id] = handle[id]

\* A client whose run has a timer armed is active, and an active one is in use:
\* the handlers of its timers look it up by its id and use what they find
\* (diag_master_udsc returns NULL for an idle one).
RunningIsInUse ==
  \A id \in Ids : /\ udscs[id].running => Active(udscs[id])
                  /\ Active(udscs[id]) => InUse(id)

\* As long as no call has failed and none is in progress, both sides agree on which
\* clients are in use, whatever else is under way, but for those that refused to be
\* destroyed.
Agreement ==
  ~failed /\ ~upset /\ calls = <<>>
    => \A id \in Ids : isvalid[id] <=> InUse(id) /\ id \notin abandoned

Returns(tag) == Len(calls) = 1 /\ calls' = <<>> /\ calls[1].tag = tag /\ ~failed'

\* As long as none has failed, a call of the user that succeeds has been carried
\* out, though replies are recognised by their command only and callbacks read
\* replies that are not theirs.
SuccessIsDone ==
  [][\A tag \in 1..made : Returns(tag) => tag \in handled]_vars

\* As long as no call has failed, a stop is a barrier: once it has succeeded no
\* request, seed, response or result of the run it stopped reaches a callback.
StopIsBarrier ==
  [][toApi # <<>> /\ NoticeHandled(Head(toApi)) /\ ~failed'
       => Head(toApi).tag > quiet[Head(toApi).id]]_vars

\* Every call returns, those made by callbacks within a call included, though its
\* receive timeout starts anew with every datagram: unless tester present is sent
\* by some client, the diag master falls silent.
CallsReturn ==
  calls # <<>> ~> calls = <<>> \/ \E id \in Ids : udscs[id].tester /\ ~udscs[id].isidle

-----------------------------------------------------------------------------
(***************************************************************************)
(* What the comments of the source say and the code does not do.  Each is  *)
(* checked to be violated.                                                 *)
(***************************************************************************)

\* diag_master.c:271: the id of the client that was created is returned.  So it
\* is not the id of another one.
CreatedIdIsNew ==
  [][\A m \in {toMaster[1] : k \in 1..Len(toMaster)} :
       Accept(m, "create") /\ HasRoom(toApi) /\ toApi'[Len(toApi')].recode = "no"
         => ~InUse(toApi'[Len(toApi')].id)]_vars

\* dm_uds_client.c:280: sending a request has failed.  So it was not sent in full.
FailedIsUnsent ==
  [][\A id \in Ids, bytes \in {-1, RequestLength + DoipHeader} :
       RequestsExhausted(id, bytes) => bytes < RequestLength]_vars

-----------------------------------------------------------------------------
(***************************************************************************)
(* The inductive invariants behind the safety properties                   *)
(***************************************************************************)

\* A reply that hands out a client, and a command that gives one back.
IsGrant(m) == m.isreply /\ m.cmd = "create" /\ m.recode = "no"
IsDestory(m) == ~m.isreply /\ m.cmd = "destory"

\* A client that is in use belongs to the record the API has of it, to the reply
\* that will make that record, or to the command that gives it back: to one only.
RecordIsLease == \A id \in Ids : isvalid[id] => InUse(id) /\ lease[id] = handle[id]

GrantIsLease ==
  /\ \A k \in 1..Len(toApi) : IsGrant(toApi[k]) =>
       /\ InUse(toApi[k].id) /\ lease[toApi[k].id] = toApi[k].tag
       /\ ~isvalid[toApi[k].id]
  /\ \A j, k \in 1..Len(toApi) :
       IsGrant(toApi[j]) /\ IsGrant(toApi[k]) /\ toApi[j].id = toApi[k].id => j = k

DestoryIsLast ==
  /\ \A k \in 1..Len(toMaster) : IsDestory(toMaster[k]) =>
       /\ InUse(toMaster[k].id) /\ ~isvalid[toMaster[k].id]
       /\ \A j \in 1..Len(toApi) : IsGrant(toApi[j]) => toApi[j].id # toMaster[k].id
  /\ \A j, k \in 1..Len(toMaster) :
       IsDestory(toMaster[j]) /\ IsDestory(toMaster[k])
         /\ toMaster[j].id = toMaster[k].id => j = k

Leases == RecordIsLease /\ GrantIsLease /\ DestoryIsLast

LeaseInv == TypeOK /\ RunningIsInUse /\ (~upset => Leases)

\* Commands no callback calls: only the user's call itself can await their replies.
UserOnly == Commands \ {"response", "sa_key"}

IsAsk(m) == ~m.isreply /\ m.cmd \in UserOnly
IsAnswer(m) == m.isreply /\ m.cmd \in UserOnly

\* m belongs to the user's call, which is not over.
Awaited(m) ==
  /\ calls # <<>> /\ calls[1].cmd = m.cmd /\ calls[1].tag = m.tag
  /\ m.cmd # "create" => calls[1].id = m.id

\* Unless a call has failed, there is under way what the user's call awaits, once,
\* and no other command of the user or reply to one.
Outstanding ==
  /\ \A k \in 2..Len(calls) : calls[k].cmd \notin UserOnly
  /\ \A k \in 1..Len(calls) : calls[k].tag <= made
  /\ \A k \in 1..Len(toMaster) : IsAsk(toMaster[k]) => Awaited(toMaster[k])
  /\ \A k \in 1..Len(toApi) : IsAnswer(toApi[k]) => Awaited(toApi[k])
  /\ \A j, k \in 1..Len(toMaster) : IsAsk(toMaster[j]) /\ IsAsk(toMaster[k]) => j = k
  /\ \A j, k \in 1..Len(toApi) : IsAnswer(toApi[j]) /\ IsAnswer(toApi[k]) => j = k
  /\ \A j \in 1..Len(toMaster), k \in 1..Len(toApi) :
       ~(IsAsk(toMaster[j]) /\ IsAnswer(toApi[k]))

OutstandingInv == TypeOK /\ (~failed => Outstanding)

\* No two clients are leased to one call.
LeasesDiffer ==
  /\ \A id \in Ids : lease[id] <= made
  /\ \A i, j \in Ids : InUse(i) /\ InUse(j) /\ lease[i] = lease[j] => i = j
  /\ \A k \in 1..Len(toMaster), id \in Ids :
       IsAsk(toMaster[k]) /\ toMaster[k].cmd = "create" => lease[id] # toMaster[k].tag

\* A client that is in use without a record is being created, is being given back,
\* or has refused to be.
UnrecordedIsPending ==
  \A id \in Ids : InUse(id) /\ ~isvalid[id] /\ id \notin abandoned =>
    /\ calls # <<>>
    /\ \/ calls[1].cmd = "create" /\ lease[id] = calls[1].tag
       \/ calls[1].cmd = "destory" /\ calls[1].id = id

\* Nobody asks anew for one that has refused, and a reply tells of one that has not
\* or has.
AbandonedStays ==
  /\ \A id \in abandoned :
       /\ InUse(id) /\ ~isvalid[id]
       /\ \A k \in 1..Len(toApi) : IsGrant(toApi[k]) => toApi[k].id # id
       /\ \A k \in 1..Len(toMaster) : IsDestory(toMaster[k]) => toMaster[k].id # id
  /\ \A k \in 1..Len(toApi) :
       IsAnswer(toApi[k]) /\ toApi[k].cmd = "destory" /\ toApi[k].recode = "no"
         => ~InUse(toApi[k].id) \/ toApi[k].id \in abandoned

AgreementInv ==
  LeaseInv /\ OutstandingInv
    /\ (~failed /\ ~upset => LeasesDiffer /\ UnrecordedIsPending /\ AbandonedStays)

\* The client has been started and not stopped: it may send requests of its run or
\* of tester present, or will when its list grows.
Live(id) == 0 <= udscs[id].sindex \/ udscs[id].running \/ udscs[id].tester

IsNotice(m) == ~m.isreply
IsStopped(m) == m.isreply /\ m.cmd = "stop" /\ m.recode = "no"

\* The run of a client, and what is under way of it, was started after the last
\* stop of the client; and a client that has replied to a stop is silent.
StoppedIsSilent ==
  /\ \A id \in Ids : quiet[id] <= made
  /\ calls # <<>> => \A id \in Ids : quiet[id] < calls[1].tag
  /\ \A id \in Ids : Live(id) => run[id] > quiet[id]
  /\ \A k \in 1..Len(toApi) : IsNotice(toApi[k]) => toApi[k].tag > quiet[toApi[k].id]
  /\ \A k \in 1..Len(toApi) : IsStopped(toApi[k]) =>
       /\ ~Live(toApi[k].id)
       /\ \A j \in (k + 1)..Len(toApi) :
            IsNotice(toApi[j]) => toApi[j].id # toApi[k].id

StopInv == OutstandingInv /\ (~failed => StoppedIsSilent)

\* The commands, or the replies, among the messages of a queue, and their calls.
Of(q, isreply) == {q[k] : k \in {n \in 1..Len(q) : q[n].isreply = isreply}}

Tags(messages, cmd) == {m.tag : m \in {n \in messages : n.cmd = cmd}}

\* What is under way: commands that are not carried out, replies that are not read.
Asked == Of(toMaster, FALSE)
Replied == Of(toApi, TRUE)
UnderWay == Asked \cup Replied

\* The calls of a stack that wait for a reply to a command.
Waits(stack, cmd) == {stack[k].tag : k \in {n \in 1..Len(stack) : stack[n].cmd = cmd}}

\* No two of the commands, or replies, of a queue belong to one call.
Differ(q, isreply) ==
  \A j, k \in 1..Len(q) :
    q[j].isreply = isreply /\ q[k].isreply = isreply /\ q[j].tag = q[k].tag => j = k

\* Each call has a tag of its own, and is under way once, as a command or as a reply.
CallsDiffer ==
  /\ \A k \in 1..Len(calls) : calls[k].tag <= made
  /\ \A j, k \in 1..Len(calls) : calls[j].tag = calls[k].tag => j = k

MessagesDiffer ==
  /\ \A m \in UnderWay : m.tag <= made
  /\ \A m \in Asked, n \in Replied : m.tag # n.tag
  /\ Differ(toMaster, FALSE) /\ Differ(toApi, TRUE)

\* A reply without an error is one to a command that was carried out.
RepliesAreTrue == \A m \in Replied : m.recode = "no" => m.tag \in handled

\* No more replies come than calls wait for.
RepliesSuffice ==
  \A cmd \in Commands : Cardinality(Tags(UnderWay, cmd)) <= Cardinality(Waits(calls, cmd))

\* The user's call has been carried out or is under way, unless its reply has been
\* read by a call of a callback, which only ends with a reply that says no error, or
\* has been dropped: then one reply less comes than calls wait for.
FirstIsServed ==
  calls # <<>> =>
    LET cmd == calls[1].cmd IN
      \/ calls[1].tag \in handled \cup Tags(UnderWay, cmd)
      \/ Cardinality(Tags(UnderWay, cmd)) < Cardinality(Waits(calls, cmd))

SuccessInv ==
  TypeOK /\ RunningIsInUse
    /\ (~failed => CallsDiffer /\ MessagesDiffer /\ RepliesAreTrue
                     /\ RepliesSuffice /\ FirstIsServed)
=============================================================================
