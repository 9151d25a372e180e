-------------------------------- MODULE DmApi -------------------------------
(***************************************************************************)
(* The API of a diag master (dm_api.c), used by one thread of a process.   *)
(* A call sends a command and reads the socket until the reply comes or    *)
(* the receive timeout expires.  A request of the diag master that comes   *)
(* before the reply is handled on the spot: a callback of the user runs in *)
(* the middle of the call, and may itself make a call.  So the calls in    *)
(* progress are a stack, and the topmost reads the socket.                 *)
(***************************************************************************)
EXTENDS DmIpc

CONSTANTS
  ApiCommands,   \* commands the user calls
  MaxCalls       \* bound: calls

ASSUME ApiAssumption == ApiCommands \subseteq Commands /\ MaxCalls \in Nat

VARIABLES
  isvalid,       \* per client: the API has a record of it
  callback,      \* per client: the handle its callbacks were set for, or 0
  calls          \* the calls in progress, the topmost last

VARIABLES        \* history
  handle,        \* per client: the call whose reply made the record
  made,          \* calls made
  failed,        \* some call has failed
  quiet          \* per client: the last call that has stopped it

api == <<isvalid, callback, calls, handle, made, failed, quiet>>

ApiOK ==
  /\ isvalid \in [Ids -> BOOLEAN]
  /\ callback \in [Ids -> Nat]
  /\ calls \in Seq([cmd : Commands, id : Ids, tag : Nat])
  /\ handle \in [Ids -> Nat]
  /\ made \in Nat
  /\ failed \in BOOLEAN
  /\ quiet \in [Ids -> Nat]

ApiInit ==
  /\ isvalid = [id \in Ids |-> FALSE]
  /\ callback = [id \in Ids |-> 0]
  /\ calls = <<>>
  /\ handle = [id \in Ids |-> 0]
  /\ made = 0
  /\ failed = FALSE
  /\ quiet = [id \in Ids |-> 0]

Top == calls[Len(calls)]

Popped == SubSeq(calls, 1, Len(calls) - 1)

-----------------------------------------------------------------------------
(***************************************************************************)
(* Calls                                                                   *)
(***************************************************************************)

\* Commands whose function looks up the record of the client first.
Checked == Commands \ {"create", "reset", "sa_key", "response"}

\* Mutant: the record of a client is kept.
CallKeepingRecord(cmd, id, queue) ==
  /\ made < MaxCalls
  /\ cmd \in {"create", "reset"} => id = 0
  /\ cmd \in Checked => isvalid[id]
  /\ made' = made + 1
  /\ toMaster' = Sent(queue, Request(cmd, "no", id, made'))
  /\ IF HasRoom(queue)
     THEN /\ calls' = Append(calls, [cmd |-> cmd, id |-> id, tag |-> made'])
          /\ UNCHANGED failed
     ELSE failed' = TRUE /\ UNCHANGED calls
  /\ UNCHANGED <<isvalid, callback, handle, quiet>>

\* A call sends its command behind what is in the queue.  The record of a client
\* is removed before the command to destroy it is sent, and stays removed if that
\* fails.
Call(cmd, id, queue) ==
  /\ made < MaxCalls
  /\ cmd \in {"create", "reset"} => id = 0
  /\ cmd \in Checked => isvalid[id]
  /\ made' = made + 1
  /\ isvalid' = [isvalid EXCEPT ![id] = @ /\ cmd # "destory"]
  /\ toMaster' = Sent(queue, Request(cmd, "no", id, made'))
  /\ IF HasRoom(queue)
     THEN /\ calls' = Append(calls, [cmd |-> cmd, id |-> id, tag |-> made'])
          /\ UNCHANGED failed
     ELSE failed' = TRUE /\ UNCHANGED calls
  /\ UNCHANGED <<callback, handle, quiet>>

UserCall(cmd, id) ==
  /\ calls = <<>>
  /\ Call(cmd, id, toMaster)
  /\ UNCHANGED toApi

\* The callbacks of a client are set.
CallbackSet(id) ==
  /\ calls = <<>>
  /\ isvalid[id]
  /\ callback' = [callback EXCEPT ![id] = handle[id]]
  /\ UNCHANGED <<channels, isvalid, calls, handle, made, failed, quiet>>

\* The topmost call returns an error.
Fail ==
  /\ calls' = Popped
  /\ failed' = TRUE
  /\ UNCHANGED <<isvalid, callback, handle, made, quiet>>

\* Mutant: a call made by a callback waits for ever.
RecvTimeoutOutermost ==
  /\ Len(calls) = 1
  /\ toApi = <<>>
  /\ Fail
  /\ UNCHANGED channels

\* Nothing came before the receive timeout.
RecvTimeout ==
  /\ calls # <<>>
  /\ toApi = <<>>
  /\ Fail
  /\ UNCHANGED channels

-----------------------------------------------------------------------------
(***************************************************************************)
(* Reading the socket                                                      *)
(***************************************************************************)

Read(m) ==
  /\ toApi # <<>>
  /\ m = Head(toApi)
  /\ toApi' = Tail(toApi)

\* A reply that no call waits for.
ReplyDropped(m) ==
  /\ Read(m)
  /\ m.isreply
  /\ calls # <<>> => m.cmd # Top.cmd
  /\ UNCHANGED <<toMaster, isvalid, callback, calls, handle, made, failed, quiet>>

ReplyFailed(m) ==
  /\ Read(m)
  /\ m.isreply
  /\ calls # <<>> /\ m.cmd = Top.cmd
  /\ m.recode # "no"
  /\ Fail
  /\ UNCHANGED toMaster

\* A reply is recognised by its command alone.  The record of a new client takes
\* the id from the reply; the callbacks of the record before it are kept.
ReplyExpected(m) ==
  /\ Read(m)
  /\ m.isreply
  /\ calls # <<>> /\ m.cmd = Top.cmd
  /\ m.recode = "no"
  /\ calls' = Popped
  /\ IF m.cmd = "create"
     THEN /\ isvalid' = [isvalid EXCEPT ![m.id] = TRUE]
          /\ handle' = [handle EXCEPT ![m.id] = m.tag]
     ELSE UNCHANGED <<isvalid, handle>>
  /\ quiet' = IF m.cmd = "stop" THEN [quiet EXCEPT ![Top.id] = Top.tag] ELSE quiet
  /\ UNCHANGED <<toMaster, callback, made, failed>>

\* A request for a client without a record, or one that has expired, is dropped.
\* Within a call it makes the call fail.
NoticeDropped(m) ==
  /\ Read(m)
  /\ ~m.isreply
  /\ IF calls # <<>> THEN Fail ELSE UNCHANGED api
  /\ UNCHANGED toMaster

\* What the callbacks of a user call: the response of the ECU for a request, the
\* key for a seed.
CallsBack(m, cmd) ==
  \/ m.cmd = "indication" /\ cmd = "response"
  \/ m.cmd = "sa_seed" /\ cmd = "sa_key"

\* A request for a known client is replied to and handled.  The callback may make
\* a call, which is on top of the call in progress.
NoticeHandled(m) ==
  /\ Read(m)
  /\ ~m.isreply
  /\ isvalid[m.id]
  /\ LET replied == Sent(toMaster, Reply(m, "no", m.id))
     IN  \/ toMaster' = replied /\ UNCHANGED api
         \/ \E cmd \in ApiCommands :
              callback[m.id] # 0 /\ CallsBack(m, cmd) /\ Call(cmd, m.id, replied)

Receive ==
  toApi # <<>> /\ LET m == Head(toApi) IN
    \/ ReplyDropped(m) \/ ReplyFailed(m) \/ ReplyExpected(m)
    \/ NoticeDropped(m) \/ NoticeHandled(m)

ApiNext ==
  \/ \E cmd \in ApiCommands, id \in Ids : UserCall(cmd, id)
  \/ \E id \in Ids : CallbackSet(id)
  \/ Receive
  \/ RecvTimeout
=============================================================================
