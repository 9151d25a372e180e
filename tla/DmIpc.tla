------------------------------- MODULE DmIpc --------------------------------
(***************************************************************************)
(* The two sockets between a diag master and the API in another process    *)
(* (dm_common.h, dm_common.c).  Datagrams between two processes of one     *)
(* host keep their order and are neither lost nor repeated, as long as the *)
(* queue of the receiver has room; the sockets do not block, so what does  *)
(* not fit is not sent.                                                    *)
(***************************************************************************)
EXTENDS Integers, Sequences

CONSTANTS
  Capacity,   \* DM_UDSC_CAPACITY_MAX: largest number of UDS clients
  QueueMax    \* datagrams a socket holds

ASSUME IpcAssumption == Capacity \in Nat \ {0} /\ QueueMax \in Nat \ {0}

VARIABLES
  toMaster,   \* received by the diag master, in order
  toApi       \* received by the API, in order

channels == <<toMaster, toApi>>

Ids == 0..(Capacity - 1)

\* Requests of the API.
Commands == {"create", "destory", "start", "stop", "reset", "config",
             "general_config", "sa_key", "doipc_create", "response"}

\* Requests of the diag master: send this, here is a seed, here is a response,
\* here is the result of all services.
Notices == {"indication", "sa_seed", "service_result", "script_result"}

Recodes == {"no", "create", "invalid", "service_add", "doipc_create",
            "response_timeout", "response_unexpect", "service_request"}

\* The common header.  tag is not part of it: it records the call a command or
\* reply belongs to, and the run a notice belongs to.
Header == [cmd : Commands \cup Notices, isreply : BOOLEAN, recode : Recodes,
           id : Ids, tag : Nat]

Request(cmd, recode, id, tag) ==
  [cmd |-> cmd, isreply |-> FALSE, recode |-> recode, id |-> id, tag |-> tag]

Reply(m, recode, id) == [m EXCEPT !.isreply = TRUE, !.recode = recode, !.id = id]

HasRoom(queue) == Len(queue) < QueueMax

\* sendto: a datagram that does not fit is dropped.
Sent(queue, m) == IF HasRoom(queue) THEN Append(queue, m) ELSE queue

IpcOK ==
  /\ toMaster \in Seq(Header)
  /\ toApi \in Seq(Header)
  /\ Len(toMaster) <= QueueMax
  /\ Len(toApi) <= QueueMax
=============================================================================
