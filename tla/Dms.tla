-------------------------------- MODULE Dms --------------------------------
(***************************************************************************)
(* The registry of diag masters (DMS in diag_master.c) and the heartbeat.  *)
(* A user that creates an API sends its path to the socket of DMS, whose   *)
(* thread makes a diag master for it, starts a thread for that, puts it    *)
(* into a slot of the registry and replies with the path of its socket.    *)
(* The path is named after the slot, so it is used again when the slot is. *)
(* The thread of the diag master ends when its API no longer answers: it   *)
(* removes the paths of both and clears the slot.                          *)
(*                                                                         *)
(* Each user connects once, and users are numbered in the order they come. *)
(* A diag master has the number of the user it was made for.  The threads  *)
(* of DMS and of the diag masters share the slots and the file system; a   *)
(* step is what one of them does between two accesses to these.            *)
(***************************************************************************)
EXTENDS Integers, Sequences

CONSTANTS
  UserMax,        \* number of users
  SlotMax,        \* DMS_DIAG_MASTER_NUM_MAX
  KeepaliveMax,   \* heartbeats that may stay unanswered
  QueueMax        \* datagrams a socket holds

ASSUME DmsAssumption ==
  /\ UserMax \in Nat
  /\ SlotMax \in Nat \ {0}
  /\ KeepaliveMax \in Nat
  /\ QueueMax \in Nat \ {0}

VARIABLES         \* DMS
  requests,       \* requests to connect, in order
  slot,           \* the diag master in each slot
  pc,             \* where the thread of DMS is in the request it handles
  current         \* whose request that is

VARIABLES         \* per diag master
  state,          \* of its thread
  place,          \* the slot its path is named after
  index,          \* its slot, once DMS has told it, else -1
  keepalive_cnt,  \* heartbeats since the last datagram
  listening,      \* the watchers of its socket and of the heartbeat are active
  busy,           \* a timer of a client or a DoIP connection is active
  inbox           \* received by its socket, in order

VARIABLES         \* per user
  api,            \* of its API
  target,         \* the diag master's path it sends to
  received        \* received by its socket, in order

VARIABLES         \* the file system
  bound,          \* per path of a diag master: whose socket that is
  path            \* per user: the path of its API exists

VARIABLE orphaned \* history: diag masters that ended without clearing a slot

dms == <<requests, slot, pc, current>>
masters == <<state, place, index, keepalive_cnt, listening, busy, inbox>>
users == <<api, target, received>>
files == <<bound, path>>
vars == <<dms, masters, users, files, orphaned>>

Users == 1..UserMax

\* The null pointer.
None == 0

Slots == 0..(SlotMax - 1)

NoSlot == -1

\* A heartbeat, or the reply to a request to connect.
Notice == [cmd : {"keepalive", "connect"},
           recode : {"no", "diag_master_max", "diag_master_create"},
           slot : Slots \cup {NoSlot}]

Heartbeat == [cmd |-> "keepalive", recode |-> "no", slot |-> NoSlot]

ConnectReply(recode, i) == [cmd |-> "connect", recode |-> recode, slot |-> i]

\* The reply to a heartbeat, or any command.
Datagram == [from : Users, cmd : {"keepalive", "command"}]

TypeOK ==
  /\ requests \in Seq(Users)
  /\ slot \in [Slots -> Users \cup {None}]
  /\ pc \in {"idle", "created", "started", "stored", "registered"}
  /\ current \in Users \cup {None}
  /\ state \in [Users -> {"none", "created", "running", "closed", "freed"}]
  /\ place \in [Users -> Slots \cup {NoSlot}]
  /\ index \in [Users -> Slots \cup {NoSlot}]
  /\ keepalive_cnt \in [Users -> 0..(KeepaliveMax + 1)]
  /\ listening \in [Users -> BOOLEAN]
  /\ busy \in [Users -> BOOLEAN]
  /\ inbox \in [Users -> Seq(Datagram)]
  /\ api \in [Users -> {"none", "waiting", "connected", "gone"}]
  /\ target \in [Users -> Slots \cup {NoSlot}]
  /\ received \in [Users -> Seq(Notice)]
  /\ bound \in [Slots -> Users \cup {None}]
  /\ path \in [Users -> BOOLEAN]
  /\ orphaned \subseteq Users

Init ==
  /\ requests = <<>>
  /\ slot = [i \in Slots |-> None]
  /\ pc = "idle"
  /\ current = None
  /\ state = [u \in Users |-> "none"]
  /\ place = [u \in Users |-> NoSlot]
  /\ index = [u \in Users |-> NoSlot]
  /\ keepalive_cnt = [u \in Users |-> 0]
  /\ listening = [u \in Users |-> TRUE]
  /\ busy = [u \in Users |-> FALSE]
  /\ inbox = [u \in Users |-> <<>>]
  /\ api = [u \in Users |-> "none"]
  /\ target = [u \in Users |-> NoSlot]
  /\ received = [u \in Users |-> <<>>]
  /\ bound = [i \in Slots |-> None]
  /\ path = [u \in Users |-> FALSE]
  /\ orphaned = {}

-----------------------------------------------------------------------------
(***************************************************************************)
(* The API of a user                                                       *)
(***************************************************************************)

\* A datagram that does not fit is dropped.
Put(queue, m) == IF Len(queue) < QueueMax THEN Append(queue, m) ELSE queue

\* Close the socket; what was received is lost.
Leave(u) ==
  /\ api' = [api EXCEPT ![u] = "gone"]
  /\ received' = [received EXCEPT ![u] = <<>>]
  /\ UNCHANGED <<dms, masters, target, bound, orphaned>>

\* The users before came before.
IsNext(u) == api[u] = "none" /\ \A w \in Users : w < u => api[w] # "none"

\* dm_api_ipc_create: binding the socket makes the path.
ApiIpcCreate(u) == path' = [path EXCEPT ![u] = TRUE]

\* A socket is made, and its path sent to DMS.
Create(u) ==
  /\ IsNext(u)
  /\ Len(requests) < QueueMax
  /\ api' = [api EXCEPT ![u] = "waiting"]
  /\ ApiIpcCreate(u)
  /\ requests' = Append(requests, u)
  /\ UNCHANGED <<slot, pc, current, masters, target, received, bound, orphaned>>

\* The request did not fit.
CreateFailed(u) ==
  /\ IsNext(u)
  /\ Len(requests) = QueueMax
  /\ Leave(u)
  /\ UNCHANGED path

\* The first datagram is the reply, and the path in it exists.
Accepted(u) ==
  /\ received[u] # <<>>
  /\ LET m == Head(received[u])
     IN  m.cmd = "connect" /\ m.recode = "no" /\ bound[m.slot] # None

Connected(u) ==
  /\ api[u] = "waiting"
  /\ Accepted(u)
  /\ api' = [api EXCEPT ![u] = "connected"]
  /\ target' = [target EXCEPT ![u] = Head(received[u]).slot]
  /\ received' = [received EXCEPT ![u] = Tail(@)]
  /\ UNCHANGED <<dms, masters, files, orphaned>>

\* It is something else, or nothing came in time.
ConnectFailed(u) ==
  /\ api[u] = "waiting"
  /\ ~Accepted(u)
  /\ Leave(u)
  /\ path' = [path EXCEPT ![u] = FALSE]

\* A datagram goes to whoever has the path.
SendTo(i, m) ==
  inbox' = [u \in Users |-> IF u = bound[i] THEN Put(inbox[u], m) ELSE inbox[u]]

\* The user reads its socket: a heartbeat is replied to.
Receive(u) ==
  /\ api[u] = "connected"
  /\ received[u] # <<>>
  /\ received' = [received EXCEPT ![u] = Tail(@)]
  /\ IF Head(received[u]).cmd = "keepalive"
     THEN SendTo(target[u], [from |-> u, cmd |-> "keepalive"])
     ELSE UNCHANGED inbox
  /\ UNCHANGED <<dms, state, place, index, keepalive_cnt, listening, busy,
                 api, target, files, orphaned>>

\* Any command.
Command(u) ==
  /\ api[u] = "connected"
  /\ SendTo(target[u], [from |-> u, cmd |-> "command"])
  /\ UNCHANGED <<dms, state, place, index, keepalive_cnt, listening, busy,
                 users, files, orphaned>>

Destory(u) ==
  /\ api[u] = "connected"
  /\ Leave(u)
  /\ path' = [path EXCEPT ![u] = FALSE]

\* The process of the user ends: the path stays.
Crash(u) ==
  /\ api[u] \in {"waiting", "connected"}
  /\ Leave(u)
  /\ UNCHANGED path

User(u) ==
  \/ Create(u) \/ CreateFailed(u) \/ Connected(u) \/ ConnectFailed(u)
  \/ Receive(u) \/ Command(u) \/ Destory(u) \/ Crash(u)

-----------------------------------------------------------------------------
(***************************************************************************)
(* The thread of DMS                                                       *)
(***************************************************************************)

\* A datagram to an API whose path or socket is gone is lost.
Notify(u, m) ==
  received' = [received EXCEPT ![u] =
    IF path[u] /\ api[u] \in {"waiting", "connected"} THEN Put(@, m) ELSE @]

IsFree(i) == slot[i] = None

FirstFree(i) == IsFree(i) /\ \A k \in Slots : k < i => ~IsFree(k)

\* A request is taken; its API must exist.
Take(u) ==
  /\ pc = "idle"
  /\ requests # <<>>
  /\ u = Head(requests)
  /\ requests' = Tail(requests)

\* No reply can be sent to an API whose path is gone.
RequestUnknown(u) ==
  /\ Take(u)
  /\ ~path[u]
  /\ UNCHANGED <<slot, pc, current, masters, users, files, orphaned>>

RequestFull(u) ==
  /\ Take(u)
  /\ path[u]
  /\ \A i \in Slots : ~IsFree(i)
  /\ Notify(u, ConnectReply("diag_master_max", NoSlot))
  /\ UNCHANGED <<slot, pc, current, masters, api, target, files, orphaned>>

\* There is no memory or no socket.
MasterCreateFailed(u) ==
  /\ Take(u)
  /\ path[u]
  /\ \E i \in Slots : IsFree(i)
  /\ Notify(u, ConnectReply("diag_master_create", NoSlot))
  /\ UNCHANGED <<slot, pc, current, masters, api, target, files, orphaned>>

\* diag_master_ipc_create removes a path that is there, whoever is bound to it,
\* and binds the new socket to it.
IpcCreate(u, i) == bound' = [bound EXCEPT ![i] = u]

\* Mutant: the search begins behind the first slot and does not look.
MasterCreateAnywhere(u, i) ==
  /\ Take(u)
  /\ path[u]
  /\ i \in Slots
  /\ pc' = "created"
  /\ current' = u
  /\ state' = [state EXCEPT ![u] = "created"]
  /\ place' = [place EXCEPT ![u] = i]
  /\ IpcCreate(u, i)
  /\ UNCHANGED <<slot, index, keepalive_cnt, listening, busy, inbox, users, path,
                 orphaned>>

\* A free slot is found and the diag master made; whoever had the path before
\* loses it.  The slot is not taken yet.
MasterCreate(u, i) ==
  /\ Take(u)
  /\ path[u]
  /\ FirstFree(i)
  /\ pc' = "created"
  /\ current' = u
  /\ state' = [state EXCEPT ![u] = "created"]
  /\ place' = [place EXCEPT ![u] = i]
  /\ IpcCreate(u, i)
  /\ UNCHANGED <<slot, index, keepalive_cnt, listening, busy, inbox, users, path,
                 orphaned>>

ThreadStart ==
  /\ pc = "created"
  /\ pc' = "started"
  /\ state' = [state EXCEPT ![current] = "running"]
  /\ UNCHANGED <<requests, slot, current, place, index, keepalive_cnt, listening,
                 busy, inbox, users, files, orphaned>>

\* The socket is closed, and the paths of the diag master and of its API removed.
Unlinked(u) ==
  /\ bound' = [bound EXCEPT ![place[u]] = None]
  /\ path' = [path EXCEPT ![u] = FALSE]
  /\ inbox' = [inbox EXCEPT ![u] = <<>>]

\* Without a thread the diag master is destroyed at once, and the path of the API
\* with it: the reply is lost.
ThreadFailed ==
  /\ pc = "created"
  /\ pc' = "idle"
  /\ state' = [state EXCEPT ![current] = "freed"]
  /\ Unlinked(current)
  /\ UNCHANGED <<requests, slot, current, place, index, keepalive_cnt, listening,
                 busy, users, orphaned>>

\* Mutant: the slot is not taken.
SlotStoreMissing ==
  /\ pc = "started"
  /\ pc' = "stored"
  /\ UNCHANGED <<requests, slot, current, masters, users, files, orphaned>>

\* The slot is taken: the thread may have ended by now.
SlotStore ==
  /\ pc = "started"
  /\ pc' = "stored"
  /\ slot' = [slot EXCEPT ![place[current]] = current]
  /\ UNCHANGED <<requests, current, masters, users, files, orphaned>>

\* The diag master learns its slot: it may have been freed by now.
Register ==
  /\ pc = "stored"
  /\ pc' = "registered"
  /\ index' = [index EXCEPT ![current] = place[current]]
  /\ UNCHANGED <<requests, slot, current, state, place, keepalive_cnt, listening,
                 busy, inbox, users, files, orphaned>>

RequestDone ==
  /\ pc = "registered"
  /\ pc' = "idle"
  /\ Notify(current, ConnectReply("no", place[current]))
  /\ UNCHANGED <<requests, slot, current, masters, api, target, files, orphaned>>

Dms ==
  \/ \E u \in Users : \/ RequestUnknown(u) \/ RequestFull(u) \/ MasterCreateFailed(u)
                      \/ \E i \in Slots : MasterCreate(u, i)
  \/ ThreadStart \/ ThreadFailed \/ SlotStore \/ Register \/ RequestDone

-----------------------------------------------------------------------------
(***************************************************************************)
(* The thread of a diag master                                             *)
(***************************************************************************)

\* diag_master_keepalive_refresh: the count starts over, and the interval.
KeepaliveRefresh(u) == keepalive_cnt' = [keepalive_cnt EXCEPT ![u] = 0]

\* diag_master_ev_stop: the watchers of clients and connections stay.
EvStop(u) == listening' = [listening EXCEPT ![u] = FALSE]

\* Mutant: replies are ignored before the heartbeat is counted anew.
ReadUnrefreshed(u) ==
  /\ state[u] = "running"
  /\ listening[u]
  /\ inbox[u] # <<>>
  /\ inbox' = [inbox EXCEPT ![u] = Tail(@)]
  /\ UNCHANGED <<dms, state, place, index, keepalive_cnt, listening, busy, users,
                 files, orphaned>>

\* Any datagram, from whomever, restarts the heartbeat.  A command may start or
\* stop what clients do.
Read(u) ==
  /\ state[u] = "running"
  /\ listening[u]
  /\ inbox[u] # <<>>
  /\ inbox' = [inbox EXCEPT ![u] = Tail(@)]
  /\ KeepaliveRefresh(u)
  /\ \E active \in IF Head(inbox[u]).cmd = "command" THEN BOOLEAN ELSE {busy[u]} :
       busy' = [busy EXCEPT ![u] = active]
  /\ UNCHANGED <<dms, state, place, index, listening, users, files, orphaned>>

\* Mutant: the heartbeat goes on for ever.
KeepaliveEndless(u) ==
  /\ state[u] = "running"
  /\ listening[u]
  /\ keepalive_cnt' = [keepalive_cnt EXCEPT
       ![u] = IF @ > KeepaliveMax THEN 0 ELSE @ + 1]
  /\ Notify(u, Heartbeat)
  /\ UNCHANGED <<dms, state, place, index, listening, busy, inbox, api, target,
                 files, orphaned>>

\* Mutant: the heartbeat is not stopped with the count.
KeepaliveUnstopped(u) ==
  /\ state[u] = "running"
  /\ listening[u]
  /\ keepalive_cnt' = [keepalive_cnt EXCEPT ![u] = @ + 1]
  /\ Notify(u, Heartbeat)
  /\ UNCHANGED <<dms, state, place, index, listening, busy, inbox, api, target,
                 files, orphaned>>

\* A heartbeat is sent; one too many without an answer stops the watchers.
Keepalive(u) ==
  /\ state[u] = "running"
  /\ listening[u]
  /\ keepalive_cnt' = [keepalive_cnt EXCEPT ![u] = @ + 1]
  /\ Notify(u, Heartbeat)
  /\ IF keepalive_cnt'[u] > KeepaliveMax THEN EvStop(u) ELSE UNCHANGED listening
  /\ UNCHANGED <<dms, state, place, index, busy, inbox, api, target, files, orphaned>>

\* The clients have nothing more to do, and no connection is open.
Rest(u) ==
  /\ state[u] = "running"
  /\ busy[u]
  /\ busy' = [busy EXCEPT ![u] = FALSE]
  /\ UNCHANGED <<dms, state, place, index, keepalive_cnt, listening, inbox, users,
                 files, orphaned>>

\* The loop ends when no watcher is active, and the diag master is destroyed.
Close(u) ==
  /\ state[u] = "running"
  /\ ~listening[u]
  /\ ~busy[u]
  /\ state' = [state EXCEPT ![u] = "closed"]
  /\ Unlinked(u)
  /\ UNCHANGED <<dms, place, index, keepalive_cnt, listening, busy, users, orphaned>>

\* Mutant: index 0 counts as none.
SlotClearFirstKept(u) ==
  /\ state[u] = "closed"
  /\ state' = [state EXCEPT ![u] = "freed"]
  /\ IF index[u] > 0
     THEN slot' = [slot EXCEPT ![index[u]] = None] /\ UNCHANGED orphaned
     ELSE /\ orphaned' = IF index[u] = NoSlot THEN orphaned \cup {u} ELSE orphaned
          /\ UNCHANGED slot
  /\ UNCHANGED <<requests, pc, current, place, index, keepalive_cnt, listening,
                 busy, inbox, users, files>>

\* The slot is cleared, if DMS has told which, and the diag master freed.
SlotClear(u) ==
  /\ state[u] = "closed"
  /\ state' = [state EXCEPT ![u] = "freed"]
  /\ IF index[u] # NoSlot
     THEN slot' = [slot EXCEPT ![index[u]] = None] /\ UNCHANGED orphaned
     ELSE orphaned' = orphaned \cup {u} /\ UNCHANGED slot
  /\ UNCHANGED <<requests, pc, current, place, index, keepalive_cnt, listening,
                 busy, inbox, users, files>>

Master(u) == Read(u) \/ Keepalive(u) \/ Rest(u) \/ Close(u) \/ SlotClear(u)

-----------------------------------------------------------------------------

Next == Dms \/ \E u \in Users : User(u) \/ Master(u)

Spec == Init /\ [][Next]_vars

\* The threads run, and libev runs the handler of a socket with something to read
\* and of a timer that is due.  Nothing is assumed of the users, nor of clients.
Fairness ==
  /\ WF_vars(Dms)
  /\ \A u \in Users : /\ WF_vars(Read(u))
                      /\ WF_vars(Keepalive(u))
                      /\ WF_vars(Close(u))
                      /\ WF_vars(SlotClear(u))

FairSpec == Spec /\ Fairness

-----------------------------------------------------------------------------
(***************************************************************************)
(* Properties                                                              *)
(***************************************************************************)

\* A slot holds a diag master that was not freed, and the one its path is named
\* after; but for one whose thread ended before it learned its slot.
SlotIsLive ==
  \A i \in Slots : slot[i] # None =>
    /\ place[slot[i]] = i
    /\ state[slot[i]] = "freed" => slot[i] \in orphaned

\* The path of a diag master leads to it as long as its thread has not ended: no
\* other one takes the path or removes it, though paths are used again and each
\* thread removes its own when it likes.
PathIsOwn ==
  \A u \in Users : state[u] \in {"created", "running"} => bound[place[u]] = u

\* A diag master receives from its own user, or from one whose diag master has
\* ended (it had the same path).
SenderIsOwn ==
  \A u \in Users : \A n \in 1..Len(inbox[u]) :
    LET from == inbox[u][n].from
    IN  from = u \/ state[from] \in {"closed", "freed"}

\* A user that has read and replied to every heartbeat, and whose replies were
\* read, is not given up.  This takes a heartbeat that may stay unanswered and a
\* socket with room for two datagrams (KeepaliveMax > 0 and QueueMax > 1): the reply
\* to connect must not be all it holds.
OfflineIsSilent ==
  [][\A u \in Users :
       listening[u] /\ ~listening'[u]
         => api[u] # "connected" \/ received[u] # <<>> \/ inbox[u] # <<>>]_vars

Ended(u) == state[u] \in {"none", "freed"}

\* A user that was given up and still sends to the path of this diag master.
Strays(u) ==
  {w \in Users \ {u} : api[w] = "connected" /\ target[w] = place[u]}

\* The diag master of a user that is gone ends, unless clients keep its loop alive
\* or somebody else's commands do: no slot is lost to users that come and go.
GoneIsFreed ==
  \A u \in Users :
    api[u] = "gone" /\ ~Ended(u) ~> Ended(u) \/ busy[u] \/ Strays(u) # {}

\* diag_master.c:130: to stop the watchers ends the event loop.  It does not as
\* long as a timer of a client is active.  Checked to be violated.
StopEndsLoop ==
  \A u \in Users : state[u] = "running" /\ ~listening[u] ~> state[u] # "running"

-----------------------------------------------------------------------------
(***************************************************************************)
(* The inductive invariant behind the safety properties.  DMS and the      *)
(* thread of a diag master run side by side between the search for a slot  *)
(* and the moment the diag master knows it; the clauses say what each may  *)
(* rely on meanwhile.                                                      *)
(***************************************************************************)

\* The heartbeat is stopped with the count that exceeds its limit.
CountIsBounded == \A u \in Users : listening[u] => keepalive_cnt[u] <= KeepaliveMax

\* What users have asked for is still to be made, once for each.
RequestsAreNew ==
  /\ \A k \in 1..Len(requests) :
       state[requests[k]] = "none" /\ api[requests[k]] # "none"
  /\ \A j, k \in 1..Len(requests) : requests[j] = requests[k] => j = k

\* A diag master that was not made has no place, no slot and no datagram.
MadeInOrder ==
  \A u \in Users :
    /\ api[u] = "none" => state[u] = "none"
    /\ state[u] = "none" <=> place[u] = NoSlot
    /\ state[u] \in {"none", "created"} =>
         index[u] = NoSlot /\ keepalive_cnt[u] = 0
    /\ state[u] = "created" <=> pc = "created" /\ current = u

\* The slot DMS has found stays free until it is taken, and taken until the diag
\* master knows it; a thread that ends before has cleared no slot.
SlotOfCurrent ==
  pc # "idle" =>
    /\ current # None
    /\ state[current] # "none"
    /\ pc \in {"created", "started"} => slot[place[current]] = None
    /\ pc = "stored" => slot[place[current]] = current
    /\ pc # "registered" =>
         /\ index[current] = NoSlot
         /\ state[current] = "freed" => current \in orphaned

\* A diag master with a thread has its slot, but for the one DMS is about to store;
\* one that knows its slot has it until it clears it.
SlotOfThread ==
  \A u \in Users :
    /\ state[u] \in {"created", "running"} =>
         slot[place[u]] = u \/ (u = current /\ pc \in {"created", "started"})
    /\ index[u] # NoSlot =>
         index[u] = place[u] /\ (state[u] # "freed" => slot[index[u]] = u)

Registry ==
  /\ RequestsAreNew
  /\ MadeInOrder
  /\ SlotOfCurrent
  /\ SlotOfThread
  /\ SlotIsLive
  /\ PathIsOwn

RegistryInv == TypeOK /\ CountIsBounded /\ Registry

\* The diag master of u was made and its thread started.
Started(u) == state[u] \notin {"none", "created"}

\* A user is told the path of its own diag master and sends there.
ToldOwnPath ==
  \A u \in Users :
    /\ \A n \in 1..Len(received[u]) :
         received[u][n].cmd = "connect" /\ received[u][n].recode = "no"
           => Started(u) /\ received[u][n].slot = place[u]
    /\ api[u] = "connected" => Started(u) /\ target[u] = place[u]

\* The request of u was not answered yet.
Asking(u) ==
  \/ \E k \in 1..Len(requests) : requests[k] = u
  \/ pc # "idle" /\ current = u

\* A user receives one reply, and nothing before it comes.
ReplyIsSingle ==
  \A u \in Users :
    /\ \A j, k \in 1..Len(received[u]) :
         received[u][j].cmd = "connect" /\ received[u][k].cmd = "connect" => j = k
    /\ api[u] = "connected" \/ Asking(u) =>
         \A n \in 1..Len(received[u]) : received[u][n].cmd # "connect"
    /\ api[u] = "connected" => ~Asking(u)
    /\ api[u] = "none" => received[u] = <<>>

\* The path of an API that has not left is there as long as its diag master is.
PathIsThere ==
  \A u \in Users :
    api[u] \in {"waiting", "connected"} /\ state[u] \notin {"closed", "freed"}
      => path[u]

\* A heartbeat that counts lies in a socket, unless the reply lies before it and
\* the socket is full.
HeartbeatIsUnderWay ==
  \A u \in Users :
    state[u] = "running" /\ keepalive_cnt[u] > 0 =>
      /\ api[u] = "connected" => received[u] # <<>> \/ inbox[u] # <<>>
      /\ api[u] = "waiting" =>
           received[u] # <<>> /\ (Len(received[u]) > 1 \/ received[u][1].cmd = "keepalive")

DatagramInv == RegistryInv /\ ToldOwnPath /\ SenderIsOwn

HeartbeatInv == DatagramInv /\ ReplyIsSingle /\ PathIsThere /\ HeartbeatIsUnderWay
=============================================================================
