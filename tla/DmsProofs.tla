------------------------------ MODULE DmsProofs ------------------------------
(***************************************************************************)
(* Theorems about the registry of diag masters and the heartbeat, for      *)
(* every number of users and slots, every limit of unanswered heartbeats   *)
(* and every capacity of the sockets.                                      *)
(***************************************************************************)
EXTENDS Dms, SequenceTheorems, TLAPS

-----------------------------------------------------------------------------
(***************************************************************************)
(* Queues                                                                  *)
(***************************************************************************)

\* What a socket holds after a datagram was sent to it: the same, or one more.
LEMMA PutOK ==
  ASSUME NEW S, NEW q \in Seq(S), NEW m \in S
  PROVE  /\ Put(q, m) \in Seq(S)
         /\ Put(q, m) # <<>>
<1>1. QueueMax \in Nat \ {0} /\ Len(q) \in Nat  BY DmsAssumption, LenProperties
<1>2. Append(q, m) \in Seq(S) /\ Append(q, m) # <<>>  BY AppendProperties
<1>3. q = <<>> => Len(q) = 0  OBVIOUS
<1> QED  BY <1>1, <1>2, <1>3 DEF Put

\* What was there stays in its place, and the datagram comes last.
LEMMA PutIs ==
  ASSUME NEW S, NEW q \in Seq(S), NEW m \in S, NEW r, r = Put(q, m)
  PROVE  /\ Len(r) \in {Len(q), Len(q) + 1}
         /\ \A n \in 1..Len(q) : r[n] = q[n]
         /\ Len(r) = Len(q) + 1 => r[Len(q) + 1] = m
         /\ Len(r) = Len(q) => Len(q) >= QueueMax
<1>1. QueueMax \in Nat \ {0} /\ Len(q) \in Nat  BY DmsAssumption, LenProperties
<1>2. CASE Len(q) < QueueMax
  <2>1. r = Append(q, m)  BY <1>2 DEF Put
  <2> QED  BY <1>1, <2>1, AppendProperties
<1>3. CASE ~(Len(q) < QueueMax)
  <2>1. r = q  BY <1>3 DEF Put
  <2> QED  BY <1>1, <1>3, <2>1
<1> QED  BY <1>2, <1>3

\* What is left of it after one was read.
LEMMA TailOK ==
  ASSUME NEW S, NEW q \in Seq(S), q # <<>>
  PROVE  /\ Head(q) \in S /\ Head(q) = q[1]
         /\ Len(q) \in Nat \ {0}
         /\ Tail(q) \in Seq(S)
         /\ Len(Tail(q)) = Len(q) - 1
         /\ \A n \in 1..Len(Tail(q)) : Tail(q)[n] = q[n + 1] /\ n + 1 \in 1..Len(q)
<1>1. Len(q) \in Nat \ {0}  BY EmptySeq, LenProperties
<1>2. Head(q) \in S /\ Tail(q) \in Seq(S) /\ Len(Tail(q)) = Len(q) - 1
      /\ \A n \in 1..Len(Tail(q)) : Tail(q)[n] = q[n + 1]
  BY HeadTailProperties
<1>3. Head(q) = q[1]  OBVIOUS
<1> QED  BY <1>1, <1>2, <1>3

\* The notices of a diag master and of DMS.
LEMMA NoticeOK ==
  /\ Heartbeat \in Notice /\ Heartbeat.cmd = "keepalive"
  /\ \A recode \in {"no", "diag_master_max", "diag_master_create"},
        i \in Slots \cup {NoSlot} :
       /\ ConnectReply(recode, i) \in Notice
       /\ ConnectReply(recode, i).cmd = "connect"
       /\ ConnectReply(recode, i).recode = recode
       /\ ConnectReply(recode, i).slot = i
BY DEF Notice, Heartbeat, ConnectReply

-----------------------------------------------------------------------------
(***************************************************************************)
(* Type correctness                                                        *)
(***************************************************************************)

\* Every step is one of a user, of DMS or of the thread of a diag master.
LEMMA NextCases ==
  ASSUME [Next]_vars
  PROVE  \/ \E u \in Users :
             \/ Create(u) \/ CreateFailed(u) \/ Connected(u) \/ ConnectFailed(u)
             \/ Receive(u) \/ Command(u) \/ Destory(u) \/ Crash(u)
         \/ \E u \in Users :
             \/ RequestUnknown(u) \/ RequestFull(u) \/ MasterCreateFailed(u)
             \/ \E i \in Slots : MasterCreate(u, i)
         \/ ThreadStart \/ ThreadFailed \/ SlotStore \/ Register \/ RequestDone
         \/ \E u \in Users :
             Read(u) \/ Keepalive(u) \/ Rest(u) \/ Close(u) \/ SlotClear(u)
         \/ UNCHANGED vars
  BY DEF Next, Dms, User, Master

\* A datagram that is sent reaches one socket or none.
LEMMA SendToOK ==
  ASSUME TypeOK, NEW i, NEW m \in Datagram, SendTo(i, m)
  PROVE  inbox' \in [Users -> Seq(Datagram)]
<1>1. \A u \in Users : Put(inbox[u], m) \in Seq(Datagram)  BY PutOK DEF TypeOK
<1> QED  BY <1>1 DEF SendTo, TypeOK

\* A notice that is sent has the type of its queue.
LEMMA NotifyOK ==
  ASSUME TypeOK, NEW u, NEW m \in Notice, Notify(u, m)
  PROVE  received' \in [Users -> Seq(Notice)]
<1>1. u \in Users => Put(received[u], m) \in Seq(Notice)  BY PutOK DEF TypeOK
<1> QED  BY <1>1 DEF Notify, TypeOK

\* The steps of a user keep the types.
LEMMA UserTypes ==
  ASSUME TypeOK, NEW u \in Users,
         \/ Create(u) \/ CreateFailed(u) \/ Connected(u) \/ ConnectFailed(u)
         \/ Receive(u) \/ Command(u) \/ Destory(u) \/ Crash(u)
  PROVE  TypeOK'
<1> USE DEF TypeOK, dms, masters, users, files
<1>1. CASE Create(u)
  <2>1. requests' \in Seq(Users)  BY <1>1, AppendProperties DEF Create
  <2> QED  BY <1>1, <2>1 DEF Create, ApiIpcCreate
<1>2. CASE CreateFailed(u) \/ ConnectFailed(u) \/ Destory(u) \/ Crash(u)
  <2>1. received' \in [Users -> Seq(Notice)]
    <3>1. <<>> \in Seq(Notice)  BY EmptySeq
    <3>2. Leave(u)  BY <1>2 DEF CreateFailed, ConnectFailed, Destory, Crash
    <3> QED  BY <3>1, <3>2 DEF Leave
  <2> QED
    BY <1>2, <2>1 DEF CreateFailed, ConnectFailed, Destory, Crash, Leave
<1>3. CASE Connected(u)
  <2>1. received[u] \in Seq(Notice) /\ received[u] # <<>>
    BY <1>3 DEF Connected, Accepted
  <2>2. Head(received[u]) \in Notice /\ Tail(received[u]) \in Seq(Notice)
    BY <2>1, TailOK
  <2>3. Head(received[u]).slot \in Slots \cup {NoSlot}  BY <2>2 DEF Notice
  <2> QED  BY <1>3, <2>2, <2>3 DEF Connected
<1>4. CASE Receive(u)
  <2>1. Tail(received[u]) \in Seq(Notice)  BY <1>4, TailOK DEF Receive
  <2>2. inbox' \in [Users -> Seq(Datagram)]
    <3>1. [from |-> u, cmd |-> "keepalive"] \in Datagram  BY DEF Datagram
    <3> QED  BY <1>4, <3>1, SendToOK DEF Receive
  <2> QED  BY <1>4, <2>1, <2>2 DEF Receive
<1>5. CASE Command(u)
  <2>1. [from |-> u, cmd |-> "command"] \in Datagram  BY DEF Datagram
  <2>2. inbox' \in [Users -> Seq(Datagram)]  BY <1>5, <2>1, SendToOK DEF Command
  <2> QED  BY <1>5, <2>2 DEF Command
<1> QED  BY <1>1, <1>2, <1>3, <1>4, <1>5

\* The steps of DMS keep the types.
LEMMA DmsTypes ==
  ASSUME TypeOK, Dms
  PROVE  TypeOK'
<1> USE DEF TypeOK, dms, masters, users, files
<1>1. NoSlot \in Slots \cup {NoSlot}  OBVIOUS
<1>2. ASSUME NEW u \in Users, Take(u)
      PROVE  requests' \in Seq(Users)
  BY <1>2, TailOK DEF Take
<1>3. ASSUME NEW u \in Users,
             RequestUnknown(u) \/ RequestFull(u) \/ MasterCreateFailed(u)
      PROVE  TypeOK'
  <2>1. requests' \in Seq(Users)
    BY <1>2, <1>3 DEF RequestUnknown, RequestFull, MasterCreateFailed
  <2>2. received' \in [Users -> Seq(Notice)]
    BY <1>1, <1>3, NoticeOK, NotifyOK DEF RequestUnknown, RequestFull, MasterCreateFailed
  <2> QED
    BY <1>3, <2>1, <2>2 DEF RequestUnknown, RequestFull, MasterCreateFailed
<1>4. ASSUME NEW u \in Users, NEW i \in Slots, MasterCreate(u, i)
      PROVE  TypeOK'
  BY <1>2, <1>4 DEF MasterCreate, IpcCreate
<1>5. CASE ThreadStart  BY <1>5 DEF ThreadStart
<1>6. CASE ThreadFailed
  <2>1. inbox' \in [Users -> Seq(Datagram)]  BY <1>6, EmptySeq DEF ThreadFailed, Unlinked
  <2> QED  BY <1>6, <2>1 DEF ThreadFailed, Unlinked
<1>7. CASE SlotStore  BY <1>7 DEF SlotStore
<1>8. CASE Register
  <2>1. index' \in [Users -> Slots \cup {NoSlot}]  BY <1>8 DEF Register
  <2> QED  BY <1>8, <2>1 DEF Register
<1>9. CASE RequestDone
  <2>1. received' \in [Users -> Seq(Notice)]
    <3>1. CASE current \in Users
      <4>1. ConnectReply("no", place[current]) \in Notice  BY <3>1, NoticeOK
      <4> QED  BY <1>9, <4>1, NotifyOK DEF RequestDone
    <3>2. CASE current \notin Users
      BY <1>9, <3>2 DEF RequestDone, Notify
    <3> QED  BY <3>1, <3>2
  <2> QED  BY <1>9, <2>1 DEF RequestDone
<1> QED  BY <1>3, <1>4, <1>5, <1>6, <1>7, <1>8, <1>9 DEF Dms

\* The steps of the thread of a diag master keep the types.
LEMMA MasterTypes ==
  ASSUME TypeOK, CountIsBounded, NEW u \in Users, Master(u)
  PROVE  TypeOK'
<1> USE DEF TypeOK, dms, masters, users, files
<1>1. KeepaliveMax \in Nat  BY DmsAssumption
<1>2. CASE Read(u)
  <2>1. Tail(inbox[u]) \in Seq(Datagram)  BY <1>2, TailOK DEF Read
  <2>2. busy' \in [Users -> BOOLEAN]  BY <1>2 DEF Read
  <2>3. keepalive_cnt' \in [Users -> 0..(KeepaliveMax + 1)]
    BY <1>1, <1>2 DEF Read, KeepaliveRefresh
  <2> QED  BY <1>2, <2>1, <2>2, <2>3 DEF Read
<1>3. CASE Keepalive(u)
  <2>1. received' \in [Users -> Seq(Notice)]
    BY <1>3, NoticeOK, NotifyOK DEF Keepalive
  <2>2. keepalive_cnt' \in [Users -> 0..(KeepaliveMax + 1)]
    <3>1. keepalive_cnt[u] + 1 \in 0..(KeepaliveMax + 1)
      BY <1>1, <1>3 DEF Keepalive, CountIsBounded
    <3> QED  BY <1>3, <3>1 DEF Keepalive
  <2>3. listening' \in [Users -> BOOLEAN]  BY <1>3 DEF Keepalive, EvStop
  <2> QED  BY <1>3, <2>1, <2>2, <2>3 DEF Keepalive
<1>4. CASE Rest(u)  BY <1>4 DEF Rest
<1>5. CASE Close(u)
  <2>1. inbox' \in [Users -> Seq(Datagram)]  BY <1>5, EmptySeq DEF Close, Unlinked
  <2> QED  BY <1>5, <2>1 DEF Close, Unlinked
<1>6. CASE SlotClear(u)
  <2>1. state' \in [Users -> {"none", "created", "running", "closed", "freed"}]
    BY <1>6 DEF SlotClear
  <2>2. slot' \in [Slots -> Users \cup {None}]  BY <1>6 DEF SlotClear
  <2>3. orphaned' \subseteq Users  BY <1>6 DEF SlotClear
  <2> QED  BY <1>6, <2>1, <2>2, <2>3 DEF SlotClear
<1> QED  BY <1>2, <1>3, <1>4, <1>5, <1>6 DEF Master

\* Whatever happens, the count of unanswered heartbeats stays bounded.
LEMMA CountStep ==
  ASSUME TypeOK, CountIsBounded, [Next]_vars
  PROVE  CountIsBounded'
<1> USE DEF TypeOK, CountIsBounded
<1>1. KeepaliveMax \in Nat  BY DmsAssumption
<1>2. CASE \E u \in Users : Read(u)
  BY <1>1, <1>2 DEF Read, KeepaliveRefresh
<1>3. CASE \E u \in Users : Keepalive(u)
  <2>1. PICK u \in Users : Keepalive(u)  BY <1>3
  <2>2. /\ keepalive_cnt' = [keepalive_cnt EXCEPT ![u] = @ + 1]
        /\ IF keepalive_cnt'[u] > KeepaliveMax THEN EvStop(u) ELSE UNCHANGED listening
    BY <2>1 DEF Keepalive
  <2>3. ASSUME NEW w \in Users, listening'[w]
        PROVE  keepalive_cnt'[w] <= KeepaliveMax
    <3>1. CASE w = u  BY <1>1, <2>2, <2>3, <3>1 DEF EvStop
    <3>2. CASE w # u  BY <2>2, <2>3, <3>2 DEF EvStop
    <3> QED  BY <3>1, <3>2
  <2> QED  BY <2>3
<1>4. CASE UNCHANGED <<listening, keepalive_cnt>>  BY <1>4
<1> QED
  BY <1>2, <1>3, <1>4, NextCases
     DEF vars, masters, Create, CreateFailed, Leave, Connected, ConnectFailed, Receive,
         Command, Destory, Crash, RequestUnknown, RequestFull, MasterCreateFailed,
         MasterCreate, ThreadStart, ThreadFailed, SlotStore, Register, RequestDone,
         Rest, Close, SlotClear

\* Every step keeps the types.
LEMMA TypeStep ==
  ASSUME TypeOK, CountIsBounded, [Next]_vars
  PROVE  TypeOK'
<1>1. CASE Next
  BY <1>1, UserTypes, DmsTypes, MasterTypes DEF Next, User
<1>2. CASE UNCHANGED vars
  BY <1>2 DEF vars, dms, masters, users, files, TypeOK
<1> QED  BY <1>1, <1>2

\* No user, no slot.
LEMMA InitOK == Init => TypeOK /\ CountIsBounded
BY DmsAssumption, EmptySeq DEF Init, TypeOK, CountIsBounded

\* Type correctness: the count of unanswered heartbeats never passes its limit by
\* more than one, and no slot or path is out of range.
THEOREM TypeCorrect == Spec => []TypeOK
<1>1. TypeOK /\ CountIsBounded /\ [Next]_vars => (TypeOK /\ CountIsBounded)'
  BY TypeStep, CountStep
<1> QED  BY InitOK, <1>1, PTL DEF Spec

-----------------------------------------------------------------------------
(***************************************************************************)
(* The registry: every path and every slot has one owner                   *)
(***************************************************************************)

\* A step that leaves the registry alone: a user may come or go, and a running
\* diag master may count.
LEMMA RegistryFrame ==
  ASSUME TypeOK, Registry,
         UNCHANGED <<requests, slot, pc, current, state, place, index, bound, orphaned>>,
         \A u \in Users : api[u] # "none" => api'[u] # "none",
         \A u \in Users : api'[u] = "none" => api[u] = "none",
         \A u \in Users : state[u] # "running" => keepalive_cnt'[u] = keepalive_cnt[u]
  PROVE  Registry'
<1> USE DEF Registry
<1>1. RequestsAreNew'
  <2>1. \A k \in 1..Len(requests) : requests[k] \in Users  BY ElementOfSeq DEF TypeOK
  <2> QED  BY <2>1 DEF RequestsAreNew
<1>2. MadeInOrder'  BY DEF MadeInOrder
<1>3. SlotOfCurrent'  BY DEF SlotOfCurrent
<1>4. SlotOfThread'  BY DEF SlotOfThread
<1>5. SlotIsLive'  BY DEF SlotIsLive
<1>6. PathIsOwn'  BY DEF PathIsOwn
<1> QED  BY <1>1, <1>2, <1>3, <1>4, <1>5, <1>6

\* A user comes, and asks for a diag master.
LEMMA RegistryCreate ==
  ASSUME TypeOK, Registry, NEW u \in Users, Create(u)
  PROVE  Registry'
<1> USE DEF Registry, masters, users, files
<1>1. /\ requests \in Seq(Users) /\ Len(requests) \in Nat
      /\ requests' = Append(requests, u)
      /\ Len(requests') = Len(requests) + 1
      /\ \A k \in 1..Len(requests) : requests'[k] = requests[k]
      /\ requests'[Len(requests) + 1] = u
  BY AppendProperties, LenProperties DEF Create, TypeOK
<1>2. api[u] = "none" /\ api' = [api EXCEPT ![u] = "waiting"]
  BY DEF Create, IsNext
<1>3. UNCHANGED <<slot, pc, current, state, place, index, keepalive_cnt, bound, orphaned>>
  BY DEF Create, ApiIpcCreate
<1>4. RequestsAreNew'
  <2>1. ASSUME NEW k \in 1..Len(requests')
        PROVE  state'[requests'[k]] = "none" /\ api'[requests'[k]] # "none"
    <3>1. CASE k \in 1..Len(requests)
      <4>1. requests[k] \in Users  BY <1>1, <3>1, ElementOfSeq
      <4> QED  BY <1>1, <1>2, <1>3, <3>1, <4>1 DEF RequestsAreNew, TypeOK
    <3>2. CASE k = Len(requests) + 1
      BY <1>1, <1>2, <1>3, <3>2 DEF MadeInOrder, TypeOK
    <3> QED  BY <1>1, <3>1, <3>2
  <2>2. ASSUME NEW j \in 1..Len(requests'), NEW k \in 1..Len(requests'),
               requests'[j] = requests'[k]
        PROVE  j = k
    <3>1. \A n \in 1..Len(requests) : requests[n] # u  BY <1>2 DEF RequestsAreNew
    <3> QED  BY <1>1, <2>2, <3>1 DEF RequestsAreNew
  <2> QED  BY <2>1, <2>2 DEF RequestsAreNew
<1>5. MadeInOrder'  BY <1>2, <1>3 DEF MadeInOrder, TypeOK
<1>6. SlotOfCurrent'  BY <1>3 DEF SlotOfCurrent
<1>7. SlotOfThread' /\ SlotIsLive' /\ PathIsOwn'
  BY <1>3 DEF SlotOfThread, SlotIsLive, PathIsOwn
<1> QED  BY <1>4, <1>5, <1>6, <1>7

\* A request is taken: those that stay are still new, and its user was not served.
LEMMA RequestTaken ==
  ASSUME TypeOK, RequestsAreNew, NEW u \in Users, Take(u)
  PROVE  /\ state[u] = "none" /\ api[u] # "none"
         /\ \A k \in 1..Len(requests') :
              requests'[k] \in Users \ {u} /\ state[requests'[k]] = "none"
                /\ api[requests'[k]] # "none"
         /\ \A j, k \in 1..Len(requests') : requests'[j] = requests'[k] => j = k
<1>1. /\ requests \in Seq(Users) /\ requests # <<>>
      /\ u = Head(requests) /\ requests' = Tail(requests)
  BY DEF Take, TypeOK
<1>2. /\ u = requests[1] /\ Len(requests) \in Nat \ {0}
      /\ Len(requests') = Len(requests) - 1
      /\ \A n \in 1..Len(requests') : requests'[n] = requests[n + 1] /\ n + 1 \in 1..Len(requests)
  BY <1>1, TailOK
<1>3. \A k \in 1..Len(requests) : requests[k] \in Users  BY <1>1, ElementOfSeq
<1>4. 1 \in 1..Len(requests)  BY <1>2
<1>5. ASSUME NEW k \in 1..Len(requests')
      PROVE  requests'[k] \in Users \ {u} /\ state[requests'[k]] = "none"
               /\ api[requests'[k]] # "none"
  <2>1. requests'[k] = requests[k + 1] /\ k + 1 \in 1..Len(requests) /\ k + 1 # 1
    BY <1>2
  <2> QED  BY <1>2, <1>3, <1>4, <2>1 DEF RequestsAreNew
<1>6. ASSUME NEW j \in 1..Len(requests'), NEW k \in 1..Len(requests'),
             requests'[j] = requests'[k]
      PROVE  j = k
  <2>1. requests[j + 1] = requests[k + 1] /\ {j + 1, k + 1} \subseteq 1..Len(requests)
    BY <1>2, <1>6
  <2>2. j + 1 = k + 1  BY <2>1 DEF RequestsAreNew
  <2> QED  BY <1>2, <2>2
<1>7. state[u] = "none" /\ api[u] # "none"  BY <1>2, <1>4 DEF RequestsAreNew
<1> QED  BY <1>5, <1>6, <1>7

\* It is refused, or lost.
LEMMA RegistryRefuse ==
  ASSUME TypeOK, Registry, NEW u \in Users,
         RequestUnknown(u) \/ RequestFull(u) \/ MasterCreateFailed(u)
  PROVE  Registry'
<1> USE DEF Registry, masters, users, files
<1>1. /\ Take(u)
      /\ UNCHANGED <<slot, pc, current, state, place, index, keepalive_cnt, api, bound,
                      orphaned>>
  BY DEF RequestUnknown, RequestFull, MasterCreateFailed
<1>2. RequestsAreNew'  BY <1>1, RequestTaken DEF RequestsAreNew
<1>3. MadeInOrder' /\ SlotOfCurrent'  BY <1>1 DEF MadeInOrder, SlotOfCurrent
<1>4. SlotOfThread' /\ SlotIsLive' /\ PathIsOwn'
  BY <1>1 DEF SlotOfThread, SlotIsLive, PathIsOwn
<1> QED  BY <1>2, <1>3, <1>4

\* A diag master is made: its slot was free, so no thread has its path.
LEMMA RegistryMake ==
  ASSUME TypeOK, Registry, NEW u \in Users, NEW i \in Slots, MasterCreate(u, i)
  PROVE  Registry'
<1> USE DEF Registry, masters, users, files
<1>1. /\ Take(u) /\ pc = "idle" /\ slot[i] = None
      /\ pc' = "created" /\ current' = u
      /\ state' = [state EXCEPT ![u] = "created"]
      /\ place' = [place EXCEPT ![u] = i]
      /\ bound' = [bound EXCEPT ![i] = u]
      /\ UNCHANGED <<slot, index, keepalive_cnt, api, orphaned>>
  BY DEF MasterCreate, IpcCreate, Take, FirstFree, IsFree
<1>2. state[u] = "none" /\ api[u] # "none"  BY <1>1, RequestTaken
<1>3. i # NoSlot /\ u # None  BY DEF Slots, NoSlot, Users, None
<1>4. RequestsAreNew'
  <2>1. \A k \in 1..Len(requests') :
          requests'[k] \in Users \ {u} /\ state[requests'[k]] = "none"
            /\ api[requests'[k]] # "none"
    BY <1>1, RequestTaken
  <2>2. \A j, k \in 1..Len(requests') : requests'[j] = requests'[k] => j = k
    BY <1>1, RequestTaken
  <2>3. \A w \in Users \ {u} : state'[w] = state[w]  BY <1>1 DEF TypeOK
  <2> QED  BY <1>1, <2>1, <2>2, <2>3 DEF RequestsAreNew
<1>5. MadeInOrder'  BY <1>1, <1>2, <1>3 DEF MadeInOrder, TypeOK
<1>6. SlotOfCurrent'  BY <1>1, <1>2, <1>3 DEF MadeInOrder, SlotOfCurrent, TypeOK
<1>7. index[u] = NoSlot  BY <1>2 DEF MadeInOrder
<1>8. SlotOfThread'  BY <1>1, <1>2, <1>7 DEF SlotOfThread, TypeOK
<1>9. SlotIsLive'
  <2>1. \A k \in Slots : slot[k] # u
    BY <1>2, <1>3 DEF SlotIsLive, MadeInOrder, Slots, NoSlot
  <2> QED  BY <1>1, <2>1 DEF SlotIsLive, TypeOK
<1>10. PathIsOwn'
  <2>1. \A w \in Users \ {u} : state[w] \in {"created", "running"} => place[w] # i
    BY <1>1 DEF SlotOfThread, Users, None
  <2> QED  BY <1>1, <2>1 DEF PathIsOwn, MadeInOrder, TypeOK
<1> QED  BY <1>4, <1>5, <1>6, <1>8, <1>9, <1>10

\* The requests that wait are for users without a diag master.
LEMMA RequestsKept ==
  ASSUME TypeOK, RequestsAreNew, UNCHANGED <<requests, api>>,
         \A u \in Users : state[u] = "none" => state'[u] = "none"
  PROVE  RequestsAreNew'
<1>1. \A k \in 1..Len(requests) : requests[k] \in Users  BY ElementOfSeq DEF TypeOK
<1> QED  BY <1>1 DEF RequestsAreNew

\* Its thread is started.
LEMMA RegistryStart ==
  ASSUME TypeOK, Registry, ThreadStart
  PROVE  Registry'
<1> USE DEF Registry, users, files
<1>1. /\ pc = "created" /\ pc' = "started"
      /\ state' = [state EXCEPT ![current] = "running"]
      /\ UNCHANGED <<requests, slot, current, place, index, keepalive_cnt, api, bound,
                      orphaned>>
  BY DEF ThreadStart
<1>2. current \in Users /\ state[current] = "created"
  BY <1>1 DEF SlotOfCurrent, MadeInOrder, TypeOK
<1>3. RequestsAreNew'  BY <1>1, <1>2, RequestsKept DEF TypeOK
<1>4. MadeInOrder'  BY <1>1, <1>2 DEF MadeInOrder, TypeOK
<1>5. SlotOfCurrent'  BY <1>1, <1>2 DEF SlotOfCurrent, TypeOK
<1>6. SlotOfThread'  BY <1>1, <1>2 DEF SlotOfThread, TypeOK
<1>7. SlotIsLive'  BY <1>1, <1>2 DEF SlotIsLive, TypeOK
<1>8. PathIsOwn'  BY <1>1, <1>2 DEF PathIsOwn, TypeOK
<1> QED  BY <1>3, <1>4, <1>5, <1>6, <1>7, <1>8

\* A diag master whose thread ends removes its own path only.
LEMMA PathRemoved ==
  ASSUME TypeOK, PathIsOwn, NEW u \in Users, state[u] \in {"created", "running"},
         Unlinked(u), NEW s, s \notin {"created", "running"},
         state' = [state EXCEPT ![u] = s], place' = place
  PROVE  PathIsOwn'
BY DEF PathIsOwn, Unlinked, TypeOK

\* No thread could be started for it.
LEMMA RegistryNoThread ==
  ASSUME TypeOK, Registry, ThreadFailed
  PROVE  Registry'
<1> USE DEF Registry, users, files
<1>1. /\ pc = "created" /\ pc' = "idle"
      /\ state' = [state EXCEPT ![current] = "freed"]
      /\ Unlinked(current)
      /\ UNCHANGED <<requests, slot, current, place, index, keepalive_cnt, api, orphaned>>
  BY DEF ThreadFailed
<1>2. current \in Users /\ state[current] = "created" /\ current # None
  BY <1>1 DEF SlotOfCurrent, MadeInOrder, TypeOK
<1>3. index[current] = NoSlot /\ slot[place[current]] = None
  BY <1>1 DEF SlotOfCurrent
<1>4. RequestsAreNew'  BY <1>1, <1>2, RequestsKept DEF TypeOK
<1>5. MadeInOrder'  BY <1>1, <1>2 DEF MadeInOrder, TypeOK
<1>6. SlotOfCurrent'  BY <1>1 DEF SlotOfCurrent
<1>7. SlotOfThread'  BY <1>1, <1>2, <1>3 DEF SlotOfThread, TypeOK
<1>8. SlotIsLive'
  <2>1. \A i \in Slots : slot[i] # current  BY <1>2, <1>3 DEF SlotIsLive
  <2> QED  BY <1>1, <1>2, <2>1 DEF SlotIsLive, TypeOK
<1>9. PathIsOwn'  BY <1>1, <1>2, PathRemoved
<1> QED  BY <1>4, <1>5, <1>6, <1>7, <1>8, <1>9

\* Its slot is taken, be its thread running or not.
LEMMA RegistryStore ==
  ASSUME TypeOK, Registry, SlotStore
  PROVE  Registry'
<1> USE DEF Registry, masters, users, files
<1>1. /\ pc = "started" /\ pc' = "stored"
      /\ slot' = [slot EXCEPT ![place[current]] = current]
      /\ UNCHANGED <<requests, current, state, place, index, keepalive_cnt, api, bound,
                      orphaned>>
  BY DEF SlotStore
<1>2. /\ current \in Users /\ current # None /\ place[current] \in Slots
      /\ slot[place[current]] = None
      /\ index[current] = NoSlot /\ (state[current] = "freed" => current \in orphaned)
  BY <1>1 DEF SlotOfCurrent, MadeInOrder, TypeOK
<1>3. RequestsAreNew'  BY <1>1, RequestsKept
<1>4. MadeInOrder'  BY <1>1 DEF MadeInOrder
<1>5. SlotOfCurrent'  BY <1>1, <1>2 DEF SlotOfCurrent, TypeOK
<1>6. SlotOfThread'
  <2>1. ASSUME NEW u \in Users, u # current
        PROVE  /\ state[u] \in {"created", "running"} => slot'[place[u]] = u
               /\ index[u] # NoSlot =>
                    index[u] = place[u] /\ (state[u] # "freed" => slot'[index[u]] = u)
    BY <1>1, <1>2, <2>1 DEF SlotOfThread, TypeOK, Users, None
  <2>2. slot'[place[current]] = current  BY <1>1, <1>2 DEF TypeOK
  <2> QED  BY <1>1, <1>2, <2>1, <2>2 DEF SlotOfThread
<1>7. SlotIsLive'  BY <1>1, <1>2 DEF SlotIsLive, TypeOK
<1>8. PathIsOwn'  BY <1>1 DEF PathIsOwn
<1> QED  BY <1>3, <1>4, <1>5, <1>6, <1>7, <1>8

\* It learns its slot.
LEMMA RegistryRegister ==
  ASSUME TypeOK, Registry, Register
  PROVE  Registry'
<1> USE DEF Registry, users, files
<1>1. /\ pc = "stored" /\ pc' = "registered"
      /\ index' = [index EXCEPT ![current] = place[current]]
      /\ UNCHANGED <<requests, slot, current, state, place, keepalive_cnt, api, bound,
                      orphaned>>
  BY DEF Register
<1>2. /\ current \in Users /\ current # None
      /\ slot[place[current]] = current
      /\ state[current] \notin {"none", "created"}
  BY <1>1 DEF SlotOfCurrent, MadeInOrder, TypeOK
<1>3. RequestsAreNew'  BY <1>1, RequestsKept
<1>4. MadeInOrder'  BY <1>1, <1>2 DEF MadeInOrder, TypeOK
<1>5. SlotOfCurrent'  BY <1>1, <1>2 DEF SlotOfCurrent
<1>6. SlotOfThread'  BY <1>1, <1>2 DEF SlotOfThread, TypeOK
<1>7. SlotIsLive' /\ PathIsOwn'  BY <1>1 DEF SlotIsLive, PathIsOwn
<1> QED  BY <1>3, <1>4, <1>5, <1>6, <1>7

\* DMS turns to the next request.
LEMMA RegistryDone ==
  ASSUME TypeOK, Registry, RequestDone
  PROVE  Registry'
<1> USE DEF Registry, masters, users, files
<1>1. /\ pc = "registered" /\ pc' = "idle"
      /\ UNCHANGED <<requests, slot, current, state, place, index, keepalive_cnt, api,
                      bound, orphaned>>
  BY DEF RequestDone
<1>2. RequestsAreNew'  BY <1>1, RequestsKept
<1>3. MadeInOrder' /\ SlotOfCurrent' /\ SlotOfThread'
  BY <1>1 DEF MadeInOrder, SlotOfCurrent, SlotOfThread
<1>4. SlotIsLive' /\ PathIsOwn'  BY <1>1 DEF SlotIsLive, PathIsOwn
<1> QED  BY <1>2, <1>3, <1>4

\* The thread of a diag master ends, wherever DMS is with its request.
LEMMA RegistryClose ==
  ASSUME TypeOK, Registry, NEW u \in Users, Close(u)
  PROVE  Registry'
<1> USE DEF Registry, dms, users
<1>1. /\ state[u] = "running"
      /\ state' = [state EXCEPT ![u] = "closed"]
      /\ Unlinked(u)
      /\ UNCHANGED <<requests, slot, pc, current, place, index, keepalive_cnt, api,
                      orphaned>>
  BY DEF Close
<1>2. RequestsAreNew'  BY <1>1, RequestsKept DEF TypeOK
<1>3. MadeInOrder'  BY <1>1 DEF MadeInOrder, TypeOK
<1>4. SlotOfCurrent'  BY <1>1 DEF SlotOfCurrent, TypeOK
<1>5. SlotOfThread'  BY <1>1 DEF SlotOfThread, TypeOK
<1>6. SlotIsLive'  BY <1>1 DEF SlotIsLive, TypeOK
<1>7. PathIsOwn'  BY <1>1, PathRemoved
<1> QED  BY <1>2, <1>3, <1>4, <1>5, <1>6, <1>7

\* It clears its slot, and is freed.
LEMMA RegistryClear ==
  ASSUME TypeOK, Registry, NEW u \in Users, SlotClear(u)
  PROVE  Registry'
<1> USE DEF Registry, users, files
<1>1. /\ state[u] = "closed"
      /\ state' = [state EXCEPT ![u] = "freed"]
      /\ UNCHANGED <<requests, pc, current, place, index, keepalive_cnt, api, bound>>
  BY DEF SlotClear
<1>2. RequestsAreNew'  BY <1>1, RequestsKept DEF TypeOK
<1>3. MadeInOrder'  BY <1>1 DEF MadeInOrder, TypeOK
<1>4. PathIsOwn'  BY <1>1 DEF PathIsOwn, TypeOK
<1>5. CASE index[u] # NoSlot
  <2>1. /\ slot' = [slot EXCEPT ![index[u]] = None] /\ UNCHANGED orphaned
        /\ index[u] = place[u] /\ index[u] \in Slots /\ slot[index[u]] = u
    BY <1>1, <1>5 DEF SlotClear, SlotOfThread, TypeOK
  <2>2. u \in Users /\ u # None  BY DEF Users, None
  <2>3. SlotOfCurrent'
    BY <1>1, <1>5, <2>1, <2>2 DEF SlotOfCurrent, TypeOK
  <2>4. SlotOfThread'
    <3>1. ASSUME NEW w \in Users, w # u
          PROVE  /\ state[w] \in {"created", "running"} =>
                      slot'[place[w]] = w \/ (w = current /\ pc \in {"created", "started"})
                 /\ index[w] # NoSlot =>
                      index[w] = place[w] /\ (state[w] # "freed" => slot'[index[w]] = w)
      BY <2>1, <3>1 DEF SlotOfThread, TypeOK
    <3> QED  BY <1>1, <2>1, <3>1 DEF SlotOfThread, TypeOK
  <2>5. SlotIsLive'  BY <1>1, <2>1 DEF SlotIsLive, TypeOK
  <2> QED  BY <1>2, <1>3, <1>4, <2>3, <2>4, <2>5
<1>6. CASE index[u] = NoSlot
  <2>1. orphaned' = orphaned \cup {u} /\ UNCHANGED slot
    BY <1>6 DEF SlotClear
  <2>2. SlotOfCurrent'  BY <1>1, <2>1 DEF SlotOfCurrent, TypeOK
  <2>3. SlotOfThread'  BY <1>1, <1>6, <2>1 DEF SlotOfThread, TypeOK
  <2>4. SlotIsLive'  BY <1>1, <2>1 DEF SlotIsLive, TypeOK
  <2> QED  BY <1>2, <1>3, <1>4, <2>2, <2>3, <2>4
<1> QED  BY <1>5, <1>6

\* What the rest of the steps does not touch.
LEMMA RegistryQuiet ==
  ASSUME TypeOK,
         \/ UNCHANGED vars
         \/ \E u \in Users :
              \/ CreateFailed(u) \/ Connected(u) \/ ConnectFailed(u) \/ Receive(u)
              \/ Command(u) \/ Destory(u) \/ Crash(u)
              \/ Read(u) \/ Keepalive(u) \/ Rest(u)
  PROVE  /\ UNCHANGED <<requests, slot, pc, current, state, place, index, bound, orphaned>>
         /\ \A u \in Users : api[u] # "none" => api'[u] # "none"
         /\ \A u \in Users : api'[u] = "none" => api[u] = "none"
         /\ \A u \in Users : state[u] # "running" => keepalive_cnt'[u] = keepalive_cnt[u]
<1> USE DEF dms, masters, users, files, vars
<1>1. CASE UNCHANGED vars  BY <1>1
<1>2. ASSUME NEW u \in Users,
             \/ CreateFailed(u) \/ Connected(u) \/ ConnectFailed(u) \/ Receive(u)
             \/ Command(u) \/ Destory(u) \/ Crash(u)
      PROVE  /\ UNCHANGED <<requests, slot, pc, current, state, place, index, bound, orphaned,
                             keepalive_cnt>>
             /\ \/ UNCHANGED api
                \/ \E a \in {"connected", "gone"} : api' = [api EXCEPT ![u] = a]
  BY <1>2 DEF CreateFailed, Connected, ConnectFailed, Receive, Command, Destory, Crash, Leave
<1>3. ASSUME NEW u \in Users, Read(u) \/ Keepalive(u) \/ Rest(u)
      PROVE  /\ UNCHANGED <<requests, slot, pc, current, state, place, index, bound, orphaned,
                             api>>
             /\ state[u] = "running"
             /\ \/ UNCHANGED keepalive_cnt
                \/ \E n : keepalive_cnt' = [keepalive_cnt EXCEPT ![u] = n]
  BY <1>3 DEF Read, KeepaliveRefresh, Keepalive, Rest
<1> QED  BY <1>1, <1>2, <1>3 DEF TypeOK

\* Every step keeps the registry.
LEMMA RegistryStep ==
  ASSUME TypeOK, Registry, [Next]_vars
  PROVE  Registry'
<1>1. CASE \E u \in Users : Create(u)  BY <1>1, RegistryCreate
<1>2. CASE \E u \in Users : \/ RequestUnknown(u) \/ RequestFull(u) \/ MasterCreateFailed(u)
                           \/ \E i \in Slots : MasterCreate(u, i)
  BY <1>2, RegistryRefuse, RegistryMake
<1>3. CASE ThreadStart \/ ThreadFailed \/ SlotStore \/ Register \/ RequestDone
  BY <1>3, RegistryStart, RegistryNoThread, RegistryStore, RegistryRegister, RegistryDone
<1>4. CASE \E u \in Users : Close(u) \/ SlotClear(u)
  BY <1>4, RegistryClose, RegistryClear
<1>5. CASE \/ UNCHANGED vars
           \/ \E u \in Users :
                \/ CreateFailed(u) \/ Connected(u) \/ ConnectFailed(u) \/ Receive(u)
                \/ Command(u) \/ Destory(u) \/ Crash(u)
                \/ Read(u) \/ Keepalive(u) \/ Rest(u)
  BY <1>5, RegistryQuiet, RegistryFrame
<1> QED  BY <1>1, <1>2, <1>3, <1>4, <1>5, NextCases

\* The registry is empty.
LEMMA RegistryInit == Init => Registry
<1> SUFFICES ASSUME Init  PROVE  Registry  OBVIOUS
<1>1. RequestsAreNew
  <2>1. Len(requests) = 0  BY DEF Init
  <2> QED  BY <2>1 DEF RequestsAreNew
<1>2. MadeInOrder  BY DEF Init, MadeInOrder
<1>3. SlotOfCurrent /\ SlotOfThread  BY DEF Init, SlotOfCurrent, SlotOfThread
<1>4. SlotIsLive /\ PathIsOwn  BY DEF Init, SlotIsLive, PathIsOwn
<1> QED  BY <1>1, <1>2, <1>3, <1>4 DEF Registry

\* The slots, the users and the threads agree on who holds which slot (dms_master_creat).
THEOREM RegistryCorrect == Spec => []RegistryInv
<1>1. Init => RegistryInv
  BY InitOK, RegistryInit DEF RegistryInv, Registry
<1>2. RegistryInv /\ [Next]_vars => RegistryInv'
  BY TypeStep, CountStep, RegistryStep DEF RegistryInv, Registry
<1> QED  BY <1>1, <1>2, PTL DEF Spec

\* However the threads of DMS and of diag masters that come and go interleave, a slot
\* holds a diag master that was not freed, unless it ended before it knew its slot.
THEOREM SlotsAreLive == Spec => []SlotIsLive
<1>1. RegistryInv => SlotIsLive  BY DEF RegistryInv, Registry
<1> QED  BY <1>1, RegistryCorrect, PTL

\* As long as its thread runs, the path of a diag master leads to it and to no other.
THEOREM PathsAreOwn == Spec => []PathIsOwn
<1>1. RegistryInv => PathIsOwn  BY DEF RegistryInv, Registry
<1> QED  BY <1>1, RegistryCorrect, PTL

-----------------------------------------------------------------------------
(***************************************************************************)
(* Datagrams: whose they are                                               *)
(***************************************************************************)

\* A diag master moves forward: it keeps its place, and what has ended has ended.
LEMMA StateMoves ==
  ASSUME TypeOK, Registry, [Next]_vars, NEW u \in Users
  PROVE  /\ Started(u) => Started(u)' /\ place'[u] = place[u]
         /\ state[u] \in {"closed", "freed"} => state'[u] \in {"closed", "freed"}
<1> USE DEF Registry, dms, masters, users, files, vars, Started
<1>1. CASE \E w \in Users, i \in Slots : MasterCreate(w, i)
  <2>1. PICK w \in Users, i \in Slots : MasterCreate(w, i)  BY <1>1
  <2>2. /\ Take(w)
        /\ state' = [state EXCEPT ![w] = "created"]
        /\ place' = [place EXCEPT ![w] = i]
    BY <2>1 DEF MasterCreate
  <2>3. state[w] = "none"  BY <2>2, RequestTaken
  <2> QED  BY <2>2, <2>3 DEF TypeOK
<1>2. CASE ThreadStart \/ ThreadFailed
  <2>1. /\ UNCHANGED place
        /\ \E s \in {"running", "freed"} : state' = [state EXCEPT ![current] = s]
    BY <1>2 DEF ThreadStart, ThreadFailed
  <2>2. current \in Users /\ state[current] = "created"
    BY <1>2 DEF ThreadStart, ThreadFailed, SlotOfCurrent, MadeInOrder, TypeOK
  <2> QED  BY <2>1, <2>2 DEF TypeOK
<1>3. CASE \E w \in Users : Close(w) \/ SlotClear(w)
  BY <1>3 DEF Close, SlotClear, TypeOK
<1>4. CASE UNCHANGED <<state, place>>  BY <1>4
<1> QED
  BY <1>1, <1>2, <1>3, <1>4, NextCases
     DEF Create, CreateFailed, Leave, Connected, ConnectFailed, Receive, Command, Destory,
         Crash, RequestUnknown, RequestFull, MasterCreateFailed, SlotStore, Register,
         RequestDone, Read, Keepalive, Rest

\* A datagram is put into the socket of a user.
Notified(u, m) ==
  /\ api[u] \in {"waiting", "connected"}
  /\ path[u]
  /\ received' = [received EXCEPT ![u] = Put(@, m)]

\* What may happen to the sockets of users.
LEMMA ReceivedMoves ==
  ASSUME TypeOK, [Next]_vars
  PROVE  \/ UNCHANGED received
         \/ \E u \in Users : received' = [received EXCEPT ![u] = <<>>] /\ api'[u] = "gone"
         \/ \E u \in Users : (Connected(u) \/ Receive(u))
                             /\ received[u] # <<>>
                             /\ received' = [received EXCEPT ![u] = Tail(@)]
         \/ \E u \in Users : Keepalive(u) /\ Notified(u, Heartbeat)
         \/ \E u \in Users : /\ RequestFull(u) \/ MasterCreateFailed(u)
                             /\ \E recode \in {"diag_master_max", "diag_master_create"} :
                                  Notified(u, ConnectReply(recode, NoSlot))
         \/ RequestDone /\ current \in Users
              /\ Notified(current, ConnectReply("no", place[current]))
<1> USE DEF dms, masters, users, files, vars, Notify, Notified
<1>1. ASSUME NEW u \in Users, NEW m, Notify(u, m), ~UNCHANGED received
      PROVE  Notified(u, m)
  BY <1>1 DEF TypeOK
<1>2. CASE \E u \in Users : CreateFailed(u) \/ ConnectFailed(u) \/ Destory(u) \/ Crash(u)
  BY <1>2 DEF CreateFailed, ConnectFailed, Destory, Crash, Leave, TypeOK
<1>3. CASE \E u \in Users : Connected(u) \/ Receive(u)
  BY <1>3 DEF Connected, Accepted, Receive
<1>4. CASE \E u \in Users : Keepalive(u)
  BY <1>4, <1>1 DEF Keepalive
<1>5. CASE \E u \in Users : RequestFull(u) \/ MasterCreateFailed(u)
  BY <1>5, <1>1 DEF RequestFull, MasterCreateFailed
<1>6. CASE RequestDone
  <2>1. CASE current \in Users  BY <1>1, <1>6, <2>1 DEF RequestDone
  <2>2. CASE current \notin Users  BY <1>6, <2>2 DEF RequestDone, TypeOK
  <2> QED  BY <2>1, <2>2
<1>7. CASE UNCHANGED received  BY <1>7
<1> QED
  BY <1>2, <1>3, <1>4, <1>5, <1>6, <1>7, NextCases
     DEF Create, Command, RequestUnknown, MasterCreate, ThreadStart, ThreadFailed,
         SlotStore, Register, Read, Rest, Close, SlotClear

\* A notice that this step sends to a user.
Sent(u, m) ==
  \/ Keepalive(u) /\ m = Heartbeat
  \/ /\ RequestFull(u) \/ MasterCreateFailed(u)
     /\ \E recode \in {"diag_master_max", "diag_master_create"} :
          m = ConnectReply(recode, NoSlot)
  \/ RequestDone /\ current = u /\ m = ConnectReply("no", place[u])

\* What may happen to the socket of a user.
LEMMA NoticesMove ==
  ASSUME TypeOK, [Next]_vars, NEW u \in Users
  PROVE  \/ received'[u] = received[u]
         \/ received'[u] = <<>> /\ api'[u] = "gone"
         \/ /\ Connected(u) \/ Receive(u)
            /\ received[u] # <<>> /\ received'[u] = Tail(received[u])
         \/ /\ Len(received'[u]) = Len(received[u]) + 1
            /\ \A n \in 1..Len(received[u]) : received'[u][n] = received[u][n]
            /\ Sent(u, received'[u][Len(received[u]) + 1])
            /\ api[u] \in {"waiting", "connected"}
<1> DEFINE Comes == /\ Len(received'[u]) = Len(received[u]) + 1
                    /\ \A n \in 1..Len(received[u]) : received'[u][n] = received[u][n]
                    /\ Sent(u, received'[u][Len(received[u]) + 1])
                    /\ api[u] \in {"waiting", "connected"}
<1>1. received \in [Users -> Seq(Notice)] /\ Len(received[u]) \in Nat
  BY LenProperties DEF TypeOK
<1>2. ASSUME NEW m \in Notice, received'[u] = Put(received[u], m), Sent(u, m),
             api[u] \in {"waiting", "connected"}
      PROVE  received'[u] = received[u] \/ Comes
  <2>1. CASE received'[u] = Append(received[u], m)
    <3>1. PICK r : r = Append(received[u], m)  OBVIOUS
    <3>2. /\ Len(r) = Len(received[u]) + 1
          /\ \A n \in 1..Len(received[u]) : r[n] = received[u][n]
          /\ r[Len(received[u]) + 1] = m
      BY <1>1, <3>1, AppendProperties
    <3> QED  BY <1>2, <2>1, <3>1, <3>2
  <2>2. CASE received'[u] = received[u]  BY <2>2
  <2> QED  BY <1>2, <2>1, <2>2 DEF Put
<1>3. ASSUME NEW w \in Users, NEW m \in Notice, Notified(w, m), w = u => Sent(u, m)
      PROVE  received'[u] = received[u] \/ Comes
  <2>1. CASE w = u
    <3>1. received'[u] = Put(received[u], m) /\ api[u] \in {"waiting", "connected"}
      BY <1>1, <1>3, <2>1 DEF Notified
    <3> HIDE DEF Comes
    <3> QED  BY <1>2, <1>3, <2>1, <3>1
  <2>2. CASE w # u  BY <1>1, <1>3, <2>2 DEF Notified
  <2> QED  BY <2>1, <2>2
<1> HIDE DEF Comes
<1>4. CASE \E w \in Users : Keepalive(w) /\ Notified(w, Heartbeat)
  BY <1>3, <1>4, NoticeOK DEF Sent, Comes
<1>5. CASE \E w \in Users : /\ RequestFull(w) \/ MasterCreateFailed(w)
                            /\ \E recode \in {"diag_master_max", "diag_master_create"} :
                                 Notified(w, ConnectReply(recode, NoSlot))
  <2>1. PICK w \in Users, recode \in {"diag_master_max", "diag_master_create"} :
          /\ RequestFull(w) \/ MasterCreateFailed(w)
          /\ Notified(w, ConnectReply(recode, NoSlot))
    BY <1>5
  <2>2. ConnectReply(recode, NoSlot) \in Notice  BY NoticeOK
  <2>3. w = u => Sent(u, ConnectReply(recode, NoSlot))  BY <2>1 DEF Sent
  <2> QED  BY <1>3, <2>1, <2>2, <2>3 DEF Comes
<1>6. CASE /\ RequestDone /\ current \in Users
           /\ Notified(current, ConnectReply("no", place[current]))
  <2>1. ConnectReply("no", place[current]) \in Notice  BY <1>6, NoticeOK DEF TypeOK
  <2>2. current = u => Sent(u, ConnectReply("no", place[current]))  BY <1>6 DEF Sent
  <2> QED  BY <1>3, <1>6, <2>1, <2>2 DEF Comes
<1>7. CASE \E w \in Users : received' = [received EXCEPT ![w] = <<>>] /\ api'[w] = "gone"
  BY <1>1, <1>7
<1>8. CASE \E w \in Users : /\ Connected(w) \/ Receive(w)
                            /\ received[w] # <<>>
                            /\ received' = [received EXCEPT ![w] = Tail(@)]
  BY <1>1, <1>8
<1> QED  BY <1>4, <1>5, <1>6, <1>7, <1>8, ReceivedMoves

\* What a user has in its socket after a step it had before, in the same order, or
\* it was just sent.
LEMMA NoticesStay ==
  ASSUME TypeOK, [Next]_vars, NEW u \in Users
  PROVE  \/ \E d \in {0, 1} : \A n \in 1..Len(received'[u]) :
               n + d \in 1..Len(received[u]) /\ received'[u][n] = received[u][n + d]
         \/ /\ Len(received'[u]) = Len(received[u]) + 1
            /\ \A n \in 1..Len(received[u]) : received'[u][n] = received[u][n]
            /\ Sent(u, received'[u][Len(received[u]) + 1])
            /\ api[u] \in {"waiting", "connected"}
<1> DEFINE Stays(d) == \A n \in 1..Len(received'[u]) :
             n + d \in 1..Len(received[u]) /\ received'[u][n] = received[u][n + d]
<1>1. received[u] \in Seq(Notice) /\ Len(received[u]) \in Nat
  BY LenProperties DEF TypeOK
<1>2. CASE received'[u] = received[u]
  <2>1. Stays(0)  BY <1>1, <1>2
  <2> QED  BY <2>1
<1>3. CASE received'[u] = <<>>
  <2>1. Stays(0)  BY <1>3
  <2> QED  BY <2>1
<1>4. CASE received[u] # <<>> /\ received'[u] = Tail(received[u])
  <2>1. Stays(1)  BY <1>1, <1>4, TailOK
  <2> QED  BY <2>1
<1> QED  BY <1>2, <1>3, <1>4, NoticesMove

\* A notice moves from the queue of the main thread to the inbox of its user.
LEMMA NoticeMoves ==
  ASSUME TypeOK, [Next]_vars, NEW u \in Users, NEW n \in 1..Len(received'[u])
  PROVE  \/ \E k \in 1..Len(received[u]) : received'[u][n] = received[u][k]
         \/ Sent(u, received'[u][n])
<1>1. Len(received[u]) \in Nat  BY LenProperties DEF TypeOK
<1>2. CASE \E d \in {0, 1} : n + d \in 1..Len(received[u])
                            /\ received'[u][n] = received[u][n + d]
  BY <1>2
<1>3. CASE /\ Len(received'[u]) = Len(received[u]) + 1
           /\ \A k \in 1..Len(received[u]) : received'[u][k] = received[u][k]
           /\ Sent(u, received'[u][Len(received[u]) + 1])
  <2>1. n \in 1..Len(received[u]) \/ n = Len(received[u]) + 1  BY <1>1, <1>3
  <2> QED  BY <1>3, <2>1
<1> QED  BY <1>2, <1>3, NoticesStay

\* What may happen to the API of a user.
LEMMA ApiMoves ==
  ASSUME TypeOK, [Next]_vars, NEW u \in Users
  PROVE  \/ api'[u] = api[u] /\ target'[u] = target[u] /\ ~Create(u) /\ ~Connected(u)
         \/ /\ Create(u) /\ api[u] = "none" /\ api'[u] = "waiting"
            /\ target'[u] = target[u] /\ received'[u] = received[u]
         \/ Connected(u) /\ api'[u] = "connected"
         \/ api'[u] = "gone" /\ target'[u] = target[u] /\ received'[u] = <<>>
<1> USE DEF TypeOK, dms, masters, users, files, vars
<1>1. ASSUME NEW w \in Users, Create(w)
      PROVE  /\ api[w] = "none" /\ api' = [api EXCEPT ![w] = "waiting"]
             /\ UNCHANGED <<target, received>>
  BY <1>1 DEF Create, IsNext
<1>2. ASSUME NEW w \in Users, Connected(w)
      PROVE  /\ api[w] = "waiting" /\ api' = [api EXCEPT ![w] = "connected"]
             /\ \E i : target' = [target EXCEPT ![w] = i]
  BY <1>2 DEF Connected
<1>3. ASSUME NEW w \in Users,
             CreateFailed(w) \/ ConnectFailed(w) \/ Destory(w) \/ Crash(w)
      PROVE  /\ api' = [api EXCEPT ![w] = "gone"] /\ UNCHANGED target
             /\ received' = [received EXCEPT ![w] = <<>>]
  BY <1>3 DEF CreateFailed, ConnectFailed, Destory, Crash, Leave
<1>4. \/ \E w \in Users : \/ Create(w) \/ Connected(w) \/ CreateFailed(w)
                          \/ ConnectFailed(w) \/ Destory(w) \/ Crash(w)
      \/ UNCHANGED <<api, target>>
  BY NextCases
     DEF Receive, Command, RequestUnknown, RequestFull, MasterCreateFailed, MasterCreate,
         ThreadStart, ThreadFailed, SlotStore, Register, RequestDone, Read, Keepalive, Rest,
         Close, SlotClear
<1>5. CASE UNCHANGED <<api, target>>  BY <1>1, <1>2, <1>5
<1>6. CASE \E w \in Users : \/ Create(w) \/ Connected(w) \/ CreateFailed(w)
                            \/ ConnectFailed(w) \/ Destory(w) \/ Crash(w)
  <2>1. PICK w \in Users : \/ Create(w) \/ Connected(w) \/ CreateFailed(w)
                           \/ ConnectFailed(w) \/ Destory(w) \/ Crash(w)
    BY <1>6
  <2>2. CASE w = u  BY <1>1, <1>2, <1>3, <2>1, <2>2
  <2>3. CASE w # u
    <3>1. api'[u] = api[u] /\ target'[u] = target[u]  BY <1>1, <1>2, <1>3, <2>1, <2>3
    <3> QED  BY <1>1, <1>2, <3>1
  <2> QED  BY <2>2, <2>3
<1> QED  BY <1>4, <1>5, <1>6

\* A user is told its own path only, and sends to it.
LEMMA ToldStep ==
  ASSUME TypeOK, Registry, ToldOwnPath, [Next]_vars
  PROVE  ToldOwnPath'
<1> SUFFICES ASSUME NEW u \in Users
             PROVE  /\ \A n \in 1..Len(received'[u]) :
                         received'[u][n].cmd = "connect" /\ received'[u][n].recode = "no"
                           => Started(u)' /\ received'[u][n].slot = place'[u]
                    /\ api'[u] = "connected" => Started(u)' /\ target'[u] = place'[u]
  BY DEF ToldOwnPath
<1>1. Started(u) => Started(u)' /\ place'[u] = place[u]  BY StateMoves
<1>2. ASSUME NEW m, Sent(u, m), m.cmd = "connect", m.recode = "no"
      PROVE  Started(u) /\ m.slot = place[u]
  <2>1. RequestDone /\ current = u /\ m = ConnectReply("no", place[u])
    BY <1>2, NoticeOK DEF Sent
  <2>2. Started(u)
    BY <2>1 DEF RequestDone, Registry, SlotOfCurrent, MadeInOrder, Started
  <2> QED  BY <2>1, <2>2, NoticeOK DEF TypeOK
<1>3. ASSUME NEW n \in 1..Len(received'[u]),
             received'[u][n].cmd = "connect", received'[u][n].recode = "no"
      PROVE  Started(u) /\ received'[u][n].slot = place[u]
  <2>1. \/ \E k \in 1..Len(received[u]) : received'[u][n] = received[u][k]
        \/ Sent(u, received'[u][n])
    BY NoticeMoves
  <2> QED  BY <1>2, <1>3, <2>1 DEF ToldOwnPath
<1>4. CASE Connected(u)
  <2>1. /\ received[u] \in Seq(Notice) /\ received[u] # <<>>
        /\ Head(received[u]).cmd = "connect" /\ Head(received[u]).recode = "no"
        /\ target' = [target EXCEPT ![u] = Head(received[u]).slot]
    BY <1>4 DEF Connected, Accepted, TypeOK
  <2>2. Head(received[u]) = received[u][1] /\ 1 \in 1..Len(received[u])
    BY <2>1, TailOK
  <2>3. Started(u) /\ Head(received[u]).slot = place[u]  BY <2>1, <2>2 DEF ToldOwnPath
  <2> QED  BY <1>1, <1>3, <2>1, <2>3 DEF TypeOK
<1>5. CASE ~Connected(u)
  <2>1. (api'[u] = "connected" => api[u] = "connected") /\ target'[u] = target[u]
    BY <1>5, ApiMoves
  <2> QED  BY <1>1, <1>3, <2>1 DEF ToldOwnPath
<1> QED  BY <1>4, <1>5

\* What a diag master has in its socket it had before, or was just sent by a user.
LEMMA DatagramMoves ==
  ASSUME TypeOK, [Next]_vars, NEW u \in Users, NEW n \in 1..Len(inbox'[u])
  PROVE  \/ \E k \in 1..Len(inbox[u]) : inbox'[u][n] = inbox[u][k]
         \/ \E w \in Users : /\ api[w] = "connected" /\ bound[target[w]] = u
                             /\ inbox'[u][n].from = w
<1> USE DEF dms, masters, users, files, vars
<1>1. inbox \in [Users -> Seq(Datagram)] /\ Len(inbox[u]) \in Nat
  BY LenProperties DEF TypeOK
<1>2. CASE inbox'[u] = inbox[u]  BY <1>2
<1>3. CASE inbox'[u] = <<>>  BY <1>3
<1>4. CASE inbox[u] # <<>> /\ inbox'[u] = Tail(inbox[u])
  <2>1. n + 1 \in 1..Len(inbox[u]) /\ inbox'[u][n] = inbox[u][n + 1]
    BY <1>1, <1>4, TailOK
  <2> QED  BY <2>1
<1>5. ASSUME NEW w \in Users, NEW cmd \in {"keepalive", "command"},
             api[w] = "connected", SendTo(target[w], [from |-> w, cmd |-> cmd])
      PROVE  \/ \E k \in 1..Len(inbox[u]) : inbox'[u][n] = inbox[u][k]
             \/ bound[target[w]] = u /\ inbox'[u][n].from = w
  <2>1. CASE bound[target[w]] # u  BY <1>1, <1>5, <2>1 DEF SendTo
  <2>2. CASE bound[target[w]] = u
    <3>1. PICK m \in Datagram : m = [from |-> w, cmd |-> cmd]  BY DEF Datagram
    <3>2. PICK r : r = Put(inbox[u], m)  OBVIOUS
    <3>3. inbox'[u] = r  BY <1>5, <2>2, <3>1, <3>2 DEF SendTo
    <3>4. /\ Len(r) \in {Len(inbox[u]), Len(inbox[u]) + 1}
          /\ \A k \in 1..Len(inbox[u]) : r[k] = inbox[u][k]
          /\ Len(r) = Len(inbox[u]) + 1 => r[Len(inbox[u]) + 1] = m
      BY <1>1, <3>2, PutIs
    <3>5. n \in 1..Len(inbox[u]) \/ (n = Len(inbox[u]) + 1 /\ Len(r) = Len(inbox[u]) + 1)
      BY <1>1, <3>3, <3>4
    <3> QED  BY <2>2, <3>1, <3>3, <3>4, <3>5
  <2> QED  BY <2>1, <2>2
<1>6. CASE \E w \in Users : Receive(w) \/ Command(w)
  <2>1. PICK w \in Users : Receive(w) \/ Command(w)  BY <1>6
  <2>2. api[w] = "connected"  BY <2>1 DEF Receive, Command
  <2>3. \/ UNCHANGED inbox
        \/ \E cmd \in {"keepalive", "command"} :
             SendTo(target[w], [from |-> w, cmd |-> cmd])
    BY <2>1 DEF Receive, Command
  <2> QED  BY <1>2, <1>5, <2>2, <2>3
<1>7. CASE \E w \in Users : Read(w)
  <2>1. PICK w \in Users : inbox[w] # <<>> /\ inbox' = [inbox EXCEPT ![w] = Tail(@)]
    BY <1>7 DEF Read
  <2> QED  BY <1>1, <1>2, <1>4, <2>1
<1>8. CASE ThreadFailed \/ \E w \in Users : Close(w)
  <2>1. \E w : inbox' = [inbox EXCEPT ![w] = <<>>]
    BY <1>8 DEF ThreadFailed, Close, Unlinked
  <2> QED  BY <1>1, <1>2, <1>3, <2>1
<1>9. CASE UNCHANGED inbox  BY <1>2, <1>9
<1> QED
  BY <1>6, <1>7, <1>8, <1>9, NextCases
     DEF Create, CreateFailed, Connected, ConnectFailed, Leave, Destory, Crash,
         RequestUnknown, RequestFull, MasterCreateFailed, MasterCreate, ThreadStart,
         SlotStore, Register, RequestDone, Keepalive, Rest, SlotClear

\* The path a user sends to leads to its diag master while that runs.
LEMMA SenderStep ==
  ASSUME TypeOK, Registry, ToldOwnPath, SenderIsOwn, [Next]_vars
  PROVE  SenderIsOwn'
<1> SUFFICES ASSUME NEW u \in Users, NEW n \in 1..Len(inbox'[u])
             PROVE  \/ inbox'[u][n].from = u
                    \/ state'[inbox'[u][n].from] \in {"closed", "freed"}
  BY DEF SenderIsOwn
<1>1. ASSUME NEW k \in 1..Len(inbox[u]), inbox'[u][n] = inbox[u][k]
      PROVE  \/ inbox'[u][n].from = u
             \/ state'[inbox'[u][n].from] \in {"closed", "freed"}
  <2>1. inbox[u] \in Seq(Datagram)  BY DEF TypeOK
  <2>2. inbox[u][k] \in Datagram  BY <2>1, ElementOfSeq
  <2>3. inbox[u][k].from \in Users  BY <2>2 DEF Datagram
  <2>4. inbox[u][k].from = u \/ state[inbox[u][k].from] \in {"closed", "freed"}
    BY DEF SenderIsOwn
  <2> QED  BY <1>1, <2>3, <2>4, StateMoves
<1>2. ASSUME NEW w \in Users, api[w] = "connected", bound[target[w]] = u,
             inbox'[u][n].from = w
      PROVE  w = u \/ state'[w] \in {"closed", "freed"}
  <2>1. Started(w) /\ target[w] = place[w]  BY <1>2 DEF ToldOwnPath
  <2>2. CASE state[w] = "running"
    BY <1>2, <2>1, <2>2 DEF Registry, PathIsOwn
  <2>3. CASE state[w] \in {"closed", "freed"}  BY <2>3, StateMoves
  <2> QED  BY <2>1, <2>2, <2>3 DEF Started, TypeOK
<1> QED  BY <1>1, <1>2, DatagramMoves

\* What is in a socket was sent by, and to, the user that holds the slot.
THEOREM DatagramsCorrect == Spec => []DatagramInv
<1>1. Init => DatagramInv
  <2> SUFFICES ASSUME Init  PROVE  DatagramInv  OBVIOUS
  <2>1. \A u \in Users : /\ Len(received[u]) = 0 /\ Len(inbox[u]) = 0
                         /\ api[u] = "none"
    BY DEF Init
  <2>2. ToldOwnPath /\ SenderIsOwn  BY <2>1 DEF ToldOwnPath, SenderIsOwn
  <2> QED  BY <2>2, InitOK, RegistryInit DEF DatagramInv, RegistryInv
<1>2. DatagramInv /\ [Next]_vars => DatagramInv'
  BY TypeStep, CountStep, RegistryStep, ToldStep, SenderStep DEF DatagramInv, RegistryInv
<1> QED  BY <1>1, <1>2, PTL DEF Spec

\* A diag master never receives from a user whose own diag master still runs, though
\* it may have the path that was another's: commands and replies to heartbeats go
\* astray only after their diag master has ended.
THEOREM SendersAreOwn == Spec => []SenderIsOwn
<1>1. DatagramInv => SenderIsOwn  BY DEF DatagramInv
<1> QED  BY <1>1, DatagramsCorrect, PTL

-----------------------------------------------------------------------------
(***************************************************************************)
(* The heartbeat: who answers is not given up                              *)
(***************************************************************************)

\* A request is made by its user only, and answered once.
LEMMA AskingMoves ==
  ASSUME TypeOK, Registry, [Next]_vars, NEW u \in Users
  PROVE  /\ Asking(u)' => Asking(u) \/ Create(u)
         /\ RequestFull(u) \/ MasterCreateFailed(u) \/ (RequestDone /\ current = u)
              => Asking(u) /\ ~Asking(u)'
<1> USE DEF Registry, dms, masters, users, files, vars
<1>1. requests \in Seq(Users) /\ Len(requests) \in Nat  BY LenProperties DEF TypeOK
<1>2. ASSUME NEW w \in Users, Take(w)
      PROVE  /\ pc = "idle" /\ Asking(w)
             /\ \A k \in 1..Len(requests') :
                  requests'[k] # w /\ \E j \in 1..Len(requests) : requests'[k] = requests[j]
  <2>1. requests # <<>> /\ w = Head(requests) /\ requests' = Tail(requests) /\ pc = "idle"
    BY <1>2 DEF Take
  <2>2. \A k \in 1..Len(requests') : requests'[k] \in Users \ {w}  BY <1>2, RequestTaken
  <2>3. /\ w = requests[1] /\ 1 \in 1..Len(requests)
        /\ \A k \in 1..Len(requests') :
             requests'[k] = requests[k + 1] /\ k + 1 \in 1..Len(requests)
    BY <1>1, <2>1, TailOK
  <2> QED  BY <2>1, <2>2, <2>3 DEF Asking
<1>3. CASE \E w \in Users : \/ RequestUnknown(w) \/ RequestFull(w) \/ MasterCreateFailed(w)
                           \/ \E i \in Slots : MasterCreate(w, i)
  <2>1. PICK w \in Users : \/ RequestUnknown(w) \/ RequestFull(w) \/ MasterCreateFailed(w)
                           \/ \E i \in Slots : MasterCreate(w, i)
    BY <1>3
  <2>2. /\ Take(w)
        /\ \/ UNCHANGED <<pc, current>>
           \/ pc' = "created" /\ current' = w /\ \E i \in Slots : MasterCreate(w, i)
    BY <2>1 DEF RequestUnknown, RequestFull, MasterCreateFailed, MasterCreate
  <2>3. Asking(u)' => Asking(u)  BY <1>2, <2>2 DEF Asking
  <2>4. RequestFull(u) \/ MasterCreateFailed(u) => Asking(u) /\ ~Asking(u)'
    BY <1>2 DEF RequestFull, MasterCreateFailed, Asking
  <2>5. ~RequestDone  BY <1>2, <2>2 DEF RequestDone
  <2> QED  BY <2>3, <2>4, <2>5
<1>4. CASE RequestDone
  <2>1. /\ pc = "registered" /\ pc' = "idle" /\ UNCHANGED <<requests, current>>
    BY <1>4 DEF RequestDone
  <2>2. current = u => \A k \in 1..Len(requests) : requests[k] # u
    BY <2>1 DEF SlotOfCurrent, RequestsAreNew
  <2>3. ~RequestFull(u) /\ ~MasterCreateFailed(u)
    BY <2>1 DEF RequestFull, MasterCreateFailed, Take
  <2> QED  BY <2>1, <2>2, <2>3 DEF Asking
<1>5. CASE ThreadStart \/ ThreadFailed \/ SlotStore \/ Register
  <2>1. /\ pc \in {"created", "started", "stored"} /\ UNCHANGED <<requests, current>>
    BY <1>5 DEF ThreadStart, ThreadFailed, SlotStore, Register
  <2>2. ~RequestFull(u) /\ ~MasterCreateFailed(u) /\ ~RequestDone
    BY <2>1 DEF RequestFull, MasterCreateFailed, Take, RequestDone
  <2> QED  BY <2>1, <2>2 DEF Asking
<1>6. CASE \E w \in Users : Create(w)
  <2>1. PICK w \in Users : Create(w)  BY <1>6
  <2>2. requests' = Append(requests, w) /\ UNCHANGED <<pc, current>>
    BY <2>1 DEF Create
  <2>3. /\ Len(requests') = Len(requests) + 1
        /\ \A k \in 1..Len(requests) : requests'[k] = requests[k]
        /\ requests'[Len(requests) + 1] = w
    BY <1>1, <2>2, AppendProperties
  <2>4. Asking(u)' => Asking(u) \/ u = w
    <3>1. \A k \in 1..Len(requests') : k \in 1..Len(requests) \/ k = Len(requests) + 1
      BY <1>1, <2>3
    <3> QED  BY <2>2, <2>3, <3>1 DEF Asking
  <2>5. ~RequestFull(u) /\ ~MasterCreateFailed(u) /\ ~RequestDone
    <3>1. Len(requests') # Len(requests) /\ requests' # requests  BY <1>1, <2>3
    <3>2. RequestFull(u) \/ MasterCreateFailed(u) => Len(requests') = Len(requests) - 1
      BY <1>1, TailOK DEF RequestFull, MasterCreateFailed, Take
    <3> QED  BY <1>1, <2>3, <3>1, <3>2 DEF RequestDone
  <2> QED  BY <2>1, <2>4, <2>5
<1>7. CASE UNCHANGED <<requests, pc, current>>
  <2>1. ~RequestFull(u) /\ ~MasterCreateFailed(u)
    BY <1>1, <1>2, <1>7, RequestTaken DEF RequestFull, MasterCreateFailed, Asking, Take
  <2>2. ~RequestDone  BY <1>7 DEF RequestDone
  <2> QED  BY <1>7, <2>1, <2>2 DEF Asking
<1> QED
  BY <1>3, <1>4, <1>5, <1>6, <1>7, NextCases
     DEF CreateFailed, Connected, ConnectFailed, Leave, Receive, Command, Destory, Crash,
         Read, Keepalive, Rest, Close, SlotClear

\* A notice that is sent to a user whose request is not waiting is a heartbeat, and
\* with the reply the request is done.
LEMMA ReplyIsAsked ==
  ASSUME TypeOK, Registry, [Next]_vars, NEW u \in Users, NEW m, Sent(u, m),
         m.cmd = "connect"
  PROVE  Asking(u) /\ ~Asking(u)'
BY AskingMoves, NoticeOK DEF Sent

\* Nobody is sent two replies.
LEMMA ReplyStep ==
  ASSUME TypeOK, Registry, ReplyIsSingle, [Next]_vars
  PROVE  ReplyIsSingle'
<1> SUFFICES ASSUME NEW u \in Users
             PROVE  /\ \A j, k \in 1..Len(received'[u]) :
                         received'[u][j].cmd = "connect" /\ received'[u][k].cmd = "connect"
                           => j = k
                    /\ api'[u] = "connected" \/ Asking(u)' =>
                         \A n \in 1..Len(received'[u]) : received'[u][n].cmd # "connect"
                    /\ api'[u] = "connected" => ~Asking(u)'
                    /\ api'[u] = "none" => received'[u] = <<>>
  BY DEF ReplyIsSingle
<1> DEFINE q == received[u]
           r == received'[u]
<1>1. /\ q \in Seq(Notice) /\ Len(q) \in Nat
      /\ \A j, k \in 1..Len(q) : q[j].cmd = "connect" /\ q[k].cmd = "connect" => j = k
      /\ api[u] = "connected" \/ Asking(u) => \A n \in 1..Len(q) : q[n].cmd # "connect"
      /\ api[u] = "connected" => ~Asking(u)
      /\ api[u] = "none" => q = <<>>
  BY LenProperties DEF ReplyIsSingle, TypeOK
<1>2. \/ \E d \in {0, 1} : \A n \in 1..Len(r) : n + d \in 1..Len(q) /\ r[n] = q[n + d]
      \/ /\ Len(r) = Len(q) + 1
         /\ \A n \in 1..Len(q) : r[n] = q[n]
         /\ Sent(u, r[Len(q) + 1])
         /\ api[u] \in {"waiting", "connected"}
  BY NoticesStay
<1>3. Sent(u, r[Len(q) + 1]) /\ r[Len(q) + 1].cmd = "connect" => Asking(u) /\ ~Asking(u)'
  BY ReplyIsAsked
<1>4. /\ Asking(u)' => Asking(u) \/ Create(u)
      /\ Create(u) => q = <<>> /\ r = <<>> /\ api'[u] = "waiting"
  BY <1>1, AskingMoves DEF Create, IsNext, TypeOK, users
<1> HIDE DEF q, r
<1>5. ASSUME NEW j \in 1..Len(r), NEW k \in 1..Len(r), r[j].cmd = "connect", r[k].cmd = "connect"
      PROVE  j = k
  <2>1. CASE \E d \in {0, 1} : \A n \in 1..Len(r) : n + d \in 1..Len(q) /\ r[n] = q[n + d]
    BY <1>1, <1>5, <2>1
  <2>2. CASE /\ Len(r) = Len(q) + 1
             /\ \A n \in 1..Len(q) : r[n] = q[n]
             /\ Sent(u, r[Len(q) + 1])
    <3>1. r[Len(q) + 1].cmd = "connect" => \A n \in 1..Len(q) : r[n].cmd # "connect"
      BY <1>1, <1>3, <2>2
    <3> QED  BY <1>1, <1>5, <2>2, <3>1
  <2> QED  BY <1>2, <2>1, <2>2
<1>6. ASSUME api[u] = "connected" \/ Asking(u),
             r[Len(q) + 1].cmd = "connect" => ~Sent(u, r[Len(q) + 1])
      PROVE  \A n \in 1..Len(r) : r[n].cmd # "connect"
  <2>1. CASE \E d \in {0, 1} : \A n \in 1..Len(r) : n + d \in 1..Len(q) /\ r[n] = q[n + d]
    BY <1>1, <1>6, <2>1
  <2>2. CASE /\ Len(r) = Len(q) + 1
             /\ \A n \in 1..Len(q) : r[n] = q[n]
             /\ Sent(u, r[Len(q) + 1])
    BY <1>1, <1>6, <2>2
  <2> QED  BY <1>2, <2>1, <2>2
<1>7. Asking(u)' => \A n \in 1..Len(r) : r[n].cmd # "connect"
  <2>1. CASE Create(u)
    <3>1. r = <<>>  BY <1>4, <2>1
    <3> QED  BY <3>1
  <2>2. CASE ~Create(u)  BY <1>3, <1>4, <1>6, <2>2
  <2> QED  BY <2>1, <2>2
<1>8. CASE Connected(u)
  <2>1. /\ q # <<>> /\ Head(q).cmd = "connect" /\ r = Tail(q)
        /\ UNCHANGED <<requests, pc, current>> /\ api'[u] = "connected"
    BY <1>8 DEF Connected, Accepted, TypeOK, dms, q, r
  <2>2. /\ q[1].cmd = "connect" /\ 1 \in 1..Len(q)
        /\ \A n \in 1..Len(r) : r[n] = q[n + 1] /\ n + 1 \in 1..Len(q) /\ n + 1 # 1
    BY <1>1, <2>1, TailOK
  <2>3. \A n \in 1..Len(r) : r[n].cmd # "connect"  BY <1>1, <2>2
  <2>4. ~Asking(u)'  BY <1>1, <2>1, <2>2 DEF Asking
  <2> QED  BY <1>5, <2>1, <2>3, <2>4 DEF r
<1>9. CASE ~Connected(u)
  <2>1. /\ api'[u] = "connected" => api[u] = "connected" /\ ~Create(u)
        /\ api'[u] = "none" => api[u] = "none"
    BY <1>9, ApiMoves
  <2>2. api'[u] = "connected" => /\ ~Asking(u)'
                                /\ \A n \in 1..Len(r) : r[n].cmd # "connect"
    BY <1>1, <1>3, <1>4, <1>6, <2>1
  <2>3. api'[u] = "none" => r = <<>>
    <3>1. CASE api'[u] = "none"
      <4>1. api[u] = "none" /\ received[u] = <<>>  BY <1>1, <2>1, <3>1 DEF q
      <4>2. received'[u] = received[u] \/ received'[u] = <<>>  BY <4>1, NoticesMove
      <4> QED  BY <4>1, <4>2 DEF r
    <3> QED  BY <3>1
  <2> QED  BY <1>5, <1>7, <2>2, <2>3 DEF r
<1> QED  BY <1>8, <1>9

\* The path of an API is removed by its user or by its diag master.
LEMMA PathStep ==
  ASSUME TypeOK, Registry, PathIsThere, [Next]_vars
  PROVE  PathIsThere'
<1> USE DEF dms, masters, users, files, vars
<1> SUFFICES ASSUME NEW u \in Users, api'[u] \in {"waiting", "connected"},
                    state'[u] \notin {"closed", "freed"}
             PROVE  path'[u]
  BY DEF PathIsThere
<1>1. CASE Create(u)  BY <1>1 DEF Create, ApiIpcCreate, TypeOK
<1>2. CASE ~Create(u)
  <2>1. path[u]
    <3>1. api[u] \in {"waiting", "connected"}
      BY <1>2, ApiMoves DEF Connected
    <3>2. state[u] \notin {"closed", "freed"}  BY StateMoves
    <3> QED  BY <3>1, <3>2 DEF PathIsThere
  <2>2. CASE \E w \in Users : Create(w) \/ ConnectFailed(w) \/ Destory(w)
    <3>1. PICK w \in Users : Create(w) \/ ConnectFailed(w) \/ Destory(w)  BY <2>2
    <3>2. w # u
      BY <1>2, <3>1 DEF ConnectFailed, Destory, Leave, TypeOK
    <3> QED
      BY <2>1, <3>1, <3>2 DEF Create, ApiIpcCreate, ConnectFailed, Destory, TypeOK
  <2>3. CASE ThreadFailed \/ \E w \in Users : Close(w)
    <3>1. PICK w \in Users : Unlinked(w) /\ state'[w] \in {"closed", "freed"}
      <4>1. CASE ThreadFailed
        <5>1. current \in Users  BY <4>1 DEF ThreadFailed, Registry, SlotOfCurrent, TypeOK
        <5> QED  BY <4>1, <5>1 DEF ThreadFailed, TypeOK
      <4>2. CASE \E w \in Users : Close(w)  BY <4>2 DEF Close, TypeOK
      <4> QED  BY <2>3, <4>1, <4>2
    <3> QED  BY <2>1, <3>1 DEF Unlinked, TypeOK
  <2>4. CASE UNCHANGED path  BY <2>1, <2>4
  <2> QED
    BY <2>2, <2>3, <2>4, NextCases
       DEF CreateFailed, Connected, Receive, Command, Crash, RequestUnknown, RequestFull,
           MasterCreateFailed, MasterCreate, IpcCreate, ThreadStart, SlotStore, Register,
           RequestDone, Read, Keepalive, Rest, SlotClear
<1> QED  BY <1>1, <1>2

\* The socket of a diag master is emptied by its thread only.
LEMMA InboxStays ==
  ASSUME TypeOK, Registry, [Next]_vars, NEW u \in Users, inbox[u] # <<>>
  PROVE  inbox'[u] # <<>> \/ Read(u) \/ state'[u] \in {"closed", "freed"}
<1> USE DEF dms, masters, users, files, vars
<1>1. inbox[u] \in Seq(Datagram)  BY DEF TypeOK
<1>2. ASSUME NEW w \in Users, NEW cmd \in {"keepalive", "command"},
             SendTo(target[w], [from |-> w, cmd |-> cmd])
      PROVE  inbox'[u] # <<>>
  <2>1. [from |-> w, cmd |-> cmd] \in Datagram  BY DEF Datagram
  <2>2. Put(inbox[u], [from |-> w, cmd |-> cmd]) # <<>>  BY <1>1, <2>1, PutOK
  <2> QED  BY <1>2, <2>2 DEF SendTo
<1>3. CASE \E w \in Users : Receive(w) \/ Command(w)
  <2>1. PICK w \in Users : Receive(w) \/ Command(w)  BY <1>3
  <2>2. UNCHANGED inbox \/ \E cmd \in {"keepalive", "command"} :
                           SendTo(target[w], [from |-> w, cmd |-> cmd])
    BY <2>1 DEF Receive, Command
  <2> QED  BY <1>2, <2>2
<1>4. CASE \E w \in Users : Read(w)
  <2>1. PICK w \in Users : Read(w)  BY <1>4
  <2>2. inbox' = [inbox EXCEPT ![w] = Tail(@)]  BY <2>1 DEF Read
  <2>3. w # u => inbox'[u] = inbox[u]  BY <2>2 DEF TypeOK
  <2> QED  BY <2>1, <2>3
<1>5. CASE ThreadFailed
  <2>1. current \in Users  BY <1>5 DEF ThreadFailed, Registry, SlotOfCurrent, TypeOK
  <2> QED  BY <1>5, <2>1 DEF ThreadFailed, Unlinked, TypeOK
<1>6. CASE \E w \in Users : Close(w)  BY <1>6 DEF Close, Unlinked, TypeOK
<1>7. CASE UNCHANGED inbox  BY <1>7
<1> QED
  BY <1>3, <1>4, <1>5, <1>6, <1>7, NextCases
     DEF Create, CreateFailed, Connected, ConnectFailed, Leave, Destory, Crash,
         RequestUnknown, RequestFull, MasterCreateFailed, MasterCreate, ThreadStart,
         SlotStore, Register, RequestDone, Keepalive, Rest, SlotClear

\* The count of a diag master grows with a heartbeat and is reset by a datagram.
LEMMA CountMoves ==
  ASSUME TypeOK, Registry, [Next]_vars, NEW u \in Users,
         state'[u] = "running", keepalive_cnt'[u] > 0, ~Keepalive(u)
  PROVE  state[u] = "running" /\ keepalive_cnt[u] > 0 /\ ~Read(u)
<1> USE DEF dms, masters, users, files, vars
<1>1. ~Read(u)  BY DEF Read, KeepaliveRefresh, TypeOK
<1>2. keepalive_cnt'[u] = keepalive_cnt[u]
  <2>1. CASE \E w \in Users : Read(w) \/ Keepalive(w)
    <3>1. PICK w \in Users : Read(w) \/ Keepalive(w)  BY <2>1
    <3>2. w # u  BY <1>1, <3>1
    <3> QED  BY <3>1, <3>2 DEF TypeOK, Read, KeepaliveRefresh, Keepalive
  <2>2. CASE UNCHANGED keepalive_cnt  BY <2>2
  <2> QED
    BY <2>1, <2>2, NextCases
       DEF Create, CreateFailed, Connected, ConnectFailed, Leave, Receive, Command, Destory,
           Crash, RequestUnknown, RequestFull, MasterCreateFailed, MasterCreate, ThreadStart,
           ThreadFailed, SlotStore, Register, RequestDone, Rest, Close, SlotClear
<1>3. state[u] \notin {"none", "created"}  BY <1>2 DEF Registry, MadeInOrder
<1>4. state[u] \notin {"closed", "freed"}  BY StateMoves
<1> QED  BY <1>1, <1>2, <1>3, <1>4 DEF TypeOK

\* What its user does about a heartbeat that counts.
LEMMA HeartbeatAnswered ==
  ASSUME HeartbeatInv, NEW u \in Users, Receive(u), state[u] = "running"
  PROVE  inbox'[u] # <<>>
<1> USE DEF HeartbeatInv, DatagramInv, RegistryInv, Registry
<1>1. received[u] \in Seq(Notice) /\ received[u] # <<>> /\ api[u] = "connected"
  BY DEF Receive, TypeOK
<1>2. Head(received[u]).cmd = "keepalive"
  <2>1. Head(received[u]) = received[u][1] /\ 1 \in 1..Len(received[u])
        /\ Head(received[u]) \in Notice
    BY <1>1, TailOK
  <2>2. received[u][1].cmd # "connect"  BY <1>1, <2>1 DEF ReplyIsSingle
  <2> QED  BY <2>1, <2>2 DEF Notice
<1>3. bound[target[u]] = u  BY <1>1 DEF ToldOwnPath, PathIsOwn
<1>4. [from |-> u, cmd |-> "keepalive"] \in Datagram  BY DEF Datagram
<1>5. inbox[u] \in Seq(Datagram)  BY DEF TypeOK
<1>6. Put(inbox[u], [from |-> u, cmd |-> "keepalive"]) # <<>>  BY <1>4, <1>5, PutOK
<1> QED  BY <1>2, <1>3, <1>6 DEF Receive, SendTo

\* It is sent, for the path of the user is there.
LEMMA HeartbeatSent ==
  ASSUME HeartbeatInv, QueueMax > 1, NEW u \in Users, Keepalive(u),
         api[u] \in {"waiting", "connected"}
  PROVE  received'[u] # <<>>
         /\ (Len(received'[u]) > 1 \/ received'[u][1].cmd = "keepalive")
<1>1. path[u]
  BY DEF HeartbeatInv, PathIsThere, Keepalive
<1>2. received \in [Users -> Seq(Notice)] /\ Len(received[u]) \in Nat /\ QueueMax \in Nat
  BY DmsAssumption, LenProperties DEF HeartbeatInv, DatagramInv, RegistryInv, TypeOK
<1>3. PICK q \in Seq(Notice) : q = received[u]  BY <1>2
<1>4. PICK r : r = Put(q, Heartbeat)  OBVIOUS
<1>5. received'[u] = r  BY <1>1, <1>2, <1>3, <1>4 DEF Keepalive, Notify
<1>6. r # <<>>  BY <1>4, NoticeOK, PutOK
<1>7. /\ Len(r) \in {Len(q), Len(q) + 1}
      /\ \A n \in 1..Len(q) : r[n] = q[n]
      /\ Len(r) = Len(q) + 1 => r[Len(q) + 1] = Heartbeat
      /\ Len(r) = Len(q) => Len(q) >= QueueMax
  BY <1>4, NoticeOK, PutIs
<1>8. Len(r) > 1 \/ r[1] = Heartbeat
  <2>1. Len(q) \in Nat  BY <1>2, <1>3
  <2>2. CASE Len(r) = Len(q)  BY <1>2, <1>7, <2>1, <2>2
  <2>3. CASE Len(r) = Len(q) + 1 /\ Len(q) = 0  BY <1>7, <2>3
  <2>4. CASE Len(r) = Len(q) + 1 /\ Len(q) # 0  BY <2>1, <2>4
  <2> QED  BY <1>7, <2>2, <2>3, <2>4
<1> QED  BY <1>5, <1>6, <1>8, NoticeOK

\* A heartbeat that counts stays under way until it is answered.
LEMMA HeartbeatStep ==
  ASSUME HeartbeatInv, QueueMax > 1, [Next]_vars
  PROVE  HeartbeatIsUnderWay'
<1> USE DEF HeartbeatInv, DatagramInv, RegistryInv
<1> DEFINE UnderWay(u) ==
             /\ api[u] = "connected" => received[u] # <<>> \/ inbox[u] # <<>>
             /\ api[u] = "waiting" =>
                  received[u] # <<>>
                  /\ (Len(received[u]) > 1 \/ received[u][1].cmd = "keepalive")
<1> SUFFICES ASSUME NEW u \in Users, state'[u] = "running", keepalive_cnt'[u] > 0
             PROVE  UnderWay(u)'
  BY DEF HeartbeatIsUnderWay
<1>1. CASE Keepalive(u)
  <2>1. api'[u] = api[u]  BY <1>1 DEF Keepalive
  <2> QED  BY <1>1, <2>1, HeartbeatSent
<1>2. CASE ~Keepalive(u)
  <2>1. state[u] = "running" /\ keepalive_cnt[u] > 0 /\ ~Read(u)
    BY <1>2, CountMoves
  <2>2. /\ UnderWay(u) /\ api[u] # "none"
    BY <2>1 DEF HeartbeatIsUnderWay, Registry, MadeInOrder
  <2>3. CASE Receive(u)
    <3>1. api'[u] = "connected"  BY <2>3 DEF Receive
    <3> QED  BY <2>1, <2>3, <3>1, HeartbeatAnswered
  <2>4. CASE Connected(u)
    <3>1. /\ received[u] \in Seq(Notice) /\ received[u] # <<>> /\ api[u] = "waiting"
          /\ Head(received[u]).cmd = "connect" /\ received'[u] = Tail(received[u])
          /\ api'[u] = "connected"
      BY <2>4 DEF Connected, Accepted, TypeOK
    <3>2. PICK q \in Seq(Notice) : q = received[u]  BY <3>1
    <3>3. PICK r : r = Tail(q)  OBVIOUS
    <3>4. Head(q) = q[1] /\ Len(q) \in Nat \ {0} /\ Len(r) = Len(q) - 1
      BY <3>1, <3>2, <3>3, TailOK
    <3>5. Len(q) > 1  BY <2>2, <3>1, <3>2, <3>4
    <3>6. r # <<>>  BY <3>4, <3>5
    <3> QED  BY <3>1, <3>2, <3>3, <3>6
  <2>5. CASE ~Receive(u) /\ ~Connected(u)
    <3>1. api'[u] = api[u] \/ api'[u] = "gone"  BY <2>2, <2>5, ApiMoves
    <3>2. \/ received'[u] = received[u] \/ api'[u] = "gone"
          \/ /\ Len(received'[u]) = Len(received[u]) + 1
             /\ \A n \in 1..Len(received[u]) : received'[u][n] = received[u][n]
      BY <2>5, NoticesMove
    <3>3. inbox[u] # <<>> => inbox'[u] # <<>>  BY <2>1, InboxStays
    <3>4. received[u] \in Seq(Notice) /\ Len(received[u]) \in Nat
      BY LenProperties DEF TypeOK
    <3>5. CASE Len(received'[u]) = Len(received[u]) + 1
      <4>1. received'[u] # <<>>  BY <3>4, <3>5
      <4>2. received[u] # <<>> => Len(received'[u]) > 1
        <5>1. received[u] # <<>> => Len(received[u]) # 0  BY <3>4, EmptySeq
        <5> QED  BY <3>4, <3>5, <5>1
      <4> QED  BY <2>2, <3>1, <4>1, <4>2
    <3>6. CASE received'[u] = received[u]  BY <2>2, <3>1, <3>3, <3>6
    <3> QED  BY <3>1, <3>2, <3>5, <3>6
  <2> QED  BY <2>3, <2>4, <2>5
<1> QED  BY <1>1, <1>2

\* A heartbeat that counts lies in a socket, on its way to the user or as an answer on its
\* way back, unless the reply to connect lies before it (the timer handler of keepalive).
THEOREM HeartbeatsCorrect ==
  ASSUME QueueMax > 1
  PROVE  Spec => []HeartbeatInv
<1>1. Init => HeartbeatInv
  <2> SUFFICES ASSUME Init  PROVE  HeartbeatInv  OBVIOUS
  <2>1. \A u \in Users : /\ received[u] = <<>> /\ Len(received[u]) = 0 /\ Len(inbox[u]) = 0
                         /\ api[u] = "none" /\ state[u] = "none"
    BY DEF Init
  <2>2. ToldOwnPath /\ SenderIsOwn /\ ReplyIsSingle /\ PathIsThere /\ HeartbeatIsUnderWay
    BY <2>1 DEF ToldOwnPath, SenderIsOwn, ReplyIsSingle, PathIsThere, HeartbeatIsUnderWay
  <2> QED  BY <2>2, InitOK, RegistryInit DEF HeartbeatInv, DatagramInv, RegistryInv
<1>2. HeartbeatInv /\ [Next]_vars => HeartbeatInv'
  BY TypeStep, CountStep, RegistryStep, ToldStep, SenderStep, ReplyStep, PathStep,
     HeartbeatStep
     DEF HeartbeatInv, DatagramInv, RegistryInv
<1> QED  BY <1>1, <1>2, PTL DEF Spec

\* A user that has read and answered every heartbeat, and whose answers were read, is
\* not given up, whatever the timing of the threads: this takes one heartbeat that may
\* stay unanswered, and room for the reply to connect and a heartbeat in a socket.
THEOREM AnsweringIsHeard ==
  ASSUME KeepaliveMax > 0, QueueMax > 1
  PROVE  Spec => OfflineIsSilent
<1>1. ASSUME HeartbeatInv, [Next]_vars, NEW u \in Users, listening[u], ~listening'[u]
      PROVE  api[u] # "connected" \/ received[u] # <<>> \/ inbox[u] # <<>>
  <2>1. TypeOK  BY <1>1 DEF HeartbeatInv, DatagramInv, RegistryInv
  <2>2. \E w \in Users : Keepalive(w)
    BY <1>1, NextCases
       DEF dms, masters, users, files, vars, Create, CreateFailed, Connected, ConnectFailed,
           Leave, Receive, Command, Destory, Crash, RequestUnknown, RequestFull,
           MasterCreateFailed, MasterCreate, ThreadStart, ThreadFailed, SlotStore, Register,
           RequestDone, Read, Rest, Close, SlotClear
  <2>3. state[u] = "running" /\ keepalive_cnt[u] + 1 > KeepaliveMax
    <3>1. PICK w \in Users : Keepalive(w)  BY <2>2
    <3>2. w = u  BY <1>1, <2>1, <3>1 DEF Keepalive, EvStop, TypeOK
    <3> QED  BY <1>1, <2>1, <3>1, <3>2 DEF Keepalive, TypeOK
  <2>4. keepalive_cnt[u] > 0
    BY <2>1, <2>3, DmsAssumption DEF TypeOK
  <2> QED  BY <1>1, <2>3, <2>4 DEF HeartbeatInv, HeartbeatIsUnderWay
<1>2. HeartbeatInv /\ [Next]_vars =>
        [\A u \in Users : listening[u] /\ ~listening'[u]
           => api[u] # "connected" \/ received[u] # <<>> \/ inbox[u] # <<>>]_vars
  BY <1>1
<1> QED  BY <1>2, HeartbeatsCorrect, PTL DEF Spec, OfflineIsSilent
=============================================================================
