--------------------------- MODULE DmSystemProofs ---------------------------
(***************************************************************************)
(* Theorems about a diag master and its API, for every number of clients,  *)
(* length of lists and capacity of the sockets, and without the bounds of  *)
(* the runs.                                                               *)
(***************************************************************************)
EXTENDS DmSystem, SequenceTheorems, TLAPS

-----------------------------------------------------------------------------
(***************************************************************************)
(* Messages and queues                                                     *)
(***************************************************************************)

\* A queue keeps its type and capacity when something is sent to it.
LEMMA SentOK ==
  ASSUME NEW q \in Seq(Header), Len(q) <= QueueMax, NEW m \in Header
  PROVE  Sent(q, m) \in Seq(Header) /\ Len(Sent(q, m)) <= QueueMax
<1>1. QueueMax \in Nat  BY IpcAssumption
<1>2. Append(q, m) \in Seq(Header) /\ Len(Append(q, m)) = Len(q) + 1
  BY AppendProperties
<1> QED  BY <1>1, <1>2, LenProperties DEF Sent, HasRoom

\* What is received from a queue is a message, and the rest is a queue.
LEMMA ReceivedOK ==
  ASSUME NEW q \in Seq(Header), Len(q) <= QueueMax, q # <<>>
  PROVE  Head(q) \in Header /\ Tail(q) \in Seq(Header) /\ Len(Tail(q)) <= QueueMax
<1>1. QueueMax \in Nat  BY IpcAssumption
<1> QED  BY <1>1, HeadTailProperties, LenProperties

LEMMA ReplyOK ==
  ASSUME NEW m \in Header, NEW recode \in Recodes, NEW id \in Ids
  PROVE  Reply(m, recode, id) \in Header
BY DEF Reply, Header

LEMMA RequestOK ==
  ASSUME NEW cmd \in Commands \cup Notices, NEW recode \in Recodes, NEW id \in Ids,
         NEW tag \in Nat
  PROVE  Request(cmd, recode, id, tag) \in Header
BY DEF Request, Header

LEMMA ConstantsOK ==
  /\ Commands = {"create", "destory", "start", "stop", "reset", "config",
                 "general_config", "sa_key", "doipc_create", "response"}
  /\ 0 \in Ids
  /\ Capacity \in Nat
BY IpcAssumption DEF Commands, Ids

-----------------------------------------------------------------------------
(***************************************************************************)
(* The diag master                                                         *)
(***************************************************************************)

\* A command that is taken is a message, and leaves a queue behind.
LEMMA TakeOK ==
  ASSUME IpcOK, NEW m, Take(m)
  PROVE  /\ m \in Header /\ m.id \in Ids /\ m.tag \in Nat /\ m.cmd \in Commands \cup Notices
         /\ toMaster' \in Seq(Header) /\ Len(toMaster') <= QueueMax
<1>1. m \in Header /\ toMaster' \in Seq(Header) /\ Len(toMaster') <= QueueMax
  BY ReceivedOK DEF IpcOK, Take
<1> QED  BY <1>1 DEF Header

\* The reply to a command fits the socket of the API or is not sent.
LEMMA RepliedOK ==
  ASSUME IpcOK, NEW m \in Header, NEW recode \in Recodes, NEW id \in Ids
  PROVE  /\ Sent(toApi, Reply(m, recode, id)) \in Seq(Header)
         /\ Len(Sent(toApi, Reply(m, recode, id))) <= QueueMax
BY ReplyOK, SentOK DEF IpcOK

\* A step that changes one client keeps the pool well formed, if the client stays
\* active when it has a timer of a run armed, and in use when it is active.
LEMMA ClientStep ==
  ASSUME MasterOK, RunningIsInUse, NEW id \in Ids, NEW u \in Udsc,
         udscs' = [udscs EXCEPT ![id] = u], udsc_cnt' = udsc_cnt,
         u.running => Active(u), Active(u) => id < udsc_cnt /\ ~u.isidle
  PROVE  udscs' \in [Ids -> Udsc] /\ RunningIsInUse'
<1>1. udscs' \in [Ids -> Udsc]  BY DEF MasterOK
<1>2. ASSUME NEW k \in Ids
      PROVE  /\ udscs'[k].running => Active(udscs'[k])
             /\ Active(udscs'[k]) => k < udsc_cnt' /\ ~udscs'[k].isidle
  <2>1. CASE k = id
    <3>1. udscs'[k] = u  BY <2>1 DEF MasterOK
    <3>2. udscs'[k].running => Active(udscs'[k])  BY <3>1
    <3>3. Active(udscs'[k]) => k < udsc_cnt' /\ ~udscs'[k].isidle  BY <2>1, <3>1
    <3> QED  BY <3>2, <3>3
  <2>2. CASE k # id
    <3>1. udscs'[k] = udscs[k]  BY <2>2 DEF MasterOK
    <3> QED  BY <3>1 DEF RunningIsInUse, InUse
  <2> QED  BY <2>1, <2>2
<1> QED  BY <1>1, <1>2 DEF RunningIsInUse, InUse, Active

\* A step that leaves the pool alone.
LEMMA PoolUnchanged ==
  ASSUME MasterOK, RunningIsInUse, UNCHANGED <<udscs, udsc_cnt>>
  PROVE  udscs' \in [Ids -> Udsc] /\ udsc_cnt' \in 0..Capacity /\ RunningIsInUse'
BY DEF MasterOK, RunningIsInUse, InUse, Active

\* What the clients of a well formed pool are like.
LEMMA ClientFacts ==
  ASSUME MasterOK, RunningIsInUse, NEW id \in Ids
  PROVE  /\ udscs[id] \in Udsc
         /\ udscs[id].running => Active(udscs[id])
         /\ Active(udscs[id]) => id < udsc_cnt /\ ~udscs[id].isidle
<1>1. udscs[id] \in Udsc  BY DEF MasterOK
<1>2. udscs[id].running => Active(udscs[id])  BY DEF RunningIsInUse
<1>3. Active(udscs[id]) => id < udsc_cnt /\ ~udscs[id].isidle
  BY DEF RunningIsInUse, InUse
<1> QED  BY <1>1, <1>2, <1>3

LEMMA NewUdscOK == NewUdsc \in Udsc
<1>1. 0 \in 0..ListSize /\ -1 \in -1..ListSize  BY MasterAssumption
<1> QED  BY <1>1 DEF NewUdsc, Udsc, DoipStats

\* What the handlers make of a client is a client.
LEMMA UdscOK ==
  ASSUME NEW u \in Udsc
  PROVE  /\ Stopped(u) \in Udsc /\ ~Stopped(u).running
         /\ ~Active(Stopped(u)) /\ ~Active(Reset(u))
         /\ Reset(u) \in Udsc /\ Reset(u).running = u.running
         /\ Refreshed(u) \in Udsc /\ Refreshed(u).running = u.running
<1>1. -1 \in -1..ListSize /\ 0 \in 0..ListSize  BY MasterAssumption
<1>2. TpEnable \in BOOLEAN  BY MasterAssumption
<1>3. Stopped(u) \in Udsc /\ ~Stopped(u).running /\ Stopped(u).sindex = -1
  BY <1>1 DEF Udsc, Stopped
<1>4. /\ Reset(u) \in Udsc /\ Reset(u).running = u.running /\ Reset(u).sindex = -1
  BY <1>1 DEF Udsc, Reset, NewUdsc, DoipStats
<1>5. Refreshed(u) \in Udsc /\ Refreshed(u).running = u.running
  BY <1>2 DEF Udsc, Refreshed
<1> QED  BY <1>3, <1>4, <1>5 DEF Active

\* The commands that leave the pool alone, or are not carried out.
LEMMA QuietCommands ==
  ASSUME IpcOK, MasterOK, RunningIsInUse, NEW m,
         \/ ReplyIgnored(m) \/ Refuse(m) \/ Ignore(m) \/ UdscCreateFull(m)
         \/ UdscCreateFailed(m) \/ Configure(m) \/ DoipcCreateFailed(m)
  PROVE  IpcOK' /\ MasterOK' /\ RunningIsInUse'
<1> USE DEF master
<1>0. Take(m)
  BY DEF ReplyIgnored, Refuse, Ignore, UdscCreateFull, UdscCreateFailed, Configure,
         DoipcCreateFailed, Accept
<1>1. m \in Header /\ m.id \in Ids /\ m.tag \in Nat
      /\ toMaster' \in Seq(Header) /\ Len(toMaster') <= QueueMax
  BY <1>0, TakeOK
<1>2. udscs' \in [Ids -> Udsc] /\ udsc_cnt' \in 0..Capacity /\ RunningIsInUse'
  <2>1. UNCHANGED <<udscs, udsc_cnt>>
    BY DEF ReplyIgnored, Refuse, Ignore, UdscCreateFull, UdscCreateFailed, Configure,
           DoipcCreateFailed
  <2> QED  BY <2>1, PoolUnchanged
<1>3. toApi' \in Seq(Header) /\ Len(toApi') <= QueueMax
  <2>1. CASE UNCHANGED toApi  BY <2>1 DEF IpcOK
  <2>2. CASE \E recode \in {"no", "invalid", "create", "doipc_create"}, id \in {0, m.id} :
               toApi' = Sent(toApi, Reply(m, recode, id))
    <3>1. {"no", "invalid", "create", "doipc_create"} \subseteq Recodes  BY DEF Recodes
    <3>2. {0, m.id} \subseteq Ids  BY <1>1, ConstantsOK
    <3> QED  BY <1>1, <2>2, <3>1, <3>2, RepliedOK
  <2> QED
    BY <2>1, <2>2 DEF ReplyIgnored, Refuse, Ignore, UdscCreateFull, UdscCreateFailed,
       Configure, DoipcCreateFailed
<1>4. /\ lease' \in [Ids -> Nat] /\ run' \in [Ids -> Nat] /\ handled' \subseteq Nat
      /\ upset' \in BOOLEAN /\ abandoned' \subseteq Ids /\ steps' \in Nat
  BY <1>1 DEF MasterOK, ReplyIgnored, Refuse, Ignore, UdscCreateFull, UdscCreateFailed,
     Configure, DoipcCreateFailed, Accept
<1> QED  BY <1>1, <1>2, <1>3, <1>4 DEF IpcOK, MasterOK

\* The create command.
LEMMA CreateCommand ==
  ASSUME IpcOK, MasterOK, RunningIsInUse, NEW m, UdscCreate(m)
  PROVE  IpcOK' /\ MasterOK' /\ RunningIsInUse'
<1>1. m \in Header /\ m.id \in Ids /\ m.tag \in Nat
      /\ toMaster' \in Seq(Header) /\ Len(toMaster') <= QueueMax
  BY TakeOK DEF UdscCreate, Accept
<1>2. PICK id \in Ids :
        /\ IsIdle(id) \/ id = udsc_cnt
        /\ Granted(m, id)
        /\ udsc_cnt' = IF id = udsc_cnt THEN udsc_cnt + 1 ELSE udsc_cnt
  BY DEF UdscCreate
<1>3. udscs' = [udscs EXCEPT ![id].isidle = FALSE]  BY <1>2 DEF Granted
<1>4. udsc_cnt \in 0..Capacity /\ Capacity \in Nat /\ id \in 0..(Capacity - 1)
  BY ConstantsOK DEF MasterOK, Ids
<1>5. udsc_cnt' \in 0..Capacity /\ udsc_cnt <= udsc_cnt'  BY <1>2, <1>4
<1>6. udscs' \in [Ids -> Udsc]
  BY <1>3 DEF MasterOK, Udsc
<1>7. ASSUME NEW k \in Ids
      PROVE  /\ udscs'[k].running => Active(udscs'[k])
             /\ Active(udscs'[k]) => k < udsc_cnt' /\ ~udscs'[k].isidle
  <2>1. /\ udscs'[k].running = udscs[k].running
        /\ Active(udscs'[k]) <=> Active(udscs[k])
        /\ ~udscs[k].isidle => ~udscs'[k].isidle
    BY <1>3 DEF MasterOK, Udsc, Active
  <2>2. /\ udscs[k].running => Active(udscs[k])
        /\ Active(udscs[k]) => k < udsc_cnt /\ ~udscs[k].isidle
    BY ClientFacts
  <2>3. k \in Int /\ udsc_cnt \in Int /\ udsc_cnt' \in Int  BY <1>4, <1>5 DEF Ids
  <2> QED  BY <1>5, <2>1, <2>2, <2>3
<1>8. RunningIsInUse'  BY <1>7 DEF RunningIsInUse, InUse, Active
<1>9. toApi' \in Seq(Header) /\ Len(toApi') <= QueueMax
  <2>1. "no" \in Recodes  BY DEF Recodes
  <2> QED  BY <1>1, <1>2, <2>1, RepliedOK DEF Granted
<1>10. /\ lease' \in [Ids -> Nat] /\ run' \in [Ids -> Nat] /\ handled' \subseteq Nat
       /\ upset' \in BOOLEAN /\ abandoned' \subseteq Ids /\ steps' \in Nat
  BY <1>1, <1>2 DEF MasterOK, UdscCreate, Granted, Accept
<1> QED  BY <1>1, <1>5, <1>6, <1>8, <1>9, <1>10 DEF IpcOK, MasterOK

\* The commands that change the client they name and reply to it.
LEMMA ClientCommands ==
  ASSUME IpcOK, MasterOK, RunningIsInUse, NEW m,
         \/ UdscDestory(m) \/ UdscStart(m) \/ UdscStop(m) \/ ServiceConfig(m)
         \/ DoipcCreate(m)
  PROVE  IpcOK' /\ MasterOK' /\ RunningIsInUse'
<1> DEFINE id == m.id
           u == udscs[id]
<1>0. Take(m) /\ InUse(id)
  BY DEF UdscDestory, UdscStart, UdscStop, ServiceConfig, DoipcCreate, Accept
<1>1. m \in Header /\ id \in Ids /\ m.tag \in Nat
      /\ toMaster' \in Seq(Header) /\ Len(toMaster') <= QueueMax
  BY <1>0, TakeOK
<1>2. /\ u \in Udsc
      /\ u.running => Active(u)
      /\ id < udsc_cnt /\ ~u.isidle
  BY <1>0, <1>1, ClientFacts DEF InUse
<1>3. udsc_cnt' = udsc_cnt
  BY DEF UdscDestory, UdscStart, UdscStop, ServiceConfig, DoipcCreate
<1>4. udscs' \in [Ids -> Udsc] /\ RunningIsInUse'
  <2>1. CASE UdscDestory(m)
    <3> DEFINE freed == [u EXCEPT !.doipc = NoDoipc]
               new == IF Active(freed) THEN freed ELSE Reset(freed)
    <3>1. freed \in Udsc /\ freed.running = u.running /\ ~freed.isidle
          /\ (Active(freed) <=> Active(u))
      BY <1>2 DEF Udsc, Active
    <3>2. new \in Udsc  BY <3>1, UdscOK
    <3>3. (new.running => Active(new)) /\ (Active(new) => ~new.isidle)
      BY <1>2, <3>1, UdscOK
    <3>4. udscs' = [udscs EXCEPT ![id] = new]  BY <2>1 DEF UdscDestory
    <3> QED  BY <1>1, <1>2, <1>3, <3>2, <3>3, <3>4, ClientStep
  <2>2. CASE UdscStart(m)
    <3>1. CASE Active(u)
      BY <1>3, <2>2, <3>1, PoolUnchanged DEF UdscStart
    <3>2. CASE ~Active(u)
      <4> DEFINE new == [u EXCEPT !.sindex = 0, !.running = u.service_cnt > 0,
                                  !.tester = @ \/ (TpEnable /\ u.service_cnt > 0)]
      <4>1. 0 \in -1..ListSize /\ (u.service_cnt > 0) \in BOOLEAN
            /\ (u.tester \/ (TpEnable /\ u.service_cnt > 0)) \in BOOLEAN
        BY MasterAssumption
      <4>2. new \in Udsc  BY <1>2, <4>1 DEF Udsc
      <4>3. (new.running => Active(new)) /\ ~new.isidle
        BY <1>2 DEF Udsc, Active
      <4>4. udscs' = [udscs EXCEPT ![id] = new]  BY <2>2, <3>2 DEF UdscStart
      <4> QED  BY <1>1, <1>2, <1>3, <4>2, <4>3, <4>4, ClientStep
    <3> QED  BY <3>1, <3>2
  <2>3. CASE UdscStop(m)
    <3>1. udscs' = [udscs EXCEPT ![id] = Stopped(u)]  BY <2>3 DEF UdscStop
    <3> QED  BY <1>1, <1>2, <1>3, <3>1, UdscOK, ClientStep
  <2>4. CASE ServiceConfig(m)
    <3>1. CASE u.service_cnt < ListSize
      <4> DEFINE new == [u EXCEPT !.service_cnt = @ + 1]
      <4>1. u.service_cnt + 1 \in 0..ListSize  BY <1>2, <3>1, MasterAssumption DEF Udsc
      <4>2. new \in Udsc  BY <1>2, <4>1 DEF Udsc
      <4>3. (new.running => Active(new)) /\ ~new.isidle
        BY <1>2, MasterAssumption DEF Udsc, Active
      <4>4. udscs' = [udscs EXCEPT ![id] = new]  BY <2>4, <3>1 DEF ServiceConfig
      <4> QED  BY <1>1, <1>2, <1>3, <4>2, <4>3, <4>4, ClientStep
    <3>2. CASE ~(u.service_cnt < ListSize)
      BY <1>3, <2>4, <3>2, PoolUnchanged DEF ServiceConfig
    <3> QED  BY <3>1, <3>2
  <2>5. CASE DoipcCreate(m)
    <3>1. PICK stat \in {"connecting", "connected", "disconnected"} :
            udscs' = [udscs EXCEPT ![id].doipc = stat]
      BY <2>5 DEF DoipcCreate
    <3> DEFINE new == [u EXCEPT !.doipc = stat]
    <3>2. new \in Udsc  BY <1>2 DEF Udsc, DoipStats
    <3>3. (new.running => Active(new)) /\ ~new.isidle  BY <1>2 DEF Udsc, Active
    <3>4. udscs' = [udscs EXCEPT ![id] = new]  BY <3>1
    <3> QED  BY <1>1, <1>2, <1>3, <3>2, <3>3, <3>4, ClientStep
  <2> QED
    BY <2>1, <2>2, <2>3, <2>4, <2>5
<1>5. toApi' \in Seq(Header) /\ Len(toApi') <= QueueMax
  <2>1. \E recode \in {"no", "service_add"} : toApi' = Sent(toApi, Reply(m, recode, id))
    BY DEF UdscDestory, UdscStart, UdscStop, ServiceConfig, DoipcCreate
  <2>2. {"no", "service_add"} \subseteq Recodes  BY DEF Recodes
  <2> QED  BY <1>1, <2>1, <2>2, RepliedOK
<1>6. run' \in [Ids -> Nat] /\ handled' \subseteq Nat /\ upset' \in BOOLEAN /\ steps' \in Nat
  BY <1>1 DEF MasterOK, UdscDestory, UdscStart, UdscStop, ServiceConfig, DoipcCreate, Accept
<1>7. lease' \in [Ids -> Nat] /\ abandoned' \subseteq Ids
  <2>1. CASE UdscDestory(m)
    <3>1. lease' = lease \/ lease' = [lease EXCEPT ![id] = 0]  BY <2>1 DEF UdscDestory
    <3>2. abandoned' \subseteq abandoned \cup {id}  BY <2>1 DEF UdscDestory
    <3> QED  BY <1>1, <3>1, <3>2 DEF MasterOK
  <2>2. CASE UNCHANGED <<lease, abandoned>>  BY <2>2 DEF MasterOK
  <2> QED  BY <2>1, <2>2 DEF UdscStart, UdscStop, ServiceConfig, DoipcCreate
<1> QED  BY <1>1, <1>3, <1>4, <1>5, <1>6, <1>7 DEF IpcOK, MasterOK

\* The reset of the diag master.
LEMMA ResetCommand ==
  ASSUME IpcOK, MasterOK, RunningIsInUse, NEW m, MasterReset(m)
  PROVE  IpcOK' /\ MasterOK' /\ RunningIsInUse'
<1>1. m \in Header /\ m.id \in Ids /\ m.tag \in Nat
      /\ toMaster' \in Seq(Header) /\ Len(toMaster') <= QueueMax
  BY TakeOK DEF MasterReset, Accept
<1>2. udscs' = [id \in Ids |-> IF id < udsc_cnt THEN Reset(Stopped(udscs[id]))
                               ELSE udscs[id]]
  BY DEF MasterReset
<1>3. ASSUME NEW id \in Ids
      PROVE  udscs'[id] \in Udsc /\ ~udscs'[id].running /\ ~Active(udscs'[id])
  <2>1. /\ udscs[id] \in Udsc
        /\ udscs[id].running => Active(udscs[id])
        /\ Active(udscs[id]) => id < udsc_cnt
    BY ClientFacts
  <2>2. Stopped(udscs[id]) \in Udsc /\ ~Stopped(udscs[id]).running  BY <2>1, UdscOK
  <2>3. /\ Reset(Stopped(udscs[id])) \in Udsc
        /\ ~Reset(Stopped(udscs[id])).running
        /\ ~Active(Reset(Stopped(udscs[id])))
    BY <2>2, UdscOK
  <2> QED  BY <1>2, <2>1, <2>3
<1>4. udscs' \in [Ids -> Udsc] /\ RunningIsInUse'
  BY <1>2, <1>3 DEF RunningIsInUse, Active
<1>5. toApi' \in Seq(Header) /\ Len(toApi') <= QueueMax
  <2>1. "no" \in Recodes  BY DEF Recodes
  <2> QED  BY <1>1, <2>1, RepliedOK DEF MasterReset
<1>6. /\ udsc_cnt' \in 0..Capacity
      /\ lease' \in [Ids -> Nat] /\ run' \in [Ids -> Nat] /\ handled' \subseteq Nat
      /\ upset' \in BOOLEAN /\ abandoned' \subseteq Ids /\ steps' \in Nat
  BY <1>1 DEF MasterOK, MasterReset, Accept
<1> QED  BY <1>1, <1>4, <1>5, <1>6 DEF IpcOK, MasterOK

\* A message of the run of a client is one.
LEMMA NoticeOK ==
  ASSUME MasterOK, NEW cmd \in Notices, NEW recode \in Recodes, NEW id \in Ids,
         NEW q \in Seq(Header), Len(q) <= QueueMax
  PROVE  /\ Sent(q, Notice(cmd, recode, id)) \in Seq(Header)
         /\ Len(Sent(q, Notice(cmd, recode, id))) <= QueueMax
<1>1. run[id] \in Nat  BY DEF MasterOK
<1>2. Notice(cmd, recode, id) \in Header  BY <1>1, RequestOK DEF Notice
<1> QED  BY <1>2, SentOK

\* The run of an active client goes on or ends.
LEMMA ProgressOK ==
  ASSUME IpcOK, MasterOK, RunningIsInUse, NEW id \in Ids,
         NEW recodes \in SUBSET Recodes, NEW q \in Seq(Header), Len(q) <= QueueMax,
         Active(udscs[id]), Progress(id, recodes, q), udsc_cnt' = udsc_cnt
  PROVE  /\ udscs' \in [Ids -> Udsc] /\ RunningIsInUse'
         /\ toApi' \in Seq(Header) /\ Len(toApi') <= QueueMax
<1> DEFINE u == udscs[id]
<1>1. u \in Udsc /\ id < udsc_cnt /\ ~u.isidle  BY ClientFacts
<1>2. CASE \E i \in u.sindex..(u.service_cnt - 1) : MoveTo(id, i) /\ toApi' = q
  <2>1. PICK i \in u.sindex..(u.service_cnt - 1) : MoveTo(id, i) /\ toApi' = q
    BY <1>2
  <2> DEFINE new == [u EXCEPT !.sindex = i, !.running = TRUE]
  <2>2. u.sindex \in -1..ListSize /\ u.service_cnt \in 0..ListSize /\ ListSize \in Nat
        /\ 0 <= u.sindex
    BY <1>1, MasterAssumption DEF Udsc, Active
  <2>3. i \in -1..ListSize /\ 0 <= i /\ i < u.service_cnt  BY <2>2
  <2>4. new \in Udsc  BY <1>1, <2>3 DEF Udsc
  <2>5. Active(new) /\ ~new.isidle  BY <1>1, <2>3 DEF Udsc, Active
  <2>6. udscs' = [udscs EXCEPT ![id] = new]  BY <2>1 DEF MoveTo
  <2> QED  BY <1>1, <2>1, <2>4, <2>5, <2>6, ClientStep
<1>3. CASE \E recode \in recodes : Finish(id, recode, q)
  <2>1. PICK recode \in recodes : Finish(id, recode, q)  BY <1>3
  <2>2. udscs' = [udscs EXCEPT ![id] = Stopped(u)]  BY <2>1 DEF Finish
  <2>3. udscs' \in [Ids -> Udsc] /\ RunningIsInUse'
    BY <1>1, <2>2, UdscOK, ClientStep
  <2>4. "script_result" \in Notices /\ recode \in Recodes  BY DEF Notices
  <2> QED  BY <2>1, <2>3, <2>4, NoticeOK DEF Finish
<1> QED  BY <1>2, <1>3 DEF Progress

\* The command that brings the response of the ECU.
LEMMA ResponseCommand ==
  ASSUME IpcOK, MasterOK, RunningIsInUse, NEW m, NEW answer, ServiceResponse(m, answer)
  PROVE  IpcOK' /\ MasterOK' /\ RunningIsInUse'
<1>1. m \in Header /\ m.id \in Ids /\ m.tag \in Nat
      /\ toMaster' \in Seq(Header) /\ Len(toMaster') <= QueueMax
  BY TakeOK DEF ServiceResponse, Accept
<1>2. PICK queue \in Forwarded(m, answer, Sent(toApi, Reply(m, "no", m.id))) :
        \/ toApi' = queue /\ UNCHANGED udscs
        \/ /\ Active(udscs[m.id]) /\ answer = "own"
           /\ \E seed \in {queue, Sent(queue, Notice("sa_seed", "no", m.id))} :
                Progress(m.id, {"no", "response_unexpect"}, seed)
  BY DEF ServiceResponse
<1>3. /\ {"no", "response_unexpect"} \in SUBSET Recodes /\ "no" \in Recodes
      /\ "sa_seed" \in Notices /\ "service_result" \in Notices
  BY DEF Recodes, Notices
<1> DEFINE replied == Sent(toApi, Reply(m, "no", m.id))
<1>4. replied \in Seq(Header) /\ Len(replied) <= QueueMax  BY <1>1, <1>3, RepliedOK
<1>5. queue \in Seq(Header) /\ Len(queue) <= QueueMax
  <2>1. queue = replied \/ queue = Sent(replied, Notice("service_result", "no", m.id))
    BY <1>2 DEF Forwarded
  <2> QED  BY <1>1, <1>3, <1>4, <2>1, NoticeOK
<1>6. udsc_cnt' = udsc_cnt  BY DEF ServiceResponse
<1>7. /\ udscs' \in [Ids -> Udsc] /\ RunningIsInUse'
      /\ toApi' \in Seq(Header) /\ Len(toApi') <= QueueMax
  <2>1. CASE toApi' = queue /\ UNCHANGED udscs
    BY <1>5, <1>6, <2>1, PoolUnchanged
  <2>2. CASE /\ Active(udscs[m.id])
             /\ \E seed \in {queue, Sent(queue, Notice("sa_seed", "no", m.id))} :
                  Progress(m.id, {"no", "response_unexpect"}, seed)
    <3>1. PICK seed \in {queue, Sent(queue, Notice("sa_seed", "no", m.id))} :
            Progress(m.id, {"no", "response_unexpect"}, seed)
      BY <2>2
    <3>2. seed \in Seq(Header) /\ Len(seed) <= QueueMax
      BY <1>1, <1>3, <1>5, NoticeOK
    <3> QED  BY <1>1, <1>3, <1>6, <2>2, <3>1, <3>2, ProgressOK
  <2> QED  BY <1>2, <2>1, <2>2
<1>8. /\ udsc_cnt' \in 0..Capacity
      /\ lease' \in [Ids -> Nat] /\ run' \in [Ids -> Nat] /\ handled' \subseteq Nat
      /\ upset' \in BOOLEAN /\ abandoned' \subseteq Ids /\ steps' \in Nat
  BY <1>1 DEF MasterOK, ServiceResponse, Accept
<1> QED  BY <1>1, <1>7, <1>8 DEF IpcOK, MasterOK

\* The timers of a client.
LEMMA TimerSteps ==
  ASSUME IpcOK, MasterOK, RunningIsInUse, NEW id \in Ids, Timers(id)
  PROVE  IpcOK' /\ MasterOK' /\ RunningIsInUse'
<1> DEFINE u == udscs[id]
<1>1. /\ u \in Udsc
      /\ u.running => Active(u)
      /\ Active(u) => id < udsc_cnt /\ ~u.isidle
  BY ClientFacts
<1>2. /\ UNCHANGED <<toMaster, udsc_cnt, lease, run, handled, upset, abandoned>>
      /\ steps' \in Nat
  BY DEF Timers, RequestSent, RequestsExhausted, RequestAborted, ResponseTimeout,
         TesterPresent, Step, MasterOK, master
<1>3. {"no", "response_timeout"} \in SUBSET Recodes /\ "no" \in Recodes
      /\ "indication" \in Notices /\ "script_result" \in Notices
  BY DEF Recodes, Notices
<1>4. toApi \in Seq(Header) /\ Len(toApi) <= QueueMax  BY DEF IpcOK
<1>5. /\ Sent(toApi, Notice("indication", "no", id)) \in Seq(Header)
      /\ Len(Sent(toApi, Notice("indication", "no", id))) <= QueueMax
  BY <1>3, <1>4, NoticeOK
<1>6. /\ udscs' \in [Ids -> Udsc] /\ RunningIsInUse'
      /\ toApi' \in Seq(Header) /\ Len(toApi') <= QueueMax
  <2>1. CASE RequestSent(id)
    <3>1. udscs' = [udscs EXCEPT ![id] = Refreshed(u)]  BY <2>1 DEF RequestSent
    <3>2. (Active(Refreshed(u)) <=> Active(u)) /\ Refreshed(u).isidle = u.isidle
      BY <1>1 DEF Refreshed, Udsc, Active
    <3>3. udscs' \in [Ids -> Udsc] /\ RunningIsInUse'
      BY <1>1, <1>2, <3>1, <3>2, UdscOK, ClientStep
    <3> QED  BY <1>4, <1>5, <2>1, <3>3 DEF RequestSent
  <2>2. CASE \E bytes \in SentBytes(u) : RequestsExhausted(id, bytes)
    <3> DEFINE new == [Refreshed(u) EXCEPT !.sindex = u.service_cnt, !.running = FALSE]
    <3>1. udscs' = [udscs EXCEPT ![id] = new] /\ UNCHANGED toApi
      BY <2>2 DEF RequestsExhausted
    <3>2. u.service_cnt \in -1..ListSize /\ Refreshed(u) \in Udsc
      BY <1>1, UdscOK, MasterAssumption DEF Udsc
    <3>3. new \in Udsc /\ ~new.running  BY <3>2 DEF Udsc
    <3>4. ~Active(new)  BY <1>1, MasterAssumption DEF Udsc, Active, Refreshed
    <3>5. udscs' \in [Ids -> Udsc] /\ RunningIsInUse'
      BY <1>2, <3>1, <3>3, <3>4, ClientStep
    <3> QED  BY <1>4, <3>1, <3>5
  <2>3. CASE \E bytes \in SentBytes(u) : RequestAborted(id, bytes)
    <3>1. Finish(id, "no", toApi) /\ Active(u)
      BY <1>1, <2>3 DEF RequestAborted
    <3>2. Progress(id, {"no"}, toApi)  BY <3>1 DEF Progress
    <3> QED  BY <1>2, <1>3, <1>4, <3>1, <3>2, ProgressOK
  <2>4. CASE ResponseTimeout(id)
    BY <1>2, <1>3, <1>4, <2>4, ProgressOK DEF ResponseTimeout
  <2>5. CASE TesterPresent(id)
    <3>1. UNCHANGED <<udscs, udsc_cnt>>  BY <2>5 DEF TesterPresent, master
    <3> QED  BY <1>4, <1>5, <2>5, <3>1, PoolUnchanged DEF TesterPresent
  <2> QED  BY <2>1, <2>2, <2>3, <2>4, <2>5 DEF Timers
<1> QED  BY <1>2, <1>6 DEF IpcOK, MasterOK

\* The DoIP connection of a client.
LEMMA DoipcSteps ==
  ASSUME IpcOK, MasterOK, RunningIsInUse, NEW id \in Ids, DoipcRead(id)
  PROVE  IpcOK' /\ MasterOK' /\ RunningIsInUse'
<1> DEFINE u == udscs[id]
<1>1. PICK stat \in DoipStats : udscs' = [udscs EXCEPT ![id].doipc = stat]
  BY DEF DoipcRead, DoipcConnected, DoipcDisconnected, RoutingActivated, DoipStats
<1> DEFINE new == [u EXCEPT !.doipc = stat]
<1>2. /\ u \in Udsc
      /\ u.running => Active(u)
      /\ Active(u) => id < udsc_cnt /\ ~u.isidle
  BY ClientFacts
<1>3. new \in Udsc  BY <1>2 DEF Udsc
<1>4. new.running = u.running /\ new.isidle = u.isidle /\ (Active(new) <=> Active(u))
  BY <1>2 DEF Udsc, Active
<1>5. udscs' = [udscs EXCEPT ![id] = new]  BY <1>1
<1>6. UNCHANGED <<toMaster, toApi, udsc_cnt, lease, run, handled, upset, abandoned, steps>>
  BY DEF DoipcRead
<1>7. udscs' \in [Ids -> Udsc] /\ RunningIsInUse'
  BY <1>2, <1>3, <1>4, <1>5, <1>6, ClientStep
<1> QED  BY <1>6, <1>7 DEF IpcOK, MasterOK

\* Every step of the diag master.
LEMMA MasterSteps ==
  ASSUME IpcOK, MasterOK, RunningIsInUse, MasterNext
  PROVE  IpcOK' /\ MasterOK' /\ RunningIsInUse'
<1>1. CASE toMaster # <<>> /\ IpcRead(Head(toMaster))
  BY <1>1, QuietCommands, CreateCommand, ClientCommands, ResetCommand, ResponseCommand
     DEF IpcRead
<1>2. CASE \E id \in Ids : Timers(id) \/ DoipcRead(id)
  BY <1>2, TimerSteps, DoipcSteps
<1> QED  BY <1>1, <1>2 DEF MasterNext

-----------------------------------------------------------------------------
(***************************************************************************)
(* The API                                                                 *)
(***************************************************************************)

CallRecord == [cmd : Commands, id : Ids, tag : Nat]

\* The calls in progress are records, and so are those left when the topmost
\* returns.
LEMMA PoppedOK ==
  ASSUME ApiOK, calls # <<>>
  PROVE  Top \in CallRecord /\ Popped \in Seq(CallRecord)
<1>1. calls \in Seq(CallRecord)  BY DEF ApiOK, CallRecord
<1>2. Len(calls) \in Nat \ {0}  BY <1>1, EmptySeq, LenProperties
<1>3. Top \in CallRecord  BY <1>1, <1>2, ElementOfSeq DEF Top
<1>4. \A i \in 1..(Len(calls) - 1) : calls[i] \in CallRecord
  BY <1>1, <1>2, ElementOfSeq
<1>5. Popped \in Seq(CallRecord)
  BY <1>1, <1>2, <1>4, SubSeqProperties DEF Popped
<1> QED  BY <1>3, <1>5

\* A call keeps the sockets and the records of the API well formed.
LEMMA CallOK ==
  ASSUME IpcOK, ApiOK, NEW cmd \in ApiCommands, NEW id \in Ids,
         NEW q \in Seq(Header), Len(q) <= QueueMax, Call(cmd, id, q)
  PROVE  ApiOK' /\ toMaster' \in Seq(Header) /\ Len(toMaster') <= QueueMax
<1>1. cmd \in Commands /\ "no" \in Recodes  BY ApiAssumption DEF Recodes
<1>2. made' \in Nat  BY DEF ApiOK, Call
<1>3. toMaster' \in Seq(Header) /\ Len(toMaster') <= QueueMax
  <2>1. Request(cmd, "no", id, made') \in Header  BY <1>1, <1>2, RequestOK
  <2> QED  BY <2>1, SentOK DEF Call
<1>4. calls' \in Seq(CallRecord)
  <2>1. calls \in Seq(CallRecord)  BY DEF ApiOK, CallRecord
  <2>2. [cmd |-> cmd, id |-> id, tag |-> made'] \in CallRecord
    BY <1>1, <1>2 DEF CallRecord
  <2>3. Append(calls, [cmd |-> cmd, id |-> id, tag |-> made']) \in Seq(CallRecord)
    BY <2>1, <2>2, AppendProperties
  <2>4. \/ calls' = Append(calls, [cmd |-> cmd, id |-> id, tag |-> made'])
        \/ calls' = calls
    BY DEF Call
  <2> QED  BY <2>1, <2>3, <2>4
<1>5. isvalid' \in [Ids -> BOOLEAN] /\ failed' \in BOOLEAN
  BY DEF ApiOK, Call
<1>6. callback' \in [Ids -> Nat] /\ handle' \in [Ids -> Nat] /\ quiet' \in [Ids -> Nat]
  BY DEF ApiOK, Call
<1> QED  BY <1>2, <1>3, <1>4, <1>5, <1>6 DEF ApiOK, CallRecord

\* A call that fails.
LEMMA FailOK ==
  ASSUME ApiOK, calls # <<>>, Fail
  PROVE  ApiOK'
<1>1. calls' \in Seq(CallRecord)  BY PoppedOK DEF Fail
<1> QED  BY <1>1 DEF ApiOK, Fail, CallRecord

\* What is read from the socket.
LEMMA ReceiveOK ==
  ASSUME IpcOK, ApiOK, Receive
  PROVE  IpcOK' /\ ApiOK'
<1> DEFINE m == Head(toApi)
<1>1. /\ m \in Header /\ m.id \in Ids /\ m.tag \in Nat
      /\ Tail(toApi) \in Seq(Header) /\ Len(Tail(toApi)) <= QueueMax
  <2>1. toApi # <<>>  BY DEF Receive
  <2>2. m \in Header /\ Tail(toApi) \in Seq(Header) /\ Len(Tail(toApi)) <= QueueMax
    BY <2>1, ReceivedOK DEF IpcOK
  <2> QED  BY <2>2 DEF Header
<1>2. toApi' \in Seq(Header) /\ Len(toApi') <= QueueMax
  BY <1>1 DEF Receive, Read, ReplyDropped, ReplyFailed, ReplyExpected, NoticeDropped,
     NoticeHandled
<1>3. CASE ReplyDropped(m)
  BY <1>2, <1>3 DEF ReplyDropped, IpcOK, ApiOK
<1>4. CASE ReplyFailed(m)
  BY <1>2, <1>4, FailOK DEF ReplyFailed, IpcOK
<1>5. CASE ReplyExpected(m)
  <2>1. /\ calls # <<>> /\ calls' = Popped
        /\ UNCHANGED <<toMaster, callback, made, failed>>
    BY <1>5 DEF ReplyExpected
  <2>2. Top \in CallRecord /\ calls' \in Seq(CallRecord)  BY <2>1, PoppedOK
  <2>3. isvalid' \in [Ids -> BOOLEAN] /\ handle' \in [Ids -> Nat]
    BY <1>1, <1>5 DEF ReplyExpected, ApiOK
  <2>4. quiet' \in [Ids -> Nat]
    <3>1. Top.id \in Ids /\ Top.tag \in Nat  BY <2>2 DEF CallRecord
    <3>2. quiet' = quiet \/ quiet' = [quiet EXCEPT ![Top.id] = Top.tag]
      BY <1>5 DEF ReplyExpected
    <3> QED  BY <3>1, <3>2 DEF ApiOK
  <2> QED  BY <1>2, <2>1, <2>2, <2>3, <2>4 DEF IpcOK, ApiOK, CallRecord
<1>6. CASE NoticeDropped(m)
  <2>1. CASE calls # <<>>  BY <1>2, <1>6, <2>1, FailOK DEF NoticeDropped, IpcOK
  <2>2. CASE calls = <<>>
    BY <1>2, <1>6, <2>2 DEF NoticeDropped, IpcOK, ApiOK, api
  <2> QED  BY <2>1, <2>2
<1>7. CASE NoticeHandled(m)
  <2> DEFINE replied == Sent(toMaster, Reply(m, "no", m.id))
  <2>1. replied \in Seq(Header) /\ Len(replied) <= QueueMax
    <3>1. "no" \in Recodes  BY DEF Recodes
    <3> QED  BY <1>1, <3>1, ReplyOK, SentOK DEF IpcOK
  <2>2. CASE toMaster' = replied /\ UNCHANGED api
    BY <1>2, <2>1, <2>2 DEF IpcOK, ApiOK, api
  <2>3. CASE \E cmd \in ApiCommands : Call(cmd, m.id, replied)
    BY <1>1, <1>2, <2>1, <2>3, CallOK DEF IpcOK
  <2> QED  BY <1>7, <2>2, <2>3 DEF NoticeHandled
<1> QED  BY <1>3, <1>4, <1>5, <1>6, <1>7 DEF Receive

\* Every step of the API.
LEMMA ApiSteps ==
  ASSUME IpcOK, ApiOK, ApiNext
  PROVE  IpcOK' /\ ApiOK'
<1>1. CASE \E cmd \in ApiCommands, id \in Ids : UserCall(cmd, id)
  <2>1. PICK cmd \in ApiCommands, id \in Ids : UserCall(cmd, id)  BY <1>1
  <2>2. Call(cmd, id, toMaster) /\ UNCHANGED toApi  BY <2>1 DEF UserCall
  <2> QED  BY <2>2, CallOK DEF IpcOK
<1>2. CASE \E id \in Ids : CallbackSet(id)
  BY <1>2 DEF CallbackSet, channels, IpcOK, ApiOK
<1>3. CASE Receive  BY <1>3, ReceiveOK
<1>4. CASE RecvTimeout
  BY <1>4, FailOK DEF RecvTimeout, channels, IpcOK
<1> QED  BY <1>1, <1>2, <1>3, <1>4 DEF ApiNext

-----------------------------------------------------------------------------
(***************************************************************************)
(* The system                                                              *)
(***************************************************************************)

\* The sockets, the pool and the records of the API are well formed at first.
LEMMA InitOK == Init => TypeOK /\ RunningIsInUse
<1> SUFFICES ASSUME Init  PROVE  TypeOK /\ RunningIsInUse  OBVIOUS
<1>1. IpcOK  BY IpcAssumption, EmptySeq DEF Init, IpcOK
<1>2. MasterOK
  BY NewUdscOK, MasterAssumption DEF Init, MasterInit, MasterOK
<1>3. ApiOK  BY EmptySeq DEF Init, ApiInit, ApiOK
<1>4. RunningIsInUse
  BY DEF Init, MasterInit, RunningIsInUse, NewUdsc, Active
<1> QED  BY <1>1, <1>2, <1>3, <1>4 DEF TypeOK

\* They stay well formed in every step of the diag master and of the API.
LEMMA NextOK ==
  ASSUME TypeOK, RunningIsInUse, [Next]_vars
  PROVE  TypeOK' /\ RunningIsInUse'
<1> USE DEF TypeOK
<1>1. CASE MasterNext /\ UNCHANGED api
  <2>1. ApiOK'  BY <1>1 DEF api, ApiOK
  <2> QED  BY <1>1, <2>1, MasterSteps
<1>2. CASE ApiNext /\ UNCHANGED master
  <2>1. MasterOK' /\ RunningIsInUse'  BY <1>2, PoolUnchanged DEF master, MasterOK
  <2> QED  BY <1>2, <2>1, ApiSteps
<1>3. CASE UNCHANGED vars
  <2>1. RunningIsInUse'  BY <1>3, PoolUnchanged DEF vars, master
  <2>2. IpcOK' /\ MasterOK' /\ ApiOK'
    BY <1>3 DEF vars, channels, master, api, IpcOK, MasterOK, ApiOK
  <2> QED  BY <2>1, <2>2
<1> QED  BY <1>1, <1>2, <1>3 DEF Next

\* Type correctness: no socket holds more than it has room for, every message
\* names a client of the pool, and no list is longer than its capacity.
THEOREM TypeCorrect == Spec => []TypeOK
<1>1. Init => TypeOK /\ RunningIsInUse  BY InitOK
<1>2. TypeOK /\ RunningIsInUse /\ [Next]_vars => (TypeOK /\ RunningIsInUse)'
  BY NextOK
<1> QED  BY <1>1, <1>2, PTL DEF Spec

\* Whatever commands, timeouts and resets interleave, no timer is armed for the
\* run of a client that is idle or not active: a client that is given back is
\* never executing.
THEOREM RunningClientIsInUse == Spec => []RunningIsInUse
<1>1. Init => TypeOK /\ RunningIsInUse  BY InitOK
<1>2. TypeOK /\ RunningIsInUse /\ [Next]_vars => (TypeOK /\ RunningIsInUse)'
  BY NextOK
<1> QED  BY <1>1, <1>2, PTL DEF Spec
=============================================================================
