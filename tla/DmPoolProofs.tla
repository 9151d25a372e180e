---------------------------- MODULE DmPoolProofs ----------------------------
(***************************************************************************)
(* Theorems about what the two sides of the sockets know of each other:    *)
(* whose a client is, who agrees that it is in use, when it is silent, and *)
(* that a call which succeeds has been carried out.                        *)
(***************************************************************************)
EXTENDS DmSystemProofs, FiniteSetTheorems

-----------------------------------------------------------------------------
(***************************************************************************)
(* Queues                                                                  *)
(***************************************************************************)

\* r is q, with messages of S behind it.
Extends(q, r, S) ==
  /\ Len(q) <= Len(r)
  /\ \A k \in 1..Len(q) : r[k] = q[k]
  /\ \A k \in (Len(q) + 1)..Len(r) : r[k] \in S

\* r is q, or what is left of it when its first message is read.
Rest(q, r) ==
  \E d \in {0, 1} : /\ Len(r) = Len(q) - d
                    /\ \A k \in 1..Len(r) : r[k] = q[k + d]

\* What is sent to a queue goes behind what it holds, once.
LEMMA SentExtends ==
  ASSUME NEW q \in Seq(Header), NEW m \in Header
  PROVE  Extends(q, Sent(q, m), {m}) /\ Len(Sent(q, m)) <= Len(q) + 1
<1>1. /\ Len(q) \in Nat /\ Len(Append(q, m)) = Len(q) + 1
      /\ \A k \in 1..Len(q) : Append(q, m)[k] = q[k]
      /\ Append(q, m)[Len(q) + 1] = m
  BY AppendProperties, LenProperties
<1>2. CASE HasRoom(q)  BY <1>1, <1>2 DEF Sent, Extends
<1>3. CASE ~HasRoom(q)  BY <1>1, <1>3 DEF Sent, Extends
<1> QED  BY <1>2, <1>3

\* A queue that extends another one goes on being extended.
LEMMA ExtendsSent ==
  ASSUME NEW q \in Seq(Header), NEW r \in Seq(Header), NEW S, Extends(q, r, S),
         NEW m \in Header, m \in S
  PROVE  Extends(q, Sent(r, m), S)
<1>1. /\ Len(q) \in Nat /\ Len(r) \in Nat /\ Len(Append(r, m)) = Len(r) + 1
      /\ \A k \in 1..Len(r) : Append(r, m)[k] = r[k]
      /\ Append(r, m)[Len(r) + 1] = m
  BY AppendProperties, LenProperties
<1>2. CASE HasRoom(r)  BY <1>1, <1>2 DEF Sent, Extends
<1>3. CASE ~HasRoom(r)  BY <1>1, <1>3 DEF Sent, Extends
<1> QED  BY <1>2, <1>3

\* A queue extends itself.
LEMMA ExtendsSame ==
  ASSUME NEW q \in Seq(Header), NEW S
  PROVE  Extends(q, q, S) /\ Len(q) <= Len(q) + 1
<1>1. Len(q) \in Nat  BY LenProperties
<1> QED  BY <1>1 DEF Extends

\* It extends with more kinds of messages, too.
LEMMA ExtendsMore ==
  ASSUME NEW q, NEW r, NEW S, NEW T, Extends(q, r, S), S \subseteq T
  PROVE  Extends(q, r, T)
BY DEF Extends

\* All of a queue is left of it.
LEMMA RestSame ==
  ASSUME NEW q \in Seq(Header)
  PROVE  Rest(q, q)
<1>1. Len(q) \in Nat  BY LenProperties
<1> QED  BY <1>1 DEF Rest

\* What is left when the first message is read.
LEMMA RestTail ==
  ASSUME NEW q \in Seq(Header), q # <<>>
  PROVE  /\ Rest(q, Tail(q)) /\ Len(q) \in Nat \ {0} /\ Len(Tail(q)) = Len(q) - 1
         /\ Head(q) = q[1]
         /\ \A k \in 1..Len(Tail(q)) : Tail(q)[k] = q[k + 1]
<1>1. /\ Len(q) \in Nat \ {0} /\ Len(Tail(q)) = Len(q) - 1 /\ Head(q) = q[1]
  BY HeadTailProperties, EmptySeq, LenProperties
<1>2. \A k \in 1..Len(Tail(q)) : Tail(q)[k] = q[k + 1]
  BY <1>1, HeadTailProperties
<1>3. Rest(q, Tail(q))  BY <1>1, <1>2 DEF Rest
<1> QED  BY <1>1, <1>2, <1>3

-----------------------------------------------------------------------------
(***************************************************************************)
(* What the steps of the diag master change                                *)
(***************************************************************************)

\* Messages that say nothing new: replies that no call of the user alone awaits,
\* and requests of a run under way.
Quiets ==
  {m \in Header : /\ m.isreply => m.cmd \notin UserOnly
                  /\ ~m.isreply => Live(m.id) /\ m.tag = run[m.id]}

\* No client changes hands, and none is started.
SameHands ==
  /\ UNCHANGED <<udsc_cnt, lease, run, upset, abandoned>>
  /\ \A id \in Ids : udscs'[id].isidle = udscs[id].isidle
  /\ \A id \in Ids : Live(id)' => Live(id)

\* A step of a timer, of a connection, or a message of no consequence to whose a
\* client is.
QuietMaster ==
  /\ SameHands
  /\ Rest(toMaster, toMaster')
  /\ Extends(toApi, toApi', Quiets)

\* A command only the user's call itself awaits is taken, and replied to.
Answered(m) ==
  /\ Take(m) /\ m \in Header /\ IsAsk(m)
  /\ \/ UNCHANGED toApi
     \/ \E recode \in Recodes, id \in Ids :
          /\ m.cmd # "create" => id = m.id
          /\ toApi' = Sent(toApi, Reply(m, recode, id))

\* The reply does not change what a client is to the API.
PlainReply(m) ==
  /\ SameHands
  /\ \/ UNCHANGED toApi
     \/ \E recode \in Recodes, id \in Ids :
          /\ toApi' = Sent(toApi, Reply(m, recode, id))
          /\ recode = "no" => m.cmd \notin {"create", "destory", "stop"}

\* One client changes, but not hands, and is not started.
LEMMA OneClient ==
  ASSUME MasterOK, NEW id \in Ids, NEW u, udscs' = [udscs EXCEPT ![id] = u],
         u.isidle = udscs[id].isidle,
         0 <= u.sindex \/ u.running \/ u.tester => Live(id)
  PROVE  /\ \A k \in Ids : udscs'[k].isidle = udscs[k].isidle
         /\ \A k \in Ids : Live(k)' => Live(k)
<1>1. ASSUME NEW k \in Ids
      PROVE  /\ udscs'[k].isidle = udscs[k].isidle
             /\ Live(k)' => Live(k)
  <2>1. udscs'[k] = IF k = id THEN u ELSE udscs[k]  BY DEF MasterOK
  <2> QED  BY <2>1 DEF Live
<1> QED  BY <1>1

\* None changes.
LEMMA SameClients ==
  ASSUME UNCHANGED udscs
  PROVE  /\ \A k \in Ids : udscs'[k].isidle = udscs[k].isidle
         /\ \A k \in Ids : Live(k)' => Live(k)
BY DEF Live

\* A request of a run under way.
LEMMA NoticeQuiet ==
  ASSUME MasterOK, NEW cmd \in Notices, NEW recode \in Recodes, NEW id \in Ids,
         Live(id)
  PROVE  Notice(cmd, recode, id) \in Quiets
<1>1. run[id] \in Nat  BY DEF MasterOK
<1>2. Notice(cmd, recode, id) \in Header  BY <1>1, RequestOK DEF Notice
<1>3. /\ ~Notice(cmd, recode, id).isreply /\ Notice(cmd, recode, id).id = id
      /\ Notice(cmd, recode, id).tag = run[id]
  BY DEF Notice, Request
<1> QED  BY <1>2, <1>3 DEF Quiets

\* A run under way, or tester present, is one of a live client.
LEMMA ActiveIsLive ==
  ASSUME NEW id, Active(udscs[id]) \/ udscs[id].running \/ udscs[id].tester
  PROVE  Live(id)
BY DEF Active, Live

\* The run of a client that goes on or ends.
LEMMA FinishQuiet ==
  ASSUME MasterOK, NEW id \in Ids, NEW recode \in Recodes,
         NEW q \in Seq(Header), Extends(toApi, q, Quiets), IpcOK, Live(id),
         Finish(id, recode, q)
  PROVE  /\ \A k \in Ids : udscs'[k].isidle = udscs[k].isidle
         /\ \A k \in Ids : Live(k)' => Live(k)
         /\ Extends(toApi, toApi', Quiets)
<1> DEFINE u == Stopped(udscs[id])
<1>1. udscs' = [udscs EXCEPT ![id] = u]  BY DEF Finish
<1>2. udscs[id] \in Udsc  BY DEF MasterOK
<1>3. u.isidle = udscs[id].isidle /\ u.sindex = -1 /\ ~u.running /\ ~u.tester
  BY <1>2 DEF Stopped, Udsc
<1>4. /\ \A k \in Ids : udscs'[k].isidle = udscs[k].isidle
      /\ \A k \in Ids : Live(k)' => Live(k)
  <2>1. 0 <= u.sindex \/ u.running \/ u.tester => Live(id)  OBVIOUS
  <2> QED  BY <1>1, <1>3, <2>1, OneClient
<1>5. Extends(toApi, toApi', Quiets)
  <2> DEFINE m == Notice("script_result", recode, id)
  <2>1. "script_result" \in Notices  BY DEF Notices
  <2>2. m \in Quiets  BY <2>1, NoticeQuiet
  <2>3. m \in Header  BY <2>2 DEF Quiets
  <2>4. toApi' = Sent(q, m)  BY DEF Finish
  <2> QED  BY <2>2, <2>3, <2>4, ExtendsSent DEF IpcOK
<1> QED  BY <1>4, <1>5

\* A run that goes on, or is over, starts none and changes no hands.
LEMMA ProgressQuiet ==
  ASSUME MasterOK, IpcOK, NEW id \in Ids, NEW recodes \in SUBSET Recodes,
         NEW q \in Seq(Header), Extends(toApi, q, Quiets),
         Active(udscs[id]), Progress(id, recodes, q)
  PROVE  /\ \A k \in Ids : udscs'[k].isidle = udscs[k].isidle
         /\ \A k \in Ids : Live(k)' => Live(k)
         /\ Extends(toApi, toApi', Quiets)
<1>1. Live(id)  BY ActiveIsLive
<1>2. CASE \E i \in udscs[id].sindex..(udscs[id].service_cnt - 1) :
             MoveTo(id, i) /\ toApi' = q
  <2>1. PICK i \in udscs[id].sindex..(udscs[id].service_cnt - 1) :
               MoveTo(id, i) /\ toApi' = q
    BY <1>2
  <2> DEFINE u == [udscs[id] EXCEPT !.sindex = i, !.running = TRUE]
  <2>2. udscs' = [udscs EXCEPT ![id] = u]  BY <2>1 DEF MoveTo
  <2>3. udscs[id] \in Udsc  BY DEF MasterOK
  <2>4. u.isidle = udscs[id].isidle  BY <2>3 DEF Udsc
  <2>5. /\ \A k \in Ids : udscs'[k].isidle = udscs[k].isidle
        /\ \A k \in Ids : Live(k)' => Live(k)
    BY <1>1, <2>2, <2>4, OneClient
  <2> QED  BY <2>1, <2>5
<1>3. CASE \E recode \in recodes : Finish(id, recode, q)
  <2>1. PICK recode \in recodes : Finish(id, recode, q)  BY <1>3
  <2> QED  BY <1>1, <2>1, FinishQuiet
<1> QED  BY <1>2, <1>3 DEF Progress

\* The timers and the DoIP connection of a client.
LEMMA TimersQuiet ==
  ASSUME MasterOK, IpcOK, RunningIsInUse, NEW id \in Ids, Timers(id)
  PROVE  QuietMaster
<1> DEFINE u == udscs[id]
           n == Notice("indication", "no", id)
<1>1. u \in Udsc  BY DEF MasterOK
<1>2. UNCHANGED <<toMaster, udsc_cnt, lease, run, upset, abandoned>>
  BY DEF Timers, RequestSent, RequestsExhausted, RequestAborted, ResponseTimeout,
         TesterPresent, Step, master
<1>3. Rest(toMaster, toMaster')  BY <1>2, RestSame DEF IpcOK
<1>4. {"no", "response_timeout"} \in SUBSET Recodes /\ "no" \in Recodes
      /\ "indication" \in Notices
  BY DEF Recodes, Notices
<1>5. toApi \in Seq(Header) /\ Extends(toApi, toApi, Quiets)
  BY ExtendsSame DEF IpcOK
<1>6. Live(id) => Extends(toApi, Sent(toApi, n), Quiets)
  <2>1. ASSUME Live(id)  PROVE  Extends(toApi, Sent(toApi, n), Quiets)
    <3>1. n \in Quiets  BY <1>4, <2>1, NoticeQuiet
    <3>2. n \in Header  BY <3>1 DEF Quiets
    <3> QED  BY <1>5, <3>1, <3>2, ExtendsSent
  <2> QED  BY <2>1
<1>7. /\ \A k \in Ids : udscs'[k].isidle = udscs[k].isidle
      /\ \A k \in Ids : Live(k)' => Live(k)
      /\ Extends(toApi, toApi', Quiets)
  <2>1. CASE RequestSent(id)
    <3>1. udscs' = [udscs EXCEPT ![id] = Refreshed(u)] /\ u.running
      BY <2>1 DEF RequestSent
    <3>2. Refreshed(u).isidle = u.isidle  BY <1>1 DEF Refreshed, Udsc
    <3>3. Live(id)  BY <3>1, ActiveIsLive
    <3>4. toApi' = toApi \/ toApi' = Sent(toApi, n)  BY <2>1 DEF RequestSent
    <3>5. /\ \A k \in Ids : udscs'[k].isidle = udscs[k].isidle
          /\ \A k \in Ids : Live(k)' => Live(k)
      BY <3>1, <3>2, <3>3, OneClient
    <3>6. Extends(toApi, toApi', Quiets)  BY <1>5, <1>6, <3>3, <3>4
    <3> QED  BY <3>5, <3>6
  <2>2. CASE \E bytes \in SentBytes(u) : RequestsExhausted(id, bytes)
    <3> DEFINE new == [Refreshed(u) EXCEPT !.sindex = u.service_cnt, !.running = FALSE]
    <3>1. udscs' = [udscs EXCEPT ![id] = new] /\ u.running /\ UNCHANGED toApi
      BY <2>2 DEF RequestsExhausted
    <3>2. new.isidle = u.isidle  BY <1>1 DEF Refreshed, Udsc
    <3>3. Live(id)  BY <3>1, ActiveIsLive
    <3>4. /\ \A k \in Ids : udscs'[k].isidle = udscs[k].isidle
          /\ \A k \in Ids : Live(k)' => Live(k)
      BY <3>1, <3>2, <3>3, OneClient
    <3> QED  BY <1>5, <3>1, <3>4
  <2>3. CASE \E bytes \in SentBytes(u) : RequestAborted(id, bytes)
    <3>1. Finish(id, "no", toApi) /\ u.running  BY <2>3 DEF RequestAborted
    <3>2. Live(id)  BY <3>1, ActiveIsLive
    <3> QED  BY <1>4, <1>5, <3>1, <3>2, FinishQuiet
  <2>4. CASE ResponseTimeout(id)
    <3>1. Active(u) /\ Progress(id, {"no", "response_timeout"}, toApi)
      BY <2>4 DEF ResponseTimeout
    <3> QED  BY <1>4, <1>5, <3>1, ProgressQuiet
  <2>5. CASE TesterPresent(id)
    <3>1. UNCHANGED udscs /\ u.tester  BY <2>5 DEF TesterPresent, master
    <3>2. Live(id)  BY <3>1, ActiveIsLive
    <3>3. toApi' = toApi \/ toApi' = Sent(toApi, n)  BY <2>5 DEF TesterPresent
    <3>4. Extends(toApi, toApi', Quiets)  BY <1>5, <1>6, <3>2, <3>3
    <3> QED  BY <3>1, <3>4, SameClients
  <2> QED  BY <2>1, <2>2, <2>3, <2>4, <2>5 DEF Timers
<1> QED  BY <1>2, <1>3, <1>7 DEF QuietMaster, SameHands

\* Nor does a DoIP connection.
LEMMA DoipcQuiet ==
  ASSUME MasterOK, IpcOK, NEW id \in Ids, DoipcRead(id)
  PROVE  QuietMaster
<1> DEFINE u == udscs[id]
<1>1. PICK stat \in DoipStats : udscs' = [udscs EXCEPT ![id].doipc = stat]
  BY DEF DoipcRead, DoipcConnected, DoipcDisconnected, RoutingActivated, DoipStats
<1> DEFINE new == [u EXCEPT !.doipc = stat]
<1>2. u \in Udsc  BY DEF MasterOK
<1>3. /\ new.isidle = u.isidle /\ new.sindex = u.sindex
      /\ new.running = u.running /\ new.tester = u.tester
  BY <1>2 DEF Udsc
<1>4. udscs' = [udscs EXCEPT ![id] = new]  BY <1>1
<1>5. 0 <= new.sindex \/ new.running \/ new.tester => Live(id)  BY <1>3 DEF Live
<1>6. /\ \A k \in Ids : udscs'[k].isidle = udscs[k].isidle
      /\ \A k \in Ids : Live(k)' => Live(k)
  BY <1>3, <1>4, <1>5, OneClient
<1>7. UNCHANGED <<toMaster, toApi, udsc_cnt, lease, run, upset, abandoned>>
  BY DEF DoipcRead
<1>8. Rest(toMaster, toMaster') /\ Extends(toApi, toApi', Quiets)
  BY <1>7, RestSame, ExtendsSame DEF IpcOK
<1> QED  BY <1>6, <1>7, <1>8 DEF QuietMaster, SameHands

\* A command that brings a response of the ECU.
LEMMA ResponseQuiet ==
  ASSUME MasterOK, IpcOK, RunningIsInUse, NEW m, NEW answer, ServiceResponse(m, answer)
  PROVE  QuietMaster
<1> DEFINE replied == Sent(toApi, Reply(m, "no", m.id))
           result == Notice("service_result", "no", m.id)
           seen == Notice("sa_seed", "no", m.id)
<1>1. m \in Header /\ m.id \in Ids /\ m.cmd = "response" /\ Take(m)
  BY TakeOK DEF ServiceResponse, Accept
<1>2. PICK queue \in Forwarded(m, answer, replied) :
        \/ toApi' = queue /\ UNCHANGED udscs
        \/ /\ Active(udscs[m.id]) /\ answer = "own"
           /\ \E seed \in {queue, Sent(queue, seen)} :
                Progress(m.id, {"no", "response_unexpect"}, seed)
  BY DEF ServiceResponse
<1>3. /\ {"no", "response_unexpect"} \in SUBSET Recodes /\ "no" \in Recodes
      /\ "sa_seed" \in Notices /\ "service_result" \in Notices
  BY DEF Recodes, Notices
<1>4. replied \in Seq(Header) /\ Extends(toApi, replied, Quiets)
  <2>1. Reply(m, "no", m.id) \in Header  BY <1>1, <1>3, ReplyOK
  <2>2. Reply(m, "no", m.id).isreply /\ Reply(m, "no", m.id).cmd \notin UserOnly
    BY <1>1 DEF Reply, Header, UserOnly
  <2>3. Reply(m, "no", m.id) \in Quiets  BY <2>1, <2>2 DEF Quiets
  <2>4. toApi \in Seq(Header) /\ Len(toApi) <= QueueMax  BY DEF IpcOK
  <2>5. Extends(toApi, toApi, Quiets)  BY <2>4, ExtendsSame
  <2>6. replied \in Seq(Header)  BY <2>1, <2>4, SentOK
  <2>7. Extends(toApi, replied, Quiets)  BY <2>1, <2>3, <2>4, <2>5, ExtendsSent
  <2> QED  BY <2>6, <2>7
<1>5. replied \in Seq(Header) /\ Len(replied) <= QueueMax
  BY <1>1, <1>3, RepliedOK
<1>6. /\ queue \in Seq(Header) /\ Len(queue) <= QueueMax
      /\ Extends(toApi, queue, Quiets)
  <2>1. CASE queue = replied  BY <1>4, <1>5, <2>1
  <2>2. CASE queue = Sent(replied, result) /\ Active(udscs[m.id])
    <3>1. result \in Quiets  BY <1>1, <1>3, <2>2, ActiveIsLive, NoticeQuiet
    <3>2. result \in Header  BY <3>1 DEF Quiets
    <3>3. queue \in Seq(Header) /\ Len(queue) <= QueueMax
      BY <1>5, <2>2, <3>2, SentOK
    <3>4. toApi \in Seq(Header)  BY DEF IpcOK
    <3>5. Extends(toApi, queue, Quiets)
      BY <1>4, <2>2, <3>1, <3>2, <3>4, ExtendsSent
    <3> QED  BY <3>3, <3>5
  <2> QED  BY <1>2, <2>1, <2>2 DEF Forwarded
<1>7. /\ \A k \in Ids : udscs'[k].isidle = udscs[k].isidle
      /\ \A k \in Ids : Live(k)' => Live(k)
      /\ Extends(toApi, toApi', Quiets)
  <2>1. CASE toApi' = queue /\ UNCHANGED udscs
    BY <1>6, <2>1, SameClients
  <2>2. CASE /\ Active(udscs[m.id])
             /\ \E seed \in {queue, Sent(queue, seen)} :
                  Progress(m.id, {"no", "response_unexpect"}, seed)
    <3>1. PICK seed \in {queue, Sent(queue, seen)} :
            Progress(m.id, {"no", "response_unexpect"}, seed)
      BY <2>2
    <3>2. seen \in Quiets  BY <1>1, <1>3, <2>2, ActiveIsLive, NoticeQuiet
    <3>3. seen \in Header  BY <3>2 DEF Quiets
    <3>4. toApi \in Seq(Header)  BY DEF IpcOK
    <3>5. Sent(queue, seen) \in Seq(Header)  BY <1>6, <3>3, SentOK
    <3>6. Extends(toApi, Sent(queue, seen), Quiets)
      BY <1>6, <3>2, <3>3, <3>4, ExtendsSent
    <3>7. seed \in Seq(Header) /\ Extends(toApi, seed, Quiets)
      BY <1>6, <3>1, <3>5, <3>6
    <3> QED  BY <1>1, <1>3, <2>2, <3>1, <3>7, ProgressQuiet
  <2> QED  BY <1>2, <2>1, <2>2
<1>8. UNCHANGED <<udsc_cnt, lease, run, upset, abandoned>>  BY DEF ServiceResponse
<1>9. Rest(toMaster, toMaster')
  BY <1>1, RestTail DEF Take, IpcOK
<1> QED  BY <1>7, <1>8, <1>9 DEF QuietMaster, SameHands

\* Commands that leave the clients alone, but for how their list or their
\* connection is configured.
LEMMA PlainCommands ==
  ASSUME MasterOK, IpcOK, NEW m,
         \/ ReplyIgnored(m) \/ Refuse(m) \/ Ignore(m) \/ UdscCreateFailed(m)
         \/ ServiceConfig(m) \/ Configure(m) \/ DoipcCreate(m) \/ DoipcCreateFailed(m)
  PROVE  QuietMaster \/ (Answered(m) /\ PlainReply(m))
<1>1. Take(m)
  BY DEF ReplyIgnored, Refuse, Ignore, UdscCreateFailed, ServiceConfig, Configure,
         DoipcCreate, DoipcCreateFailed, Accept
<1>2. m \in Header /\ m.id \in Ids  BY <1>1, TakeOK
<1>3. UNCHANGED <<udsc_cnt, lease, run, upset, abandoned>>
  BY DEF ReplyIgnored, Refuse, Ignore, UdscCreateFailed, ServiceConfig, Configure,
         DoipcCreate, DoipcCreateFailed, master
<1>4. /\ \A k \in Ids : udscs'[k].isidle = udscs[k].isidle
      /\ \A k \in Ids : Live(k)' => Live(k)
  <2>1. CASE UNCHANGED udscs  BY <2>1, SameClients
  <2>2. CASE udscs' = [udscs EXCEPT ![m.id].service_cnt = @ + 1]
    <3> DEFINE u == udscs[m.id]
               new == [u EXCEPT !.service_cnt = @ + 1]
    <3>1. u \in Udsc  BY <1>2 DEF MasterOK
    <3>2. /\ new.isidle = u.isidle /\ new.sindex = u.sindex
          /\ new.running = u.running /\ new.tester = u.tester
      BY <3>1 DEF Udsc
    <3>3. 0 <= new.sindex \/ new.running \/ new.tester => Live(m.id)
      BY <3>2 DEF Live
    <3>4. udscs' = [udscs EXCEPT ![m.id] = new]  BY <2>2
    <3> QED  BY <1>2, <3>2, <3>3, <3>4, OneClient
  <2>3. CASE \E stat \in DoipStats : udscs' = [udscs EXCEPT ![m.id].doipc = stat]
    <3>1. PICK stat \in DoipStats : udscs' = [udscs EXCEPT ![m.id].doipc = stat]
      BY <2>3
    <3> DEFINE u == udscs[m.id]
               new == [u EXCEPT !.doipc = stat]
    <3>2. u \in Udsc  BY <1>2 DEF MasterOK
    <3>3. /\ new.isidle = u.isidle /\ new.sindex = u.sindex
          /\ new.running = u.running /\ new.tester = u.tester
      BY <3>2 DEF Udsc
    <3>4. 0 <= new.sindex \/ new.running \/ new.tester => Live(m.id)
      BY <3>3 DEF Live
    <3>5. udscs' = [udscs EXCEPT ![m.id] = new]  BY <3>1
    <3> QED  BY <1>2, <3>3, <3>4, <3>5, OneClient
  <2> QED
    BY <2>1, <2>2, <2>3 DEF ReplyIgnored, Refuse, Ignore, UdscCreateFailed,
       ServiceConfig, Configure, DoipcCreate, DoipcCreateFailed, master, DoipStats
<1>5. SameHands  BY <1>3, <1>4 DEF SameHands
<1>6. toApi \in Seq(Header) /\ toMaster \in Seq(Header)  BY DEF IpcOK
<1>7. Rest(toMaster, toMaster')  BY <1>1, <1>6, RestTail DEF Take
<1>8. CASE UNCHANGED toApi
  BY <1>5, <1>6, <1>7, <1>8, ExtendsSame DEF QuietMaster
<1>9. CASE /\ ~m.isreply
           /\ \E recode \in Recodes, id \in Ids :
                /\ m.cmd # "create" => id = m.id
                /\ toApi' = Sent(toApi, Reply(m, recode, id))
                /\ recode = "no" => m.cmd \notin {"create", "destory", "stop"}
  <2>1. CASE m.cmd \in UserOnly
    <3>1. IsAsk(m)  BY <1>9, <2>1 DEF IsAsk
    <3>2. Answered(m)  BY <1>1, <1>2, <1>9, <3>1 DEF Answered
    <3>3. PlainReply(m)  BY <1>5, <1>9 DEF PlainReply
    <3> QED  BY <3>2, <3>3
  <2>2. CASE m.cmd \notin UserOnly
    <3>1. PICK recode \in Recodes, id \in Ids : toApi' = Sent(toApi, Reply(m, recode, id))
      BY <1>9
    <3>2. Reply(m, recode, id) \in Header  BY <1>2, ReplyOK
    <3>3. Reply(m, recode, id).isreply /\ Reply(m, recode, id).cmd \notin UserOnly
      BY <1>2, <2>2 DEF Reply, Header
    <3>4. Reply(m, recode, id) \in Quiets  BY <3>2, <3>3 DEF Quiets
    <3>5. Extends(toApi, toApi, Quiets)  BY <1>6, ExtendsSame
    <3>6. Extends(toApi, toApi', Quiets)
      BY <1>6, <3>1, <3>2, <3>4, <3>5, ExtendsSent
    <3> QED  BY <1>5, <1>7, <3>6 DEF QuietMaster
  <2> QED  BY <2>1, <2>2
<1>10. {"no", "invalid", "create", "service_add", "doipc_create"} \subseteq Recodes
       /\ 0 \in Ids
  BY ConstantsOK DEF Recodes
<1>11. CASE ReplyIgnored(m) \/ Ignore(m)  BY <1>8, <1>11 DEF ReplyIgnored, Ignore
<1>12. CASE Refuse(m)  BY <1>2, <1>9, <1>10, <1>12 DEF Refuse
<1>13. CASE UdscCreateFailed(m)
  BY <1>9, <1>10, <1>13 DEF UdscCreateFailed, Accept
<1>14. CASE ServiceConfig(m)
  BY <1>2, <1>9, <1>10, <1>14 DEF ServiceConfig, Accept
<1>15. CASE Configure(m)
  BY <1>2, <1>9, <1>10, <1>15 DEF Configure, Accept
<1>16. CASE DoipcCreate(m) \/ DoipcCreateFailed(m)
  BY <1>2, <1>9, <1>10, <1>16 DEF DoipcCreate, DoipcCreateFailed, Accept
<1> QED  BY <1>11, <1>12, <1>13, <1>14, <1>15, <1>16

\* The commands that hand out a client, take it back, start it or stop it.
HandCommand(m) ==
  \/ UdscCreate(m) \/ UdscCreateFull(m)
  \/ UdscDestory(m)
  \/ UdscStart(m) \/ UdscStop(m)
  \/ MasterReset(m)

\* Each of them is carried out and replied to, or its reply does not fit.
LEMMA HandCommandAnswered ==
  ASSUME IpcOK, NEW m, HandCommand(m)
  PROVE  Answered(m)
<1>1. Take(m) /\ ~m.isreply /\ m.cmd \in {"create", "destory", "start", "stop", "reset"}
  BY DEF HandCommand, UdscCreate, UdscCreateFull, UdscDestory, UdscStart, UdscStop,
         MasterReset, Accept
<1>2. m \in Header /\ m.id \in Ids  BY <1>1, TakeOK
<1>3. IsAsk(m)  BY <1>1 DEF IsAsk, UserOnly, Commands
<1>4. "no" \in Recodes /\ 0 \in Ids  BY ConstantsOK DEF Recodes
<1>5. \E id \in Ids : /\ m.cmd # "create" => id = m.id
                      /\ toApi' = Sent(toApi, Reply(m, "no", id))
  BY <1>1, <1>2, <1>4
     DEF HandCommand, UdscCreate, Granted, UdscCreateFull, UdscDestory, UdscStart,
         UdscStop, MasterReset, Accept
<1> QED  BY <1>1, <1>2, <1>3, <1>4, <1>5 DEF Answered

\* Every step of the diag master.
LEMMA MasterCases ==
  ASSUME MasterOK, IpcOK, RunningIsInUse, MasterNext
  PROVE  \/ QuietMaster
         \/ \E m : Answered(m) /\ (PlainReply(m) \/ HandCommand(m))
<1>1. CASE toMaster # <<>> /\ IpcRead(Head(toMaster))
  <2> DEFINE m == Head(toMaster)
  <2>1. CASE HandCommand(m)  BY <2>1, HandCommandAnswered
  <2>2. CASE \E answer \in Answers : ServiceResponse(m, answer)
    BY <2>2, ResponseQuiet
  <2>3. CASE \/ ReplyIgnored(m) \/ Refuse(m) \/ Ignore(m) \/ UdscCreateFailed(m)
             \/ ServiceConfig(m) \/ Configure(m) \/ DoipcCreate(m)
             \/ DoipcCreateFailed(m)
    BY <2>3, PlainCommands
  <2> QED  BY <1>1, <2>1, <2>2, <2>3 DEF IpcRead, HandCommand
<1>2. CASE \E id \in Ids : Timers(id) \/ DoipcRead(id)
  BY <1>2, TimersQuiet, DoipcQuiet
<1> QED  BY <1>1, <1>2 DEF MasterNext

-----------------------------------------------------------------------------
(***************************************************************************)
(* What the steps of the API change                                        *)
(***************************************************************************)

\* Messages that ask for nothing only the user's call itself could ask for.
Backs == {m \in Header : ~IsAsk(m)}

\* No call begins or ends.
QuietApi ==
  /\ UNCHANGED <<isvalid, calls, handle, made, failed, quiet>>
  /\ Rest(toApi, toApi')
  /\ Extends(toMaster, toMaster', Backs)

\* The topmost call, or one that begins, fails.
FailedCall ==
  /\ failed'
  /\ UNCHANGED <<isvalid, handle, toMaster>>
  /\ Rest(toApi, toApi')

\* A callback calls.
NestedCall ==
  /\ UNCHANGED <<isvalid, handle, quiet>>
  /\ made' = made + 1
  /\ Rest(toApi, toApi')
  /\ Extends(toMaster, toMaster', Backs)
  /\ \/ failed'
     \/ \E c \in CallRecord :
          /\ c.cmd \notin UserOnly /\ c.tag = made'
          /\ calls' = Append(calls, c)

\* A callback answers a request first, and then calls.
LEMMA NestedCallMade ==
  ASSUME IpcOK, ApiOK, NEW m \in Header, NEW cmd \in ApiCommands, CallsBack(m, cmd),
         ~m.isreply, Read(m), Call(cmd, m.id, Sent(toMaster, Reply(m, "no", m.id)))
  PROVE  NestedCall
<1> DEFINE back == Reply(m, "no", m.id)
           replied == Sent(toMaster, back)
           ask == Request(cmd, "no", m.id, made')
           c == [cmd |-> cmd, id |-> m.id, tag |-> made']
<1>1. m.id \in Ids /\ cmd \in {"response", "sa_key"} /\ cmd \in Commands
  BY ApiAssumption DEF Header, CallsBack
<1>2. cmd \notin UserOnly /\ cmd # "destory"  BY <1>1 DEF UserOnly
<1>3. "no" \in Recodes  BY DEF Recodes
<1>4. made' = made + 1 /\ made' \in Nat  BY DEF Call, ApiOK
<1>5. UNCHANGED <<isvalid, handle, quiet>>
  BY <1>1, <1>2 DEF Call, ApiOK
<1>6. toApi \in Seq(Header) /\ toMaster \in Seq(Header) /\ Len(toMaster) <= QueueMax
  BY DEF IpcOK
<1>7. Rest(toApi, toApi')  BY <1>6, RestTail DEF Read
<1>8. back \in Header /\ back \in Backs
  <2>1. back \in Header  BY <1>1, <1>3, ReplyOK
  <2>2. back.isreply  BY DEF Reply, Header
  <2> QED  BY <2>1, <2>2 DEF Backs, IsAsk
<1>9. replied \in Seq(Header) /\ Extends(toMaster, replied, Backs)
  <2>1. replied \in Seq(Header)  BY <1>6, <1>8, SentOK
  <2>2. Extends(toMaster, toMaster, Backs)  BY <1>6, ExtendsSame
  <2>3. Extends(toMaster, replied, Backs)  BY <1>6, <1>8, <2>2, ExtendsSent
  <2> QED  BY <2>1, <2>3
<1>10. ask \in Header /\ ask \in Backs
  <2>1. ask \in Header  BY <1>1, <1>3, <1>4, RequestOK
  <2>2. ask.cmd = cmd  BY DEF Request
  <2> QED  BY <1>2, <2>1, <2>2 DEF Backs, IsAsk
<1>11. Extends(toMaster, toMaster', Backs)
  <2>1. toMaster' = Sent(replied, ask)  BY DEF Call
  <2> QED  BY <1>6, <1>9, <1>10, <2>1, ExtendsSent
<1>12. c \in CallRecord /\ c.cmd = cmd /\ c.tag = made'
  BY <1>1, <1>4 DEF CallRecord
<1>13. failed' \/ calls' = Append(calls, c)  BY DEF Call
<1> QED  BY <1>2, <1>4, <1>5, <1>7, <1>11, <1>12, <1>13 DEF NestedCall

\* Every step of the API.
LEMMA ApiCases ==
  ASSUME IpcOK, ApiOK, ApiNext
  PROVE  \/ QuietApi
         \/ FailedCall
         \/ NestedCall
         \/ \E cmd \in ApiCommands, id \in Ids : UserCall(cmd, id)
         \/ toApi # <<>> /\ Head(toApi) \in Header /\ ReplyExpected(Head(toApi))
<1> DEFINE m == Head(toApi)
<1>1. toApi \in Seq(Header) /\ toMaster \in Seq(Header) /\ Len(toApi) <= QueueMax
      /\ Len(toMaster) <= QueueMax
  BY DEF IpcOK
<1>2. Rest(toApi, toApi) /\ Extends(toMaster, toMaster, Backs)
  BY <1>1, RestSame, ExtendsSame
<1>3. CASE \E id \in Ids : CallbackSet(id)
  BY <1>2, <1>3 DEF CallbackSet, channels, QuietApi
<1>4. CASE RecvTimeout
  BY <1>2, <1>4 DEF RecvTimeout, Fail, channels, FailedCall
<1>5. CASE Receive
  <2>1. toApi # <<>> /\ m \in Header /\ m.id \in Ids
    BY <1>1, <1>5, ReceivedOK DEF Receive, Header
  <2>2. Rest(toApi, Tail(toApi))  BY <1>1, <2>1, RestTail
  <2>3. CASE ReplyDropped(m)
    BY <1>2, <2>2, <2>3 DEF ReplyDropped, Read, QuietApi
  <2>4. CASE ReplyFailed(m)
    BY <2>2, <2>4 DEF ReplyFailed, Fail, Read, FailedCall
  <2>5. CASE ReplyExpected(m)  BY <2>1, <2>5
  <2>6. CASE NoticeDropped(m)
    BY <1>2, <2>2, <2>6 DEF NoticeDropped, Fail, Read, api, QuietApi, FailedCall
  <2>7. CASE NoticeHandled(m)
    <3> DEFINE back == Reply(m, "no", m.id)
    <3>1. Read(m) /\ ~m.isreply  BY <2>7 DEF NoticeHandled
    <3>2. CASE toMaster' = Sent(toMaster, back) /\ UNCHANGED api
      <4>1. "no" \in Recodes  BY DEF Recodes
      <4>2. back \in Header  BY <2>1, <4>1, ReplyOK
      <4>3. back.isreply  BY <2>1 DEF Reply, Header
      <4>4. back \in Backs  BY <4>2, <4>3 DEF Backs, IsAsk
      <4>5. Extends(toMaster, toMaster', Backs)
        BY <1>1, <1>2, <3>2, <4>2, <4>4, ExtendsSent
      <4> QED  BY <2>2, <3>1, <3>2, <4>5 DEF Read, api, QuietApi
    <3>3. CASE \E cmd \in ApiCommands :
                 CallsBack(m, cmd) /\ Call(cmd, m.id, Sent(toMaster, back))
      BY <2>1, <3>1, <3>3, NestedCallMade
    <3> QED  BY <2>7, <3>2, <3>3 DEF NoticeHandled
  <2> QED  BY <1>5, <2>3, <2>4, <2>5, <2>6, <2>7 DEF Receive
<1> QED  BY <1>3, <1>4, <1>5 DEF ApiNext

-----------------------------------------------------------------------------
(***************************************************************************)
(* What is under way of the user's call                                    *)
(***************************************************************************)

\* No command and no reply of the user's call is under way that was not before.
AsksKept ==
  \E d \in {0, 1} : \A k \in 1..Len(toMaster') :
    IsAsk(toMaster'[k]) => /\ k + d \in 1..Len(toMaster)
                           /\ toMaster'[k] = toMaster[k + d]

\* The same for replies.
AnswersKept ==
  \E d \in {0, 1} : \A k \in 1..Len(toApi') :
    IsAnswer(toApi'[k]) => /\ k + d \in 1..Len(toApi)
                           /\ toApi'[k] = toApi[k + d]

\* Taking a command, or sending what is none, makes none.
LEMMA AsksAreKept ==
  ASSUME IpcOK, IpcOK', Rest(toMaster, toMaster') \/ Extends(toMaster, toMaster', Backs)
  PROVE  AsksKept
<1>1. Len(toMaster) \in Nat /\ Len(toMaster') \in Nat
  BY LenProperties DEF IpcOK
<1>2. CASE Rest(toMaster, toMaster')
  <2>1. PICK d \in {0, 1} : /\ Len(toMaster') = Len(toMaster) - d
                            /\ \A k \in 1..Len(toMaster') : toMaster'[k] = toMaster[k + d]
    BY <1>2 DEF Rest
  <2>2. \A k \in 1..Len(toMaster') : k + d \in 1..Len(toMaster)  BY <1>1, <2>1
  <2> QED  BY <2>1, <2>2 DEF AsksKept
<1>3. CASE Extends(toMaster, toMaster', Backs)
  <2>1. ASSUME NEW k \in 1..Len(toMaster'), IsAsk(toMaster'[k])
        PROVE  k + 0 \in 1..Len(toMaster) /\ toMaster'[k] = toMaster[k + 0]
    <3>1. CASE k \in 1..Len(toMaster)  BY <1>1, <1>3, <3>1 DEF Extends
    <3>2. CASE k \in (Len(toMaster) + 1)..Len(toMaster')
      BY <1>3, <2>1, <3>2 DEF Extends, Backs
    <3> QED  BY <1>1, <3>1, <3>2
  <2> QED  BY <2>1 DEF AsksKept
<1> QED  BY <1>2, <1>3

\* Reading a reply, or sending what is none, makes none.
LEMMA AnswersAreKept ==
  ASSUME IpcOK, IpcOK', Rest(toApi, toApi') \/ Extends(toApi, toApi', Quiets)
  PROVE  AnswersKept
<1>1. Len(toApi) \in Nat /\ Len(toApi') \in Nat
  BY LenProperties DEF IpcOK
<1>2. CASE Rest(toApi, toApi')
  <2>1. PICK d \in {0, 1} : /\ Len(toApi') = Len(toApi) - d
                            /\ \A k \in 1..Len(toApi') : toApi'[k] = toApi[k + d]
    BY <1>2 DEF Rest
  <2>2. \A k \in 1..Len(toApi') : k + d \in 1..Len(toApi)  BY <1>1, <2>1
  <2> QED  BY <2>1, <2>2 DEF AnswersKept
<1>3. CASE Extends(toApi, toApi', Quiets)
  <2>1. ASSUME NEW k \in 1..Len(toApi'), IsAnswer(toApi'[k])
        PROVE  k + 0 \in 1..Len(toApi) /\ toApi'[k] = toApi[k + 0]
    <3>1. CASE k \in 1..Len(toApi)  BY <1>1, <1>3, <3>1 DEF Extends
    <3>2. CASE k \in (Len(toApi) + 1)..Len(toApi')
      BY <1>3, <2>1, <3>2 DEF Extends, Quiets, IsAnswer
    <3> QED  BY <1>1, <3>1, <3>2
  <2> QED  BY <2>1 DEF AnswersKept
<1> QED  BY <1>2, <1>3

\* The two parts of Outstanding: the calls, and the messages.
CallsNest ==
  /\ \A k \in 2..Len(calls) : calls[k].cmd \notin UserOnly
  /\ \A k \in 1..Len(calls) : calls[k].tag <= made

MessagesAwaited ==
  /\ \A k \in 1..Len(toMaster) : IsAsk(toMaster[k]) => Awaited(toMaster[k])
  /\ \A k \in 1..Len(toApi) : IsAnswer(toApi[k]) => Awaited(toApi[k])
  /\ \A j, k \in 1..Len(toMaster) : IsAsk(toMaster[j]) /\ IsAsk(toMaster[k]) => j = k
  /\ \A j, k \in 1..Len(toApi) : IsAnswer(toApi[j]) /\ IsAnswer(toApi[k]) => j = k
  /\ \A j \in 1..Len(toMaster), k \in 1..Len(toApi) :
       ~(IsAsk(toMaster[j]) /\ IsAnswer(toApi[k]))

\* Outstanding is its two parts.
LEMMA OutstandingParts == Outstanding <=> CallsNest /\ MessagesAwaited
BY DEF Outstanding, CallsNest, MessagesAwaited

\* What was awaited still is, as long as the user's call is in progress.
LEMMA MessagesKept ==
  ASSUME IpcOK, IpcOK', MessagesAwaited, AsksKept, AnswersKept,
         calls # <<>> /\ calls[1].cmd \in UserOnly => calls' # <<>> /\ calls'[1] = calls[1]
  PROVE  MessagesAwaited'
<1>1. \A m : Awaited(m) /\ m.cmd \in UserOnly
               => /\ calls' # <<>> /\ calls'[1].cmd = m.cmd /\ calls'[1].tag = m.tag
                  /\ m.cmd # "create" => calls'[1].id = m.id
  BY DEF Awaited
<1>2. Len(toMaster') \in Nat /\ Len(toApi') \in Nat  BY LenProperties DEF IpcOK
<1>3. PICK d \in {0, 1} : \A k \in 1..Len(toMaster') :
        IsAsk(toMaster'[k]) => /\ k + d \in 1..Len(toMaster)
                               /\ toMaster'[k] = toMaster[k + d]
  BY DEF AsksKept
<1>4. PICK e \in {0, 1} : \A k \in 1..Len(toApi') :
        IsAnswer(toApi'[k]) => /\ k + e \in 1..Len(toApi)
                               /\ toApi'[k] = toApi[k + e]
  BY DEF AnswersKept
<1>5. \A k \in 1..Len(toMaster') : IsAsk(toMaster'[k]) =>
        /\ calls' # <<>> /\ calls'[1].cmd = toMaster'[k].cmd
        /\ calls'[1].tag = toMaster'[k].tag
        /\ toMaster'[k].cmd # "create" => calls'[1].id = toMaster'[k].id
  <2> SUFFICES ASSUME NEW k \in 1..Len(toMaster'), IsAsk(toMaster'[k])
               PROVE  /\ calls' # <<>> /\ calls'[1].cmd = toMaster'[k].cmd
                      /\ calls'[1].tag = toMaster'[k].tag
                      /\ toMaster'[k].cmd # "create" => calls'[1].id = toMaster'[k].id
    OBVIOUS
  <2>1. k + d \in 1..Len(toMaster) /\ toMaster'[k] = toMaster[k + d]  BY <1>3
  <2>2. Awaited(toMaster[k + d])  BY <2>1 DEF MessagesAwaited
  <2> QED  BY <1>1, <2>1, <2>2 DEF IsAsk
<1>6. \A k \in 1..Len(toApi') : IsAnswer(toApi'[k]) =>
        /\ calls' # <<>> /\ calls'[1].cmd = toApi'[k].cmd
        /\ calls'[1].tag = toApi'[k].tag
        /\ toApi'[k].cmd # "create" => calls'[1].id = toApi'[k].id
  <2> SUFFICES ASSUME NEW k \in 1..Len(toApi'), IsAnswer(toApi'[k])
               PROVE  /\ calls' # <<>> /\ calls'[1].cmd = toApi'[k].cmd
                      /\ calls'[1].tag = toApi'[k].tag
                      /\ toApi'[k].cmd # "create" => calls'[1].id = toApi'[k].id
    OBVIOUS
  <2>1. k + e \in 1..Len(toApi) /\ toApi'[k] = toApi[k + e]  BY <1>4
  <2>2. Awaited(toApi[k + e])  BY <2>1 DEF MessagesAwaited
  <2> QED  BY <1>1, <2>1, <2>2 DEF IsAnswer
<1>7. \A j, k \in 1..Len(toMaster') : IsAsk(toMaster'[j]) /\ IsAsk(toMaster'[k]) => j = k
  <2> SUFFICES ASSUME NEW j \in 1..Len(toMaster'), NEW k \in 1..Len(toMaster'),
                      IsAsk(toMaster'[j]), IsAsk(toMaster'[k])
               PROVE  j = k
    OBVIOUS
  <2>1. /\ j + d \in 1..Len(toMaster) /\ IsAsk(toMaster[j + d])
        /\ k + d \in 1..Len(toMaster) /\ IsAsk(toMaster[k + d])
    BY <1>3
  <2>2. j + d = k + d  BY <2>1 DEF MessagesAwaited
  <2> QED  BY <2>2
<1>8. \A j, k \in 1..Len(toApi') : IsAnswer(toApi'[j]) /\ IsAnswer(toApi'[k]) => j = k
  <2> SUFFICES ASSUME NEW j \in 1..Len(toApi'), NEW k \in 1..Len(toApi'),
                      IsAnswer(toApi'[j]), IsAnswer(toApi'[k])
               PROVE  j = k
    OBVIOUS
  <2>1. /\ j + e \in 1..Len(toApi) /\ IsAnswer(toApi[j + e])
        /\ k + e \in 1..Len(toApi) /\ IsAnswer(toApi[k + e])
    BY <1>4
  <2>2. j + e = k + e  BY <2>1 DEF MessagesAwaited
  <2> QED  BY <2>2
<1>9. \A j \in 1..Len(toMaster'), k \in 1..Len(toApi') :
        ~(IsAsk(toMaster'[j]) /\ IsAnswer(toApi'[k]))
  <2> SUFFICES ASSUME NEW j \in 1..Len(toMaster'), NEW k \in 1..Len(toApi'),
                      IsAsk(toMaster'[j]), IsAnswer(toApi'[k])
               PROVE  FALSE
    OBVIOUS
  <2>1. j + d \in 1..Len(toMaster) /\ IsAsk(toMaster[j + d])  BY <1>3
  <2>2. k + e \in 1..Len(toApi) /\ IsAnswer(toApi[k + e])  BY <1>4
  <2> QED  BY <2>1, <2>2 DEF MessagesAwaited
<1> QED  BY <1>5, <1>6, <1>7, <1>8, <1>9 DEF MessagesAwaited, Awaited

\* The command that was awaited is replied to.
LEMMA AnswerAwaited ==
  ASSUME IpcOK, IpcOK', MessagesAwaited, UNCHANGED calls, NEW m, Answered(m)
  PROVE  /\ MessagesAwaited' /\ Awaited(m)
         /\ \A k \in 1..Len(toMaster') : ~IsAsk(toMaster'[k])
         /\ \A k \in 1..Len(toApi) : ~IsAnswer(toApi[k])
<1>1. /\ toMaster \in Seq(Header) /\ toMaster # <<>> /\ m = Head(toMaster)
      /\ toMaster' = Tail(toMaster) /\ IsAsk(m) /\ m \in Header
  BY DEF Answered, Take, IpcOK
<1>2. /\ Len(toMaster) \in Nat \ {0} /\ Len(toMaster') = Len(toMaster) - 1
      /\ m = toMaster[1]
      /\ \A k \in 1..Len(toMaster') : toMaster'[k] = toMaster[k + 1]
  BY <1>1, RestTail
<1>3. Len(toApi) \in Nat /\ Len(toApi') \in Nat /\ toApi \in Seq(Header)
  BY LenProperties DEF IpcOK
<1>4. Awaited(m)  BY <1>1, <1>2 DEF MessagesAwaited
<1>5. \A k \in 1..Len(toMaster') : ~IsAsk(toMaster'[k])
  <2> SUFFICES ASSUME NEW k \in 1..Len(toMaster'), IsAsk(toMaster'[k])
               PROVE  FALSE
    OBVIOUS
  <2>1. k + 1 \in 1..Len(toMaster) /\ IsAsk(toMaster[k + 1])  BY <1>2
  <2>2. 1 \in 1..Len(toMaster) /\ IsAsk(toMaster[1])  BY <1>1, <1>2
  <2>3. k + 1 = 1  BY <2>1, <2>2 DEF MessagesAwaited
  <2> QED  BY <1>2, <2>3
<1>6. \A k \in 1..Len(toApi) : ~IsAnswer(toApi[k])
  BY <1>1, <1>2 DEF MessagesAwaited
<1>7. \A k \in 1..Len(toApi') : IsAnswer(toApi'[k]) => k = Len(toApi) + 1 /\ Awaited(toApi'[k])
  <2>1. CASE UNCHANGED toApi  BY <1>6, <2>1
  <2>2. CASE ~UNCHANGED toApi
    <3>1. PICK recode \in Recodes, id \in Ids :
            /\ m.cmd # "create" => id = m.id
            /\ toApi' = Sent(toApi, Reply(m, recode, id))
      BY <2>2 DEF Answered
    <3> DEFINE r == Reply(m, recode, id)
    <3>2. r \in Header  BY <1>1, ReplyOK
    <3>3. r.cmd = m.cmd /\ r.tag = m.tag /\ r.id = id
      BY <1>1 DEF Reply, Header
    <3>4. Awaited(r)  BY <1>4, <3>1, <3>3 DEF Awaited
    <3>5. Extends(toApi, toApi', {r}) /\ Len(toApi') <= Len(toApi) + 1
      BY <1>3, <3>1, <3>2, SentExtends
    <3> SUFFICES ASSUME NEW k \in 1..Len(toApi'), IsAnswer(toApi'[k])
                 PROVE  k = Len(toApi) + 1 /\ Awaited(toApi'[k])
      OBVIOUS
    <3>6. k \notin 1..Len(toApi)  BY <1>6, <3>5 DEF Extends
    <3>7. k = Len(toApi) + 1  BY <1>3, <3>5, <3>6
    <3>8. toApi'[k] = r  BY <1>3, <3>5, <3>7 DEF Extends
    <3> QED  BY <3>4, <3>7, <3>8
  <2> QED  BY <2>1, <2>2
<1>8. \A n : Awaited(n) => /\ calls' # <<>> /\ calls'[1].cmd = n.cmd /\ calls'[1].tag = n.tag
                           /\ n.cmd # "create" => calls'[1].id = n.id
  BY DEF Awaited
<1>9. MessagesAwaited'
  <2>1. \A k \in 1..Len(toApi') : IsAnswer(toApi'[k]) =>
          /\ calls' # <<>> /\ calls'[1].cmd = toApi'[k].cmd
          /\ calls'[1].tag = toApi'[k].tag
          /\ toApi'[k].cmd # "create" => calls'[1].id = toApi'[k].id
    BY <1>7, <1>8
  <2>2. \A j, k \in 1..Len(toApi') : IsAnswer(toApi'[j]) /\ IsAnswer(toApi'[k]) => j = k
    BY <1>7
  <2> QED  BY <1>5, <2>1, <2>2 DEF MessagesAwaited, Awaited
<1> QED  BY <1>4, <1>5, <1>6, <1>9

\* The calls in progress when the topmost returns.
LEMMA PoppedCalls ==
  ASSUME ApiOK, calls # <<>>
  PROVE  /\ Len(calls) \in Nat \ {0} /\ Top \in CallRecord
         /\ Popped \in Seq(CallRecord) /\ Len(Popped) = Len(calls) - 1
         /\ \A k \in 1..(Len(calls) - 1) : Popped[k] = calls[k]
         /\ Popped = <<>> <=> Len(calls) = 1
<1>1. calls \in Seq(CallRecord)  BY DEF ApiOK, CallRecord
<1>2. Len(calls) \in Nat \ {0}  BY <1>1, EmptySeq, LenProperties
<1>3. Top \in CallRecord /\ Popped \in Seq(CallRecord)  BY PoppedOK
<1>4. \A i \in 1..(Len(calls) - 1) : calls[i] \in CallRecord
  BY <1>1, <1>2, ElementOfSeq
<1>5. /\ Len(Popped) = Len(calls) - 1
      /\ \A k \in 1..(Len(calls) - 1) : Popped[k] = calls[k]
  <2>1. 1 \in 1..(Len(calls) + 1) /\ Len(calls) - 1 \in (1 - 1)..Len(calls)  BY <1>2
  <2>2. \A i \in 1..(Len(calls) - 1) : 1 + i - 1 = i  OBVIOUS
  <2>3. Len(calls) - 1 - 1 + 1 = Len(calls) - 1  BY <1>2
  <2> QED  BY <1>1, <1>2, <1>4, <2>1, <2>2, <2>3, SubSeqProperties DEF Popped
<1>6. Popped = <<>> <=> Len(Popped) = 0
  BY <1>3, EmptySeq
<1> QED  BY <1>2, <1>3, <1>5, <1>6

\* A call on top of those in progress.
LEMMA CallsNestMore ==
  ASSUME ApiOK, CallsNest, NEW c \in CallRecord, calls' = Append(calls, c),
         c.cmd \notin UserOnly \/ calls = <<>>, c.tag = made', made' = made + 1
  PROVE  /\ CallsNest'
         /\ calls # <<>> => calls' # <<>> /\ calls'[1] = calls[1]
         /\ calls = <<>> => calls' # <<>> /\ calls'[1] = c
<1>1. calls \in Seq(CallRecord) /\ made \in Nat  BY DEF ApiOK, CallRecord
<1>2. /\ Len(calls) \in Nat /\ Len(calls') = Len(calls) + 1
      /\ \A k \in 1..Len(calls) : calls'[k] = calls[k]
      /\ calls'[Len(calls) + 1] = c
      /\ calls' \in Seq(CallRecord)
  <2>1. Len(calls) \in Nat  BY <1>1, LenProperties
  <2>2. /\ Append(calls, c) \in Seq(CallRecord) /\ Len(Append(calls, c)) = Len(calls) + 1
        /\ \A k \in 1..Len(calls) : Append(calls, c)[k] = calls[k]
        /\ Append(calls, c)[Len(calls) + 1] = c
    BY <1>1, AppendProperties
  <2> QED  BY <2>1, <2>2
<1>3. calls' # <<>>  BY <1>2, EmptySeq
<1>4. calls = <<>> <=> Len(calls) = 0  BY <1>1, EmptySeq
<1>5. \A k \in 1..Len(calls) : calls[k].tag \in Nat
  <2>1. \A k \in 1..Len(calls) : calls[k] \in CallRecord  BY <1>1, ElementOfSeq
  <2> QED  BY <2>1 DEF CallRecord
<1>6. ASSUME NEW k \in 1..Len(calls')  PROVE  calls'[k].tag <= made'
  <2>1. CASE k \in 1..Len(calls)  BY <1>1, <1>2, <1>5, <2>1 DEF CallsNest
  <2>2. CASE k = Len(calls) + 1
    <3>1. calls'[k] = c /\ c.tag \in Nat  BY <1>2, <2>2 DEF CallRecord
    <3> QED  BY <3>1
  <2> QED  BY <1>2, <2>1, <2>2
<1>7. ASSUME NEW k \in 2..Len(calls')  PROVE  calls'[k].cmd \notin UserOnly
  <2>1. CASE k \in 2..Len(calls)  BY <1>2, <2>1 DEF CallsNest
  <2>2. CASE k = Len(calls) + 1  BY <1>2, <1>4, <2>2
  <2> QED  BY <1>2, <2>1, <2>2
<1>8. CallsNest'  BY <1>6, <1>7 DEF CallsNest
<1> QED  BY <1>2, <1>3, <1>4, <1>8

\* The reply that was expected is read: if only the user's call itself could
\* expect it, there is no other call, and nothing of it is under way any more.
LEMMA ReplyRead ==
  ASSUME IpcOK, IpcOK', ApiOK, CallsNest, MessagesAwaited,
         toApi # <<>>, Head(toApi) \in Header, ReplyExpected(Head(toApi))
  PROVE  /\ CallsNest' /\ MessagesAwaited'
         /\ Head(toApi).cmd \in UserOnly =>
              /\ Len(calls) = 1 /\ Top = calls[1] /\ calls' = <<>>
              /\ IsAnswer(Head(toApi)) /\ Awaited(Head(toApi))
         /\ calls' # <<>> => calls'[1] = calls[1]
         /\ Head(toApi).cmd \notin UserOnly =>
              (calls # <<>> /\ calls[1].cmd \in UserOnly
                 => calls' # <<>> /\ calls'[1] = calls[1])
         /\ AsksKept /\ AnswersKept
<1> DEFINE m == Head(toApi)
<1>1. /\ toApi' = Tail(toApi) /\ m.isreply /\ calls # <<>> /\ m.cmd = Top.cmd
      /\ calls' = Popped /\ UNCHANGED <<toMaster, made>>
  BY DEF ReplyExpected, Read
<1>2. /\ Len(calls) \in Nat \ {0} /\ Top \in CallRecord
      /\ calls' \in Seq(CallRecord) /\ Len(calls') = Len(calls) - 1
      /\ \A k \in 1..(Len(calls) - 1) : calls'[k] = calls[k]
      /\ calls' = <<>> <=> Len(calls) = 1
  BY <1>1, PoppedCalls
<1>3. CallsNest'  BY <1>1, <1>2 DEF CallsNest
<1>4. /\ toApi \in Seq(Header) /\ toMaster \in Seq(Header)
      /\ Len(toApi) \in Nat \ {0} /\ Len(toApi') = Len(toApi) - 1 /\ m = toApi[1]
      /\ \A k \in 1..Len(toApi') : toApi'[k] = toApi[k + 1]
      /\ Rest(toApi, toApi')
  BY <1>1, RestTail DEF IpcOK
<1>5. AnswersKept  BY <1>4, AnswersAreKept
<1>6. AsksKept
  <2>1. Rest(toMaster, toMaster')  BY <1>1, <1>4, RestSame
  <2> QED  BY <2>1, AsksAreKept
<1>7. m.cmd \in UserOnly => Len(calls) = 1 /\ Top = calls[1]
  <2>1. ASSUME Len(calls) # 1  PROVE  m.cmd \notin UserOnly
    <3>1. Len(calls) \in 2..Len(calls)  BY <1>2, <2>1
    <3> QED  BY <1>1, <3>1 DEF CallsNest, Top
  <2>2. Len(calls) = 1 => Top = calls[1]  BY DEF Top
  <2> QED  BY <2>1, <2>2
<1>8. CASE m.cmd \in UserOnly
  <2>1. 1 \in 1..Len(toApi) /\ IsAnswer(toApi[1])  BY <1>1, <1>4, <1>8 DEF IsAnswer
  <2>2. Awaited(m)  BY <1>4, <2>1 DEF MessagesAwaited
  <2>3. \A k \in 1..Len(toMaster') : ~IsAsk(toMaster'[k])
    BY <1>1, <2>1 DEF MessagesAwaited
  <2>4. \A k \in 1..Len(toApi') : ~IsAnswer(toApi'[k])
    <3> SUFFICES ASSUME NEW k \in 1..Len(toApi'), IsAnswer(toApi'[k])  PROVE  FALSE
      OBVIOUS
    <3>1. k + 1 \in 1..Len(toApi) /\ IsAnswer(toApi[k + 1])  BY <1>4
    <3>2. k + 1 = 1  BY <2>1, <3>1 DEF MessagesAwaited
    <3> QED  BY <3>2
  <2>5. MessagesAwaited'  BY <2>3, <2>4 DEF MessagesAwaited
  <2>6. Len(calls) = 1 /\ Top = calls[1] /\ calls' = <<>>  BY <1>2, <1>7, <1>8
  <2> QED  BY <1>3, <1>4, <1>5, <1>6, <1>8, <2>1, <2>2, <2>5, <2>6
<1>9. CASE m.cmd \notin UserOnly
  <2>1. calls' # <<>> => calls'[1] = calls[1]  BY <1>2
  <2>2. calls # <<>> /\ calls[1].cmd \in UserOnly => calls' # <<>> /\ calls'[1] = calls[1]
    <3>1. Len(calls) = 1 => Top = calls[1]  BY DEF Top
    <3>2. calls[1].cmd \in UserOnly => Len(calls) # 1  BY <1>1, <1>9, <3>1
    <3>3. Len(calls) # 1 => calls' # <<>>  BY <1>2
    <3> QED  BY <2>1, <3>2, <3>3
  <2>3. MessagesAwaited'  BY <1>5, <1>6, <2>2, MessagesKept
  <2> QED  BY <1>3, <1>5, <1>6, <1>9, <2>1, <2>2, <2>3
<1> QED  BY <1>8, <1>9

\* The user calls: nothing of another call is under way.
LEMMA UserCallAwaited ==
  ASSUME IpcOK, IpcOK', ApiOK, ApiOK', CallsNest, MessagesAwaited, ~failed',
         NEW cmd \in ApiCommands, NEW id \in Ids, UserCall(cmd, id)
  PROVE  /\ CallsNest' /\ MessagesAwaited'
         /\ \A k \in 1..Len(toMaster') : IsAsk(toMaster'[k]) =>
              k = Len(toMaster) + 1 /\ toMaster'[k] = Request(cmd, "no", id, made')
         /\ \A k \in 1..Len(toApi) : ~IsAnswer(toApi[k])
         /\ \A k \in 1..Len(toMaster) : ~IsAsk(toMaster[k])
         /\ calls' # <<>>
         /\ calls'[1] = [cmd |-> cmd, id |-> id, tag |-> made']
<1> DEFINE ask == Request(cmd, "no", id, made')
           c == [cmd |-> cmd, id |-> id, tag |-> made']
<1>1. /\ calls = <<>> /\ UNCHANGED toApi /\ made' = made + 1
      /\ toMaster' = Sent(toMaster, ask)
      /\ failed' \/ calls' = Append(calls, c)
  BY DEF UserCall, Call
<1>2. cmd \in Commands /\ "no" \in Recodes /\ made' \in Nat
  BY ApiAssumption DEF Recodes, ApiOK
<1>3. ask \in Header /\ c \in CallRecord  BY <1>2, RequestOK DEF CallRecord
<1>4. /\ ask.cmd = cmd /\ ask.id = id /\ ask.tag = made'
      /\ c.cmd = cmd /\ c.id = id /\ c.tag = made'
  BY DEF Request
<1>5. calls' = Append(calls, c)  BY <1>1
<1>6. CallsNest' /\ calls' # <<>> /\ calls'[1] = c
  BY <1>1, <1>3, <1>4, <1>5, CallsNestMore
<1>7. toMaster \in Seq(Header) /\ Len(toMaster) \in Nat /\ Len(toMaster') \in Nat
  BY LenProperties DEF IpcOK
<1>8. Extends(toMaster, toMaster', {ask}) /\ Len(toMaster') <= Len(toMaster) + 1
  BY <1>1, <1>3, <1>7, SentExtends
<1>9. \A k \in 1..Len(toMaster) : ~IsAsk(toMaster[k])
  BY <1>1 DEF MessagesAwaited, Awaited
<1>10. \A k \in 1..Len(toApi) : ~IsAnswer(toApi[k])
  BY <1>1 DEF MessagesAwaited, Awaited
<1>11. \A k \in 1..Len(toMaster') : IsAsk(toMaster'[k]) =>
         k = Len(toMaster) + 1 /\ toMaster'[k] = ask
  <2> SUFFICES ASSUME NEW k \in 1..Len(toMaster'), IsAsk(toMaster'[k])
               PROVE  k = Len(toMaster) + 1 /\ toMaster'[k] = ask
    OBVIOUS
  <2>1. k \notin 1..Len(toMaster)  BY <1>8, <1>9 DEF Extends
  <2>2. k = Len(toMaster) + 1  BY <1>7, <1>8, <2>1
  <2> QED  BY <1>7, <1>8, <2>2 DEF Extends
<1>12. MessagesAwaited'
  <2>1. \A k \in 1..Len(toMaster') : IsAsk(toMaster'[k]) =>
          /\ calls' # <<>> /\ calls'[1].cmd = toMaster'[k].cmd
          /\ calls'[1].tag = toMaster'[k].tag
          /\ toMaster'[k].cmd # "create" => calls'[1].id = toMaster'[k].id
    BY <1>4, <1>6, <1>11
  <2>2. \A j, k \in 1..Len(toMaster') : IsAsk(toMaster'[j]) /\ IsAsk(toMaster'[k]) => j = k
    BY <1>11
  <2> QED  BY <1>1, <1>10, <2>1, <2>2 DEF MessagesAwaited, Awaited
<1> QED  BY <1>6, <1>9, <1>10, <1>11, <1>12

\* A callback calls, in a call of the user or not.
LEMMA NestedCallAwaited ==
  ASSUME IpcOK, IpcOK', ApiOK, CallsNest, MessagesAwaited, ~failed', NestedCall
  PROVE  /\ CallsNest' /\ MessagesAwaited' /\ AsksKept /\ AnswersKept
         /\ calls # <<>> => calls' # <<>> /\ calls'[1] = calls[1]
         /\ calls = <<>> => calls'[1].tag = made' /\ calls'[1].cmd \notin UserOnly
<1>1. PICK c \in CallRecord : /\ c.cmd \notin UserOnly /\ c.tag = made'
                              /\ calls' = Append(calls, c)
  BY DEF NestedCall
<1>2. made' = made + 1  BY DEF NestedCall
<1>3. /\ CallsNest'
      /\ calls # <<>> => calls' # <<>> /\ calls'[1] = calls[1]
      /\ calls = <<>> => calls' # <<>> /\ calls'[1] = c
  BY <1>1, <1>2, CallsNestMore
<1>4. AsksKept /\ AnswersKept
  BY AsksAreKept, AnswersAreKept DEF NestedCall
<1>5. MessagesAwaited'  BY <1>3, <1>4, MessagesKept
<1> QED  BY <1>1, <1>3, <1>4, <1>5

\* Every step in which no call fails.
LEMMA OutstandingNext ==
  ASSUME TypeOK, TypeOK', RunningIsInUse, Outstanding, ~failed', Next
  PROVE  Outstanding'
<1> USE DEF TypeOK
<1>1. CallsNest /\ MessagesAwaited  BY OutstandingParts
<1>2. CallsNest' /\ MessagesAwaited'
  <2>1. CASE MasterNext /\ UNCHANGED api
    <3>1. UNCHANGED <<calls, made>>  BY <2>1 DEF api
    <3>2. CallsNest'  BY <1>1, <3>1 DEF CallsNest
    <3>3. CASE QuietMaster
      <4>1. AsksKept /\ AnswersKept
        BY <3>3, AsksAreKept, AnswersAreKept DEF QuietMaster
      <4> QED  BY <1>1, <3>1, <3>2, <4>1, MessagesKept
    <3>4. CASE \E m : Answered(m)
      BY <1>1, <3>1, <3>2, <3>4, AnswerAwaited
    <3> QED  BY <2>1, <3>3, <3>4, MasterCases
  <2>2. CASE ApiNext
    <3>1. CASE QuietApi
      <4>1. UNCHANGED <<calls, made>>  BY <3>1 DEF QuietApi
      <4>2. CallsNest'  BY <1>1, <4>1 DEF CallsNest
      <4>3. AsksKept /\ AnswersKept
        BY <3>1, AsksAreKept, AnswersAreKept DEF QuietApi
      <4> QED  BY <1>1, <4>1, <4>2, <4>3, MessagesKept
    <3>2. CASE NestedCall  BY <1>1, <3>2, NestedCallAwaited
    <3>3. CASE \E cmd \in ApiCommands, id \in Ids : UserCall(cmd, id)
      BY <1>1, <3>3, UserCallAwaited
    <3>4. CASE toApi # <<>> /\ Head(toApi) \in Header /\ ReplyExpected(Head(toApi))
      BY <1>1, <3>4, ReplyRead
    <3> QED  BY <2>2, <3>1, <3>2, <3>3, <3>4, ApiCases DEF FailedCall
  <2> QED  BY <2>1, <2>2 DEF Next
<1>3. (CallsNest /\ MessagesAwaited => Outstanding)'  BY OutstandingParts, PTL
<1> QED  BY <1>2, <1>3

-----------------------------------------------------------------------------
(***************************************************************************)
(* Whose a client is                                                       *)
(***************************************************************************)

\* No reply that hands out a client, and no command that gives one back, is under
\* way that was not before.
GrantsKept ==
  \E d \in {0, 1} : \A k \in 1..Len(toApi') :
    IsGrant(toApi'[k]) => k + d \in 1..Len(toApi) /\ toApi'[k] = toApi[k + d]

\* No command to give a client back is under way that was not before.
DestoriesKept ==
  \E d \in {0, 1} : \A k \in 1..Len(toMaster') :
    IsDestory(toMaster'[k]) => /\ k + d \in 1..Len(toMaster)
                               /\ toMaster'[k] = toMaster[k + d]

\* Only the user asks for a client, or for one to be given back.
LEMMA GrantIsAnswer ==
  /\ \A m : IsGrant(m) => IsAnswer(m)
  /\ \A m : IsDestory(m) => IsAsk(m)
  /\ AnswersKept => GrantsKept
  /\ AsksKept => DestoriesKept
<1>1. \A m : IsGrant(m) => IsAnswer(m)  BY DEF IsGrant, IsAnswer, UserOnly, Commands
<1>2. \A m : IsDestory(m) => IsAsk(m)  BY DEF IsDestory, IsAsk, UserOnly, Commands
<1>3. AnswersKept => GrantsKept  BY <1>1 DEF AnswersKept, GrantsKept
<1>4. AsksKept => DestoriesKept  BY <1>2 DEF AsksKept, DestoriesKept
<1> QED  BY <1>1, <1>2, <1>3, <1>4

\* A reply that hands out no client.
LEMMA NoGrant ==
  ASSUME IpcOK, IpcOK', NEW r \in Header, ~IsGrant(r), toApi' = toApi \/ toApi' = Sent(toApi, r)
  PROVE  GrantsKept
<1>1. toApi \in Seq(Header) /\ Len(toApi) \in Nat /\ Len(toApi') \in Nat
  BY LenProperties DEF IpcOK
<1>2. Extends(toApi, toApi', {r})  BY <1>1, SentExtends, ExtendsSame
<1>3. ASSUME NEW k \in 1..Len(toApi'), IsGrant(toApi'[k])
      PROVE  k + 0 \in 1..Len(toApi) /\ toApi'[k] = toApi[k + 0]
  <2>1. CASE k \in 1..Len(toApi)  BY <1>1, <1>2, <2>1 DEF Extends
  <2>2. CASE k \in (Len(toApi) + 1)..Len(toApi')  BY <1>2, <1>3, <2>2 DEF Extends
  <2> QED  BY <1>1, <2>1, <2>2
<1> QED  BY <1>3 DEF GrantsKept

\* A command that is taken is no longer under way.
LEMMA TakenDestories ==
  ASSUME IpcOK, IpcOK', NEW m, Take(m)
  PROVE  /\ DestoriesKept
         /\ m = toMaster[1] /\ 1 \in 1..Len(toMaster)
         /\ Len(toMaster') = Len(toMaster) - 1 /\ Len(toMaster) \in Nat
         /\ \A k \in 1..Len(toMaster') : toMaster'[k] = toMaster[k + 1]
<1>1. toMaster \in Seq(Header) /\ toMaster # <<>> /\ toMaster' = Tail(toMaster)
      /\ m = Head(toMaster)
  BY DEF Take, IpcOK
<1>2. /\ Rest(toMaster, toMaster') /\ Len(toMaster) \in Nat \ {0}
      /\ Len(toMaster') = Len(toMaster) - 1 /\ m = toMaster[1]
      /\ \A k \in 1..Len(toMaster') : toMaster'[k] = toMaster[k + 1]
  BY <1>1, RestTail
<1>3. DestoriesKept  BY <1>2, AsksAreKept, GrantIsAnswer
<1> QED  BY <1>2, <1>3

\* What is in the queues has its type.
LEMMA MessagesOK ==
  ASSUME IpcOK
  PROVE  /\ \A k \in 1..Len(toApi) : toApi[k] \in Header
         /\ \A k \in 1..Len(toMaster) : toMaster[k] \in Header
<1>1. toApi \in Seq(Header) /\ toMaster \in Seq(Header)  BY DEF IpcOK
<1>2. \A k \in 1..Len(toApi) : toApi[k] \in Header  BY <1>1, ElementOfSeq
<1>3. \A k \in 1..Len(toMaster) : toMaster[k] \in Header  BY <1>1, ElementOfSeq
<1> QED  BY <1>2, <1>3

\* As long as no client changes hands, each belongs to what it belonged to.
LEMMA LeasesKept ==
  ASSUME IpcOK, IpcOK', Leases, GrantsKept, DestoriesKept, UNCHANGED <<lease, handle>>,
         udsc_cnt' = udsc_cnt, \A id \in Ids : udscs'[id].isidle = udscs[id].isidle,
         \A id \in Ids : isvalid'[id] => isvalid[id]
  PROVE  Leases'
<1>1. \A id \in Ids : id < udsc_cnt' /\ ~udscs'[id].isidle <=> InUse(id)
  BY DEF InUse
<1>2. RecordIsLease'  BY <1>1 DEF Leases, RecordIsLease, InUse
<1>3. PICK d \in {0, 1} : \A k \in 1..Len(toApi') :
        IsGrant(toApi'[k]) => k + d \in 1..Len(toApi) /\ toApi'[k] = toApi[k + d]
  BY DEF GrantsKept
<1>4. PICK e \in {0, 1} : \A k \in 1..Len(toMaster') :
        IsDestory(toMaster'[k]) => /\ k + e \in 1..Len(toMaster)
                                   /\ toMaster'[k] = toMaster[k + e]
  BY DEF DestoriesKept
<1>5. /\ \A k \in 1..Len(toApi) : toApi[k].id \in Ids
      /\ \A k \in 1..Len(toMaster) : toMaster[k].id \in Ids
  BY MessagesOK DEF Header
<1>6. ASSUME NEW k \in 1..Len(toApi'), IsGrant(toApi'[k])
      PROVE  /\ k + d \in 1..Len(toApi) /\ IsGrant(toApi[k + d])
             /\ toApi'[k] = toApi[k + d] /\ toApi'[k].id \in Ids
             /\ InUse(toApi'[k].id) /\ lease[toApi'[k].id] = toApi'[k].tag
             /\ ~isvalid[toApi'[k].id]
  BY <1>3, <1>5, <1>6 DEF Leases, GrantIsLease
<1>7. ASSUME NEW k \in 1..Len(toMaster'), IsDestory(toMaster'[k])
      PROVE  /\ k + e \in 1..Len(toMaster) /\ IsDestory(toMaster[k + e])
             /\ toMaster'[k] = toMaster[k + e] /\ toMaster'[k].id \in Ids
             /\ InUse(toMaster'[k].id) /\ ~isvalid[toMaster'[k].id]
  BY <1>4, <1>5, <1>7 DEF Leases, DestoryIsLast
<1>8. GrantIsLease'
  <2>1. ASSUME NEW k \in 1..Len(toApi'), IsGrant(toApi'[k])
        PROVE  /\ toApi'[k].id < udsc_cnt' /\ ~udscs'[toApi'[k].id].isidle
               /\ lease'[toApi'[k].id] = toApi'[k].tag
               /\ ~isvalid'[toApi'[k].id]
    BY <1>1, <1>6, <2>1
  <2>2. ASSUME NEW j \in 1..Len(toApi'), NEW k \in 1..Len(toApi'), IsGrant(toApi'[j]),
               IsGrant(toApi'[k]), toApi'[j].id = toApi'[k].id
        PROVE  j = k
    <3>1. /\ j + d \in 1..Len(toApi) /\ IsGrant(toApi[j + d])
          /\ toApi'[j] = toApi[j + d]
          /\ k + d \in 1..Len(toApi) /\ IsGrant(toApi[k + d])
          /\ toApi'[k] = toApi[k + d]
      BY <1>6, <2>2
    <3>2. j + d = k + d  BY <2>2, <3>1 DEF Leases, GrantIsLease
    <3> QED  BY <3>2
  <2> QED  BY <2>1, <2>2 DEF GrantIsLease, InUse
<1>9. DestoryIsLast'
  <2>1. ASSUME NEW k \in 1..Len(toMaster'), IsDestory(toMaster'[k])
        PROVE  /\ toMaster'[k].id < udsc_cnt' /\ ~udscs'[toMaster'[k].id].isidle
               /\ ~isvalid'[toMaster'[k].id]
    BY <1>1, <1>7, <2>1
  <2>2. ASSUME NEW k \in 1..Len(toMaster'), IsDestory(toMaster'[k]),
               NEW j \in 1..Len(toApi'), IsGrant(toApi'[j])
        PROVE  toApi'[j].id # toMaster'[k].id
    <3>1. /\ k + e \in 1..Len(toMaster) /\ IsDestory(toMaster[k + e])
          /\ toMaster'[k] = toMaster[k + e]
      BY <1>7, <2>2
    <3>2. /\ j + d \in 1..Len(toApi) /\ IsGrant(toApi[j + d])
          /\ toApi'[j] = toApi[j + d]
      BY <1>6, <2>2
    <3> QED  BY <3>1, <3>2 DEF Leases, DestoryIsLast
  <2>3. ASSUME NEW j \in 1..Len(toMaster'), NEW k \in 1..Len(toMaster'),
               IsDestory(toMaster'[j]), IsDestory(toMaster'[k]),
               toMaster'[j].id = toMaster'[k].id
        PROVE  j = k
    <3>1. /\ j + e \in 1..Len(toMaster) /\ IsDestory(toMaster[j + e])
          /\ toMaster'[j] = toMaster[j + e]
          /\ k + e \in 1..Len(toMaster) /\ IsDestory(toMaster[k + e])
          /\ toMaster'[k] = toMaster[k + e]
      BY <1>7, <2>3
    <3>2. j + e = k + e  BY <2>3, <3>1 DEF Leases, DestoryIsLast
    <3> QED  BY <3>2
  <2> QED  BY <2>1, <2>2, <2>3 DEF DestoryIsLast, InUse
<1> QED  BY <1>2, <1>8, <1>9 DEF Leases

\* A client is handed out: it belonged to nothing.
LEMMA CreateLeases ==
  ASSUME IpcOK, IpcOK', MasterOK, ApiOK, Leases, UNCHANGED <<isvalid, handle>>,
         NEW m, UdscCreate(m)
  PROVE  Leases'
<1>1. Take(m) /\ m \in Header /\ m.cmd = "create"
  BY TakeOK DEF UdscCreate, Accept
<1>2. PICK h \in Ids : /\ IsIdle(h) \/ h = udsc_cnt
                       /\ Granted(m, h)
                       /\ udsc_cnt' = IF h = udsc_cnt THEN udsc_cnt + 1 ELSE udsc_cnt
  BY DEF UdscCreate
<1>3. udsc_cnt \in Int /\ h \in Int  BY ConstantsOK DEF MasterOK, Ids
<1>4. ~InUse(h)  BY <1>2, <1>3 DEF InUse, IsIdle
<1>5. \A k \in Ids : k # h =>
        /\ k < udsc_cnt' /\ ~udscs'[k].isidle <=> InUse(k)
        /\ lease'[k] = lease[k]
  <2> SUFFICES ASSUME NEW k \in Ids, k # h
               PROVE  /\ k < udsc_cnt' /\ ~udscs'[k].isidle <=> InUse(k)
                      /\ lease'[k] = lease[k]
    OBVIOUS
  <2>1. udscs'[k] = udscs[k] /\ lease'[k] = lease[k]
    BY <1>2 DEF Granted, MasterOK
  <2>2. k < udsc_cnt' <=> k < udsc_cnt  BY <1>2, <1>3 DEF Ids
  <2> QED  BY <2>1, <2>2 DEF InUse
<1>6. h < udsc_cnt' /\ ~udscs'[h].isidle /\ lease'[h] = m.tag
  <2>1. h < udsc_cnt'  BY <1>2, <1>3 DEF IsIdle
  <2>2. udscs' = [udscs EXCEPT ![h].isidle = FALSE]  BY <1>2 DEF Granted
  <2>3. udscs[h] \in Udsc  BY DEF MasterOK
  <2>4. udscs'[h] = [udscs[h] EXCEPT !.isidle = FALSE]  BY <2>2 DEF MasterOK
  <2>5. ~udscs'[h].isidle  BY <2>3, <2>4 DEF Udsc
  <2> QED  BY <1>2, <2>1, <2>5 DEF Granted, MasterOK
<1>7. ~isvalid[h]  BY <1>4 DEF Leases, RecordIsLease
<1>8. RecordIsLease'
  BY <1>5, <1>7 DEF Leases, RecordIsLease, InUse
<1> DEFINE r == Reply(m, "no", h)
<1>9. r \in Header /\ r.id = h /\ r.tag = m.tag
  <2>1. "no" \in Recodes  BY DEF Recodes
  <2> QED  BY <1>1, <2>1, ReplyOK DEF Reply, Header
<1>10. toApi \in Seq(Header) /\ Len(toApi) \in Nat /\ Len(toApi') \in Nat
  BY LenProperties DEF IpcOK
<1>11. Extends(toApi, toApi', {r}) /\ Len(toApi') <= Len(toApi) + 1
  BY <1>2, <1>9, <1>10, SentExtends DEF Granted
<1>12. \A k \in 1..Len(toApi') :
         \/ k \in 1..Len(toApi) /\ toApi'[k] = toApi[k]
         \/ k = Len(toApi) + 1 /\ toApi'[k] = r
  <2> SUFFICES ASSUME NEW k \in 1..Len(toApi')
               PROVE  \/ k \in 1..Len(toApi) /\ toApi'[k] = toApi[k]
                      \/ k = Len(toApi) + 1 /\ toApi'[k] = r
    OBVIOUS
  <2>1. CASE k \in 1..Len(toApi)  BY <1>11, <2>1 DEF Extends
  <2>2. CASE k \notin 1..Len(toApi)
    <3>1. k = Len(toApi) + 1  BY <1>10, <1>11, <2>2
    <3> QED  BY <1>10, <1>11, <3>1 DEF Extends
  <2> QED  BY <2>1, <2>2
<1>13. /\ \A k \in 1..Len(toApi) : toApi[k].id \in Ids
       /\ \A k \in 1..Len(toMaster) : toMaster[k].id \in Ids
  BY MessagesOK DEF Header
<1>14. \A k \in 1..Len(toApi) : IsGrant(toApi[k]) =>
         /\ toApi[k].id # h /\ InUse(toApi[k].id)
         /\ lease[toApi[k].id] = toApi[k].tag /\ ~isvalid[toApi[k].id]
  BY <1>4 DEF Leases, GrantIsLease
<1>15. GrantIsLease'
  <2>1. ASSUME NEW k \in 1..Len(toApi'), IsGrant(toApi'[k])
        PROVE  /\ toApi'[k].id < udsc_cnt' /\ ~udscs'[toApi'[k].id].isidle
               /\ lease'[toApi'[k].id] = toApi'[k].tag
               /\ ~isvalid'[toApi'[k].id]
    <3>1. CASE k \in 1..Len(toApi) /\ toApi'[k] = toApi[k]
      <4>1. /\ toApi[k].id \in Ids /\ toApi[k].id # h /\ InUse(toApi[k].id)
            /\ lease[toApi[k].id] = toApi[k].tag /\ ~isvalid[toApi[k].id]
        BY <1>13, <1>14, <2>1, <3>1
      <4> QED  BY <1>5, <3>1, <4>1
    <3>2. CASE toApi'[k] = r  BY <1>6, <1>7, <1>9, <3>2
    <3> QED  BY <1>12, <3>1, <3>2
  <2>2. ASSUME NEW j \in 1..Len(toApi'), NEW k \in 1..Len(toApi'), IsGrant(toApi'[j]),
               IsGrant(toApi'[k]), toApi'[j].id = toApi'[k].id
        PROVE  j = k
    <3>1. CASE j \in 1..Len(toApi) /\ k \in 1..Len(toApi)
      <4>1. toApi'[j] = toApi[j] /\ toApi'[k] = toApi[k]  BY <1>11, <3>1 DEF Extends
      <4> QED  BY <2>2, <3>1, <4>1 DEF Leases, GrantIsLease
    <3>2. CASE j \in 1..Len(toApi) /\ toApi'[k] = r
      <4>1. toApi'[j] = toApi[j]  BY <1>11, <3>2 DEF Extends
      <4> QED  BY <1>9, <1>14, <2>2, <3>2, <4>1
    <3>3. CASE k \in 1..Len(toApi) /\ toApi'[j] = r
      <4>1. toApi'[k] = toApi[k]  BY <1>11, <3>3 DEF Extends
      <4> QED  BY <1>9, <1>14, <2>2, <3>3, <4>1
    <3> QED  BY <1>12, <3>1, <3>2, <3>3
  <2> QED  BY <2>1, <2>2 DEF GrantIsLease, InUse
<1>16. /\ Len(toMaster') = Len(toMaster) - 1 /\ Len(toMaster) \in Nat
       /\ \A k \in 1..Len(toMaster') : toMaster'[k] = toMaster[k + 1]
  BY <1>1, TakenDestories
<1>17. ASSUME NEW k \in 1..Len(toMaster'), IsDestory(toMaster'[k])
       PROVE  /\ k + 1 \in 1..Len(toMaster) /\ IsDestory(toMaster[k + 1])
              /\ toMaster'[k] = toMaster[k + 1] /\ toMaster'[k].id \in Ids
              /\ InUse(toMaster'[k].id) /\ ~isvalid[toMaster'[k].id]
              /\ toMaster'[k].id # h
  <2>1. k + 1 \in 1..Len(toMaster) /\ toMaster'[k] = toMaster[k + 1]  BY <1>16
  <2> QED  BY <1>4, <1>13, <1>17, <2>1 DEF Leases, DestoryIsLast
<1>18. DestoryIsLast'
  <2>1. ASSUME NEW k \in 1..Len(toMaster'), IsDestory(toMaster'[k])
        PROVE  /\ toMaster'[k].id < udsc_cnt' /\ ~udscs'[toMaster'[k].id].isidle
               /\ ~isvalid'[toMaster'[k].id]
    BY <1>5, <1>17, <2>1
  <2>2. ASSUME NEW k \in 1..Len(toMaster'), IsDestory(toMaster'[k]),
               NEW j \in 1..Len(toApi'), IsGrant(toApi'[j])
        PROVE  toApi'[j].id # toMaster'[k].id
    <3>1. /\ k + 1 \in 1..Len(toMaster) /\ IsDestory(toMaster[k + 1])
          /\ toMaster'[k] = toMaster[k + 1] /\ toMaster'[k].id # h
      BY <1>17, <2>2
    <3>2. CASE j \in 1..Len(toApi) /\ toApi'[j] = toApi[j]
      BY <2>2, <3>1, <3>2 DEF Leases, DestoryIsLast
    <3>3. CASE toApi'[j] = r  BY <1>9, <3>1, <3>3
    <3> QED  BY <1>12, <3>2, <3>3
  <2>3. ASSUME NEW j \in 1..Len(toMaster'), NEW k \in 1..Len(toMaster'),
               IsDestory(toMaster'[j]), IsDestory(toMaster'[k]),
               toMaster'[j].id = toMaster'[k].id
        PROVE  j = k
    <3>1. /\ j + 1 \in 1..Len(toMaster) /\ IsDestory(toMaster[j + 1])
          /\ toMaster'[j] = toMaster[j + 1]
          /\ k + 1 \in 1..Len(toMaster) /\ IsDestory(toMaster[k + 1])
          /\ toMaster'[k] = toMaster[k + 1]
      BY <1>17, <2>3
    <3>2. j + 1 = k + 1  BY <2>3, <3>1 DEF Leases, DestoryIsLast
    <3> QED  BY <3>2
  <2> QED  BY <2>1, <2>2, <2>3 DEF DestoryIsLast, InUse
<1> QED  BY <1>8, <1>15, <1>18 DEF Leases

\* A client is taken back, or refuses: it belongs to nothing afterwards.
LEMMA DestoryLeases ==
  ASSUME IpcOK, IpcOK', MasterOK, ApiOK, Leases, UNCHANGED <<isvalid, handle>>,
         NEW m, UdscDestory(m)
  PROVE  /\ Leases'
         /\ InUse(m.id) /\ ~isvalid[m.id]
         /\ \A k \in 1..Len(toApi') : IsGrant(toApi'[k]) => toApi'[k].id # m.id
         /\ \A k \in 1..Len(toMaster') : IsDestory(toMaster'[k]) => toMaster'[k].id # m.id
<1>1. Take(m) /\ m \in Header /\ m.id \in Ids /\ IsDestory(m)
  BY TakeOK DEF UdscDestory, Accept, IsDestory
<1> DEFINE h == m.id
           r == Reply(m, "no", h)
<1>2. udsc_cnt' = udsc_cnt /\ toApi' = Sent(toApi, r)  BY DEF UdscDestory
<1>3. /\ m = toMaster[1] /\ 1 \in 1..Len(toMaster)
      /\ Len(toMaster') = Len(toMaster) - 1 /\ Len(toMaster) \in Nat
      /\ \A k \in 1..Len(toMaster') : toMaster'[k] = toMaster[k + 1]
  BY <1>1, TakenDestories
<1>4. /\ InUse(h) /\ ~isvalid[h]
      /\ \A j \in 1..Len(toApi) : IsGrant(toApi[j]) => toApi[j].id # h
  BY <1>1, <1>3 DEF Leases, DestoryIsLast
<1>5. \A k \in Ids : k # h =>
        /\ k < udsc_cnt' /\ ~udscs'[k].isidle <=> InUse(k)
        /\ lease'[k] = lease[k]
  <2> SUFFICES ASSUME NEW k \in Ids, k # h
               PROVE  /\ k < udsc_cnt' /\ ~udscs'[k].isidle <=> InUse(k)
                      /\ lease'[k] = lease[k]
    OBVIOUS
  <2>1. udscs'[k] = udscs[k]  BY DEF UdscDestory, MasterOK
  <2>2. lease' = lease \/ lease' = [lease EXCEPT ![h] = 0]  BY DEF UdscDestory
  <2>3. lease'[k] = lease[k]  BY <2>2 DEF MasterOK
  <2> QED  BY <1>2, <2>1, <2>3 DEF InUse
<1>6. RecordIsLease'  BY <1>4, <1>5 DEF Leases, RecordIsLease, InUse
<1>7. r \in Header /\ ~IsGrant(r)
  <2>1. "no" \in Recodes  BY DEF Recodes
  <2>2. r.cmd = "destory"  BY <1>1 DEF Reply, Header, IsDestory
  <2> QED  BY <1>1, <2>1, <2>2, ReplyOK DEF IsGrant
<1>8. PICK d \in {0, 1} : \A k \in 1..Len(toApi') :
        IsGrant(toApi'[k]) => k + d \in 1..Len(toApi) /\ toApi'[k] = toApi[k + d]
  BY <1>2, <1>7, NoGrant DEF GrantsKept
<1>9. /\ \A k \in 1..Len(toApi) : toApi[k].id \in Ids
      /\ \A k \in 1..Len(toMaster) : toMaster[k].id \in Ids
  BY MessagesOK DEF Header
<1>10. ASSUME NEW k \in 1..Len(toApi'), IsGrant(toApi'[k])
       PROVE  /\ k + d \in 1..Len(toApi) /\ IsGrant(toApi[k + d])
              /\ toApi'[k] = toApi[k + d] /\ toApi'[k].id \in Ids
              /\ InUse(toApi'[k].id) /\ lease[toApi'[k].id] = toApi'[k].tag
              /\ ~isvalid[toApi'[k].id]
              /\ toApi'[k].id # h
  BY <1>4, <1>8, <1>9, <1>10 DEF Leases, GrantIsLease
<1>11. ASSUME NEW k \in 1..Len(toMaster'), IsDestory(toMaster'[k])
       PROVE  /\ k + 1 \in 1..Len(toMaster) /\ IsDestory(toMaster[k + 1])
              /\ toMaster'[k] = toMaster[k + 1] /\ toMaster'[k].id \in Ids
              /\ InUse(toMaster'[k].id) /\ ~isvalid[toMaster'[k].id]
              /\ toMaster'[k].id # h
  <2>1. k + 1 \in 1..Len(toMaster) /\ toMaster'[k] = toMaster[k + 1]  BY <1>3
  <2>2. IsDestory(toMaster[k + 1]) /\ IsDestory(toMaster[1])  BY <1>1, <1>3, <1>11, <2>1
  <2>3. toMaster[k + 1].id # toMaster[1].id
    <3>1. k + 1 # 1  OBVIOUS
    <3> QED  BY <1>3, <2>1, <2>2, <3>1 DEF Leases, DestoryIsLast
  <2> QED  BY <1>3, <1>9, <2>1, <2>2, <2>3 DEF Leases, DestoryIsLast
<1>12. GrantIsLease'
  <2>1. ASSUME NEW k \in 1..Len(toApi'), IsGrant(toApi'[k])
        PROVE  /\ toApi'[k].id < udsc_cnt' /\ ~udscs'[toApi'[k].id].isidle
               /\ lease'[toApi'[k].id] = toApi'[k].tag
               /\ ~isvalid'[toApi'[k].id]
    BY <1>5, <1>10, <2>1
  <2>2. ASSUME NEW j \in 1..Len(toApi'), NEW k \in 1..Len(toApi'), IsGrant(toApi'[j]),
               IsGrant(toApi'[k]), toApi'[j].id = toApi'[k].id
        PROVE  j = k
    <3>1. /\ j + d \in 1..Len(toApi) /\ IsGrant(toApi[j + d])
          /\ toApi'[j] = toApi[j + d]
          /\ k + d \in 1..Len(toApi) /\ IsGrant(toApi[k + d])
          /\ toApi'[k] = toApi[k + d]
      BY <1>10, <2>2
    <3>2. j + d = k + d  BY <2>2, <3>1 DEF Leases, GrantIsLease
    <3> QED  BY <3>2
  <2> QED  BY <2>1, <2>2 DEF GrantIsLease, InUse
<1>13. DestoryIsLast'
  <2>1. ASSUME NEW k \in 1..Len(toMaster'), IsDestory(toMaster'[k])
        PROVE  /\ toMaster'[k].id < udsc_cnt' /\ ~udscs'[toMaster'[k].id].isidle
               /\ ~isvalid'[toMaster'[k].id]
    BY <1>5, <1>11, <2>1
  <2>2. ASSUME NEW k \in 1..Len(toMaster'), IsDestory(toMaster'[k]),
               NEW j \in 1..Len(toApi'), IsGrant(toApi'[j])
        PROVE  toApi'[j].id # toMaster'[k].id
    <3>1. /\ k + 1 \in 1..Len(toMaster) /\ IsDestory(toMaster[k + 1])
          /\ toMaster'[k] = toMaster[k + 1]
      BY <1>11, <2>2
    <3>2. /\ j + d \in 1..Len(toApi) /\ IsGrant(toApi[j + d])
          /\ toApi'[j] = toApi[j + d]
      BY <1>10, <2>2
    <3> QED  BY <3>1, <3>2 DEF Leases, DestoryIsLast
  <2>3. ASSUME NEW j \in 1..Len(toMaster'), NEW k \in 1..Len(toMaster'),
               IsDestory(toMaster'[j]), IsDestory(toMaster'[k]),
               toMaster'[j].id = toMaster'[k].id
        PROVE  j = k
    <3>1. /\ j + 1 \in 1..Len(toMaster) /\ IsDestory(toMaster[j + 1])
          /\ toMaster'[j] = toMaster[j + 1]
          /\ k + 1 \in 1..Len(toMaster) /\ IsDestory(toMaster[k + 1])
          /\ toMaster'[k] = toMaster[k + 1]
      BY <1>11, <2>3
    <3>2. j + 1 = k + 1  BY <2>3, <3>1 DEF Leases, DestoryIsLast
    <3> QED  BY <3>2
  <2> QED  BY <2>1, <2>2, <2>3 DEF DestoryIsLast, InUse
<1>14. \A k \in 1..Len(toApi') : IsGrant(toApi'[k]) => toApi'[k].id # m.id
  BY <1>10
<1>15. \A k \in 1..Len(toMaster') : IsDestory(toMaster'[k]) => toMaster'[k].id # m.id
  BY <1>11
<1> QED  BY <1>4, <1>6, <1>12, <1>13, <1>14, <1>15 DEF Leases

\* A reset that finds no client in use: nothing belongs to anything.
LEMMA ResetLeases ==
  ASSUME IpcOK, IpcOK', MasterOK, Leases, UNCHANGED <<isvalid, handle>>,
         ~upset', NEW m, MasterReset(m)
  PROVE  Leases' /\ \A id \in Ids : ~InUse(id) /\ udscs'[id].isidle
<1>1. Take(m) /\ m \in Header /\ m.cmd = "reset" /\ m.id \in Ids
  BY TakeOK DEF MasterReset, Accept
<1>2. \A id \in Ids : udscs[id].isidle  BY DEF MasterReset
<1>3. \A id \in Ids : ~InUse(id)  BY <1>2 DEF InUse
<1>4. \A id \in Ids : udscs'[id].isidle
  <2> SUFFICES ASSUME NEW id \in Ids  PROVE  udscs'[id].isidle  OBVIOUS
  <2>1. udscs'[id] = Reset(Stopped(udscs[id])) \/ udscs'[id] = udscs[id]
    BY DEF MasterReset
  <2>2. Reset(Stopped(udscs[id])).isidle  BY DEF Reset, NewUdsc
  <2> QED  BY <1>2, <2>1, <2>2
<1>5. /\ \A k \in 1..Len(toApi) : toApi[k].id \in Ids
      /\ \A k \in 1..Len(toMaster) : toMaster[k].id \in Ids
  BY MessagesOK DEF Header
<1>6. GrantsKept /\ DestoriesKept
  <2> DEFINE r == Reply(m, "no", m.id)
  <2>1. "no" \in Recodes  BY DEF Recodes
  <2>2. r \in Header /\ r.cmd = "reset"  BY <1>1, <2>1, ReplyOK DEF Reply, Header
  <2>3. ~IsGrant(r)  BY <2>2 DEF IsGrant
  <2>4. toApi' = Sent(toApi, r)  BY DEF MasterReset
  <2> QED  BY <1>1, <2>2, <2>3, <2>4, NoGrant, TakenDestories
<1>7. \A k \in 1..Len(toApi) : ~IsGrant(toApi[k])
  BY <1>3, <1>5 DEF Leases, GrantIsLease
<1>8. \A k \in 1..Len(toMaster) : ~IsDestory(toMaster[k])
  BY <1>3, <1>5 DEF Leases, DestoryIsLast
<1>9. \A k \in 1..Len(toApi') : ~IsGrant(toApi'[k])  BY <1>6, <1>7 DEF GrantsKept
<1>10. \A k \in 1..Len(toMaster') : ~IsDestory(toMaster'[k])
  BY <1>6, <1>8 DEF DestoriesKept
<1>11. \A id \in Ids : ~isvalid[id]  BY <1>3 DEF Leases, RecordIsLease
<1>12. Leases'
  BY <1>9, <1>10, <1>11 DEF Leases, RecordIsLease, GrantIsLease, DestoryIsLast
<1> QED  BY <1>3, <1>4, <1>12

\* Every step of the diag master.
LEMMA MasterLeases ==
  ASSUME TypeOK, TypeOK', RunningIsInUse, Leases, ~upset', MasterNext, UNCHANGED api
  PROVE  Leases'
<1> USE DEF TypeOK
<1>1. UNCHANGED <<isvalid, handle>>  BY DEF api
<1>2. CASE QuietMaster
  <2>1. GrantsKept /\ DestoriesKept
    BY <1>2, AsksAreKept, AnswersAreKept, GrantIsAnswer DEF QuietMaster
  <2> QED  BY <1>1, <1>2, <2>1, LeasesKept DEF QuietMaster, SameHands
<1>3. ASSUME NEW m, Answered(m), PlainReply(m)  PROVE  Leases'
  <2>1. DestoriesKept  BY <1>3, TakenDestories DEF Answered
  <2>2. GrantsKept
    <3>1. CASE UNCHANGED toApi
      <4>1. Rest(toApi, toApi')  BY <3>1, RestSame DEF IpcOK
      <4> QED  BY <4>1, AnswersAreKept, GrantIsAnswer
    <3>2. CASE ~UNCHANGED toApi
      <4>1. PICK recode \in Recodes, id \in Ids :
              /\ toApi' = Sent(toApi, Reply(m, recode, id))
              /\ recode = "no" => m.cmd \notin {"create", "destory", "stop"}
        BY <1>3, <3>2 DEF PlainReply
      <4> DEFINE r == Reply(m, recode, id)
      <4>2. r \in Header /\ r.cmd = m.cmd /\ r.recode = recode
        BY <1>3, ReplyOK DEF Answered, Reply, Header
      <4>3. ~IsGrant(r)  BY <4>1, <4>2 DEF IsGrant
      <4> QED  BY <4>1, <4>2, <4>3, NoGrant
    <3> QED  BY <3>1, <3>2
  <2> QED  BY <1>1, <1>3, <2>1, <2>2, LeasesKept DEF PlainReply, SameHands
<1>4. ASSUME NEW m, HandCommand(m)  PROVE  Leases'
  <2>1. CASE UdscCreate(m)  BY <1>1, <2>1, CreateLeases
  <2>2. CASE UdscCreateFull(m)  BY <2>2 DEF UdscCreateFull
  <2>3. CASE UdscDestory(m)  BY <1>1, <2>3, DestoryLeases
  <2>4. CASE MasterReset(m)  BY <1>1, <2>4, ResetLeases
  <2>5. CASE UdscStart(m) \/ UdscStop(m)
    <3>1. Take(m) /\ m \in Header /\ m.cmd \in {"start", "stop"} /\ m.id \in Ids
      BY <2>5, TakeOK DEF UdscStart, UdscStop, Accept
    <3>2. udsc_cnt' = udsc_cnt /\ lease' = lease /\ toApi' = Sent(toApi, Reply(m, "no", m.id))
      BY <2>5 DEF UdscStart, UdscStop
    <3>3. GrantsKept /\ DestoriesKept
      <4> DEFINE r == Reply(m, "no", m.id)
      <4>1. "no" \in Recodes  BY DEF Recodes
      <4>2. r \in Header /\ r.cmd = m.cmd  BY <3>1, <4>1, ReplyOK DEF Reply, Header
      <4>3. ~IsGrant(r)  BY <3>1, <4>2 DEF IsGrant
      <4> QED  BY <3>1, <3>2, <4>2, <4>3, NoGrant, TakenDestories
    <3>4. \A id \in Ids : udscs'[id].isidle = udscs[id].isidle
      <4> SUFFICES ASSUME NEW id \in Ids  PROVE  udscs'[id].isidle = udscs[id].isidle
        OBVIOUS
      <4>1. udscs[id] \in Udsc  BY DEF MasterOK
      <4>2. CASE UdscStop(m)
        <5>1. udscs' = [udscs EXCEPT ![m.id] = Stopped(@)]  BY <4>2 DEF UdscStop
        <5>2. udscs'[id] = udscs[id] \/ udscs'[id] = Stopped(udscs[id])
          BY <5>1 DEF MasterOK
        <5> QED  BY <4>1, <5>2 DEF Stopped, Udsc
      <4>3. CASE UdscStart(m)  BY <4>1, <4>3 DEF UdscStart, MasterOK, Udsc
      <4> QED  BY <2>5, <4>2, <4>3
    <3> QED  BY <1>1, <3>2, <3>3, <3>4, LeasesKept
  <2> QED  BY <1>4, <2>1, <2>2, <2>3, <2>4, <2>5 DEF HandCommand
<1> QED  BY <1>2, <1>3, <1>4, MasterCases

\* The user calls.  A client that is given back belongs to the command alone.
LEMMA UserCallLeases ==
  ASSUME TypeOK, TypeOK', Leases, UNCHANGED master,
         NEW cmd \in ApiCommands, NEW id \in Ids, UserCall(cmd, id)
  PROVE  Leases'
<1> USE DEF TypeOK
<1> DEFINE ask == Request(cmd, "no", id, made')
<1>1. /\ UNCHANGED <<toApi, handle>>
      /\ toMaster' = Sent(toMaster, ask)
      /\ isvalid' = [isvalid EXCEPT ![id] = @ /\ cmd # "destory"]
      /\ cmd \in Checked => isvalid[id]
  BY DEF UserCall, Call
<1>2. cmd \in Commands /\ "no" \in Recodes /\ made' \in Nat
  BY ApiAssumption DEF Recodes, ApiOK
<1>3. ask \in Header /\ ask.cmd = cmd /\ ask.id = id /\ ~ask.isreply
  BY <1>2, RequestOK DEF Request
<1>4. toMaster \in Seq(Header) /\ Len(toMaster) \in Nat /\ Len(toMaster') \in Nat
  BY LenProperties DEF IpcOK
<1>5. Extends(toMaster, toMaster', {ask}) /\ Len(toMaster') <= Len(toMaster) + 1
  BY <1>1, <1>3, <1>4, SentExtends
<1>6. \A k \in 1..Len(toMaster') :
        \/ k \in 1..Len(toMaster) /\ toMaster'[k] = toMaster[k]
        \/ k = Len(toMaster) + 1 /\ toMaster'[k] = ask
  <2> SUFFICES ASSUME NEW k \in 1..Len(toMaster')
               PROVE  \/ k \in 1..Len(toMaster) /\ toMaster'[k] = toMaster[k]
                      \/ k = Len(toMaster) + 1 /\ toMaster'[k] = ask
    OBVIOUS
  <2>1. CASE k \in 1..Len(toMaster)  BY <1>5, <2>1 DEF Extends
  <2>2. CASE k \notin 1..Len(toMaster)
    <3>1. k = Len(toMaster) + 1  BY <1>4, <1>5, <2>2
    <3> QED  BY <1>4, <1>5, <3>1 DEF Extends
  <2> QED  BY <2>1, <2>2
<1>7. UNCHANGED <<lease, udsc_cnt, udscs>>  BY DEF master
<1>8. \A k \in Ids : isvalid'[k] <=> isvalid[k] /\ ~(k = id /\ cmd = "destory")
  BY <1>1 DEF ApiOK
<1>9. CASE cmd # "destory"
  <2>1. Rest(toApi, toApi')  BY <1>1, RestSame DEF IpcOK
  <2>2. GrantsKept  BY <2>1, AnswersAreKept, GrantIsAnswer
  <2>3. ASSUME NEW k \in 1..Len(toMaster'), IsDestory(toMaster'[k])
        PROVE  k + 0 \in 1..Len(toMaster) /\ toMaster'[k] = toMaster[k + 0]
    BY <1>3, <1>6, <1>9, <2>3 DEF IsDestory
  <2>4. DestoriesKept  BY <2>3 DEF DestoriesKept
  <2> QED  BY <1>1, <1>7, <1>8, <2>2, <2>4, LeasesKept
<1>10. CASE cmd = "destory"
  <2>1. isvalid[id]  BY <1>1, <1>10 DEF Checked, Commands
  <2>2. InUse(id)  BY <2>1 DEF Leases, RecordIsLease
  <2>3. \A k \in 1..Len(toApi) : IsGrant(toApi[k]) => toApi[k].id # id
    BY <2>1 DEF Leases, GrantIsLease
  <2>4. \A k \in 1..Len(toMaster) : IsDestory(toMaster[k]) => toMaster[k].id # id
    BY <2>1 DEF Leases, DestoryIsLast
  <2>5. \A k \in Ids : (InUse(k) <=> k < udsc_cnt' /\ ~udscs'[k].isidle)
    BY <1>7 DEF InUse
  <2>6. RecordIsLease'
    BY <1>1, <1>7, <1>8, <2>5 DEF Leases, RecordIsLease, InUse
  <2>7. /\ \A k \in 1..Len(toApi) : toApi[k].id \in Ids
        /\ \A k \in 1..Len(toMaster) : toMaster[k].id \in Ids
    BY MessagesOK DEF Header
  <2>8. GrantIsLease'
    <3>1. ASSUME NEW k \in 1..Len(toApi), IsGrant(toApi[k])
          PROVE  /\ toApi[k].id < udsc_cnt' /\ ~udscs'[toApi[k].id].isidle
                 /\ lease'[toApi[k].id] = toApi[k].tag
                 /\ ~isvalid'[toApi[k].id]
      <4>1. /\ toApi[k].id \in Ids /\ InUse(toApi[k].id)
            /\ lease[toApi[k].id] = toApi[k].tag /\ ~isvalid[toApi[k].id]
        BY <2>7, <3>1 DEF Leases, GrantIsLease
      <4> QED  BY <1>7, <1>8, <2>5, <4>1
    <3> QED  BY <1>1, <3>1 DEF Leases, GrantIsLease, InUse
  <2>9. DestoryIsLast'
    <3>1. ASSUME NEW k \in 1..Len(toMaster'), IsDestory(toMaster'[k])
          PROVE  /\ toMaster'[k].id \in Ids
                 /\ toMaster'[k].id < udsc_cnt' /\ ~udscs'[toMaster'[k].id].isidle
                 /\ ~isvalid'[toMaster'[k].id]
                 /\ \A j \in 1..Len(toApi) : IsGrant(toApi[j]) => toApi[j].id # toMaster'[k].id
      <4>1. CASE k \in 1..Len(toMaster) /\ toMaster'[k] = toMaster[k]
        <5>1. /\ toMaster[k].id \in Ids /\ InUse(toMaster[k].id) /\ ~isvalid[toMaster[k].id]
              /\ \A j \in 1..Len(toApi) : IsGrant(toApi[j]) => toApi[j].id # toMaster[k].id
          BY <2>7, <3>1, <4>1 DEF Leases, DestoryIsLast
        <5> QED  BY <1>8, <2>5, <4>1, <5>1
      <4>2. CASE toMaster'[k] = ask
        BY <1>3, <1>8, <1>10, <2>2, <2>3, <2>5, <4>2
      <4> QED  BY <1>6, <4>1, <4>2
    <3>2. ASSUME NEW j \in 1..Len(toMaster'), NEW k \in 1..Len(toMaster'),
                 IsDestory(toMaster'[j]), IsDestory(toMaster'[k]),
                 toMaster'[j].id = toMaster'[k].id
          PROVE  j = k
      <4>1. CASE j \in 1..Len(toMaster) /\ k \in 1..Len(toMaster)
        <5>1. toMaster'[j] = toMaster[j] /\ toMaster'[k] = toMaster[k]
          BY <1>5, <4>1 DEF Extends
        <5> QED  BY <3>2, <4>1, <5>1 DEF Leases, DestoryIsLast
      <4>2. CASE j \in 1..Len(toMaster) /\ toMaster'[k] = ask
        <5>1. toMaster'[j] = toMaster[j]  BY <1>5, <4>2 DEF Extends
        <5> QED  BY <1>3, <2>4, <3>2, <4>2, <5>1
      <4>3. CASE k \in 1..Len(toMaster) /\ toMaster'[j] = ask
        <5>1. toMaster'[k] = toMaster[k]  BY <1>5, <4>3 DEF Extends
        <5> QED  BY <1>3, <2>4, <3>2, <4>3, <5>1
      <4> QED  BY <1>6, <4>1, <4>2, <4>3
    <3> QED  BY <1>1, <3>1, <3>2 DEF DestoryIsLast, InUse
  <2> QED  BY <2>6, <2>8, <2>9 DEF Leases
<1> QED  BY <1>9, <1>10

\* The reply to a call: a client that is handed out belongs to the record that is
\* made of it.
LEMMA ReplyLeases ==
  ASSUME TypeOK, TypeOK', Leases, UNCHANGED master,
         toApi # <<>>, Head(toApi) \in Header, ReplyExpected(Head(toApi))
  PROVE  Leases'
<1> USE DEF TypeOK
<1> DEFINE m == Head(toApi)
<1>1. /\ toApi' = Tail(toApi) /\ m.isreply /\ m.recode = "no" /\ UNCHANGED toMaster
      /\ IF m.cmd = "create"
         THEN /\ isvalid' = [isvalid EXCEPT ![m.id] = TRUE]
              /\ handle' = [handle EXCEPT ![m.id] = m.tag]
         ELSE UNCHANGED <<isvalid, handle>>
  BY DEF ReplyExpected, Read
<1>2. UNCHANGED <<lease, udsc_cnt, udscs>>  BY DEF master
<1>3. /\ toApi \in Seq(Header) /\ toMaster \in Seq(Header)
      /\ Len(toApi) \in Nat \ {0} /\ Len(toApi') = Len(toApi) - 1 /\ m = toApi[1]
      /\ \A k \in 1..Len(toApi') : toApi'[k] = toApi[k + 1]
      /\ Rest(toApi, toApi')
  BY <1>1, RestTail DEF IpcOK
<1>4. GrantsKept /\ DestoriesKept
  <2>1. Rest(toMaster, toMaster')  BY <1>1, <1>3, RestSame
  <2> QED  BY <1>3, <2>1, AsksAreKept, AnswersAreKept, GrantIsAnswer
<1>5. CASE m.cmd # "create"  BY <1>1, <1>2, <1>4, <1>5, LeasesKept
<1>6. CASE m.cmd = "create"
  <2> DEFINE h == m.id
  <2>1. h \in Ids /\ IsGrant(toApi[1]) /\ 1 \in 1..Len(toApi)
    BY <1>1, <1>3, <1>6 DEF IsGrant, Header
  <2>2. InUse(h) /\ lease[h] = m.tag
    BY <1>3, <2>1 DEF Leases, GrantIsLease
  <2>3. \A k \in 1..Len(toMaster) : IsDestory(toMaster[k]) => toMaster[k].id # h
    BY <1>3, <2>1 DEF Leases, DestoryIsLast
  <2>4. \A k \in Ids : (InUse(k) <=> k < udsc_cnt' /\ ~udscs'[k].isidle)
    BY <1>2 DEF InUse
  <2>5. \A k \in Ids : /\ isvalid'[k] <=> isvalid[k] \/ k = h
                       /\ handle'[k] = IF k = h THEN m.tag ELSE handle[k]
    BY <1>1, <1>6, <2>1 DEF ApiOK
  <2>6. RecordIsLease'
    BY <1>2, <2>2, <2>4, <2>5 DEF Leases, RecordIsLease, InUse
  <2>7. /\ \A k \in 1..Len(toApi) : toApi[k].id \in Ids
        /\ \A k \in 1..Len(toMaster) : toMaster[k].id \in Ids
    BY MessagesOK DEF Header
  <2>8. ASSUME NEW k \in 1..Len(toApi'), IsGrant(toApi'[k])
        PROVE  /\ k + 1 \in 1..Len(toApi) /\ IsGrant(toApi[k + 1])
               /\ toApi'[k] = toApi[k + 1] /\ toApi'[k].id \in Ids
               /\ InUse(toApi'[k].id) /\ lease[toApi'[k].id] = toApi'[k].tag
               /\ ~isvalid[toApi'[k].id] /\ toApi'[k].id # h
    <3>1. k + 1 \in 1..Len(toApi) /\ toApi'[k] = toApi[k + 1]  BY <1>3
    <3>2. toApi[k + 1].id # toApi[1].id
      <4>1. k + 1 # 1  OBVIOUS
      <4> QED  BY <2>1, <2>8, <3>1, <4>1 DEF Leases, GrantIsLease
    <3> QED  BY <1>3, <2>7, <2>8, <3>1, <3>2 DEF Leases, GrantIsLease
  <2>9. GrantIsLease'
    <3>1. ASSUME NEW k \in 1..Len(toApi'), IsGrant(toApi'[k])
          PROVE  /\ toApi'[k].id < udsc_cnt' /\ ~udscs'[toApi'[k].id].isidle
                 /\ lease'[toApi'[k].id] = toApi'[k].tag
                 /\ ~isvalid'[toApi'[k].id]
      BY <1>2, <2>4, <2>5, <2>8, <3>1
    <3>2. ASSUME NEW j \in 1..Len(toApi'), NEW k \in 1..Len(toApi'), IsGrant(toApi'[j]),
                 IsGrant(toApi'[k]), toApi'[j].id = toApi'[k].id
          PROVE  j = k
      <4>1. /\ j + 1 \in 1..Len(toApi) /\ IsGrant(toApi[j + 1])
            /\ toApi'[j] = toApi[j + 1]
            /\ k + 1 \in 1..Len(toApi) /\ IsGrant(toApi[k + 1])
            /\ toApi'[k] = toApi[k + 1]
        BY <2>8, <3>2
      <4>2. j + 1 = k + 1  BY <3>2, <4>1 DEF Leases, GrantIsLease
      <4> QED  BY <4>2
    <3> QED  BY <3>1, <3>2 DEF GrantIsLease, InUse
  <2>10. DestoryIsLast'
    <3>1. ASSUME NEW k \in 1..Len(toMaster), IsDestory(toMaster[k])
          PROVE  /\ toMaster[k].id < udsc_cnt' /\ ~udscs'[toMaster[k].id].isidle
                 /\ ~isvalid'[toMaster[k].id]
      <4>1. /\ toMaster[k].id \in Ids /\ InUse(toMaster[k].id)
            /\ ~isvalid[toMaster[k].id] /\ toMaster[k].id # h
        BY <2>3, <2>7, <3>1 DEF Leases, DestoryIsLast
      <4> QED  BY <2>4, <2>5, <4>1
    <3>2. ASSUME NEW k \in 1..Len(toMaster), IsDestory(toMaster[k]),
                 NEW j \in 1..Len(toApi'), IsGrant(toApi'[j])
          PROVE  toApi'[j].id # toMaster[k].id
      <4>1. /\ j + 1 \in 1..Len(toApi) /\ IsGrant(toApi[j + 1])
            /\ toApi'[j] = toApi[j + 1]
        BY <2>8, <3>2
      <4> QED  BY <3>2, <4>1 DEF Leases, DestoryIsLast
    <3>3. \A j, k \in 1..Len(toMaster) :
            IsDestory(toMaster[j]) /\ IsDestory(toMaster[k])
              /\ toMaster[j].id = toMaster[k].id => j = k
      BY DEF Leases, DestoryIsLast
    <3> QED  BY <1>1, <3>1, <3>2, <3>3 DEF DestoryIsLast, InUse
  <2> QED  BY <2>6, <2>9, <2>10 DEF Leases
<1> QED  BY <1>5, <1>6

\* Every step of the API.
LEMMA ApiLeases ==
  ASSUME TypeOK, TypeOK', Leases, ApiNext, UNCHANGED master
  PROVE  Leases'
<1> USE DEF TypeOK
<1>1. UNCHANGED <<lease, udsc_cnt, udscs>>  BY DEF master
<1>2. CASE QuietApi \/ FailedCall \/ NestedCall
  <2>1. UNCHANGED <<isvalid, handle>> /\ Rest(toApi, toApi')
    BY <1>2 DEF QuietApi, FailedCall, NestedCall
  <2>2. Rest(toMaster, toMaster') \/ Extends(toMaster, toMaster', Backs)
    <3>1. toMaster \in Seq(Header)  BY DEF IpcOK
    <3> QED  BY <1>2, <3>1, RestSame DEF QuietApi, FailedCall, NestedCall
  <2>3. GrantsKept /\ DestoriesKept
    BY <2>1, <2>2, AsksAreKept, AnswersAreKept, GrantIsAnswer
  <2> QED  BY <1>1, <2>1, <2>3, LeasesKept
<1>3. CASE \E cmd \in ApiCommands, id \in Ids : UserCall(cmd, id)
  BY <1>3, UserCallLeases
<1>4. CASE toApi # <<>> /\ Head(toApi) \in Header /\ ReplyExpected(Head(toApi))
  BY <1>4, ReplyLeases
<1> QED  BY <1>2, <1>3, <1>4, ApiCases

\* A pool that was upset stays so, and so does a call that failed.
LEMMA UpsetStays ==
  ASSUME TypeOK, Next
  PROVE  (upset => upset') /\ (failed => failed')
<1>1. CASE MasterNext /\ UNCHANGED api
  <2>1. UNCHANGED failed  BY <1>1 DEF api
  <2>2. ASSUME NEW m, IpcRead(m)  PROVE  upset => upset'
    BY <2>2 DEF IpcRead, ReplyIgnored, Refuse, Ignore, UdscCreate, UdscCreateFull,
       UdscCreateFailed, UdscDestory, UdscStart, UdscStop, MasterReset, ServiceConfig,
       Configure, DoipcCreate, DoipcCreateFailed, ServiceResponse, Granted, master
  <2>3. ASSUME NEW id, Timers(id) \/ DoipcRead(id)  PROVE  upset => upset'
    BY <2>3 DEF Timers, RequestSent, RequestsExhausted, RequestAborted,
       ResponseTimeout, TesterPresent, Step, DoipcRead, master
  <2> QED  BY <1>1, <2>1, <2>2, <2>3 DEF MasterNext
<1>2. CASE ApiNext /\ UNCHANGED master
  <2>1. UNCHANGED upset  BY <1>2 DEF master
  <2>2. failed => failed'
    BY <1>2 DEF ApiNext, UserCall, CallbackSet, Receive, RecvTimeout, ReplyDropped,
       ReplyFailed, ReplyExpected, NoticeDropped, NoticeHandled, Call, Fail, api
  <2> QED  BY <2>1, <2>2
<1> QED  BY <1>1, <1>2 DEF Next

\* Nobody has a client.
LEMMA LeaseInit == Init => LeaseInv
<1> SUFFICES ASSUME Init  PROVE  LeaseInv  OBVIOUS
<1>1. TypeOK /\ RunningIsInUse  BY InitOK
<1>2. \A id \in Ids : ~isvalid[id]  BY DEF Init, ApiInit
<1>3. Len(toApi) = 0 /\ Len(toMaster) = 0  BY EmptySeq DEF Init
<1>4. RecordIsLease  BY <1>2 DEF RecordIsLease
<1>5. GrantIsLease  BY <1>3 DEF GrantIsLease
<1>6. DestoryIsLast  BY <1>3 DEF DestoryIsLast
<1> QED  BY <1>1, <1>4, <1>5, <1>6 DEF LeaseInv, Leases

\* Every step keeps the types, and the leases unless the pool is upset.
LEMMA LeaseNext ==
  ASSUME LeaseInv, [Next]_vars
  PROVE  LeaseInv'
<1>1. TypeOK /\ RunningIsInUse /\ (~upset => Leases)  BY DEF LeaseInv
<1>2. TypeOK' /\ RunningIsInUse'  BY <1>1, NextOK
<1>3. CASE Next
  <2>1. ~upset' => ~upset  BY <1>1, <1>3, UpsetStays
  <2>2. ASSUME ~upset'  PROVE  Leases'
    BY <1>1, <1>2, <1>3, <2>1, <2>2, MasterLeases, ApiLeases DEF Next
  <2> QED  BY <1>2, <2>2 DEF LeaseInv
<1>4. CASE UNCHANGED vars
  <2>1. UNCHANGED <<toMaster, toApi, udsc_cnt, udscs, lease, upset, isvalid, handle>>
    BY <1>4 DEF vars, channels, master, api
  <2>2. RecordIsLease => RecordIsLease'  BY <2>1 DEF RecordIsLease, InUse
  <2>3. GrantIsLease => GrantIsLease'  BY <2>1 DEF GrantIsLease, InUse
  <2>4. DestoryIsLast => DestoryIsLast'  BY <2>1 DEF DestoryIsLast, InUse
  <2> QED  BY <1>1, <1>2, <2>1, <2>2, <2>3, <2>4 DEF LeaseInv, Leases
<1> QED  BY <1>3, <1>4

\* Unless the pool was full or was reset while in use, each record of the API
\* names a client that is leased to the call that made the record, whatever timed
\* out, failed, came late or was dropped between the two processes.
THEOREM HandlesCorrect == Spec => []HandleIsLease
<1>1. LeaseInv => HandleIsLease
  BY DEF LeaseInv, HandleIsLease, Leases, RecordIsLease
<1> QED  BY <1>1, LeaseInit, LeaseNext, PTL DEF Spec

-----------------------------------------------------------------------------
(***************************************************************************)
(* Who agrees that a client is in use                                      *)
(***************************************************************************)

\* What AgreementInv adds to the two invariants it rests on.
Agreeing == LeasesDiffer /\ UnrecordedIsPending /\ AbandonedStays

\* A reply that tells of a client given back.
IsDone(m) == IsAnswer(m) /\ m.cmd = "destory" /\ m.recode = "no"

\* As long as no client changes hands, both sides agree as they did.
LEMMA AgreeingKept ==
  ASSUME TypeOK, TypeOK', Agreeing, GrantsKept, AsksKept,
         udsc_cnt' = udsc_cnt, \A id \in Ids : udscs'[id].isidle = udscs[id].isidle,
         UNCHANGED <<lease, abandoned, isvalid>>, made <= made',
         \A k \in 1..Len(toApi') : IsDone(toApi'[k]) =>
           \E j \in 1..Len(toApi) : IsDone(toApi[j]) /\ toApi[j].id = toApi'[k].id,
         calls # <<>> /\ calls[1].cmd \in UserOnly => calls' # <<>> /\ calls'[1] = calls[1]
  PROVE  Agreeing'
<1> USE DEF TypeOK
<1>1. \A id \in Ids : id < udsc_cnt' /\ ~udscs'[id].isidle <=> InUse(id)
  BY DEF InUse
<1>2. PICK d \in {0, 1} : \A k \in 1..Len(toMaster') :
        IsAsk(toMaster'[k]) => /\ k + d \in 1..Len(toMaster)
                               /\ toMaster'[k] = toMaster[k + d]
  BY DEF AsksKept
<1>3. PICK e \in {0, 1} : \A k \in 1..Len(toApi') :
        IsGrant(toApi'[k]) => k + e \in 1..Len(toApi) /\ toApi'[k] = toApi[k + e]
  BY DEF GrantsKept
<1>4. made \in Nat /\ made' \in Nat /\ \A id \in Ids : lease[id] \in Nat
  BY DEF ApiOK, MasterOK
<1>5. LeasesDiffer'
  <2>1. \A id \in Ids : lease'[id] <= made'
    BY <1>4 DEF Agreeing, LeasesDiffer
  <2>2. ASSUME NEW k \in 1..Len(toMaster'), NEW id \in Ids, IsAsk(toMaster'[k]),
               toMaster'[k].cmd = "create"
        PROVE  lease'[id] # toMaster'[k].tag
    <3>1. k + d \in 1..Len(toMaster) /\ toMaster'[k] = toMaster[k + d]  BY <1>2, <2>2
    <3> QED  BY <2>2, <3>1 DEF Agreeing, LeasesDiffer
  <2>3. \A i, j \in Ids : (i < udsc_cnt' /\ ~udscs'[i].isidle)
                            /\ (j < udsc_cnt' /\ ~udscs'[j].isidle)
                            /\ lease'[i] = lease'[j] => i = j
    BY <1>1 DEF Agreeing, LeasesDiffer
  <2> QED  BY <2>1, <2>2, <2>3 DEF LeasesDiffer, InUse
<1>6. UnrecordedIsPending'
  <2>1. ASSUME NEW id \in Ids, id < udsc_cnt', ~udscs'[id].isidle, ~isvalid'[id],
               id \notin abandoned'
        PROVE  /\ calls' # <<>>
               /\ \/ calls'[1].cmd = "create" /\ lease'[id] = calls'[1].tag
                  \/ calls'[1].cmd = "destory" /\ calls'[1].id = id
    <3>1. /\ calls # <<>>
          /\ \/ calls[1].cmd = "create" /\ lease[id] = calls[1].tag
             \/ calls[1].cmd = "destory" /\ calls[1].id = id
      BY <1>1, <2>1 DEF Agreeing, UnrecordedIsPending
    <3>2. calls[1].cmd \in UserOnly  BY <3>1 DEF UserOnly, Commands
    <3> QED  BY <3>1, <3>2
  <2> QED  BY <2>1 DEF UnrecordedIsPending, InUse
<1>7. AbandonedStays'
  <2>1. ASSUME NEW id \in abandoned
        PROVE  /\ id < udsc_cnt' /\ ~udscs'[id].isidle /\ ~isvalid'[id]
               /\ \A k \in 1..Len(toApi') : IsGrant(toApi'[k]) => toApi'[k].id # id
               /\ \A k \in 1..Len(toMaster') : IsDestory(toMaster'[k]) => toMaster'[k].id # id
    <3>1. id \in Ids /\ InUse(id) /\ ~isvalid[id]
      BY <2>1 DEF Agreeing, AbandonedStays, MasterOK
    <3>2. \A k \in 1..Len(toApi') : IsGrant(toApi'[k]) => toApi'[k].id # id
      BY <1>3, <2>1 DEF Agreeing, AbandonedStays
    <3>3. \A k \in 1..Len(toMaster') : IsDestory(toMaster'[k]) => toMaster'[k].id # id
      BY <1>2, <2>1, GrantIsAnswer DEF Agreeing, AbandonedStays
    <3> QED  BY <1>1, <3>1, <3>2, <3>3
  <2>2. ASSUME NEW k \in 1..Len(toApi'), IsDone(toApi'[k])
        PROVE  ~(toApi'[k].id < udsc_cnt' /\ ~udscs'[toApi'[k].id].isidle)
               \/ toApi'[k].id \in abandoned'
    <3>1. PICK j \in 1..Len(toApi) : IsDone(toApi[j]) /\ toApi[j].id = toApi'[k].id
      BY <2>2
    <3>2. toApi[j].id \in Ids  BY MessagesOK DEF Header
    <3>3. ~InUse(toApi[j].id) \/ toApi[j].id \in abandoned
      BY <3>1 DEF Agreeing, AbandonedStays, IsDone
    <3> QED  BY <1>1, <3>1, <3>2, <3>3
  <2> QED  BY <2>1, <2>2 DEF AbandonedStays, IsDone, InUse
<1> QED  BY <1>5, <1>6, <1>7 DEF Agreeing

\* No reply tells of a client given back that did not before.
LEMMA DoneKept ==
  ASSUME AnswersKept
  PROVE  \A k \in 1..Len(toApi') : IsDone(toApi'[k]) =>
           \E j \in 1..Len(toApi) : IsDone(toApi[j]) /\ toApi[j].id = toApi'[k].id
BY DEF AnswersKept, IsDone

\* The only reply of the user's call is the one that is sent.
LEMMA OnlyAnswer ==
  ASSUME IpcOK, IpcOK', NEW r \in Header, toApi' = Sent(toApi, r),
         \A k \in 1..Len(toApi) : ~IsAnswer(toApi[k])
  PROVE  \A k \in 1..Len(toApi') : IsAnswer(toApi'[k]) => toApi'[k] = r
<1>1. toApi \in Seq(Header) /\ Len(toApi) \in Nat /\ Len(toApi') \in Nat
  BY LenProperties DEF IpcOK
<1>2. Extends(toApi, toApi', {r})  BY <1>1, SentExtends
<1>3. ASSUME NEW k \in 1..Len(toApi'), IsAnswer(toApi'[k])
      PROVE  toApi'[k] = r
  <2>1. CASE k \in 1..Len(toApi)  BY <1>2, <1>3, <2>1 DEF Extends
  <2>2. CASE k \in (Len(toApi) + 1)..Len(toApi')  BY <1>2, <2>2 DEF Extends
  <2> QED  BY <1>1, <2>1, <2>2
<1> QED  BY <1>3

\* A client is handed out: the call that asked for it is in progress.
LEMMA CreateAgreeing ==
  ASSUME TypeOK, TypeOK', CallsNest, MessagesAwaited, Leases, Leases', Agreeing,
         UNCHANGED api, NEW m, UdscCreate(m)
  PROVE  Agreeing'
<1> USE DEF TypeOK
<1>1. Take(m) /\ m \in Header /\ m.cmd = "create" /\ Answered(m)
  BY TakeOK, HandCommandAnswered DEF UdscCreate, Accept, HandCommand
<1>2. PICK h \in Ids : /\ IsIdle(h) \/ h = udsc_cnt
                       /\ Granted(m, h)
                       /\ udsc_cnt' = IF h = udsc_cnt THEN udsc_cnt + 1 ELSE udsc_cnt
  BY DEF UdscCreate
<1> DEFINE r == Reply(m, "no", h)
<1>3. udsc_cnt \in Int /\ h \in Int  BY ConstantsOK DEF MasterOK, Ids
<1>4. ~InUse(h)  BY <1>2, <1>3 DEF InUse, IsIdle
<1>5. \A k \in Ids : k # h =>
        /\ k < udsc_cnt' /\ ~udscs'[k].isidle <=> InUse(k)
        /\ lease'[k] = lease[k]
  <2> SUFFICES ASSUME NEW k \in Ids, k # h
               PROVE  /\ k < udsc_cnt' /\ ~udscs'[k].isidle <=> InUse(k)
                      /\ lease'[k] = lease[k]
    OBVIOUS
  <2>1. udscs'[k] = udscs[k] /\ lease'[k] = lease[k]
    BY <1>2 DEF Granted, MasterOK
  <2>2. k < udsc_cnt' <=> k < udsc_cnt  BY <1>2, <1>3 DEF Ids
  <2> QED  BY <2>1, <2>2 DEF InUse
<1>6. lease'[h] = m.tag  BY <1>2 DEF Granted, MasterOK
<1>7. UNCHANGED <<calls, made, isvalid, abandoned>>
  BY <1>2 DEF api, Granted
<1>8. /\ Awaited(m)
      /\ \A k \in 1..Len(toMaster') : ~IsAsk(toMaster'[k])
      /\ \A k \in 1..Len(toApi) : ~IsAnswer(toApi[k])
  BY <1>1, <1>7, AnswerAwaited
<1>9. r \in Header /\ r.id = h /\ r.cmd = "create"
  <2>1. "no" \in Recodes  BY DEF Recodes
  <2> QED  BY <1>1, <2>1, ReplyOK DEF Reply, Header
<1>10. \A k \in 1..Len(toApi') : IsAnswer(toApi'[k]) => toApi'[k] = r
  BY <1>2, <1>8, <1>9, OnlyAnswer DEF Granted
<1>11. m = toMaster[1] /\ 1 \in 1..Len(toMaster) /\ IsAsk(m)
  BY <1>1, TakenDestories DEF Answered
<1>12. calls # <<>> /\ calls[1].cmd = "create" /\ calls[1].tag = m.tag /\ m.tag <= made
  <2>1. calls # <<>> /\ calls[1].cmd = m.cmd /\ calls[1].tag = m.tag
    BY <1>8 DEF Awaited
  <2>2. 1 \in 1..Len(calls)  BY <2>1, PoppedCalls
  <2> QED  BY <1>1, <2>1, <2>2 DEF CallsNest
<1>13. LeasesDiffer'
  <2>1. ASSUME NEW id \in Ids  PROVE  lease'[id] <= made'
    <3>1. lease'[id] = m.tag \/ lease'[id] = lease[id]  BY <1>5, <1>6
    <3> QED  BY <1>7, <1>12, <3>1 DEF Agreeing, LeasesDiffer
  <2>2. ASSUME NEW id \in Ids  PROVE  lease[id] # m.tag
    BY <1>1, <1>11 DEF Agreeing, LeasesDiffer
  <2>3. ASSUME NEW i \in Ids, NEW j \in Ids, i < udsc_cnt', ~udscs'[i].isidle,
               j < udsc_cnt', ~udscs'[j].isidle, lease'[i] = lease'[j]
        PROVE  i = j
    <3>1. CASE i # h /\ j # h  BY <1>5, <2>3, <3>1 DEF Agreeing, LeasesDiffer
    <3>2. CASE i = h /\ j # h  BY <1>5, <1>6, <2>2, <2>3, <3>2
    <3>3. CASE i # h /\ j = h  BY <1>5, <1>6, <2>2, <2>3, <3>3
    <3> QED  BY <3>1, <3>2, <3>3
  <2> QED  BY <1>8, <2>1, <2>3 DEF LeasesDiffer, InUse
<1>14. UnrecordedIsPending'
  <2>1. ASSUME NEW id \in Ids, id < udsc_cnt', ~udscs'[id].isidle, ~isvalid[id],
               id \notin abandoned
        PROVE  \/ calls[1].cmd = "create" /\ lease'[id] = calls[1].tag
               \/ calls[1].cmd = "destory" /\ calls[1].id = id
    <3>1. CASE id = h  BY <1>6, <1>12, <3>1
    <3>2. CASE id # h
      BY <1>5, <2>1, <3>2 DEF Agreeing, UnrecordedIsPending
    <3> QED  BY <3>1, <3>2
  <2> QED  BY <1>7, <1>12, <2>1 DEF UnrecordedIsPending, InUse
<1>15. AbandonedStays'
  <2>1. ASSUME NEW id \in abandoned
        PROVE  /\ id < udsc_cnt' /\ ~udscs'[id].isidle /\ ~isvalid'[id]
               /\ \A k \in 1..Len(toApi') : IsGrant(toApi'[k]) => toApi'[k].id # id
               /\ \A k \in 1..Len(toMaster') : IsDestory(toMaster'[k]) => toMaster'[k].id # id
    <3>1. id \in Ids /\ InUse(id) /\ ~isvalid[id]
      BY <2>1 DEF Agreeing, AbandonedStays, MasterOK
    <3>2. id # h  BY <1>4, <3>1
    <3>3. \A k \in 1..Len(toApi') : IsGrant(toApi'[k]) => toApi'[k].id # id
      BY <1>9, <1>10, <3>2, GrantIsAnswer
    <3>4. \A k \in 1..Len(toMaster') : ~IsDestory(toMaster'[k])
      BY <1>8, GrantIsAnswer
    <3> QED  BY <1>5, <1>7, <3>1, <3>2, <3>3, <3>4
  <2>2. \A k \in 1..Len(toApi') : ~IsDone(toApi'[k])
    BY <1>9, <1>10 DEF IsDone
  <2> QED  BY <1>7, <2>1, <2>2 DEF AbandonedStays, IsDone, InUse
<1> QED  BY <1>13, <1>14, <1>15 DEF Agreeing

\* A client is taken back, or refuses and is abandoned.
LEMMA DestoryAgreeing ==
  ASSUME TypeOK, TypeOK', CallsNest, MessagesAwaited, Leases, Agreeing,
         UNCHANGED api, NEW m, UdscDestory(m)
  PROVE  Agreeing'
<1> USE DEF TypeOK
<1> DEFINE h == m.id
           r == Reply(m, "no", h)
           u == [udscs[h] EXCEPT !.doipc = NoDoipc]
<1>1. Take(m) /\ m \in Header /\ h \in Ids /\ m.cmd = "destory" /\ Answered(m)
  BY TakeOK, HandCommandAnswered DEF UdscDestory, Accept, HandCommand
<1>2. /\ udsc_cnt' = udsc_cnt /\ toApi' = Sent(toApi, r)
      /\ udscs' = [udscs EXCEPT ![h] = IF Active(u) THEN u ELSE Reset(u)]
      /\ lease' = IF Active(u) THEN lease ELSE [lease EXCEPT ![h] = 0]
      /\ abandoned' = IF Active(u) THEN abandoned \cup {h} ELSE abandoned \ {h}
  BY DEF UdscDestory
<1>3. UNCHANGED <<calls, made, isvalid, handle>>  BY DEF api
<1>4. /\ InUse(h) /\ ~isvalid[h]
      /\ \A k \in 1..Len(toApi') : IsGrant(toApi'[k]) => toApi'[k].id # h
      /\ \A k \in 1..Len(toMaster') : IsDestory(toMaster'[k]) => toMaster'[k].id # h
  BY <1>3, DestoryLeases
<1>5. \A k \in Ids : k # h =>
        /\ k < udsc_cnt' /\ ~udscs'[k].isidle <=> InUse(k)
        /\ lease'[k] = lease[k]
        /\ k \in abandoned' <=> k \in abandoned
  <2> SUFFICES ASSUME NEW k \in Ids, k # h
               PROVE  /\ k < udsc_cnt' /\ ~udscs'[k].isidle <=> InUse(k)
                      /\ lease'[k] = lease[k]
                      /\ k \in abandoned' <=> k \in abandoned
    OBVIOUS
  <2>1. udscs'[k] = udscs[k] /\ lease'[k] = lease[k]  BY <1>2 DEF MasterOK
  <2>2. k \in abandoned' <=> k \in abandoned  BY <1>2
  <2> QED  BY <1>2, <2>1, <2>2 DEF InUse
<1>6. CASE Active(u)
  <2>1. h < udsc_cnt' /\ ~udscs'[h].isidle /\ lease'[h] = lease[h] /\ h \in abandoned'
    <3>1. udscs'[h] = u  BY <1>1, <1>2, <1>6 DEF MasterOK
    <3>2. udscs[h] \in Udsc  BY <1>1 DEF MasterOK
    <3>3. u.isidle = udscs[h].isidle  BY <3>2 DEF Udsc
    <3> QED  BY <1>2, <1>4, <1>6, <3>1, <3>3 DEF InUse
  <2> QED
    <3>1. /\ \A k \in 1..Len(toMaster') : ~IsAsk(toMaster'[k])
          /\ \A k \in 1..Len(toApi) : ~IsAnswer(toApi[k])
      BY <1>1, <1>3, AnswerAwaited
    <3>2. r \in Header /\ r.id = h /\ r.cmd = "destory"
      <4>1. "no" \in Recodes  BY DEF Recodes
      <4> QED  BY <1>1, <4>1, ReplyOK DEF Reply, Header
    <3>3. \A k \in 1..Len(toApi') : IsAnswer(toApi'[k]) => toApi'[k] = r
      BY <1>2, <3>1, <3>2, OnlyAnswer
    <3>4. \A k \in Ids : (k < udsc_cnt' /\ ~udscs'[k].isidle <=> InUse(k))
                         /\ lease'[k] = lease[k]
      BY <1>4, <1>5, <2>1
    <3>5. LeasesDiffer'
      BY <1>3, <3>1, <3>4 DEF Agreeing, LeasesDiffer, InUse
    <3>6. UnrecordedIsPending'
      <4>1. \A k \in Ids : k \notin abandoned' => k \notin abandoned  BY <1>2, <1>6
      <4> QED  BY <1>3, <3>4, <4>1 DEF Agreeing, UnrecordedIsPending, InUse
    <3>7. AbandonedStays'
      <4>1. ASSUME NEW id \in abandoned'
            PROVE  /\ id < udsc_cnt' /\ ~udscs'[id].isidle /\ ~isvalid'[id]
                   /\ \A k \in 1..Len(toApi') : IsGrant(toApi'[k]) => toApi'[k].id # id
        <5>1. CASE id = h  BY <1>3, <1>4, <2>1, <5>1
        <5>2. CASE id # h
          <6>1. id \in abandoned /\ id \in Ids  BY <1>2, <1>6, <4>1, <5>2 DEF MasterOK
          <6>2. InUse(id) /\ ~isvalid[id]  BY <6>1 DEF Agreeing, AbandonedStays
          <6>3. \A k \in 1..Len(toApi') : ~IsGrant(toApi'[k])
            BY <3>2, <3>3, GrantIsAnswer DEF IsGrant
          <6> QED  BY <1>3, <3>4, <6>1, <6>2, <6>3
        <5> QED  BY <5>1, <5>2
      <4>2. \A k \in 1..Len(toMaster') : ~IsDestory(toMaster'[k])
        BY <3>1, GrantIsAnswer
      <4>3. \A k \in 1..Len(toApi') : IsDone(toApi'[k]) => toApi'[k].id \in abandoned'
        BY <2>1, <3>2, <3>3 DEF IsDone
      <4> QED  BY <4>1, <4>2, <4>3 DEF AbandonedStays, IsDone, InUse
    <3> QED  BY <3>5, <3>6, <3>7 DEF Agreeing
<1>7. CASE ~Active(u)
  <2>1. udscs'[h].isidle /\ h \notin abandoned'
    <3>1. udscs'[h] = Reset(u)  BY <1>1, <1>2, <1>7 DEF MasterOK
    <3> QED  BY <1>2, <1>7, <3>1 DEF Reset, NewUdsc
  <2>2. /\ \A k \in 1..Len(toMaster') : ~IsAsk(toMaster'[k])
        /\ \A k \in 1..Len(toApi) : ~IsAnswer(toApi[k])
    BY <1>1, <1>3, AnswerAwaited
  <2>3. r \in Header /\ r.id = h /\ r.cmd = "destory"
    <3>1. "no" \in Recodes  BY DEF Recodes
    <3> QED  BY <1>1, <3>1, ReplyOK DEF Reply, Header
  <2>4. \A k \in 1..Len(toApi') : IsAnswer(toApi'[k]) => toApi'[k] = r
    BY <1>2, <2>2, <2>3, OnlyAnswer
  <2>5. LeasesDiffer'
    <3>1. ASSUME NEW id \in Ids  PROVE  lease'[id] <= made'
      <4>1. lease'[id] = 0 \/ lease'[id] = lease[id]  BY <1>2 DEF MasterOK
      <4>2. made \in Nat  BY DEF ApiOK
      <4> QED  BY <1>3, <4>1, <4>2 DEF Agreeing, LeasesDiffer
    <3>2. ASSUME NEW i \in Ids, NEW j \in Ids, i < udsc_cnt', ~udscs'[i].isidle,
                 j < udsc_cnt', ~udscs'[j].isidle, lease'[i] = lease'[j]
          PROVE  i = j
      <4>1. i # h /\ j # h  BY <2>1, <3>2
      <4> QED  BY <1>5, <3>2, <4>1 DEF Agreeing, LeasesDiffer
    <3> QED  BY <2>2, <3>1, <3>2 DEF LeasesDiffer, InUse
  <2>6. UnrecordedIsPending'
    <3>1. ASSUME NEW id \in Ids, id < udsc_cnt', ~udscs'[id].isidle, ~isvalid[id],
                 id \notin abandoned'
          PROVE  /\ calls # <<>>
                 /\ \/ calls[1].cmd = "create" /\ lease'[id] = calls[1].tag
                    \/ calls[1].cmd = "destory" /\ calls[1].id = id
      <4>1. id # h  BY <2>1, <3>1
      <4> QED  BY <1>5, <3>1, <4>1 DEF Agreeing, UnrecordedIsPending
    <3> QED  BY <1>3, <3>1 DEF UnrecordedIsPending, InUse
  <2>7. AbandonedStays'
    <3>1. ASSUME NEW id \in abandoned'
          PROVE  /\ id < udsc_cnt' /\ ~udscs'[id].isidle /\ ~isvalid'[id]
                 /\ \A k \in 1..Len(toApi') : ~IsGrant(toApi'[k])
                 /\ \A k \in 1..Len(toMaster') : ~IsDestory(toMaster'[k])
      <4>1. id # h /\ id \in abandoned /\ id \in Ids
        BY <1>2, <1>7, <2>1, <3>1 DEF MasterOK
      <4>2. InUse(id) /\ ~isvalid[id]  BY <4>1 DEF Agreeing, AbandonedStays
      <4>3. \A k \in 1..Len(toApi') : ~IsGrant(toApi'[k])
        BY <2>3, <2>4, GrantIsAnswer DEF IsGrant
      <4>4. \A k \in 1..Len(toMaster') : ~IsDestory(toMaster'[k])
        BY <2>2, GrantIsAnswer
      <4> QED  BY <1>3, <1>5, <4>1, <4>2, <4>3, <4>4
    <3>2. \A k \in 1..Len(toApi') : IsDone(toApi'[k]) => udscs'[toApi'[k].id].isidle
      BY <2>1, <2>3, <2>4 DEF IsDone
    <3> QED  BY <3>1, <3>2 DEF AbandonedStays, IsDone, InUse
  <2> QED  BY <2>5, <2>6, <2>7 DEF Agreeing
<1> QED  BY <1>6, <1>7

\* A reset that finds no client in use: both sides agree that none is.
LEMMA ResetAgreeing ==
  ASSUME TypeOK, TypeOK', CallsNest, MessagesAwaited, Leases, Agreeing, ~upset',
         UNCHANGED api, NEW m, MasterReset(m)
  PROVE  Agreeing'
<1> USE DEF TypeOK
<1> DEFINE r == Reply(m, "no", m.id)
<1>1. m \in Header /\ m.id \in Ids /\ m.cmd = "reset" /\ Answered(m)
  BY TakeOK, HandCommandAnswered DEF MasterReset, Accept, HandCommand
<1>2. /\ toApi' = Sent(toApi, r) /\ lease' = [id \in Ids |-> 0] /\ abandoned' = {}
  BY DEF MasterReset
<1>3. UNCHANGED <<calls, made, isvalid, handle>>  BY DEF api
<1>4. \A id \in Ids : udscs'[id].isidle  BY <1>3, ResetLeases
<1>5. /\ \A k \in 1..Len(toMaster') : ~IsAsk(toMaster'[k])
      /\ \A k \in 1..Len(toApi) : ~IsAnswer(toApi[k])
  BY <1>1, <1>3, AnswerAwaited
<1>6. r \in Header /\ r.cmd = "reset"
  <2>1. "no" \in Recodes  BY DEF Recodes
  <2> QED  BY <1>1, <2>1, ReplyOK DEF Reply, Header
<1>7. \A k \in 1..Len(toApi') : IsAnswer(toApi'[k]) => toApi'[k] = r
  BY <1>2, <1>5, <1>6, OnlyAnswer
<1>8. LeasesDiffer'
  <2>1. made' \in Nat  BY DEF ApiOK
  <2> QED  BY <1>2, <1>4, <1>5, <2>1 DEF LeasesDiffer, InUse
<1>9. UnrecordedIsPending'  BY <1>4 DEF UnrecordedIsPending, InUse
<1>10. AbandonedStays'
  <2>1. \A k \in 1..Len(toApi') : ~IsDone(toApi'[k])  BY <1>6, <1>7 DEF IsDone
  <2> QED  BY <1>2, <2>1 DEF AbandonedStays, IsDone
<1> QED  BY <1>8, <1>9, <1>10 DEF Agreeing

\* What the start and the stop of a client leave alone.
LEMMA StartStopHands ==
  ASSUME TypeOK, NEW m, UdscStart(m) \/ UdscStop(m)
  PROVE  /\ m \in Header /\ m.cmd \in {"start", "stop"} /\ m.id \in Ids /\ Answered(m)
         /\ UNCHANGED <<udsc_cnt, lease, upset, abandoned>>
         /\ toApi' = Sent(toApi, Reply(m, "no", m.id))
         /\ \A id \in Ids : udscs'[id].isidle = udscs[id].isidle
<1> USE DEF TypeOK
<1>1. m \in Header /\ m.cmd \in {"start", "stop"} /\ m.id \in Ids /\ Answered(m)
  BY TakeOK, HandCommandAnswered DEF UdscStart, UdscStop, Accept, HandCommand
<1>2. UNCHANGED <<udsc_cnt, lease, upset, abandoned>>
      /\ toApi' = Sent(toApi, Reply(m, "no", m.id))
  BY DEF UdscStart, UdscStop
<1>3. ASSUME NEW id \in Ids  PROVE  udscs'[id].isidle = udscs[id].isidle
  <2>1. udscs[id] \in Udsc  BY DEF MasterOK
  <2>2. CASE UdscStop(m)
    <3>1. udscs' = [udscs EXCEPT ![m.id] = Stopped(@)]  BY <2>2 DEF UdscStop
    <3>2. udscs'[id] = udscs[id] \/ udscs'[id] = Stopped(udscs[id])
      BY <3>1 DEF MasterOK
    <3> QED  BY <2>1, <3>2 DEF Stopped, Udsc
  <2>3. CASE UdscStart(m)  BY <2>1, <2>3 DEF UdscStart, MasterOK, Udsc
  <2> QED  BY <2>2, <2>3
<1> QED  BY <1>1, <1>2, <1>3

\* A reply that hands out no client, takes none back and is not awaited twice.
LEMMA PlainAgreeing ==
  ASSUME TypeOK, TypeOK', CallsNest, MessagesAwaited, Agreeing, UNCHANGED api,
         NEW m, Answered(m),
         UNCHANGED <<udsc_cnt, lease, abandoned>>,
         \A id \in Ids : udscs'[id].isidle = udscs[id].isidle,
         \/ UNCHANGED toApi
         \/ \E recode \in Recodes, id \in Ids :
              /\ toApi' = Sent(toApi, Reply(m, recode, id))
              /\ recode = "no" => m.cmd \notin {"create", "destory"}
  PROVE  Agreeing'
<1> USE DEF TypeOK
<1>1. UNCHANGED <<calls, made, isvalid>>  BY DEF api
<1>2. /\ \A k \in 1..Len(toMaster') : ~IsAsk(toMaster'[k])
      /\ \A k \in 1..Len(toApi) : ~IsAnswer(toApi[k])
  BY <1>1, AnswerAwaited
<1>3. AsksKept  BY <1>2 DEF AsksKept
<1>4. \A k \in 1..Len(toApi') : ~IsGrant(toApi'[k]) /\ ~IsDone(toApi'[k])
  <2>1. CASE UNCHANGED toApi  BY <1>2, <2>1, GrantIsAnswer DEF IsDone
  <2>2. CASE ~UNCHANGED toApi
    <3>1. PICK recode \in Recodes, id \in Ids :
            /\ toApi' = Sent(toApi, Reply(m, recode, id))
            /\ recode = "no" => m.cmd \notin {"create", "destory"}
      BY <2>2
    <3> DEFINE r == Reply(m, recode, id)
    <3>2. r \in Header /\ r.cmd = m.cmd /\ r.recode = recode
      BY ReplyOK DEF Answered, Reply, Header
    <3>3. \A k \in 1..Len(toApi') : IsAnswer(toApi'[k]) => toApi'[k] = r
      BY <1>2, <3>1, <3>2, OnlyAnswer
    <3>4. ~IsGrant(r) /\ ~IsDone(r)  BY <3>1, <3>2 DEF IsGrant, IsDone
    <3> QED  BY <3>3, <3>4, GrantIsAnswer DEF IsDone
  <2> QED  BY <2>1, <2>2
<1>5. GrantsKept  BY <1>4 DEF GrantsKept
<1>6. made <= made'
  <2>1. made \in Nat  BY DEF ApiOK
  <2> QED  BY <1>1, <2>1
<1> QED  BY <1>1, <1>3, <1>4, <1>5, <1>6, AgreeingKept

\* Every step of the diag master.
LEMMA MasterAgreeing ==
  ASSUME TypeOK, TypeOK', RunningIsInUse, CallsNest, MessagesAwaited, Leases, Leases',
         Agreeing, ~upset', MasterNext, UNCHANGED api
  PROVE  Agreeing'
<1> USE DEF TypeOK
<1>1. CASE QuietMaster
  <2>1. UNCHANGED <<calls, made, isvalid>> /\ made <= made'
    <3>1. made \in Nat  BY DEF ApiOK
    <3> QED  BY <3>1 DEF api
  <2>2. AsksKept /\ AnswersKept
    BY <1>1, AsksAreKept, AnswersAreKept DEF QuietMaster
  <2> QED  BY <1>1, <2>1, <2>2, GrantIsAnswer, DoneKept, AgreeingKept
           DEF QuietMaster, SameHands
<1>2. ASSUME NEW m, Answered(m), PlainReply(m)  PROVE  Agreeing'
  <2>1. /\ UNCHANGED <<udsc_cnt, lease, abandoned>>
        /\ \A id \in Ids : udscs'[id].isidle = udscs[id].isidle
    BY <1>2 DEF PlainReply, SameHands
  <2>2. \/ UNCHANGED toApi
        \/ \E recode \in Recodes, id \in Ids :
             /\ toApi' = Sent(toApi, Reply(m, recode, id))
             /\ recode = "no" => m.cmd \notin {"create", "destory"}
    BY <1>2 DEF PlainReply
  <2> QED  BY <1>2, <2>1, <2>2, PlainAgreeing
<1>3. ASSUME NEW m, HandCommand(m)  PROVE  Agreeing'
  <2>1. CASE UdscCreate(m)  BY <2>1, CreateAgreeing
  <2>2. CASE UdscCreateFull(m)  BY <2>2 DEF UdscCreateFull
  <2>3. CASE UdscDestory(m)  BY <2>3, DestoryAgreeing
  <2>4. CASE MasterReset(m)  BY <2>4, ResetAgreeing
  <2>5. CASE UdscStart(m) \/ UdscStop(m)
    <3>1. "no" \in Recodes  BY DEF Recodes
    <3>2. \E recode \in Recodes, id \in Ids :
             /\ toApi' = Sent(toApi, Reply(m, recode, id))
             /\ recode = "no" => m.cmd \notin {"create", "destory"}
      BY <2>5, <3>1, StartStopHands
    <3> QED  BY <2>5, <3>2, StartStopHands, PlainAgreeing
  <2> QED  BY <1>3, <2>1, <2>2, <2>3, <2>4, <2>5 DEF HandCommand
<1> QED  BY <1>1, <1>2, <1>3, MasterCases

\* The user calls: nothing was pending, and now the call is.
LEMMA UserCallAgreeing ==
  ASSUME TypeOK, TypeOK', CallsNest, MessagesAwaited, Agreeing, ~failed',
         UNCHANGED master, NEW cmd \in ApiCommands, NEW id \in Ids, UserCall(cmd, id)
  PROVE  Agreeing'
<1> USE DEF TypeOK
<1> DEFINE ask == Request(cmd, "no", id, made')
<1>1. /\ calls = <<>> /\ UNCHANGED toApi /\ made' = made + 1
      /\ isvalid' = [isvalid EXCEPT ![id] = @ /\ cmd # "destory"]
      /\ cmd \in Checked => isvalid[id]
  BY DEF UserCall, Call
<1>2. UNCHANGED <<lease, udsc_cnt, udscs, abandoned>>  BY DEF master
<1>3. /\ \A k \in 1..Len(toMaster') : IsAsk(toMaster'[k]) =>
           k = Len(toMaster) + 1 /\ toMaster'[k] = ask
      /\ \A k \in 1..Len(toApi) : ~IsAnswer(toApi[k])
      /\ calls' # <<>> /\ calls'[1] = [cmd |-> cmd, id |-> id, tag |-> made']
  BY UserCallAwaited
<1>4. calls'[1].cmd = cmd /\ calls'[1].id = id /\ calls'[1].tag = made'
  BY <1>3
<1>5. ask.cmd = cmd /\ ask.id = id /\ ask.tag = made'  BY DEF Request
<1>6. made \in Nat /\ made' \in Nat /\ \A k \in Ids : lease[k] \in Nat
  BY DEF ApiOK, MasterOK
<1>7. \A k \in Ids : isvalid'[k] <=> isvalid[k] /\ ~(k = id /\ cmd = "destory")
  BY <1>1 DEF ApiOK
<1>8. LeasesDiffer'
  <2>1. \A k \in Ids : lease[k] < made'
    BY <1>1, <1>6 DEF Agreeing, LeasesDiffer
  <2>2. \A k \in Ids : lease'[k] <= made'  BY <1>2, <1>6, <2>1
  <2>3. \A k \in 1..Len(toMaster'), i \in Ids :
          IsAsk(toMaster'[k]) => lease'[i] # toMaster'[k].tag
    BY <1>2, <1>3, <1>5, <1>6, <2>1
  <2>4. \A i, j \in Ids : InUse(i) /\ InUse(j) /\ lease[i] = lease[j] => i = j
    BY DEF Agreeing, LeasesDiffer
  <2> QED  BY <1>2, <2>2, <2>3, <2>4 DEF LeasesDiffer, InUse
<1>9. UnrecordedIsPending'
  <2>1. ASSUME NEW k \in Ids, InUse(k), ~isvalid'[k], k \notin abandoned
        PROVE  cmd = "destory" /\ k = id
    BY <1>1, <1>7, <2>1 DEF Agreeing, UnrecordedIsPending
  <2> QED  BY <1>2, <1>3, <1>4, <2>1 DEF UnrecordedIsPending, InUse
<1>10. AbandonedStays'
  <2>1. ASSUME NEW k \in abandoned
        PROVE  /\ InUse(k) /\ ~isvalid'[k]
               /\ \A j \in 1..Len(toApi) : IsGrant(toApi[j]) => toApi[j].id # k
               /\ \A j \in 1..Len(toMaster') : IsDestory(toMaster'[j]) => toMaster'[j].id # k
    <3>1. k \in Ids /\ InUse(k) /\ ~isvalid[k]
      BY <2>1 DEF Agreeing, AbandonedStays, MasterOK
    <3>2. \A j \in 1..Len(toMaster') : IsDestory(toMaster'[j]) => toMaster'[j].id # k
      <4> SUFFICES ASSUME NEW j \in 1..Len(toMaster'), IsDestory(toMaster'[j])
                   PROVE  toMaster'[j].id # k
        OBVIOUS
      <4>1. toMaster'[j] = ask  BY <1>3, GrantIsAnswer
      <4>2. cmd = "destory"  BY <1>5, <4>1 DEF IsDestory
      <4>3. isvalid[id]  BY <1>1, <4>2 DEF Checked, Commands
      <4> QED  BY <1>5, <3>1, <4>1, <4>3
    <3> QED  BY <1>3, <1>7, <3>1, <3>2, GrantIsAnswer
  <2>2. \A j \in 1..Len(toApi) : ~IsDone(toApi[j])  BY <1>3 DEF IsDone
  <2> QED  BY <1>1, <1>2, <2>1, <2>2 DEF AbandonedStays, IsDone, InUse
<1> QED  BY <1>8, <1>9, <1>10 DEF Agreeing

\* The reply to a call is read: what was pending is not any more.
LEMMA ReplyAgreeing ==
  ASSUME TypeOK, TypeOK', CallsNest, MessagesAwaited, Leases, Agreeing,
         UNCHANGED master,
         toApi # <<>>, Head(toApi) \in Header, ReplyExpected(Head(toApi))
  PROVE  Agreeing'
<1> USE DEF TypeOK
<1> DEFINE m == Head(toApi)
           h == m.id
<1>1. /\ toApi' = Tail(toApi) /\ m.isreply /\ m.recode = "no"
      /\ UNCHANGED <<toMaster, made>>
      /\ IF m.cmd = "create" THEN isvalid' = [isvalid EXCEPT ![h] = TRUE]
                             ELSE UNCHANGED isvalid
  BY DEF ReplyExpected, Read
<1>2. UNCHANGED <<lease, udsc_cnt, udscs, abandoned>>  BY DEF master
<1>3. /\ m.cmd \in UserOnly =>
           /\ Len(calls) = 1 /\ Top = calls[1] /\ calls' = <<>>
           /\ IsAnswer(m) /\ Awaited(m)
      /\ m.cmd \notin UserOnly =>
           (calls # <<>> /\ calls[1].cmd \in UserOnly
              => calls' # <<>> /\ calls'[1] = calls[1])
      /\ AsksKept /\ AnswersKept
  BY ReplyRead
<1>4. GrantsKept /\ made <= made'
  <2>1. made \in Nat  BY DEF ApiOK
  <2> QED  BY <1>1, <1>3, <2>1, GrantIsAnswer
<1>5. CASE m.cmd \notin UserOnly
  <2>1. m.cmd # "create"  BY <1>5 DEF UserOnly, Commands
  <2> QED  BY <1>1, <1>2, <1>3, <1>4, <1>5, <2>1, DoneKept, AgreeingKept
<1>6. CASE m.cmd \in UserOnly
  <2>1. /\ toApi \in Seq(Header) /\ Len(toApi) \in Nat \ {0}
        /\ Len(toApi') = Len(toApi) - 1 /\ m = toApi[1]
        /\ \A k \in 1..Len(toApi') : toApi'[k] = toApi[k + 1]
    BY <1>1, RestTail DEF IpcOK
  <2>2. 1 \in 1..Len(toApi) /\ h \in Ids  BY <2>1 DEF Header
  <2>3. /\ \A k \in 1..Len(toApi') : ~IsAnswer(toApi'[k])
        /\ \A k \in 1..Len(toMaster) : ~IsAsk(toMaster[k])
    <3>1. ASSUME NEW k \in 1..Len(toApi'), IsAnswer(toApi'[k])  PROVE  FALSE
      <4>1. k + 1 \in 1..Len(toApi) /\ IsAnswer(toApi[k + 1])  BY <2>1, <3>1
      <4>2. k + 1 = 1  BY <1>3, <1>6, <2>1, <2>2, <4>1 DEF MessagesAwaited
      <4> QED  BY <4>2
    <3>2. \A k \in 1..Len(toMaster) : ~IsAsk(toMaster[k])
      BY <1>3, <1>6, <2>1, <2>2 DEF MessagesAwaited
    <3> QED  BY <3>1, <3>2
  <2>4. \A k \in Ids : isvalid'[k] <=> isvalid[k] \/ (k = h /\ m.cmd = "create")
    BY <1>1, <2>2 DEF ApiOK
  <2>5. m.cmd = "create" => InUse(h) /\ lease[h] = m.tag /\ h \notin abandoned
    <3>1. m.cmd = "create" => IsGrant(toApi[1])  BY <1>1, <2>1 DEF IsGrant
    <3>2. IsGrant(toApi[1]) => InUse(h) /\ lease[h] = m.tag
      BY <2>1, <2>2 DEF Leases, GrantIsLease
    <3>3. IsGrant(toApi[1]) => h \notin abandoned
      BY <2>1, <2>2 DEF Agreeing, AbandonedStays
    <3> QED  BY <3>1, <3>2, <3>3
  <2>6. m.cmd = "destory" => ~InUse(h) \/ h \in abandoned
    <3>1. m.cmd = "destory" => IsDone(toApi[1])
      BY <1>1, <1>3, <1>6, <2>1 DEF IsDone
    <3> QED  BY <2>1, <2>2, <3>1 DEF Agreeing, AbandonedStays, IsDone
  <2>7. calls[1].cmd = m.cmd /\ calls[1].tag = m.tag /\ (m.cmd # "create" => calls[1].id = h)
    BY <1>3, <1>6 DEF Awaited
  <2>8. ASSUME NEW id \in Ids, InUse(id), id \notin abandoned
        PROVE  isvalid'[id]
    <3>1. CASE isvalid[id]  BY <2>4, <3>1
    <3>2. CASE ~isvalid[id]
      <4>1. \/ calls[1].cmd = "create" /\ lease[id] = calls[1].tag
            \/ calls[1].cmd = "destory" /\ calls[1].id = id
        BY <2>8, <3>2 DEF Agreeing, UnrecordedIsPending
      <4>2. CASE m.cmd = "create"
        <5>1. lease[id] = lease[h] /\ InUse(h)  BY <2>5, <2>7, <4>1, <4>2
        <5>2. id = h  BY <2>2, <2>8, <5>1 DEF Agreeing, LeasesDiffer
        <5> QED  BY <2>4, <4>2, <5>2
      <4>3. CASE m.cmd = "destory"
        <5>1. id = h  BY <2>7, <4>1, <4>3
        <5> QED  BY <2>6, <2>8, <4>3, <5>1
      <4> QED  BY <2>7, <4>1, <4>2, <4>3
    <3> QED  BY <3>1, <3>2
  <2>9. UnrecordedIsPending'
    BY <1>2, <2>8 DEF UnrecordedIsPending, InUse
  <2>10. LeasesDiffer'
    BY <1>1, <1>2, <2>3 DEF Agreeing, LeasesDiffer, InUse
  <2>11. AbandonedStays'
    <3>1. ASSUME NEW id \in abandoned
          PROVE  InUse(id) /\ ~isvalid'[id]
      <4>1. id \in Ids /\ InUse(id) /\ ~isvalid[id]
        BY <3>1 DEF Agreeing, AbandonedStays, MasterOK
      <4> QED  BY <2>4, <2>5, <3>1, <4>1
    <3>2. /\ \A k \in 1..Len(toApi') : ~IsGrant(toApi'[k]) /\ ~IsDone(toApi'[k])
          /\ \A k \in 1..Len(toMaster) : ~IsDestory(toMaster[k])
      BY <2>3, GrantIsAnswer DEF IsDone
    <3> QED  BY <1>1, <1>2, <3>1, <3>2 DEF AbandonedStays, IsDone, InUse
  <2> QED  BY <2>9, <2>10, <2>11 DEF Agreeing
<1> QED  BY <1>5, <1>6

\* Every step of the API.
LEMMA ApiAgreeing ==
  ASSUME TypeOK, TypeOK', CallsNest, MessagesAwaited, Leases, Agreeing, ~failed',
         ApiNext, UNCHANGED master
  PROVE  Agreeing'
<1> USE DEF TypeOK
<1>1. /\ UNCHANGED <<lease, udsc_cnt, udscs, abandoned>>
      /\ made \in Nat
  BY DEF master, ApiOK
<1>2. CASE QuietApi
  <2>1. AsksKept /\ AnswersKept
    BY <1>2, AsksAreKept, AnswersAreKept DEF QuietApi
  <2>2. UNCHANGED <<calls, made, isvalid>> /\ made <= made'
    BY <1>1, <1>2 DEF QuietApi
  <2> QED  BY <1>1, <2>1, <2>2, GrantIsAnswer, DoneKept, AgreeingKept
<1>3. CASE NestedCall
  <2>1. UNCHANGED isvalid /\ made <= made'  BY <1>1, <1>3 DEF NestedCall
  <2>2. /\ AsksKept /\ AnswersKept
        /\ calls # <<>> => calls' # <<>> /\ calls'[1] = calls[1]
    BY <1>3, NestedCallAwaited
  <2> QED  BY <1>1, <2>1, <2>2, GrantIsAnswer, DoneKept, AgreeingKept
<1>4. CASE \E cmd \in ApiCommands, id \in Ids : UserCall(cmd, id)
  BY <1>4, UserCallAgreeing
<1>5. CASE toApi # <<>> /\ Head(toApi) \in Header /\ ReplyExpected(Head(toApi))
  BY <1>5, ReplyAgreeing
<1> QED  BY <1>2, <1>3, <1>4, <1>5, ApiCases DEF FailedCall

\* Every step, failed or not.
LEMMA OutstandingStep ==
  ASSUME OutstandingInv, RunningIsInUse, [Next]_vars
  PROVE  OutstandingInv'
<1>1. TypeOK /\ (~failed => Outstanding)  BY DEF OutstandingInv
<1>2. TypeOK' /\ RunningIsInUse'  BY <1>1, NextOK
<1>3. CASE Next
  <2>1. ~failed' => ~failed  BY <1>1, <1>3, UpsetStays
  <2> QED  BY <1>1, <1>2, <1>3, <2>1, OutstandingNext DEF OutstandingInv
<1>4. CASE UNCHANGED vars
  <2>1. UNCHANGED <<toMaster, toApi, calls, made, failed>>
    BY <1>4 DEF vars, channels, master, api
  <2>2. CallsNest => CallsNest'  BY <2>1 DEF CallsNest
  <2>3. MessagesAwaited => MessagesAwaited'  BY <2>1 DEF MessagesAwaited, Awaited
  <2>4. (CallsNest /\ MessagesAwaited => Outstanding)'  BY OutstandingParts, PTL
  <2> QED  BY <1>1, <1>2, <2>1, <2>2, <2>3, <2>4, OutstandingParts DEF OutstandingInv
<1> QED  BY <1>3, <1>4

\* Nothing is under way.
LEMMA OutstandingInit == Init => OutstandingInv
<1> SUFFICES ASSUME Init  PROVE  OutstandingInv  OBVIOUS
<1>1. TypeOK  BY InitOK
<1>2. Len(calls) = 0 /\ Len(toApi) = 0 /\ Len(toMaster) = 0
  BY EmptySeq DEF Init, ApiInit
<1>3. CallsNest  BY <1>2 DEF CallsNest
<1>4. MessagesAwaited  BY <1>2 DEF MessagesAwaited
<1> QED  BY <1>1, <1>3, <1>4, OutstandingParts DEF OutstandingInv

\* Nobody has a client, and nothing is under way.
LEMMA AgreementInit == Init => AgreementInv
<1> SUFFICES ASSUME Init  PROVE  AgreementInv  OBVIOUS
<1>1. LeaseInv /\ OutstandingInv  BY LeaseInit, OutstandingInit
<1>2. Len(toApi) = 0 /\ Len(toMaster) = 0  BY EmptySeq DEF Init
<1>3. \A id \in Ids : ~InUse(id)  BY DEF Init, MasterInit, NewUdsc, InUse
<1>4. LeasesDiffer  BY <1>2, <1>3 DEF Init, MasterInit, ApiInit, LeasesDiffer
<1>5. UnrecordedIsPending  BY <1>3 DEF UnrecordedIsPending
<1>6. AbandonedStays  BY <1>2 DEF Init, MasterInit, AbandonedStays
<1> QED  BY <1>1, <1>4, <1>5, <1>6 DEF AgreementInv

\* Every step.
LEMMA AgreementNext ==
  ASSUME AgreementInv, [Next]_vars
  PROVE  AgreementInv'
<1>1. /\ LeaseInv /\ OutstandingInv /\ TypeOK /\ RunningIsInUse
      /\ ~failed /\ ~upset => Agreeing /\ Outstanding /\ Leases
  BY DEF AgreementInv, Agreeing, LeaseInv, OutstandingInv
<1>2. LeaseInv' /\ OutstandingInv'  BY <1>1, LeaseNext, OutstandingStep
<1>3. TypeOK' /\ (~upset' => Leases')
  BY <1>2 DEF LeaseInv
<1>4. CASE Next
  <2>1. ~failed' /\ ~upset' => ~failed /\ ~upset  BY <1>1, <1>4, UpsetStays
  <2>2. ASSUME ~failed', ~upset'  PROVE  Agreeing'
    <3>1. CallsNest /\ MessagesAwaited /\ Leases /\ Agreeing
      BY <1>1, <2>1, <2>2, OutstandingParts
    <3> QED  BY <1>1, <1>3, <1>4, <2>2, <3>1, MasterAgreeing, ApiAgreeing DEF Next
  <2> QED  BY <1>2, <2>2 DEF AgreementInv, Agreeing
<1>5. CASE UNCHANGED vars
  <2>1. UNCHANGED <<toMaster, toApi, udsc_cnt, udscs, lease, upset, abandoned,
                    isvalid, calls, made, failed>>
    BY <1>5 DEF vars, channels, master, api
  <2>2. LeasesDiffer => LeasesDiffer'  BY <2>1 DEF LeasesDiffer, InUse
  <2>3. UnrecordedIsPending => UnrecordedIsPending'
    BY <2>1 DEF UnrecordedIsPending, InUse
  <2>4. AbandonedStays => AbandonedStays'  BY <2>1 DEF AbandonedStays, InUse
  <2> QED  BY <1>1, <1>2, <2>1, <2>2, <2>3, <2>4 DEF AgreementInv, Agreeing
<1> QED  BY <1>4, <1>5

\* As long as no call has failed and the pool was never full nor reset while in
\* use, then between two calls the API has records of just the clients the diag
\* master has handed out, but for those that were executing when they were to be
\* destroyed: none is lost, and none is used after it was given back.
THEOREM SidesAgree == Spec => []Agreement
<1>1. AgreementInv => Agreement
  <2> SUFFICES ASSUME AgreementInv, ~failed, ~upset, calls = <<>>, NEW id \in Ids
               PROVE  isvalid[id] <=> InUse(id) /\ id \notin abandoned
    BY DEF Agreement
  <2>1. Leases /\ Agreeing  BY DEF AgreementInv, LeaseInv, Agreeing
  <2>2. isvalid[id] => InUse(id)  BY <2>1 DEF Leases, RecordIsLease
  <2>3. isvalid[id] => id \notin abandoned  BY <2>1 DEF Agreeing, AbandonedStays
  <2>4. InUse(id) /\ id \notin abandoned => isvalid[id]
    BY <2>1 DEF Agreeing, UnrecordedIsPending
  <2> QED  BY <2>2, <2>3, <2>4
<1> QED  BY <1>1, AgreementInit, AgreementNext, PTL DEF Spec

-----------------------------------------------------------------------------
(***************************************************************************)
(* When a client is silent                                                 *)
(***************************************************************************)

\* Messages that neither tell of a stop nor come from a client that is stopped.
Silents ==
  {m \in Header : /\ ~IsStopped(m)
                  /\ IsNotice(m) => Live(m.id) /\ m.tag = run[m.id]}

\* What says nothing new says nothing of a stop, either.
LEMMA QuietsAreSilents == Quiets \subseteq Silents
<1>1. ASSUME NEW m \in Quiets  PROVE  m \in Silents
  <2>1. m \in Header /\ (m.isreply => m.cmd \notin UserOnly)
        /\ (~m.isreply => Live(m.id) /\ m.tag = run[m.id])
    BY DEF Quiets
  <2>2. ~IsStopped(m)  BY <2>1 DEF IsStopped, UserOnly, Commands
  <2>3. IsNotice(m) => Live(m.id) /\ m.tag = run[m.id]  BY <2>1 DEF IsNotice
  <2> QED  BY <2>1, <2>2, <2>3 DEF Silents
<1> QED  BY <1>1

\* As long as no client is started and none tells of its stop.
LEMMA SilenceKept ==
  ASSUME TypeOK, TypeOK', StoppedIsSilent, UNCHANGED <<run, quiet, calls, made>>,
         \A id \in Ids : Live(id)' => Live(id), Extends(toApi, toApi', Silents)
  PROVE  StoppedIsSilent'
<1> USE DEF TypeOK
<1>1. toApi \in Seq(Header) /\ Len(toApi) \in Nat /\ Len(toApi') \in Nat
  BY LenProperties DEF IpcOK
<1>2. \A k \in 1..Len(toApi') : toApi'[k].id \in Ids
  <2>1. toApi' \in Seq(Header)  BY DEF IpcOK
  <2>2. \A k \in 1..Len(toApi') : toApi'[k] \in Header  BY <2>1, ElementOfSeq
  <2> QED  BY <2>2 DEF Header
<1>3. \A k \in 1..Len(toApi') :
        \/ k \in 1..Len(toApi) /\ toApi'[k] = toApi[k]
        \/ k \notin 1..Len(toApi) /\ toApi'[k] \in Silents
  BY <1>1 DEF Extends
<1>4. \A id \in Ids : Live(id)' => Live(id)  OBVIOUS
<1>5. \A id \in Ids : Live(id)' => run[id] > quiet[id]
  BY <1>4 DEF StoppedIsSilent
<1>6. ASSUME NEW k \in 1..Len(toApi'), IsNotice(toApi'[k])
      PROVE  toApi'[k].tag > quiet[toApi'[k].id]
  <2>1. CASE k \in 1..Len(toApi) /\ toApi'[k] = toApi[k]
    BY <1>6, <2>1 DEF StoppedIsSilent
  <2>2. CASE toApi'[k] \in Silents
    BY <1>2, <1>6, <2>2 DEF StoppedIsSilent, Silents
  <2> QED  BY <1>3, <2>1, <2>2
<1>7. ASSUME NEW k \in 1..Len(toApi'), IsStopped(toApi'[k])
      PROVE  /\ ~Live(toApi[k].id)'
             /\ \A j \in (k + 1)..Len(toApi') :
                  IsNotice(toApi'[j]) => toApi'[j].id # toApi'[k].id
  <2>1. k \in 1..Len(toApi) /\ toApi'[k] = toApi[k]  BY <1>3, <1>7 DEF Silents
  <2>2. ~Live(toApi[k].id)  BY <1>7, <2>1 DEF StoppedIsSilent
  <2>3. ~Live(toApi[k].id)'
    <3>1. PICK h \in Ids : h = toApi'[k].id  BY <1>2
    <3>2. ~Live(h)  BY <2>1, <2>2, <3>1
    <3>3. ~Live(h)'  BY <1>4, <3>2
    <3> QED  BY <3>1, <3>3 DEF Live
  <2>4. ASSUME NEW j \in (k + 1)..Len(toApi'), IsNotice(toApi'[j])
        PROVE  toApi'[j].id # toApi'[k].id
    <3>1. CASE j \in 1..Len(toApi) /\ toApi'[j] = toApi[j]
      <4>1. j \in (k + 1)..Len(toApi)  BY <1>1, <2>1, <3>1
      <4>2. IsNotice(toApi[j]) /\ IsStopped(toApi[k])  BY <1>7, <2>1, <2>4, <3>1
      <4>3. toApi[j].id # toApi[k].id  BY <2>1, <4>1, <4>2 DEF StoppedIsSilent
      <4> QED  BY <2>1, <3>1, <4>3
    <3>2. CASE toApi'[j] \in Silents
      <4>1. Live(toApi'[j].id)  BY <2>4, <3>2 DEF Silents
      <4> QED  BY <2>1, <2>2, <4>1
    <3>3. j \in 1..Len(toApi')  BY <1>1, <2>1
    <3> QED  BY <1>3, <3>1, <3>2, <3>3
  <2> QED  BY <2>3, <2>4
<1> QED  BY <1>5, <1>6, <1>7 DEF StoppedIsSilent, Live

\* A command of the user's call is replied to: nobody else was, and the reply to a
\* stop is the last word of the client.
LEMMA AnswerSilence ==
  ASSUME TypeOK, TypeOK', MessagesAwaited, StoppedIsSilent, UNCHANGED api,
         NEW m, Answered(m), NEW recode \in Recodes, NEW to \in Ids,
         toApi' = toApi \/ toApi' = Sent(toApi, Reply(m, recode, to)),
         m.cmd = "stop" /\ recode = "no" => ~Live(to)',
         \A id \in Ids : Live(id)' => run'[id] > quiet[id]
  PROVE  StoppedIsSilent'
<1> USE DEF TypeOK
<1> DEFINE r == Reply(m, recode, to)
<1>1. UNCHANGED <<quiet, calls, made>>  BY DEF api
<1>2. r \in Header /\ r.cmd = m.cmd /\ r.isreply /\ r.recode = recode /\ r.id = to
  BY ReplyOK DEF Answered, Reply, Header
<1>3. \A k \in 1..Len(toApi) : ~IsAnswer(toApi[k])  BY <1>1, AnswerAwaited
<1>4. toApi \in Seq(Header) /\ Len(toApi) \in Nat /\ Len(toApi') \in Nat
  BY LenProperties DEF IpcOK
<1>5. \A k \in 1..Len(toApi') :
        \/ k \in 1..Len(toApi) /\ toApi'[k] = toApi[k]
        \/ k = Len(toApi') /\ toApi'[k] = r
  <2>1. CASE toApi' = Sent(toApi, r)
    <3>1. Extends(toApi, toApi', {r}) /\ Len(toApi') <= Len(toApi) + 1
      BY <1>2, <1>4, <2>1, SentExtends
    <3> QED  BY <1>4, <3>1 DEF Extends
  <2> QED  BY <2>1
<1>6. ASSUME NEW k \in 1..Len(toApi'), IsNotice(toApi'[k])
      PROVE  toApi'[k].tag > quiet[toApi'[k].id]
  <2>1. k \in 1..Len(toApi) /\ toApi'[k] = toApi[k]
    BY <1>2, <1>5, <1>6 DEF IsNotice
  <2> QED  BY <1>6, <2>1 DEF StoppedIsSilent
<1>7. ASSUME NEW k \in 1..Len(toApi'), IsStopped(toApi'[k])
      PROVE  k = Len(toApi') /\ ~Live(toApi[k].id)'
  <2>1. IsAnswer(toApi'[k])  BY <1>7 DEF IsStopped, IsAnswer, UserOnly, Commands
  <2>2. k = Len(toApi') /\ toApi'[k] = r  BY <1>3, <1>5, <2>1
  <2>3. ~Live(to)'  BY <1>2, <1>7, <2>2 DEF IsStopped
  <2> QED  BY <1>2, <2>2, <2>3 DEF Live
<1>8. ASSUME NEW k \in 1..Len(toApi'), IsStopped(toApi'[k]),
             NEW j \in (k + 1)..Len(toApi')
      PROVE  FALSE
  BY <1>4, <1>7, <1>8
<1> QED  BY <1>1, <1>6, <1>7, <1>8 DEF StoppedIsSilent, Live

\* What comes off the queue of the API is read; a call that begins is a later one.
LEMMA ReadSilence ==
  ASSUME TypeOK, TypeOK', StoppedIsSilent, UNCHANGED <<master, quiet>>,
         Rest(toApi, toApi'), made <= made',
         calls' # <<>> => \/ calls # <<>> /\ calls'[1] = calls[1]
                          \/ calls'[1].tag = made' /\ made' = made + 1
  PROVE  StoppedIsSilent'
<1> USE DEF TypeOK
<1>1. UNCHANGED <<udscs, run>>  BY DEF master
<1>2. toApi \in Seq(Header) /\ Len(toApi) \in Nat /\ Len(toApi') \in Nat
  BY LenProperties DEF IpcOK
<1>3. PICK d \in {0, 1} : /\ Len(toApi') = Len(toApi) - d
                          /\ \A k \in 1..Len(toApi') : toApi'[k] = toApi[k + d]
  BY DEF Rest
<1>4. \A id \in Ids : quiet[id] <= made'
  <2>1. made \in Nat /\ made' \in Nat /\ \A id \in Ids : quiet[id] \in Nat
    BY DEF ApiOK
  <2> QED  BY <2>1 DEF StoppedIsSilent
<1>5. calls' # <<>> => \A id \in Ids : quiet[id] < calls'[1].tag
  <2>1. made \in Nat /\ \A id \in Ids : quiet[id] \in Nat  BY DEF ApiOK
  <2>2. \A id \in Ids : quiet[id] < made + 1  BY <2>1 DEF StoppedIsSilent
  <2> QED  BY <2>2 DEF StoppedIsSilent
<1>6. \A id \in Ids : Live(id)' => run'[id] > quiet[id]
  BY <1>1 DEF StoppedIsSilent, Live
<1>7. ASSUME NEW k \in 1..Len(toApi'), IsNotice(toApi'[k])
      PROVE  toApi'[k].tag > quiet[toApi'[k].id]
  <2>1. k + d \in 1..Len(toApi) /\ toApi'[k] = toApi[k + d]  BY <1>2, <1>3
  <2>2. IsNotice(toApi[k + d])  BY <1>7, <2>1
  <2> QED  BY <2>1, <2>2 DEF StoppedIsSilent
<1>8. ASSUME NEW k \in 1..Len(toApi'), IsStopped(toApi'[k])
      PROVE  /\ ~Live(toApi[k].id)'
             /\ \A j \in (k + 1)..Len(toApi') :
                  IsNotice(toApi'[j]) => toApi'[j].id # toApi'[k].id
  <2>1. k + d \in 1..Len(toApi) /\ toApi'[k] = toApi[k + d]  BY <1>2, <1>3
  <2>2. IsStopped(toApi[k + d])  BY <1>8, <2>1
  <2>3. ~Live(toApi[k + d].id)  BY <2>1, <2>2 DEF StoppedIsSilent
  <2>4. ~Live(toApi[k].id)'  BY <1>1, <2>1, <2>3 DEF Live
  <2>5. ASSUME NEW j \in (k + 1)..Len(toApi'), IsNotice(toApi'[j])
        PROVE  toApi'[j].id # toApi'[k].id
    <3>1. j \in 1..Len(toApi') /\ j + d \in (k + d + 1)..Len(toApi)
      BY <1>2, <1>3
    <3>2. toApi'[j] = toApi[j + d]  BY <1>3, <3>1
    <3>3. IsNotice(toApi[j + d])  BY <2>5, <3>2
    <3>4. toApi[j + d].id # toApi[k + d].id
      BY <2>1, <2>2, <3>1, <3>3 DEF StoppedIsSilent
    <3> QED  BY <2>1, <3>2, <3>4
  <2> QED  BY <2>4, <2>5
<1> QED  BY <1>4, <1>5, <1>6, <1>7, <1>8 DEF StoppedIsSilent, Live

\* The reply to a stop is read: nothing of the client is behind it, and nothing will
\* be until it is started again.
LEMMA StopSilence ==
  ASSUME TypeOK, TypeOK', CallsNest, MessagesAwaited, StoppedIsSilent,
         UNCHANGED master,
         toApi # <<>>, Head(toApi) \in Header, ReplyExpected(Head(toApi)),
         Head(toApi).cmd = "stop"
  PROVE  StoppedIsSilent'
<1> USE DEF TypeOK
<1> DEFINE m == Head(toApi)
<1>1. /\ UNCHANGED <<udscs, run, made>> /\ toApi' = Tail(toApi) /\ IsStopped(m)
      /\ quiet' = [quiet EXCEPT ![Top.id] = Top.tag]
  BY DEF master, ReplyExpected, Read, IsStopped
<1>2. m.cmd \in UserOnly  BY DEF UserOnly, Commands
<1>3. /\ Len(calls) = 1 /\ Top = calls[1] /\ calls' = <<>>
      /\ IsAnswer(m) /\ Awaited(m)
  BY <1>2, ReplyRead
<1>4. Top.id = m.id /\ Top.tag <= made /\ m.id \in Ids
  BY <1>3 DEF Awaited, CallsNest, Header
<1>5. /\ Len(toApi) \in Nat \ {0} /\ Len(toApi') = Len(toApi) - 1 /\ m = toApi[1]
      /\ \A k \in 1..Len(toApi') : toApi'[k] = toApi[k + 1]
  BY <1>1, RestTail DEF IpcOK
<1>6. \A id \in Ids : quiet'[id] = IF id = m.id THEN Top.tag ELSE quiet[id]
  BY <1>1, <1>4 DEF ApiOK
<1>7. ~Live(m.id)
  BY <1>1, <1>5 DEF StoppedIsSilent
<1>8. \A j \in 2..Len(toApi) : IsNotice(toApi[j]) => toApi[j].id # m.id
  BY <1>1, <1>5 DEF StoppedIsSilent
<1>9. \A id \in Ids : quiet'[id] <= made'
  BY <1>1, <1>4, <1>6 DEF StoppedIsSilent
<1>10. \A id \in Ids : Live(id)' => run'[id] > quiet'[id]
  BY <1>1, <1>6, <1>7 DEF StoppedIsSilent, Live
<1>11. \A k \in 1..Len(toApi') : toApi'[k].id \in Ids
  <2>1. \A k \in 1..Len(toApi') : toApi'[k] \in Header
    BY ElementOfSeq DEF IpcOK
  <2> QED  BY <2>1 DEF Header
<1>12. ASSUME NEW k \in 1..Len(toApi'), IsNotice(toApi'[k])
       PROVE  toApi'[k].tag > quiet'[toApi'[k].id]
  <2>1. k + 1 \in 2..Len(toApi) /\ toApi'[k] = toApi[k + 1]  BY <1>5
  <2>2. IsNotice(toApi[k + 1]) /\ toApi[k + 1].id # m.id  BY <1>8, <1>12, <2>1
  <2>3. toApi[k + 1].tag > quiet[toApi[k + 1].id]
    BY <2>1, <2>2 DEF StoppedIsSilent
  <2> QED  BY <1>6, <1>11, <2>1, <2>2, <2>3
<1>13. ASSUME NEW k \in 1..Len(toApi'), IsStopped(toApi'[k])
       PROVE  FALSE
  <2>1. k + 1 \in 1..Len(toApi) /\ k + 1 # 1 /\ toApi'[k] = toApi[k + 1]  BY <1>5
  <2>2. IsAnswer(toApi[k + 1])
    BY <1>13, <2>1 DEF IsStopped, IsAnswer, UserOnly, Commands
  <2>3. 1 \in 1..Len(toApi) /\ IsAnswer(toApi[1])  BY <1>3, <1>5
  <2> QED  BY <2>1, <2>2, <2>3 DEF MessagesAwaited
<1> QED  BY <1>3, <1>9, <1>10, <1>12, <1>13 DEF StoppedIsSilent, Live

\* A client that is handed out, taken back or reset is not started by it.
LEMMA HandsNotStarted ==
  ASSUME TypeOK, NEW m,
         UdscCreate(m) \/ UdscCreateFull(m) \/ UdscDestory(m) \/ MasterReset(m)
  PROVE  /\ UNCHANGED run
         /\ \A id \in Ids : Live(id)' => Live(id)
<1> USE DEF TypeOK
<1>1. UNCHANGED run
  BY DEF UdscCreate, Granted, UdscCreateFull, UdscDestory, MasterReset
<1>2. ASSUME NEW id \in Ids  PROVE  Live(id)' => Live(id)
  <2>1. udscs[id] \in Udsc  BY DEF MasterOK
  <2>2. CASE udscs'[id] = udscs[id]  BY <2>2 DEF Live
  <2>3. CASE udscs'[id] = [udscs[id] EXCEPT !.isidle = FALSE]
    BY <2>1, <2>3 DEF Udsc, Live
  <2>4. CASE udscs'[id] = [udscs[id] EXCEPT !.doipc = NoDoipc]
    BY <2>1, <2>4 DEF Udsc, Live
  <2>5. CASE udscs'[id] = Reset([udscs[id] EXCEPT !.doipc = NoDoipc])
    BY <2>1, <2>5 DEF Reset, NewUdsc, Udsc, Live
  <2>6. CASE udscs'[id] = Reset(Stopped(udscs[id]))
    BY <2>1, <2>6 DEF Reset, Stopped, NewUdsc, Udsc, Live
  <2>7. CASE UdscCreate(m)
    <3>1. udscs'[id] = udscs[id] \/ udscs'[id] = [udscs[id] EXCEPT !.isidle = FALSE]
      BY <2>7 DEF UdscCreate, Granted, MasterOK
    <3> QED  BY <2>2, <2>3, <3>1
  <2>8. CASE UdscCreateFull(m)  BY <2>2, <2>8 DEF UdscCreateFull
  <2>9. CASE UdscDestory(m)
    <3>1. udscs'[id] \in {udscs[id], [udscs[id] EXCEPT !.doipc = NoDoipc],
                          Reset([udscs[id] EXCEPT !.doipc = NoDoipc])}
      BY <2>9 DEF UdscDestory, MasterOK
    <3> QED  BY <2>2, <2>4, <2>5, <3>1
  <2>10. CASE MasterReset(m)
    <3>1. udscs'[id] = udscs[id] \/ udscs'[id] = Reset(Stopped(udscs[id]))
      BY <2>10 DEF MasterReset
    <3> QED  BY <2>2, <2>6, <3>1
  <2> QED  BY <2>7, <2>8, <2>9, <2>10
<1> QED  BY <1>1, <1>2

\* A start belongs to the call in progress, which is later than any stop; the client
\* that is stopped is not live.
LEMMA StartStopSilence ==
  ASSUME TypeOK, TypeOK', MessagesAwaited, StoppedIsSilent, UNCHANGED api,
         NEW m, UdscStart(m) \/ UdscStop(m)
  PROVE  StoppedIsSilent'
<1> USE DEF TypeOK
<1>1. /\ m \in Header /\ m.id \in Ids /\ Answered(m)
      /\ toApi' = Sent(toApi, Reply(m, "no", m.id))
  BY StartStopHands
<1>2. "no" \in Recodes  BY DEF Recodes
<1>3. UNCHANGED <<quiet, calls>>  BY DEF api
<1>4. ASSUME NEW id \in Ids  PROVE  Live(id) => run[id] > quiet[id]
  BY DEF StoppedIsSilent
<1>5. CASE UdscStop(m)
  <2>1. udscs[m.id] \in Udsc  BY <1>1 DEF MasterOK
  <2>2. UNCHANGED run /\ udscs' = [udscs EXCEPT ![m.id] = Stopped(@)]
    BY <1>5 DEF UdscStop
  <2>3. udscs'[m.id] = Stopped(udscs[m.id])  BY <1>1, <2>2 DEF MasterOK
  <2>4. ~Live(m.id)'  BY <2>1, <2>3 DEF Stopped, Udsc, Live
  <2>5. ASSUME NEW id \in Ids  PROVE  Live(id)' => run'[id] > quiet[id]
    <3>1. CASE id = m.id  BY <2>4, <3>1 DEF Live
    <3>2. CASE id # m.id
      <4>1. udscs'[id] = udscs[id]  BY <2>2, <3>2 DEF MasterOK
      <4> QED  BY <1>4, <2>2, <4>1 DEF Live
    <3> QED  BY <3>1, <3>2
  <2> QED  BY <1>1, <1>2, <2>4, <2>5, AnswerSilence
<1>6. CASE UdscStart(m)
  <2>1. m.cmd = "start"  BY <1>6 DEF UdscStart, Accept
  <2>2. Awaited(m)  BY <1>1, <1>3, AnswerAwaited
  <2>3. \A id \in Ids : m.tag > quiet[id]
    <3>1. \A id \in Ids : quiet[id] < m.tag  BY <2>2 DEF Awaited, StoppedIsSilent
    <3>2. m.tag \in Nat /\ \A id \in Ids : quiet[id] \in Nat
      BY <1>1 DEF Header, ApiOK
    <3> QED  BY <3>1, <3>2
  <2>4. ASSUME NEW id \in Ids  PROVE  Live(id)' => run'[id] > quiet[id]
    <3>1. CASE UNCHANGED <<udscs, run>>  BY <1>4, <3>1 DEF Live
    <3>2. CASE /\ run' = [run EXCEPT ![m.id] = m.tag]
               /\ udscs' = [udscs EXCEPT
                    ![m.id].sindex = 0,
                    ![m.id].running = udscs[m.id].service_cnt > 0,
                    ![m.id].tester = @ \/ (TpEnable /\ udscs[m.id].service_cnt > 0)]
      <4>1. CASE id = m.id
        <5>1. run'[id] = m.tag  BY <1>1, <3>2, <4>1 DEF MasterOK
        <5> QED  BY <2>3, <5>1
      <4>2. CASE id # m.id
        <5>1. udscs'[id] = udscs[id]  BY <3>2, <4>2 DEF MasterOK
        <5>2. run'[id] = run[id]  BY <3>2, <4>2 DEF MasterOK
        <5> QED  BY <1>4, <5>1, <5>2 DEF Live
      <4> QED  BY <4>1, <4>2
    <3> QED  BY <1>6, <3>1, <3>2 DEF UdscStart
  <2> QED  BY <1>1, <1>2, <2>1, <2>4, AnswerSilence
<1> QED  BY <1>5, <1>6

\* Every step of the diag master.
LEMMA MasterSilence ==
  ASSUME TypeOK, TypeOK', RunningIsInUse, MessagesAwaited, StoppedIsSilent,
         MasterNext, UNCHANGED api
  PROVE  StoppedIsSilent'
<1> USE DEF TypeOK
<1>1. UNCHANGED <<quiet, calls, made>>  BY DEF api
<1>2. ASSUME UNCHANGED run, \A id \in Ids : Live(id)' => Live(id)
      PROVE  \A id \in Ids : Live(id)' => run'[id] > quiet[id]
  BY <1>2 DEF StoppedIsSilent
<1>3. CASE QuietMaster
  <2>1. Extends(toApi, toApi', Silents)
    BY <1>3, QuietsAreSilents, ExtendsMore DEF QuietMaster
  <2> QED  BY <1>1, <1>3, <2>1, SilenceKept DEF QuietMaster, SameHands
<1>4. ASSUME NEW m, Answered(m), PlainReply(m)  PROVE  StoppedIsSilent'
  <2>1. \A id \in Ids : Live(id)' => run'[id] > quiet[id]
    BY <1>2, <1>4 DEF PlainReply, SameHands
  <2>2. "invalid" \in Recodes /\ 0 \in Ids  BY ConstantsOK DEF Recodes
  <2>3. CASE UNCHANGED toApi
    BY <1>4, <2>1, <2>2, <2>3, AnswerSilence
  <2>4. CASE \E recode \in Recodes, id \in Ids :
               /\ toApi' = Sent(toApi, Reply(m, recode, id))
               /\ recode = "no" => m.cmd # "stop"
    BY <1>4, <2>1, <2>4, AnswerSilence
  <2> QED  BY <1>4, <2>3, <2>4 DEF PlainReply
<1>5. ASSUME NEW m, HandCommand(m)  PROVE  StoppedIsSilent'
  <2>1. CASE UdscStart(m) \/ UdscStop(m)  BY <2>1, StartStopSilence
  <2>2. CASE UdscCreate(m) \/ UdscCreateFull(m) \/ UdscDestory(m) \/ MasterReset(m)
    <3>1. \A id \in Ids : Live(id)' => run'[id] > quiet[id]
      BY <1>2, <2>2, HandsNotStarted
    <3>2. Answered(m) /\ m.cmd # "stop"
      BY <1>5, <2>2, HandCommandAnswered
         DEF UdscCreate, UdscCreateFull, UdscDestory, MasterReset, Accept
    <3>3. "invalid" \in Recodes /\ 0 \in Ids  BY ConstantsOK DEF Recodes
    <3>4. CASE UNCHANGED toApi
      BY <3>1, <3>2, <3>3, <3>4, AnswerSilence
    <3>5. CASE \E recode \in Recodes, id \in Ids :
                 toApi' = Sent(toApi, Reply(m, recode, id))
      BY <3>1, <3>2, <3>5, AnswerSilence
    <3> QED  BY <3>2, <3>4, <3>5 DEF Answered
  <2> QED  BY <1>5, <2>1, <2>2 DEF HandCommand
<1> QED  BY <1>3, <1>4, <1>5, MasterCases

\* Every step of the API in which no call fails.
LEMMA ApiSilence ==
  ASSUME TypeOK, TypeOK', CallsNest, MessagesAwaited, StoppedIsSilent, ~failed',
         ApiNext, UNCHANGED master
  PROVE  StoppedIsSilent'
<1> USE DEF TypeOK
<1> DEFINE m == Head(toApi)
<1>1. made \in Nat /\ toApi \in Seq(Header)  BY DEF ApiOK, IpcOK
<1>2. CASE QuietApi
  <2>1. made <= made'  BY <1>1, <1>2 DEF QuietApi
  <2> QED  BY <1>2, <2>1, ReadSilence DEF QuietApi
<1>3. CASE NestedCall
  <2>1. made' = made + 1 /\ made <= made' /\ Rest(toApi, toApi') /\ UNCHANGED quiet
    BY <1>1, <1>3 DEF NestedCall
  <2>2. calls' # <<>> => \/ calls # <<>> /\ calls'[1] = calls[1]
                         \/ calls'[1].tag = made'
    BY <1>3, NestedCallAwaited
  <2> QED  BY <2>1, <2>2, ReadSilence
<1>4. ASSUME NEW cmd \in ApiCommands, NEW id \in Ids, UserCall(cmd, id)
      PROVE  StoppedIsSilent'
  <2>1. UNCHANGED <<toApi, quiet>> /\ made' = made + 1 /\ made <= made'
    BY <1>1, <1>4 DEF UserCall, Call
  <2>2. Rest(toApi, toApi')  BY <1>1, <2>1, RestSame
  <2>3. calls'[1] = [cmd |-> cmd, id |-> id, tag |-> made']
    BY <1>4, UserCallAwaited
  <2>4. calls'[1].tag = made'  BY <2>3
  <2> QED  BY <2>1, <2>2, <2>4, ReadSilence
<1>5. CASE toApi # <<>> /\ m \in Header /\ ReplyExpected(m)
  <2>1. CASE m.cmd = "stop"  BY <1>5, <2>1, StopSilence
  <2>2. CASE m.cmd # "stop"
    <3>1. UNCHANGED <<quiet, made>> /\ made <= made' /\ calls # <<>>
          /\ toApi' = Tail(toApi)
      BY <1>1, <1>5, <2>2 DEF ReplyExpected, Read
    <3>2. Rest(toApi, toApi')  BY <1>1, <1>5, <3>1, RestTail
    <3>3. calls' # <<>> => calls'[1] = calls[1]  BY <1>5, ReplyRead
    <3> QED  BY <3>1, <3>2, <3>3, ReadSilence
  <2> QED  BY <2>1, <2>2
<1> QED  BY <1>2, <1>3, <1>4, <1>5, ApiCases DEF FailedCall

\* The invariant, together with the one it needs of the timers.
LEMMA StopInit == Init => StopInv /\ RunningIsInUse
<1> SUFFICES ASSUME Init  PROVE  StopInv /\ RunningIsInUse  OBVIOUS
<1>1. OutstandingInv /\ RunningIsInUse  BY OutstandingInit, InitOK
<1>2. Len(toApi) = 0 /\ calls = <<>> /\ made = 0 /\ quiet = [id \in Ids |-> 0]
  BY EmptySeq DEF Init, ApiInit
<1>3. \A id \in Ids : ~Live(id)  BY DEF Init, MasterInit, NewUdsc, Live
<1>4. StoppedIsSilent  BY <1>2, <1>3 DEF StoppedIsSilent
<1> QED  BY <1>1, <1>4 DEF StopInv

\* Every step.
LEMMA StopNext ==
  ASSUME StopInv, RunningIsInUse, [Next]_vars
  PROVE  StopInv' /\ RunningIsInUse'
<1>1. /\ OutstandingInv /\ TypeOK
      /\ ~failed => StoppedIsSilent /\ CallsNest /\ MessagesAwaited
  BY OutstandingParts DEF StopInv, OutstandingInv
<1>2. OutstandingInv' /\ TypeOK' /\ RunningIsInUse'
  BY <1>1, OutstandingStep, NextOK
<1>3. CASE Next
  <2>1. ~failed' => ~failed  BY <1>1, <1>3, UpsetStays
  <2>2. ASSUME ~failed'  PROVE  StoppedIsSilent'
    BY <1>1, <1>2, <1>3, <2>1, <2>2, MasterSilence, ApiSilence DEF Next
  <2> QED  BY <1>2, <2>2 DEF StopInv
<1>4. CASE UNCHANGED vars
  <2>1. UNCHANGED <<toApi, udscs, run, quiet, calls, made, failed>>
    BY <1>4 DEF vars, channels, master, api
  <2>2. StoppedIsSilent => StoppedIsSilent'  BY <2>1 DEF StoppedIsSilent, Live
  <2> QED  BY <1>1, <1>2, <2>1, <2>2 DEF StopInv
<1> QED  BY <1>3, <1>4

\* As long as no call has failed, a stop is a barrier: once a client's stop has
\* succeeded, no request, seed, response or result of the run it stopped, sent
\* before the stop or after it, reaches a callback.
THEOREM StopsCorrect == Spec => StopIsBarrier
<1>1. ASSUME StopInv, [Next]_vars
      PROVE  [toApi # <<>> /\ NoticeHandled(Head(toApi)) /\ ~failed'
                => Head(toApi).tag > quiet[Head(toApi).id]]_vars
  <2> SUFFICES ASSUME Next, toApi # <<>>, NoticeHandled(Head(toApi)), ~failed'
               PROVE  Head(toApi).tag > quiet[Head(toApi).id]
    BY <1>1
  <2>1. TypeOK /\ (~failed => StoppedIsSilent)
    BY <1>1 DEF StopInv, OutstandingInv
  <2>2. StoppedIsSilent  BY <2>1, UpsetStays
  <2>3. Len(toApi) \in Nat \ {0} /\ Head(toApi) = toApi[1]
    BY <2>1, RestTail DEF TypeOK, IpcOK
  <2>4. IsNotice(toApi[1])  BY <2>3 DEF NoticeHandled, IsNotice
  <2> QED  BY <2>2, <2>3, <2>4 DEF StoppedIsSilent
<1> QED  BY <1>1, StopInit, StopNext, PTL DEF Spec, StopIsBarrier

-----------------------------------------------------------------------------
(***************************************************************************)
(* The replies the API reads: a call that succeeds has been carried out,   *)
(* though a reply is recognised by its command alone.  The proof counts    *)
(* the calls of a command that are under way against those that wait for a *)
(* reply to it.                                                            *)
(***************************************************************************)

-----------------------------------------------------------------------------
(***************************************************************************)
(* Commands and replies in a queue                                         *)
(***************************************************************************)

\* What is sent besides replies, or besides commands.
Others(isreply) == {m \in Header : m.isreply # isreply}

\* Messages that are none of commands, or of replies.
LEMMA OthersOK ==
  ASSUME NEW m \in Header
  PROVE  /\ m.isreply \in BOOLEAN
         /\ ~m.isreply => m \in Others(TRUE)
         /\ m.isreply => m \in Others(FALSE)
BY DEF Header, Others

\* What is left of a queue has no message it did not have.
LEMMA OfRest ==
  ASSUME NEW q \in Seq(Header), NEW r \in Seq(Header), Rest(q, r), NEW b
  PROVE  Of(r, b) \subseteq Of(q, b) /\ (Differ(q, b) => Differ(r, b))
<1>1. Len(q) \in Nat /\ Len(r) \in Nat  BY LenProperties
<1>2. PICK d \in {0, 1} : /\ Len(r) = Len(q) - d
                          /\ \A k \in 1..Len(r) : r[k] = q[k + d]
  BY DEF Rest
<1>3. \A k \in 1..Len(r) : k + d \in 1..Len(q)  BY <1>1, <1>2
<1>4. Of(r, b) \subseteq Of(q, b)  BY <1>2, <1>3 DEF Of
<1>5. ASSUME Differ(q, b), NEW j \in 1..Len(r), NEW k \in 1..Len(r),
             r[j].isreply = b, r[k].isreply = b, r[j].tag = r[k].tag
      PROVE  j = k
  <2>1. /\ j + d \in 1..Len(q) /\ k + d \in 1..Len(q)
        /\ r[j] = q[j + d] /\ r[k] = q[k + d]
    BY <1>2, <1>3
  <2>2. j + d = k + d  BY <1>5, <2>1 DEF Differ
  <2> QED  BY <2>2
<1>6. Differ(q, b) => Differ(r, b)  BY <1>5 DEF Differ
<1> QED  BY <1>4, <1>6

\* When its first message is read, it has no other of the same call, and what is
\* no command, or no reply, leaves the others.
LEMMA OfTail ==
  ASSUME NEW q \in Seq(Header), q # <<>>, NEW b
  PROVE  /\ Of(q, b) \subseteq Of(Tail(q), b) \cup {Head(q)}
         /\ Head(q).isreply # b => Of(Tail(q), b) = Of(q, b)
         /\ Head(q).isreply = b =>
              /\ Head(q) \in Of(q, b)
              /\ Differ(q, b) => \A m \in Of(Tail(q), b) : m.tag # Head(q).tag
<1>1. /\ Len(q) \in Nat \ {0} /\ Len(Tail(q)) = Len(q) - 1 /\ Head(q) = q[1]
      /\ \A k \in 1..Len(Tail(q)) : Tail(q)[k] = q[k + 1]
      /\ Rest(q, Tail(q)) /\ Tail(q) \in Seq(Header)
  BY RestTail, HeadTailProperties
<1>2. ASSUME NEW m \in Of(q, b), m # Head(q)  PROVE  m \in Of(Tail(q), b)
  <2>1. PICK k \in 1..Len(q) : q[k].isreply = b /\ m = q[k]  BY DEF Of
  <2>2. k # 1  BY <1>1, <1>2, <2>1
  <2>3. k - 1 \in 1..Len(Tail(q)) /\ k - 1 + 1 = k  BY <1>1, <2>2
  <2>4. Tail(q)[k - 1] = q[k]  BY <1>1, <2>3
  <2> QED  BY <2>1, <2>3, <2>4 DEF Of
<1>3. Of(q, b) \subseteq Of(Tail(q), b) \cup {Head(q)}  BY <1>2
<1>4. Of(Tail(q), b) \subseteq Of(q, b)  BY <1>1, OfRest
<1>5. ASSUME NEW m \in Of(q, b)  PROVE  m.isreply = b  BY DEF Of
<1>6. Head(q).isreply = b => Head(q) \in Of(q, b)
  <2>1. 1 \in 1..Len(q)  BY <1>1
  <2> QED  BY <1>1, <2>1 DEF Of
<1>7. ASSUME Head(q).isreply = b, Differ(q, b), NEW m \in Of(Tail(q), b)
      PROVE  m.tag # Head(q).tag
  <2>1. PICK k \in 1..Len(Tail(q)) : Tail(q)[k].isreply = b /\ m = Tail(q)[k]
    BY DEF Of
  <2>2. k + 1 \in 1..Len(q) /\ 1 \in 1..Len(q) /\ k + 1 # 1 /\ m = q[k + 1]
    BY <1>1, <2>1
  <2> QED  BY <1>1, <1>7, <2>1, <2>2 DEF Differ
<1> QED  BY <1>3, <1>4, <1>5, <1>6, <1>7

\* Messages of the other kind behind a queue change nothing.
LEMMA OfExtends ==
  ASSUME NEW q \in Seq(Header), NEW r \in Seq(Header), NEW b,
         Extends(q, r, Others(b))
  PROVE  Of(r, b) = Of(q, b) /\ (Differ(q, b) => Differ(r, b))
<1>1. /\ Len(q) \in Nat /\ Len(r) \in Nat /\ Len(q) <= Len(r)
      /\ \A k \in 1..Len(q) : r[k] = q[k]
      /\ \A k \in (Len(q) + 1)..Len(r) : r[k] \in Others(b)
  BY LenProperties DEF Extends
<1>2. ASSUME NEW k \in 1..Len(r), r[k].isreply = b
      PROVE  k \in 1..Len(q) /\ r[k] = q[k]
  <2>1. CASE k \in (Len(q) + 1)..Len(r)
    <3>1. r[k] \in Others(b)  BY <1>1, <2>1
    <3> QED  BY <1>2, <3>1 DEF Others
  <2>2. CASE k \notin (Len(q) + 1)..Len(r)  BY <1>1, <2>2
  <2> QED  BY <2>1, <2>2
<1>3. Of(r, b) \subseteq Of(q, b)  BY <1>2 DEF Of
<1>4. Of(q, b) \subseteq Of(r, b)
  <2>1. \A k \in 1..Len(q) : k \in 1..Len(r) /\ r[k] = q[k]  BY <1>1
  <2> QED  BY <2>1 DEF Of
<1>5. Differ(q, b) => Differ(r, b)  BY <1>2 DEF Differ
<1> QED  BY <1>3, <1>4, <1>5

\* A message of this kind is added, if there is room.
LEMMA OfAppend ==
  ASSUME NEW q \in Seq(Header), NEW m \in Header, NEW b, m.isreply = b
  PROVE  /\ Of(Append(q, m), b) = Of(q, b) \cup {m}
         /\ Differ(q, b) /\ (\A n \in Of(q, b) : n.tag # m.tag)
              => Differ(Append(q, m), b)
<1> DEFINE r == Append(q, m)
<1>1. /\ Len(q) \in Nat /\ Len(r) = Len(q) + 1
      /\ \A k \in 1..Len(q) : r[k] = q[k]
      /\ r[Len(q) + 1] = m
  BY AppendProperties, LenProperties
<1> HIDE DEF r
<1>2. \A k \in 1..Len(r) : k \in 1..Len(q) \/ k = Len(q) + 1  BY <1>1
<1>3. Of(r, b) \subseteq Of(q, b) \cup {m}  BY <1>1, <1>2 DEF Of
<1>4. Of(q, b) \cup {m} \subseteq Of(r, b)
  <2>1. \A k \in 1..Len(q) : k \in 1..Len(r) /\ r[k] = q[k]  BY <1>1
  <2>2. Of(q, b) \subseteq Of(r, b)  BY <2>1 DEF Of
  <2>3. Len(q) + 1 \in 1..Len(r)  BY <1>1
  <2>4. m \in Of(r, b)  BY <1>1, <2>3 DEF Of
  <2> QED  BY <2>2, <2>4
<1>5. ASSUME Differ(q, b), \A n \in Of(q, b) : n.tag # m.tag,
             NEW j \in 1..Len(r), NEW k \in 1..Len(r),
             r[j].isreply = b, r[k].isreply = b, r[j].tag = r[k].tag
      PROVE  j = k
  <2>1. ASSUME NEW i \in 1..Len(q), r[i].isreply = b  PROVE  r[i].tag # m.tag
    <3>1. r[i] = q[i]  BY <1>1
    <3>2. r[i] \in Of(q, b)  BY <2>1, <3>1 DEF Of
    <3> QED  BY <1>5, <3>2
  <2>2. CASE j \in 1..Len(q) /\ k \in 1..Len(q)  BY <1>1, <1>5, <2>2 DEF Differ
  <2>3. CASE j = Len(q) + 1 /\ k \in 1..Len(q)  BY <1>1, <1>5, <2>1, <2>3
  <2>4. CASE k = Len(q) + 1 /\ j \in 1..Len(q)  BY <1>1, <1>5, <2>1, <2>4
  <2> QED  BY <1>2, <2>2, <2>3, <2>4
<1>6. Differ(q, b) /\ (\A n \in Of(q, b) : n.tag # m.tag) => Differ(r, b)
  BY <1>5 DEF Differ
<1> QED  BY <1>3, <1>4, <1>6 DEF r

\* The messages of a queue.
LEMMA OfHeader ==
  ASSUME NEW q \in Seq(Header), NEW b
  PROVE  Of(q, b) \subseteq Header
<1>1. \A k \in 1..Len(q) : q[k] \in Header  BY ElementOfSeq
<1> QED  BY <1>1 DEF Of

-----------------------------------------------------------------------------
(***************************************************************************)
(* Counting calls                                                          *)
(***************************************************************************)

\* There are finitely many calls.
LEMMA CallsFinite ==
  ASSUME TypeOK, CallsDiffer, MessagesDiffer, NEW cmd
  PROVE  IsFiniteSet(Tags(UnderWay, cmd)) /\ IsFiniteSet(Waits(calls, cmd))
<1>1. /\ made \in Nat /\ toMaster \in Seq(Header) /\ toApi \in Seq(Header)
      /\ calls \in Seq(CallRecord)
  BY DEF TypeOK, ApiOK, IpcOK, CallRecord
<1>2. IsFiniteSet(0..made)  BY <1>1, FS_Interval
<1>3. Tags(UnderWay, cmd) \subseteq 0..made
  <2>1. UnderWay \subseteq Header  BY <1>1, OfHeader DEF UnderWay, Asked, Replied
  <2>2. \A m \in UnderWay : m.tag \in Nat  BY <2>1 DEF Header
  <2>3. \A m \in UnderWay : m.tag \in 0..made  BY <1>1, <2>2 DEF MessagesDiffer
  <2> QED  BY <2>3 DEF Tags
<1>4. Waits(calls, cmd) \subseteq 0..made
  <2>1. \A k \in 1..Len(calls) : calls[k] \in CallRecord  BY <1>1, ElementOfSeq
  <2>2. \A k \in 1..Len(calls) : calls[k].tag \in Nat  BY <2>1 DEF CallRecord
  <2>3. \A k \in 1..Len(calls) : calls[k].tag <= made  BY DEF CallsDiffer
  <2>4. \A k \in 1..Len(calls) : calls[k].tag \in 0..made  BY <1>1, <2>2, <2>3
  <2> QED  BY <2>4 DEF Waits
<1> QED  BY <1>2, <1>3, <1>4, FS_Subset

\* The user's call is one of a command.
LEMMA FirstCommand ==
  ASSUME TypeOK, calls # <<>>
  PROVE  calls[1] \in CallRecord /\ calls[1].cmd \in Commands /\ Len(calls) \in Nat \ {0}
<1>1. calls \in Seq(CallRecord)  BY DEF TypeOK, ApiOK, CallRecord
<1>2. Len(calls) \in Nat \ {0}  BY <1>1, EmptySeq, LenProperties
<1>3. calls[1] \in CallRecord  BY <1>1, <1>2, ElementOfSeq
<1> QED  BY <1>2, <1>3 DEF CallRecord

\* A smaller set has fewer elements.
LEMMA Fewer ==
  ASSUME NEW S, IsFiniteSet(S), NEW T, T \subseteq S
  PROVE  /\ Cardinality(S) \in Nat /\ Cardinality(T) \in Nat
         /\ Cardinality(T) <= Cardinality(S)
         /\ \A x \in S : x \notin T => Cardinality(T) < Cardinality(S)
<1>1. IsFiniteSet(T) /\ Cardinality(T) <= Cardinality(S)
      /\ (Cardinality(S) = Cardinality(T) => S = T)
  BY FS_Subset
<1>2. Cardinality(S) \in Nat /\ Cardinality(T) \in Nat
  BY <1>1, FS_CardinalityType
<1> QED  BY <1>1, <1>2

\* A set with one element less.
LEMMA OneLess ==
  ASSUME NEW S, IsFiniteSet(S), NEW x \in S
  PROVE  /\ Cardinality(S) \in Nat \ {0} /\ IsFiniteSet(S \ {x})
         /\ Cardinality(S \ {x}) = Cardinality(S) - 1
<1>1. Cardinality(S) \in Nat  BY FS_CardinalityType
<1>2. Cardinality(S) # 0  BY FS_EmptySet
<1> QED  BY <1>1, <1>2, FS_RemoveElement

\* The balance of calls and replies, and the numbers it compares.
Balance ==
  CallsDiffer /\ MessagesDiffer /\ RepliesAreTrue /\ RepliesSuffice /\ FirstIsServed

\* The calls that are compared are finitely many.
LEMMA BalanceFacts ==
  ASSUME TypeOK, CallsDiffer, MessagesDiffer, RepliesSuffice, NEW cmd \in Commands
  PROVE  /\ IsFiniteSet(Tags(UnderWay, cmd)) /\ IsFiniteSet(Waits(calls, cmd))
         /\ Cardinality(Tags(UnderWay, cmd)) \in Nat
         /\ Cardinality(Waits(calls, cmd)) \in Nat
         /\ Cardinality(Tags(UnderWay, cmd)) <= Cardinality(Waits(calls, cmd))
<1>1. IsFiniteSet(Tags(UnderWay, cmd)) /\ IsFiniteSet(Waits(calls, cmd))  BY CallsFinite
<1> QED  BY <1>1, FS_CardinalityType DEF RepliesSuffice

\* No call begins or ends, and what is under way was before.
Flow ==
  /\ UNCHANGED <<calls, made>>
  /\ handled \subseteq handled'
  /\ \A cmd \in Commands : Tags(UnderWay', cmd) \subseteq Tags(UnderWay, cmd)

\* Then what was under way still is, has been carried out, or one less is.
LEMMA FlowKeeps ==
  ASSUME TypeOK, CallsDiffer, MessagesDiffer, RepliesSuffice, FirstIsServed, Flow
  PROVE  CallsDiffer' /\ RepliesSuffice' /\ FirstIsServed'
<1>1. UNCHANGED <<calls, made>> /\ handled \subseteq handled'  BY DEF Flow
<1>2. CallsDiffer'  BY <1>1 DEF CallsDiffer
<1>3. ASSUME NEW cmd \in Commands
      PROVE  /\ Cardinality(Tags(UnderWay, cmd)) \in Nat
             /\ Cardinality(Tags(UnderWay', cmd)) \in Nat
             /\ Cardinality(Waits(calls, cmd)) \in Nat
             /\ Cardinality(Tags(UnderWay', cmd)) <= Cardinality(Tags(UnderWay, cmd))
             /\ \A x \in Tags(UnderWay, cmd) : x \notin Tags(UnderWay', cmd)
                  => Cardinality(Tags(UnderWay', cmd)) < Cardinality(Tags(UnderWay, cmd))
             /\ Cardinality(Tags(UnderWay, cmd)) <= Cardinality(Waits(calls, cmd))
  <2>1. Tags(UnderWay', cmd) \subseteq Tags(UnderWay, cmd)  BY DEF Flow
  <2> QED  BY <2>1, BalanceFacts, Fewer
<1>4. RepliesSuffice'
  <2>1. ASSUME NEW cmd \in Commands
        PROVE  Cardinality(Tags(UnderWay', cmd)) <= Cardinality(Waits(calls', cmd))
    BY <1>1, <1>3
  <2> QED  BY <2>1 DEF RepliesSuffice
<1>5. ASSUME NEW cmd \in Commands, calls # <<>>, cmd = calls[1].cmd
      PROVE  \/ calls[1].tag \in handled' \cup Tags(UnderWay', cmd)
             \/ Cardinality(Tags(UnderWay', cmd)) < Cardinality(Waits(calls, cmd))
  <2>1. \/ calls[1].tag \in handled
        \/ calls[1].tag \in Tags(UnderWay, cmd)
        \/ Cardinality(Tags(UnderWay, cmd)) < Cardinality(Waits(calls, cmd))
    BY <1>5 DEF FirstIsServed
  <2>2. CASE calls[1].tag \in handled  BY <1>1, <2>2
  <2>3. CASE calls[1].tag \in Tags(UnderWay, cmd)  BY <1>3, <2>3
  <2>4. CASE Cardinality(Tags(UnderWay, cmd)) < Cardinality(Waits(calls, cmd))
    BY <1>3, <2>4
  <2> QED  BY <2>1, <2>2, <2>3, <2>4
<1>6. FirstIsServed'
  <2>1. calls # <<>> => calls[1].cmd \in Commands  BY FirstCommand
  <2> QED  BY <1>1, <1>5, <2>1 DEF FirstIsServed
<1> QED  BY <1>2, <1>4, <1>6

-----------------------------------------------------------------------------
(***************************************************************************)
(* Steps that no call begins or ends with                                  *)
(***************************************************************************)

\* Nothing is added to what is under way.
LEMMA LessUnderWay ==
  ASSUME UNCHANGED <<calls, made>>, handled \subseteq handled',
         MessagesDiffer, RepliesAreTrue,
         Asked' \subseteq Asked, Replied' \subseteq Replied,
         Differ(toMaster', FALSE), Differ(toApi', TRUE)
  PROVE  MessagesDiffer' /\ RepliesAreTrue' /\ Flow
<1>1. UnderWay' \subseteq UnderWay  BY DEF UnderWay
<1>2. MessagesDiffer'  BY <1>1 DEF MessagesDiffer
<1>3. RepliesAreTrue'  BY DEF RepliesAreTrue
<1>4. Flow  BY <1>1 DEF Flow, Tags
<1> QED  BY <1>2, <1>3, <1>4

\* The diag master sends no reply.
NoReply ==
  /\ Rest(toMaster, toMaster')
  /\ Extends(toApi, toApi', Others(TRUE))

\* It replies to a command, and says no error only if it has carried it out.
RepliedTo(m) ==
  /\ Take(m) /\ m \in Header /\ ~m.isreply
  /\ \E recode \in Recodes, id \in Ids :
       /\ recode = "no" => m.tag \in handled'
       /\ Extends(Sent(toApi, Reply(m, recode, id)), toApi', Others(TRUE))

\* A step without a reply adds nothing.
LEMMA NoReplyFlow ==
  ASSUME IpcOK, IpcOK', UNCHANGED <<calls, made>>, handled \subseteq handled',
         MessagesDiffer, RepliesAreTrue, NoReply
  PROVE  MessagesDiffer' /\ RepliesAreTrue' /\ Flow
<1>1. /\ toMaster \in Seq(Header) /\ toMaster' \in Seq(Header)
      /\ toApi \in Seq(Header) /\ toApi' \in Seq(Header)
  BY DEF IpcOK
<1>2. Differ(toMaster, FALSE) /\ Differ(toApi, TRUE)  BY DEF MessagesDiffer
<1>3. Asked' \subseteq Asked /\ Differ(toMaster', FALSE)
  BY <1>1, <1>2, OfRest DEF NoReply, Asked
<1>4. Replied' \subseteq Replied /\ Differ(toApi', TRUE)
  BY <1>1, <1>2, OfExtends DEF NoReply, Replied
<1> QED  BY <1>3, <1>4, LessUnderWay

\* The reply takes the place of the command.
LEMMA ReplyFlow ==
  ASSUME IpcOK, IpcOK', UNCHANGED <<calls, made>>, handled \subseteq handled',
         MessagesDiffer, RepliesAreTrue, NEW m, RepliedTo(m)
  PROVE  MessagesDiffer' /\ RepliesAreTrue' /\ Flow
<1>1. /\ toMaster \in Seq(Header) /\ toApi \in Seq(Header) /\ toApi' \in Seq(Header)
      /\ Len(toApi) <= QueueMax
  BY DEF IpcOK
<1>2. /\ toMaster # <<>> /\ m = Head(toMaster) /\ toMaster' = Tail(toMaster)
      /\ m \in Header /\ m.isreply = FALSE
  BY DEF RepliedTo, Take, Header
<1>3. PICK recode \in Recodes, id \in Ids :
        /\ recode = "no" => m.tag \in handled'
        /\ Extends(Sent(toApi, Reply(m, recode, id)), toApi', Others(TRUE))
  BY DEF RepliedTo
<1> DEFINE r == Reply(m, recode, id)
<1>4. r \in Header /\ Sent(toApi, r) \in Seq(Header)
  BY <1>1, <1>2, ReplyOK, SentOK
<1>5. r.tag = m.tag /\ r.cmd = m.cmd /\ r.recode = recode /\ r.isreply = TRUE
  BY <1>2 DEF Reply, Header
<1> HIDE DEF r
<1>6. Differ(toMaster, FALSE) /\ Differ(toApi, TRUE)  BY DEF MessagesDiffer
<1>7. m \in Asked /\ \A n \in Asked' : n.tag # m.tag
  BY <1>1, <1>2, <1>6, OfTail DEF Asked
<1>8. Asked' \subseteq Asked /\ Differ(toMaster', FALSE)
  <2>1. Rest(toMaster, toMaster') /\ toMaster' \in Seq(Header)
    BY <1>1, <1>2, RestTail DEF IpcOK
  <2> QED  BY <1>1, <1>6, <2>1, OfRest DEF Asked
<1>9. \A n \in Replied : n.tag # r.tag  BY <1>5, <1>7 DEF MessagesDiffer
<1>10. Of(Sent(toApi, r), TRUE) \subseteq Replied \cup {r} /\ Differ(Sent(toApi, r), TRUE)
  <2>1. CASE HasRoom(toApi)
    BY <1>1, <1>4, <1>5, <1>6, <1>9, <2>1, OfAppend DEF Sent, Replied
  <2>2. CASE ~HasRoom(toApi)  BY <1>6, <2>2 DEF Sent, Replied
  <2> QED  BY <2>1, <2>2
<1>11. Replied' \subseteq Replied \cup {r} /\ Differ(toApi', TRUE)
  <2>1. Extends(Sent(toApi, r), toApi', Others(TRUE))  BY <1>3 DEF r
  <2> QED  BY <1>1, <1>4, <1>10, <2>1, OfExtends DEF Replied
<1>12. \A n \in UnderWay' : n \in UnderWay \/ n = r
  BY <1>8, <1>11 DEF UnderWay
<1>13. m \in UnderWay  BY <1>7 DEF UnderWay
<1>14. MessagesDiffer'
  <2>1. \A n \in UnderWay' : n.tag <= made'
    BY <1>5, <1>12, <1>13 DEF MessagesDiffer
  <2>2. ASSUME NEW a \in Asked', NEW n \in Replied'  PROVE  a.tag # n.tag
    BY <1>5, <1>7, <1>8, <1>11, <2>2 DEF MessagesDiffer
  <2> QED  BY <1>8, <1>11, <2>1, <2>2 DEF MessagesDiffer
<1>15. RepliesAreTrue'  BY <1>3, <1>5, <1>11 DEF RepliesAreTrue
<1>16. ASSUME NEW cmd \in Commands
       PROVE  Tags(UnderWay', cmd) \subseteq Tags(UnderWay, cmd)
  BY <1>5, <1>12, <1>13 DEF Tags
<1> QED  BY <1>14, <1>15, <1>16 DEF Flow

-----------------------------------------------------------------------------
(***************************************************************************)
(* The steps of the diag master                                            *)
(***************************************************************************)

\* What the diag master asks for is no reply.
LEMMA NoteOK ==
  ASSUME MasterOK, NEW cmd \in Notices, NEW recode \in Recodes, NEW id \in Ids
  PROVE  Notice(cmd, recode, id) \in Others(TRUE)
<1>1. run[id] \in Nat  BY DEF MasterOK
<1>2. Notice(cmd, recode, id) \in Header  BY <1>1, RequestOK DEF Notice
<1>3. ~Notice(cmd, recode, id).isreply  BY DEF Notice, Request
<1> QED  BY <1>2, <1>3, OthersOK

\* The run of a client that goes on or ends sends at most its result.
LEMMA ProgressNotes ==
  ASSUME MasterOK, NEW id \in Ids, NEW recodes \in SUBSET Recodes,
         NEW q \in Seq(Header), NEW p \in Seq(Header), Extends(p, q, Others(TRUE)),
         Progress(id, recodes, q)
  PROVE  Extends(p, toApi', Others(TRUE))
<1>1. CASE toApi' = q  BY <1>1
<1>2. CASE \E recode \in recodes : Finish(id, recode, q)
  <2>1. PICK recode \in recodes : toApi' = Sent(q, Notice("script_result", recode, id))
    BY <1>2 DEF Finish
  <2>2. Notice("script_result", recode, id) \in Others(TRUE)
    BY <2>1, NoteOK DEF Notices
  <2>3. Notice("script_result", recode, id) \in Header  BY <2>2 DEF Others
  <2> QED  BY <2>1, <2>2, <2>3, ExtendsSent
<1> QED  BY <1>1, <1>2 DEF Progress

\* The timers and the connection of a client send requests only.
LEMMA TimersNotes ==
  ASSUME MasterOK, IpcOK, NEW id \in Ids, Timers(id) \/ DoipcRead(id)
  PROVE  NoReply /\ handled \subseteq handled'
<1> DEFINE n == Notice("indication", "no", id)
<1>1. UNCHANGED <<toMaster, handled>>
  BY DEF Timers, RequestSent, RequestsExhausted, RequestAborted, ResponseTimeout,
         TesterPresent, Step, DoipcRead, master
<1>2. toMaster \in Seq(Header) /\ toApi \in Seq(Header)  BY DEF IpcOK
<1>3. Rest(toMaster, toMaster')  BY <1>1, <1>2, RestSame
<1>4. /\ {"no", "response_timeout"} \in SUBSET Recodes /\ "no" \in Recodes
      /\ "indication" \in Notices /\ "script_result" \in Notices
  BY DEF Recodes, Notices
<1>5. Extends(toApi, toApi, Others(TRUE))  BY <1>2, ExtendsSame
<1>6. n \in Others(TRUE) /\ n \in Header
  <2>1. n \in Others(TRUE)  BY <1>4, NoteOK
  <2> QED  BY <2>1 DEF Others
<1>7. Extends(toApi, toApi', Others(TRUE))
  <2>1. CASE toApi' = toApi  BY <1>5, <2>1
  <2>2. CASE toApi' = Sent(toApi, n)  BY <1>2, <1>5, <1>6, <2>2, ExtendsSent
  <2>3. CASE RequestSent(id) \/ TesterPresent(id) \/ DoipcRead(id)
    BY <2>1, <2>2, <2>3 DEF RequestSent, TesterPresent, DoipcRead
  <2>4. CASE \E bytes \in SentBytes(udscs[id]) : RequestsExhausted(id, bytes)
    BY <2>1, <2>4 DEF RequestsExhausted
  <2>5. CASE \E bytes \in SentBytes(udscs[id]) : RequestAborted(id, bytes)
    <3>1. Finish(id, "no", toApi)  BY <2>5 DEF RequestAborted
    <3>2. \E recode \in {"no", "response_timeout"} : Finish(id, recode, toApi)  BY <3>1
    <3>3. Progress(id, {"no", "response_timeout"}, toApi)  BY <3>2 DEF Progress
    <3> QED  BY <1>2, <1>4, <1>5, <3>3, ProgressNotes
  <2>6. CASE ResponseTimeout(id)
    <3>1. Progress(id, {"no", "response_timeout"}, toApi)  BY <2>6 DEF ResponseTimeout
    <3> QED  BY <1>2, <1>4, <1>5, <3>1, ProgressNotes
  <2> QED  BY <2>3, <2>4, <2>5, <2>6 DEF Timers
<1> QED  BY <1>1, <1>3, <1>7 DEF NoReply

\* A response of the ECU is replied to before it is passed on.
LEMMA ResponseReplied ==
  ASSUME MasterOK, IpcOK, NEW m, NEW answer, ServiceResponse(m, answer)
  PROVE  RepliedTo(m) /\ handled \subseteq handled'
<1> DEFINE replied == Sent(toApi, Reply(m, "no", m.id))
           result == Notice("service_result", "no", m.id)
           seen == Notice("sa_seed", "no", m.id)
<1>1. /\ m \in Header /\ m.id \in Ids /\ Take(m) /\ ~m.isreply
      /\ handled' = handled \cup {m.tag}
  BY TakeOK DEF ServiceResponse, Accept
<1>2. PICK queue \in Forwarded(m, answer, replied) :
        \/ toApi' = queue
        \/ \E seed \in {queue, Sent(queue, seen)} :
             Progress(m.id, {"no", "response_unexpect"}, seed)
  BY DEF ServiceResponse
<1>3. /\ {"no", "response_unexpect"} \in SUBSET Recodes /\ "no" \in Recodes
      /\ "sa_seed" \in Notices /\ "service_result" \in Notices
  BY DEF Recodes, Notices
<1>4. replied \in Seq(Header) /\ Len(replied) <= QueueMax  BY <1>1, <1>3, RepliedOK
<1>5. Extends(replied, replied, Others(TRUE))  BY <1>4, ExtendsSame
<1>6. /\ result \in Others(TRUE) /\ result \in Header
      /\ seen \in Others(TRUE) /\ seen \in Header
  <2>1. result \in Others(TRUE) /\ seen \in Others(TRUE)  BY <1>1, <1>3, NoteOK
  <2> QED  BY <2>1 DEF Others
<1>7. /\ queue \in Seq(Header) /\ Len(queue) <= QueueMax
      /\ Extends(replied, queue, Others(TRUE))
  <2>1. CASE queue = replied  BY <1>4, <1>5, <2>1
  <2>2. CASE queue = Sent(replied, result)
    <3>1. queue \in Seq(Header) /\ Len(queue) <= QueueMax
      BY <1>4, <1>6, <2>2, SentOK
    <3> QED  BY <1>4, <1>5, <1>6, <2>2, <3>1, ExtendsSent
  <2> QED  BY <1>2, <2>1, <2>2 DEF Forwarded
<1>8. Extends(replied, toApi', Others(TRUE))
  <2>1. CASE toApi' = queue  BY <1>7, <2>1
  <2>2. CASE \E seed \in {queue, Sent(queue, seen)} :
               Progress(m.id, {"no", "response_unexpect"}, seed)
    <3>1. PICK seed \in {queue, Sent(queue, seen)} :
            Progress(m.id, {"no", "response_unexpect"}, seed)
      BY <2>2
    <3>2. Sent(queue, seen) \in Seq(Header)  BY <1>6, <1>7, SentOK
    <3>3. Extends(replied, Sent(queue, seen), Others(TRUE))
      BY <1>4, <1>6, <1>7, ExtendsSent
    <3>4. seed \in Seq(Header) /\ Extends(replied, seed, Others(TRUE))
      BY <1>7, <3>1, <3>2, <3>3
    <3> QED  BY <1>1, <1>3, <1>4, <3>1, <3>4, ProgressNotes
  <2> QED  BY <1>2, <2>1, <2>2
<1>9. m.tag \in handled'  BY <1>1
<1> QED  BY <1>1, <1>3, <1>8, <1>9 DEF RepliedTo

\* So is every other command, unless it is ignored.
LEMMA CommandReplied ==
  ASSUME MasterOK, IpcOK, NEW m,
         \/ ReplyIgnored(m) \/ Refuse(m) \/ Ignore(m) \/ UdscCreateFailed(m)
         \/ ServiceConfig(m) \/ Configure(m) \/ DoipcCreate(m) \/ DoipcCreateFailed(m)
         \/ HandCommand(m)
  PROVE  (NoReply \/ RepliedTo(m)) /\ handled \subseteq handled'
<1>1. Take(m)
  BY DEF ReplyIgnored, Refuse, Ignore, UdscCreateFailed, ServiceConfig, Configure,
         DoipcCreate, DoipcCreateFailed, HandCommand, UdscCreate, UdscCreateFull,
         UdscDestory, UdscStart, UdscStop, MasterReset, Accept
<1>2. m \in Header /\ m.id \in Ids  BY <1>1, TakeOK
<1>3. toApi \in Seq(Header) /\ toMaster \in Seq(Header) /\ Len(toApi) <= QueueMax
  BY DEF IpcOK
<1>4. CASE UNCHANGED toApi /\ UNCHANGED handled
  <2>1. Rest(toMaster, toMaster')  BY <1>1, <1>3, RestTail DEF Take
  <2>2. Extends(toApi, toApi', Others(TRUE))  BY <1>3, <1>4, ExtendsSame
  <2> QED  BY <1>4, <2>1, <2>2 DEF NoReply
<1>5. CASE /\ ~m.isreply
           /\ handled \subseteq handled'
           /\ \E recode \in Recodes, id \in Ids :
                /\ recode = "no" => m.tag \in handled'
                /\ toApi' = Sent(toApi, Reply(m, recode, id))
  <2>1. PICK recode \in Recodes, id \in Ids :
          /\ recode = "no" => m.tag \in handled'
          /\ toApi' = Sent(toApi, Reply(m, recode, id))
    BY <1>5
  <2>2. toApi' \in Seq(Header)  BY <1>2, <2>1, RepliedOK
  <2>3. Extends(toApi', toApi', Others(TRUE))  BY <2>2, ExtendsSame
  <2>4. Extends(Sent(toApi, Reply(m, recode, id)), toApi', Others(TRUE))
    BY <2>1, <2>3
  <2> QED  BY <1>1, <1>2, <1>5, <2>1, <2>4 DEF RepliedTo
<1>6. {"no", "invalid", "create", "service_add", "doipc_create"} \subseteq Recodes
      /\ 0 \in Ids
  BY ConstantsOK DEF Recodes
<1>7. CASE ReplyIgnored(m) \/ Ignore(m)
  BY <1>4, <1>7 DEF ReplyIgnored, Ignore, master
<1>8. CASE Refuse(m)  BY <1>2, <1>5, <1>6, <1>8 DEF Refuse, master
<1>9. ASSUME NEW cmd, Accept(m, cmd),
             \E recode \in Recodes, id \in Ids : toApi' = Sent(toApi, Reply(m, recode, id))
      PROVE  (NoReply \/ RepliedTo(m)) /\ handled \subseteq handled'
  BY <1>5, <1>9 DEF Accept
<1>10. CASE UdscCreateFailed(m)
  BY <1>6, <1>9, <1>10 DEF UdscCreateFailed
<1>11. CASE ServiceConfig(m)
  BY <1>2, <1>6, <1>9, <1>11 DEF ServiceConfig
<1>12. CASE Configure(m)
  BY <1>2, <1>6, <1>9, <1>12 DEF Configure
<1>13. CASE DoipcCreate(m) \/ DoipcCreateFailed(m)
  BY <1>2, <1>6, <1>9, <1>13 DEF DoipcCreate, DoipcCreateFailed
<1>14. CASE UdscCreate(m) \/ UdscCreateFull(m)
  BY <1>6, <1>9, <1>14 DEF UdscCreate, Granted, UdscCreateFull
<1>15. CASE UdscDestory(m)
  BY <1>2, <1>6, <1>9, <1>15 DEF UdscDestory
<1>16. CASE UdscStart(m) \/ UdscStop(m) \/ MasterReset(m)
  BY <1>2, <1>6, <1>9, <1>16 DEF UdscStart, UdscStop, MasterReset
<1> QED
  BY <1>7, <1>8, <1>10, <1>11, <1>12, <1>13, <1>14, <1>15, <1>16 DEF HandCommand

\* Every step of the diag master.
LEMMA MasterBalance ==
  ASSUME TypeOK, TypeOK', Balance, MasterNext, UNCHANGED api
  PROVE  Balance'
<1> USE DEF TypeOK
<1>1. UNCHANGED <<calls, made>>  BY DEF api
<1>2. handled \subseteq handled' /\ (NoReply \/ \E m : RepliedTo(m))
  <2>1. CASE toMaster # <<>> /\ IpcRead(Head(toMaster))
    <3>1. CASE \E answer \in Answers : ServiceResponse(Head(toMaster), answer)
      BY <3>1, ResponseReplied
    <3>2. CASE ~\E answer \in Answers : ServiceResponse(Head(toMaster), answer)
      BY <2>1, <3>2, CommandReplied DEF IpcRead, HandCommand
    <3> QED  BY <3>1, <3>2
  <2>2. CASE \E id \in Ids : Timers(id) \/ DoipcRead(id)  BY <2>2, TimersNotes
  <2> QED  BY <2>1, <2>2 DEF MasterNext
<1>3. CallsDiffer /\ MessagesDiffer /\ RepliesAreTrue /\ RepliesSuffice /\ FirstIsServed
  BY DEF Balance
<1>4. MessagesDiffer' /\ RepliesAreTrue' /\ Flow
  BY <1>1, <1>2, <1>3, NoReplyFlow, ReplyFlow
<1>5. CallsDiffer' /\ RepliesSuffice' /\ FirstIsServed'
  BY <1>3, <1>4, FlowKeeps
<1> QED  BY <1>4, <1>5 DEF Balance

-----------------------------------------------------------------------------
(***************************************************************************)
(* The steps of the API                                                    *)
(***************************************************************************)

\* No call begins or ends.
NoCall ==
  /\ UNCHANGED <<calls, made>>
  /\ Rest(toApi, toApi')
  /\ Extends(toMaster, toMaster', Others(FALSE))

\* A call begins, by the user or by a callback that has read a request.
CallBegun ==
  \E cmd \in Commands, id \in Ids, q \in Seq(Header) :
    /\ \/ UNCHANGED toApi
       \/ toApi # <<>> /\ ~Head(toApi).isreply /\ toApi' = Tail(toApi)
    /\ Extends(toMaster, q, Others(FALSE))
    /\ made' = made + 1
    /\ toMaster' = Append(q, Request(cmd, "no", id, made'))
    /\ calls' = Append(calls, [cmd |-> cmd, id |-> id, tag |-> made'])

\* A call that does not fail has sent its command.
LEMMA CallIsBegun ==
  ASSUME IpcOK, NEW cmd \in ApiCommands, NEW id \in Ids, NEW q \in Seq(Header),
         Call(cmd, id, q), ~failed', Extends(toMaster, q, Others(FALSE)),
         \/ UNCHANGED toApi
         \/ toApi # <<>> /\ ~Head(toApi).isreply /\ toApi' = Tail(toApi)
  PROVE  CallBegun
<1>1. cmd \in Commands  BY ApiAssumption
<1>2. HasRoom(q)  BY DEF Call
<1>3. /\ made' = made + 1
      /\ toMaster' = Append(q, Request(cmd, "no", id, made'))
      /\ calls' = Append(calls, [cmd |-> cmd, id |-> id, tag |-> made'])
  BY <1>2 DEF Call, Sent
<1> QED  BY <1>1, <1>3 DEF CallBegun

\* It is on top of the stack.
LEMMA BegunCall ==
  ASSUME ApiOK, CallBegun
  PROVE  \E c \in CallRecord : calls' = Append(calls, c)
<1>1. PICK cmd \in Commands, id \in Ids :
        made' = made + 1 /\ calls' = Append(calls, [cmd |-> cmd, id |-> id, tag |-> made'])
  BY DEF CallBegun
<1>2. [cmd |-> cmd, id |-> id, tag |-> made'] \in CallRecord
  BY <1>1 DEF ApiOK, CallRecord
<1> QED  BY <1>1, <1>2

\* Every step of the API in which no call fails.
LEMMA ApiBalanceCases ==
  ASSUME IpcOK, ApiOK, ApiNext, ~failed'
  PROVE  \/ NoCall
         \/ CallBegun
         \/ toApi # <<>> /\ ReplyExpected(Head(toApi))
<1> DEFINE m == Head(toApi)
<1>1. /\ toApi \in Seq(Header) /\ toMaster \in Seq(Header) /\ Len(toApi) <= QueueMax
      /\ Len(toMaster) <= QueueMax
  BY DEF IpcOK
<1>2. Rest(toApi, toApi) /\ Extends(toMaster, toMaster, Others(FALSE))
  BY <1>1, RestSame, ExtendsSame
<1>3. CASE \E id \in Ids : CallbackSet(id)
  BY <1>2, <1>3 DEF CallbackSet, channels, NoCall
<1>4. CASE \E cmd \in ApiCommands, id \in Ids : UserCall(cmd, id)
  BY <1>1, <1>2, <1>4, CallIsBegun DEF UserCall
<1>5. CASE Receive
  <2>1. toApi # <<>> /\ m \in Header /\ m.id \in Ids
    BY <1>1, <1>5, ReceivedOK DEF Receive, Header
  <2>2. Rest(toApi, Tail(toApi))  BY <1>1, <2>1, RestTail
  <2>3. CASE ReplyDropped(m)
    BY <1>2, <2>2, <2>3 DEF ReplyDropped, Read, NoCall
  <2>4. CASE ReplyFailed(m)  BY <2>4 DEF ReplyFailed, Fail
  <2>5. CASE ReplyExpected(m)  BY <2>1, <2>5
  <2>6. CASE NoticeDropped(m)
    BY <1>2, <2>2, <2>6 DEF NoticeDropped, Fail, Read, api, NoCall
  <2>7. CASE NoticeHandled(m)
    <3> DEFINE back == Reply(m, "no", m.id)
    <3>1. ~m.isreply /\ toApi' = Tail(toApi)  BY <2>7 DEF NoticeHandled, Read
    <3>2. "no" \in Recodes  BY DEF Recodes
    <3>3. back \in Header  BY <2>1, <3>2, ReplyOK
    <3>4. back.isreply  BY <2>1 DEF Reply, Header
    <3>5. back \in Others(FALSE)  BY <3>3, <3>4, OthersOK
    <3>6. Extends(toMaster, Sent(toMaster, back), Others(FALSE))
      BY <1>1, <1>2, <3>3, <3>5, ExtendsSent
    <3>7. Sent(toMaster, back) \in Seq(Header)  BY <1>1, <3>3, SentOK
    <3>8. CASE toMaster' = Sent(toMaster, back) /\ UNCHANGED api
      BY <2>2, <3>1, <3>6, <3>8 DEF api, NoCall
    <3>9. CASE \E cmd \in ApiCommands : Call(cmd, m.id, Sent(toMaster, back))
      BY <2>1, <3>1, <3>6, <3>7, <3>9, CallIsBegun
    <3> QED  BY <2>7, <3>8, <3>9 DEF NoticeHandled
  <2> QED  BY <1>5, <2>3, <2>4, <2>5, <2>6, <2>7 DEF Receive
<1>6. CASE RecvTimeout  BY <1>6 DEF RecvTimeout, Fail
<1> QED  BY <1>3, <1>4, <1>5, <1>6 DEF ApiNext

\* Reading adds nothing, and what answers a request is no command.
LEMMA NoCallFlow ==
  ASSUME IpcOK, IpcOK', UNCHANGED handled, MessagesDiffer, RepliesAreTrue, NoCall
  PROVE  MessagesDiffer' /\ RepliesAreTrue' /\ Flow
<1>1. /\ toMaster \in Seq(Header) /\ toMaster' \in Seq(Header)
      /\ toApi \in Seq(Header) /\ toApi' \in Seq(Header)
  BY DEF IpcOK
<1>2. Differ(toMaster, FALSE) /\ Differ(toApi, TRUE)  BY DEF MessagesDiffer
<1>3. Asked' \subseteq Asked /\ Differ(toMaster', FALSE)
  BY <1>1, <1>2, OfExtends DEF NoCall, Asked
<1>4. Replied' \subseteq Replied /\ Differ(toApi', TRUE)
  BY <1>1, <1>2, OfRest DEF NoCall, Replied
<1>5. UNCHANGED <<calls, made>>  BY DEF NoCall
<1> QED  BY <1>3, <1>4, <1>5, LessUnderWay

\* A call on top of the stack.
LEMMA OneMoreCall ==
  ASSUME ApiOK, CallsDiffer, NEW c \in CallRecord, calls' = Append(calls, c),
         c.tag = made', made' = made + 1
  PROVE  /\ CallsDiffer'
         /\ \A cmd : Waits(calls', cmd) =
                       IF c.cmd = cmd THEN Waits(calls, cmd) \cup {c.tag}
                       ELSE Waits(calls, cmd)
         /\ \A cmd : c.tag \notin Waits(calls, cmd)
         /\ calls'[1] = IF calls = <<>> THEN c ELSE calls[1]
<1>1. calls \in Seq(CallRecord) /\ made \in Nat  BY DEF ApiOK, CallRecord
<1>2. /\ Len(calls) \in Nat /\ Len(calls') = Len(calls) + 1
      /\ \A k \in 1..Len(calls) : calls'[k] = calls[k]
      /\ calls'[Len(calls) + 1] = c
  <2>1. Len(calls) \in Nat  BY <1>1, LenProperties
  <2>2. /\ Len(Append(calls, c)) = Len(calls) + 1
        /\ \A k \in 1..Len(calls) : Append(calls, c)[k] = calls[k]
        /\ Append(calls, c)[Len(calls) + 1] = c
    BY <1>1, AppendProperties
  <2> QED  BY <2>1, <2>2
<1>3. \A k \in 1..Len(calls') : k \in 1..Len(calls) \/ k = Len(calls) + 1
  BY <1>2
<1>4. /\ \A k \in 1..Len(calls) : k \in 1..Len(calls')
      /\ Len(calls) + 1 \in 1..Len(calls')
  BY <1>2
<1>5. calls = <<>> <=> Len(calls) = 0  BY <1>1, EmptySeq
<1>6. \A k \in 1..Len(calls) : calls[k].tag \in Nat /\ calls[k].tag < c.tag
  <2>1. \A k \in 1..Len(calls) : calls[k] \in CallRecord  BY <1>1, ElementOfSeq
  <2>2. \A k \in 1..Len(calls) : calls[k].tag \in Nat  BY <2>1 DEF CallRecord
  <2>3. \A k \in 1..Len(calls) : calls[k].tag <= made  BY DEF CallsDiffer
  <2> QED  BY <1>1, <2>2, <2>3
<1>7. \A k \in 1..Len(calls') : calls'[k].tag <= made'
  BY <1>1, <1>2, <1>3, <1>6
<1>8. ASSUME NEW j \in 1..Len(calls'), NEW k \in 1..Len(calls'),
             calls'[j].tag = calls'[k].tag
      PROVE  j = k
  <2>1. CASE j \in 1..Len(calls) /\ k \in 1..Len(calls)
    BY <1>2, <1>8, <2>1 DEF CallsDiffer
  <2>2. CASE j \in 1..Len(calls) /\ k = Len(calls) + 1
    BY <1>1, <1>2, <1>6, <1>8, <2>2
  <2>3. CASE k \in 1..Len(calls) /\ j = Len(calls) + 1
    BY <1>1, <1>2, <1>6, <1>8, <2>3
  <2> QED  BY <1>3, <2>1, <2>2, <2>3
<1>9. ASSUME NEW cmd
      PROVE  Waits(calls', cmd) =
               IF c.cmd = cmd THEN Waits(calls, cmd) \cup {c.tag} ELSE Waits(calls, cmd)
  <2>1. \A x \in Waits(calls', cmd) : x \in Waits(calls, cmd) \/ (x = c.tag /\ c.cmd = cmd)
    BY <1>2, <1>3 DEF Waits
  <2>2. \A x \in Waits(calls, cmd) : x \in Waits(calls', cmd)
    BY <1>2, <1>4 DEF Waits
  <2>3. c.cmd = cmd => c.tag \in Waits(calls', cmd)
    BY <1>2, <1>4 DEF Waits
  <2> QED  BY <2>1, <2>2, <2>3
<1>10. ASSUME NEW cmd  PROVE  c.tag \notin Waits(calls, cmd)
  <2>1. \A k \in 1..Len(calls) : calls[k].tag # c.tag  BY <1>1, <1>6
  <2> QED  BY <2>1 DEF Waits
<1>11. calls'[1] = IF calls = <<>> THEN c ELSE calls[1]
  BY <1>2, <1>5
<1>12. CallsDiffer'  BY <1>7, <1>8 DEF CallsDiffer
<1> QED  BY <1>9, <1>10, <1>11, <1>12

\* The topmost call returns.
LEMMA OneCallLess ==
  ASSUME ApiOK, CallsDiffer, calls # <<>>, calls' = Popped, UNCHANGED made
  PROVE  /\ CallsDiffer'
         /\ \A cmd : Waits(calls', cmd) =
                       IF Top.cmd = cmd THEN Waits(calls, cmd) \ {Top.tag}
                       ELSE Waits(calls, cmd)
         /\ Top.tag \in Waits(calls, Top.cmd)
         /\ calls' # <<>> => calls'[1] = calls[1]
<1>1. /\ Len(calls) \in Nat \ {0} /\ Top \in CallRecord
      /\ calls' \in Seq(CallRecord) /\ Len(calls') = Len(calls) - 1
      /\ \A k \in 1..(Len(calls) - 1) : calls'[k] = calls[k]
      /\ calls' = <<>> <=> Len(calls) = 1
  BY PoppedCalls
<1>2. CallsDiffer'
  <2>1. \A k \in 1..Len(calls') : k \in 1..Len(calls) /\ calls'[k] = calls[k]
    BY <1>1
  <2> QED  BY <2>1 DEF CallsDiffer
<1>3. /\ Len(calls) \in 1..Len(calls) /\ Top = calls[Len(calls)]
      /\ \A k \in 1..Len(calls) : k = Len(calls) \/ k \in 1..Len(calls')
      /\ \A k \in 1..Len(calls') : k \in 1..Len(calls) /\ k # Len(calls)
                                     /\ calls'[k] = calls[k]
  BY <1>1 DEF Top
<1>4. \A k \in 1..Len(calls) : calls[k].tag = Top.tag => k = Len(calls)
  BY <1>3 DEF CallsDiffer
<1>5. ASSUME NEW cmd
      PROVE  Waits(calls', cmd) =
               IF Top.cmd = cmd THEN Waits(calls, cmd) \ {Top.tag} ELSE Waits(calls, cmd)
  <2>1. \A x \in Waits(calls', cmd) : x \in Waits(calls, cmd) /\ x # Top.tag
    BY <1>3, <1>4 DEF Waits
  <2>2. \A x \in Waits(calls, cmd) :
          x \in Waits(calls', cmd) \/ (x = Top.tag /\ Top.cmd = cmd)
    BY <1>3 DEF Waits
  <2> QED  BY <2>1, <2>2
<1>6. Top.tag \in Waits(calls, Top.cmd)  BY <1>3 DEF Waits
<1>7. calls' # <<>> => calls'[1] = calls[1]  BY <1>1
<1> QED  BY <1>2, <1>5, <1>6, <1>7

\* A call that begins is under way, and waits.
LEMMA CallBegunBalance ==
  ASSUME TypeOK, UNCHANGED handled, Balance, CallBegun
  PROVE  Balance'
<1> USE DEF TypeOK
<1>1. PICK cmd \in Commands, id \in Ids, q \in Seq(Header) :
        /\ \/ UNCHANGED toApi
           \/ toApi # <<>> /\ ~Head(toApi).isreply /\ toApi' = Tail(toApi)
        /\ Extends(toMaster, q, Others(FALSE))
        /\ made' = made + 1
        /\ toMaster' = Append(q, Request(cmd, "no", id, made'))
        /\ calls' = Append(calls, [cmd |-> cmd, id |-> id, tag |-> made'])
  BY DEF CallBegun
<1> DEFINE ask == Request(cmd, "no", id, made')
           c == [cmd |-> cmd, id |-> id, tag |-> made']
<1>2. /\ toMaster \in Seq(Header) /\ toApi \in Seq(Header)
      /\ made \in Nat /\ made' \in Nat /\ made' = made + 1
  BY <1>1 DEF IpcOK, ApiOK
<1>3. ask \in Header /\ ask.isreply = FALSE /\ ask.tag = made' /\ ask.cmd = cmd
  <2>1. "no" \in Recodes  BY DEF Recodes
  <2>2. ask \in Header  BY <1>2, <2>1, RequestOK
  <2> QED  BY <2>2 DEF Request
<1>4. c \in CallRecord /\ c.cmd = cmd /\ c.tag = made'
  BY <1>2 DEF CallRecord
<1>5. calls' = Append(calls, c) /\ toMaster' = Append(q, ask)  BY <1>1
<1> HIDE DEF ask, c
<1>6. CallsDiffer /\ MessagesDiffer /\ RepliesAreTrue /\ RepliesSuffice /\ FirstIsServed
  BY DEF Balance
<1>7. /\ CallsDiffer'
      /\ \A d : Waits(calls', d) = IF cmd = d THEN Waits(calls, d) \cup {made'}
                                   ELSE Waits(calls, d)
      /\ \A d : made' \notin Waits(calls, d)
      /\ calls'[1] = IF calls = <<>> THEN c ELSE calls[1]
  BY <1>2, <1>4, <1>5, <1>6, OneMoreCall
<1>8. Differ(toMaster, FALSE) /\ Differ(toApi, TRUE)  BY <1>6 DEF MessagesDiffer
<1>9. Replied' = Replied /\ Differ(toApi', TRUE)
  <2>1. CASE UNCHANGED toApi  BY <1>8, <2>1 DEF Replied
  <2>2. CASE toApi # <<>> /\ ~Head(toApi).isreply /\ toApi' = Tail(toApi)
    <3>1. Head(toApi).isreply # TRUE  BY <2>2
    <3>2. Of(toApi', TRUE) = Of(toApi, TRUE)  BY <1>2, <2>2, <3>1, OfTail
    <3>3. Rest(toApi, toApi') /\ toApi' \in Seq(Header)
      BY <1>2, <2>2, RestTail, HeadTailProperties
    <3>4. Differ(toApi', TRUE)  BY <1>2, <1>8, <3>3, OfRest
    <3> QED  BY <3>2, <3>4 DEF Replied
  <2> QED  BY <1>1, <2>1, <2>2
<1>10. Of(q, FALSE) = Asked /\ Differ(q, FALSE)
  BY <1>1, <1>2, <1>8, OfExtends DEF Asked
<1>11. \A n \in UnderWay : n.tag \in Nat /\ n.tag <= made
  <2>1. UnderWay \subseteq Header  BY <1>2, OfHeader DEF UnderWay, Asked, Replied
  <2> QED  BY <1>6, <2>1 DEF Header, MessagesDiffer
<1>12. \A n \in UnderWay : n.tag # made' /\ n.tag <= made'  BY <1>2, <1>11
<1>13. Asked' = Asked \cup {ask} /\ Differ(toMaster', FALSE)
  <2>1. \A n \in Of(q, FALSE) : n.tag # ask.tag
    BY <1>3, <1>10, <1>12 DEF UnderWay
  <2> QED  BY <1>3, <1>5, <1>10, <2>1, OfAppend DEF Asked
<1>14. UnderWay' = UnderWay \cup {ask}  BY <1>9, <1>13 DEF UnderWay
<1>15. MessagesDiffer'
  <2>1. \A n \in UnderWay' : n.tag <= made'  BY <1>2, <1>3, <1>12, <1>14
  <2>2. \A m \in Asked', n \in Replied' : m.tag # n.tag
    BY <1>3, <1>6, <1>9, <1>12, <1>13 DEF MessagesDiffer, UnderWay
  <2> QED  BY <1>9, <1>13, <2>1, <2>2 DEF MessagesDiffer
<1>16. RepliesAreTrue'  BY <1>6, <1>9 DEF RepliesAreTrue
<1>17. ASSUME NEW d \in Commands
       PROVE  /\ Tags(UnderWay', d) = IF cmd = d THEN Tags(UnderWay, d) \cup {made'}
                                      ELSE Tags(UnderWay, d)
              /\ made' \notin Tags(UnderWay, d)
  BY <1>3, <1>12, <1>14 DEF Tags
<1>18. ASSUME NEW d \in Commands
       PROVE  /\ Cardinality(Tags(UnderWay', d)) <= Cardinality(Waits(calls', d))
              /\ Cardinality(Tags(UnderWay, d)) < Cardinality(Waits(calls, d))
                   => Cardinality(Tags(UnderWay', d)) < Cardinality(Waits(calls', d))
  <2>1. /\ IsFiniteSet(Tags(UnderWay, d)) /\ IsFiniteSet(Waits(calls, d))
        /\ Cardinality(Tags(UnderWay, d)) \in Nat
        /\ Cardinality(Waits(calls, d)) \in Nat
        /\ Cardinality(Tags(UnderWay, d)) <= Cardinality(Waits(calls, d))
    BY <1>6, BalanceFacts
  <2>2. CASE cmd = d
    <3>1. Cardinality(Tags(UnderWay, d) \cup {made'}) = Cardinality(Tags(UnderWay, d)) + 1
      BY <1>17, <2>1, FS_AddElement
    <3>2. Cardinality(Waits(calls, d) \cup {made'}) = Cardinality(Waits(calls, d)) + 1
      BY <1>7, <2>1, FS_AddElement
    <3>3. Tags(UnderWay', d) = Tags(UnderWay, d) \cup {made'}  BY <1>17, <2>2
    <3>4. Waits(calls', d) = Waits(calls, d) \cup {made'}  BY <1>7, <2>2
    <3>5. /\ Cardinality(Tags(UnderWay', d)) = Cardinality(Tags(UnderWay, d)) + 1
          /\ Cardinality(Waits(calls', d)) = Cardinality(Waits(calls, d)) + 1
      BY <3>1, <3>2, <3>3, <3>4
    <3> QED  BY <2>1, <3>5
  <2>3. CASE cmd # d
    <3>1. Tags(UnderWay', d) = Tags(UnderWay, d)  BY <1>17, <2>3
    <3>2. Waits(calls', d) = Waits(calls, d)  BY <1>7, <2>3
    <3> QED  BY <2>1, <3>1, <3>2
  <2> QED  BY <2>2, <2>3
<1>19. RepliesSuffice'
  <2>1. ASSUME NEW d \in Commands
        PROVE  Cardinality(Tags(UnderWay', d)) <= Cardinality(Waits(calls', d))
    BY <1>18
  <2> QED  BY <2>1 DEF RepliesSuffice
<1>20. FirstIsServed'
  <2>1. CASE calls = <<>>
    <3>1. calls'[1] = c  BY <1>7, <2>1
    <3>2. calls'[1].tag = made' /\ calls'[1].cmd = cmd  BY <1>4, <3>1
    <3>3. made' \in Tags(UnderWay', cmd)  BY <1>17
    <3> QED  BY <3>2, <3>3 DEF FirstIsServed
  <2>2. CASE calls # <<>>
    <3>1. calls[1].cmd \in Commands /\ calls'[1] = calls[1]
      BY <1>7, <2>2, FirstCommand
    <3>2. ASSUME NEW d \in Commands, d = calls[1].cmd
          PROVE  \/ calls[1].tag \in handled' \cup Tags(UnderWay', d)
                 \/ Cardinality(Tags(UnderWay', d)) < Cardinality(Waits(calls', d))
      <4>1. \/ calls[1].tag \in handled \cup Tags(UnderWay, d)
            \/ Cardinality(Tags(UnderWay, d)) < Cardinality(Waits(calls, d))
        BY <1>6, <2>2, <3>2 DEF FirstIsServed
      <4>2. Tags(UnderWay, d) \subseteq Tags(UnderWay', d)  BY <1>17
      <4> QED  BY <1>18, <4>1, <4>2
    <3> QED  BY <3>1, <3>2 DEF FirstIsServed
  <2> QED  BY <2>1, <2>2
<1> QED  BY <1>7, <1>15, <1>16, <1>19, <1>20 DEF Balance

\* The reply that is read leaves the balance, together with the call that ends.
LEMMA ReplyReadBalance ==
  ASSUME TypeOK, UNCHANGED handled, Balance, toApi # <<>>, ReplyExpected(Head(toApi))
  PROVE  Balance'
<1> USE DEF TypeOK
<1> DEFINE m == Head(toApi)
<1>1. /\ toApi' = Tail(toApi) /\ m.isreply /\ calls # <<>> /\ m.cmd = Top.cmd
      /\ m.recode = "no" /\ calls' = Popped /\ UNCHANGED <<toMaster, made>>
  BY DEF ReplyExpected, Read
<1>2. toMaster \in Seq(Header) /\ toApi \in Seq(Header) /\ Len(toApi) <= QueueMax
  BY DEF IpcOK
<1>3. m \in Header /\ m.isreply = TRUE
  <2>1. m \in Header  BY <1>2, ReceivedOK
  <2> QED  BY <1>1, <2>1, OthersOK
<1>4. CallsDiffer /\ MessagesDiffer /\ RepliesAreTrue /\ RepliesSuffice /\ FirstIsServed
  BY DEF Balance
<1>5. /\ CallsDiffer'
      /\ \A d : Waits(calls', d) = IF Top.cmd = d THEN Waits(calls, d) \ {Top.tag}
                                   ELSE Waits(calls, d)
      /\ Top.tag \in Waits(calls, Top.cmd)
      /\ calls' # <<>> => calls'[1] = calls[1]
  BY <1>1, <1>4, OneCallLess
<1>6. Top.cmd \in Commands  BY <1>1, PoppedCalls DEF CallRecord
<1>7. Differ(toMaster, FALSE) /\ Differ(toApi, TRUE)  BY <1>4 DEF MessagesDiffer
<1>8. Asked' = Asked /\ Differ(toMaster', FALSE)  BY <1>1, <1>7 DEF Asked
<1>9. /\ Replied \subseteq Replied' \cup {m} /\ m \in Replied
      /\ \A n \in Replied' : n.tag # m.tag
  BY <1>1, <1>2, <1>3, <1>7, OfTail DEF Replied
<1>10. Replied' \subseteq Replied /\ Differ(toApi', TRUE)
  <2>1. Rest(toApi, toApi') /\ toApi' \in Seq(Header)
    BY <1>1, <1>2, RestTail, HeadTailProperties
  <2> QED  BY <1>2, <1>7, <2>1, OfRest DEF Replied
<1>11. UnderWay' \subseteq UnderWay /\ UnderWay \subseteq UnderWay' \cup {m}
       /\ m \in UnderWay
  BY <1>8, <1>9, <1>10 DEF UnderWay
<1>12. \A n \in UnderWay' : n.tag # m.tag
  BY <1>4, <1>8, <1>9 DEF UnderWay, MessagesDiffer
<1>13. MessagesDiffer'
  BY <1>1, <1>4, <1>8, <1>10, <1>11 DEF MessagesDiffer
<1>14. RepliesAreTrue'  BY <1>4, <1>10 DEF RepliesAreTrue
<1>15. m.tag \in handled'  BY <1>1, <1>4, <1>9 DEF RepliesAreTrue
<1>16. ASSUME NEW d \in Commands
       PROVE  /\ Tags(UnderWay', d) = IF Top.cmd = d THEN Tags(UnderWay, d) \ {m.tag}
                                      ELSE Tags(UnderWay, d)
              /\ Top.cmd = d => m.tag \in Tags(UnderWay, d)
  <2>1. \A x \in Tags(UnderWay', d) : x \in Tags(UnderWay, d) /\ x # m.tag
    BY <1>11, <1>12 DEF Tags
  <2>2. \A x \in Tags(UnderWay, d) :
          x \in Tags(UnderWay', d) \/ (x = m.tag /\ Top.cmd = d)
    BY <1>1, <1>11 DEF Tags
  <2>3. Top.cmd = d => m.tag \in Tags(UnderWay, d)
    BY <1>1, <1>11 DEF Tags
  <2> QED  BY <2>1, <2>2, <2>3
<1>17. ASSUME NEW d \in Commands
       PROVE  /\ Cardinality(Tags(UnderWay', d)) <= Cardinality(Waits(calls', d))
              /\ Cardinality(Tags(UnderWay, d)) < Cardinality(Waits(calls, d))
                   => Cardinality(Tags(UnderWay', d)) < Cardinality(Waits(calls', d))
  <2>1. /\ IsFiniteSet(Tags(UnderWay, d)) /\ IsFiniteSet(Waits(calls, d))
        /\ Cardinality(Tags(UnderWay, d)) \in Nat
        /\ Cardinality(Waits(calls, d)) \in Nat
        /\ Cardinality(Tags(UnderWay, d)) <= Cardinality(Waits(calls, d))
    BY <1>4, BalanceFacts
  <2>2. CASE Top.cmd = d
    <3>1. /\ Cardinality(Tags(UnderWay, d)) \in Nat \ {0}
          /\ Cardinality(Tags(UnderWay, d) \ {m.tag}) = Cardinality(Tags(UnderWay, d)) - 1
      BY <1>16, <2>1, <2>2, OneLess
    <3>2. /\ Cardinality(Waits(calls, d)) \in Nat \ {0}
          /\ Cardinality(Waits(calls, d) \ {Top.tag}) = Cardinality(Waits(calls, d)) - 1
      BY <1>5, <2>1, <2>2, OneLess
    <3>3. Tags(UnderWay', d) = Tags(UnderWay, d) \ {m.tag}  BY <1>16, <2>2
    <3>4. Waits(calls', d) = Waits(calls, d) \ {Top.tag}  BY <1>5, <2>2
    <3>5. /\ Cardinality(Tags(UnderWay', d)) = Cardinality(Tags(UnderWay, d)) - 1
          /\ Cardinality(Waits(calls', d)) = Cardinality(Waits(calls, d)) - 1
      BY <3>1, <3>2, <3>3, <3>4
    <3> QED  BY <2>1, <3>1, <3>2, <3>5
  <2>3. CASE Top.cmd # d
    <3>1. Tags(UnderWay', d) = Tags(UnderWay, d)  BY <1>16, <2>3
    <3>2. Waits(calls', d) = Waits(calls, d)  BY <1>5, <2>3
    <3> QED  BY <2>1, <3>1, <3>2
  <2> QED  BY <2>2, <2>3
<1>18. RepliesSuffice'
  <2>1. ASSUME NEW d \in Commands
        PROVE  Cardinality(Tags(UnderWay', d)) <= Cardinality(Waits(calls', d))
    BY <1>17
  <2> QED  BY <2>1 DEF RepliesSuffice
<1>19. FirstIsServed'
  <2>1. calls[1].cmd \in Commands  BY <1>1, FirstCommand
  <2>2. ASSUME NEW d \in Commands, d = calls[1].cmd
        PROVE  \/ calls[1].tag \in handled' \cup Tags(UnderWay', d)
               \/ Cardinality(Tags(UnderWay', d)) < Cardinality(Waits(calls', d))
    <3>1. \/ calls[1].tag \in handled \cup Tags(UnderWay, d)
          \/ Cardinality(Tags(UnderWay, d)) < Cardinality(Waits(calls, d))
      BY <1>1, <1>4, <2>2 DEF FirstIsServed
    <3>2. \A x \in Tags(UnderWay, d) : x \in Tags(UnderWay', d) \/ x = m.tag  BY <1>16
    <3>3. CASE calls[1].tag \in handled \cup Tags(UnderWay, d)
      BY <1>15, <3>2, <3>3
    <3>4. CASE Cardinality(Tags(UnderWay, d)) < Cardinality(Waits(calls, d))
      BY <1>17, <3>4
    <3> QED  BY <3>1, <3>3, <3>4
  <2> QED  BY <1>5, <2>1, <2>2 DEF FirstIsServed
<1> QED  BY <1>5, <1>13, <1>14, <1>18, <1>19 DEF Balance

\* Every step of the API in which no call fails.
LEMMA ApiBalance ==
  ASSUME TypeOK, TypeOK', Balance, ApiNext, UNCHANGED master, ~failed'
  PROVE  Balance'
<1>1. UNCHANGED handled  BY DEF master
<1>2. IpcOK /\ IpcOK' /\ ApiOK  BY DEF TypeOK
<1>3. CASE NoCall
  <2>1. CallsDiffer /\ MessagesDiffer /\ RepliesAreTrue /\ RepliesSuffice
        /\ FirstIsServed
    BY DEF Balance
  <2>2. MessagesDiffer' /\ RepliesAreTrue' /\ Flow  BY <1>1, <1>2, <1>3, <2>1, NoCallFlow
  <2>3. CallsDiffer' /\ RepliesSuffice' /\ FirstIsServed'  BY <2>1, <2>2, FlowKeeps
  <2> QED  BY <2>2, <2>3 DEF Balance
<1>4. CASE CallBegun  BY <1>1, <1>4, CallBegunBalance
<1>5. CASE toApi # <<>> /\ ReplyExpected(Head(toApi))
  BY <1>1, <1>5, ReplyReadBalance
<1> QED  BY <1>2, <1>3, <1>4, <1>5, ApiBalanceCases

-----------------------------------------------------------------------------

\* Nothing is under way.
LEMMA SuccessInit == Init => SuccessInv
<1> SUFFICES ASSUME Init  PROVE  SuccessInv  OBVIOUS
<1>1. TypeOK /\ RunningIsInUse  BY InitOK
<1>2. Len(toApi) = 0 /\ Len(toMaster) = 0 /\ Len(calls) = 0 /\ calls = <<>>
  BY EmptySeq DEF Init, ApiInit
<1>3. UnderWay = {} /\ Asked = {} /\ Replied = {}
  BY <1>2 DEF UnderWay, Asked, Replied, Of
<1>4. CallsDiffer  BY <1>2 DEF CallsDiffer
<1>5. MessagesDiffer  BY <1>2, <1>3 DEF MessagesDiffer, Differ
<1>6. RepliesAreTrue  BY <1>3 DEF RepliesAreTrue
<1>7. RepliesSuffice
  <2>1. ASSUME NEW cmd  PROVE  Tags(UnderWay, cmd) = {} /\ Waits(calls, cmd) = {}
    BY <1>2, <1>3 DEF Tags, Waits
  <2>2. 0 <= 0  OBVIOUS
  <2> QED  BY <2>1, <2>2, FS_EmptySet DEF RepliesSuffice
<1>8. FirstIsServed  BY <1>2 DEF FirstIsServed
<1> QED  BY <1>1, <1>4, <1>5, <1>6, <1>7, <1>8 DEF SuccessInv

\* Every step.
LEMMA SuccessNext ==
  ASSUME SuccessInv, [Next]_vars
  PROVE  SuccessInv'
<1>1. TypeOK /\ RunningIsInUse /\ (~failed => Balance)  BY DEF SuccessInv, Balance
<1>2. TypeOK' /\ RunningIsInUse'  BY <1>1, NextOK
<1>3. ASSUME ~failed'  PROVE  Balance'
  <2>1. CASE Next
    <3>1. Balance  BY <1>1, <1>3, <2>1, UpsetStays
    <3>2. CASE MasterNext /\ UNCHANGED api  BY <1>1, <1>2, <3>1, <3>2, MasterBalance
    <3>3. CASE ApiNext /\ UNCHANGED master
      BY <1>1, <1>2, <1>3, <3>1, <3>3, ApiBalance
    <3> QED  BY <2>1, <3>2, <3>3 DEF Next
  <2>2. CASE UNCHANGED vars
    <3>1. UNCHANGED <<toMaster, toApi, calls, made, handled, failed>>
      BY <2>2 DEF vars, channels, master, api
    <3>2. UNCHANGED <<Asked, Replied, UnderWay>>  BY <3>1 DEF Asked, Replied, UnderWay
    <3>3. Balance  BY <1>1, <1>3, <3>1
    <3> QED
      BY <3>1, <3>2, <3>3 DEF Balance, CallsDiffer, MessagesDiffer, RepliesAreTrue,
         RepliesSuffice, FirstIsServed
  <2> QED  BY <2>1, <2>2
<1> QED  BY <1>2, <1>3 DEF SuccessInv, Balance

\* As long as none has failed, a call of the user that succeeds has been carried out:
\* when it reads its reply no other call waits for one to this command, so no other
\* is under way, and none was lost.
THEOREM SuccessIsReal == Spec => SuccessIsDone
<1>1. ASSUME SuccessInv, [Next]_vars
      PROVE  [\A tag \in 1..made : Returns(tag) => tag \in handled]_vars
  <2> SUFFICES ASSUME Next, NEW tag \in 1..made, Returns(tag)
               PROVE  tag \in handled
    BY <1>1
  <2>1. TypeOK /\ (~failed => Balance)  BY <1>1 DEF SuccessInv, Balance
  <2>2. Balance  BY <2>1, UpsetStays DEF Returns
  <2>3. CallsDiffer /\ MessagesDiffer /\ RepliesAreTrue /\ RepliesSuffice
        /\ FirstIsServed
    BY <2>2 DEF Balance
  <2>4. Len(calls) = 1 /\ calls' = <<>> /\ calls[1].tag = tag /\ ~failed'
        /\ calls # <<>>
    BY EmptySeq DEF Returns
  <2>5. toApi # <<>> /\ ReplyExpected(Head(toApi))
    <3>1. ApiNext  BY <2>4 DEF Next, api
    <3>2. ~CallBegun
      <4>1. ASSUME CallBegun  PROVE  calls' # <<>>
        <5>1. PICK c \in CallRecord : calls' = Append(calls, c)
          BY <2>1, <4>1, BegunCall DEF TypeOK
        <5>2. calls \in Seq(CallRecord)  BY <2>1 DEF TypeOK, ApiOK, CallRecord
        <5> QED  BY <5>1, <5>2, AppendProperties
      <4> QED  BY <2>4, <4>1
    <3>3. ~NoCall  BY <2>4 DEF NoCall
    <3> QED  BY <2>1, <2>4, <3>1, <3>2, <3>3, ApiBalanceCases DEF TypeOK
  <2>6. Top = calls[1] /\ Top.cmd \in Commands
    BY <2>1, <2>4, FirstCommand DEF Top
  <2> DEFINE cmd == Top.cmd
  <2>7. Waits(calls, cmd) = {tag}
    BY <2>4, <2>6 DEF Waits
  <2>8. Head(toApi).tag \in Tags(UnderWay, cmd) /\ Head(toApi).tag \in handled
    <3>1. toApi \in Seq(Header) /\ Len(toApi) <= QueueMax  BY <2>1 DEF TypeOK, IpcOK
    <3>2. /\ Head(toApi).isreply /\ Head(toApi).cmd = Top.cmd
          /\ Head(toApi).recode = "no"
      BY <2>5 DEF ReplyExpected
    <3>3. Head(toApi) \in Header  BY <2>5, <3>1, ReceivedOK
    <3>4. Head(toApi).isreply = TRUE  BY <3>2, <3>3, OthersOK
    <3>5. Head(toApi) \in Replied  BY <2>5, <3>1, <3>4, OfTail DEF Replied
    <3> QED  BY <2>3, <3>2, <3>5 DEF RepliesAreTrue, Tags, UnderWay
  <2>9. IsFiniteSet(Tags(UnderWay, cmd))
        /\ Cardinality(Tags(UnderWay, cmd)) <= Cardinality(Waits(calls, cmd))
        /\ Cardinality(Tags(UnderWay, cmd)) \in Nat
    BY <2>1, <2>3, <2>6, BalanceFacts
  <2>10. Cardinality(Tags(UnderWay, cmd)) = 1
    <3>1. Cardinality(Waits(calls, cmd)) = 1  BY <2>7, FS_Singleton
    <3>2. Cardinality(Tags(UnderWay, cmd)) \in Nat \ {0}  BY <2>8, <2>9, OneLess
    <3> QED  BY <2>9, <3>1, <3>2
  <2>11. Tags(UnderWay, cmd) = {Head(toApi).tag}
    BY <2>8, <2>9, <2>10, FS_Singleton
  <2>12. tag \in handled \cup Tags(UnderWay, cmd)
    <3>1. Cardinality(Waits(calls, cmd)) = 1  BY <2>7, FS_Singleton
    <3>2. ~(Cardinality(Tags(UnderWay, cmd)) < Cardinality(Waits(calls, cmd)))
      BY <2>10, <3>1
    <3> QED  BY <2>3, <2>4, <2>6, <3>2 DEF FirstIsServed
  <2> QED  BY <2>8, <2>11, <2>12
<1> QED  BY <1>1, SuccessInit, SuccessNext, PTL DEF Spec, SuccessIsDone
=============================================================================
