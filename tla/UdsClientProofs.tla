-------------------------- MODULE UdsClientProofs ---------------------------
(***************************************************************************)
(* Proofs about UdsClient, for every list, configuration, ECU and bound.   *)
(***************************************************************************)
EXTENDS UdsClient, NatRecursion, TLAPS

-----------------------------------------------------------------------------
(***************************************************************************)
(* Type correctness                                                        *)
(***************************************************************************)

\* Every step of the client is one of its handlers.
LEMMA NextCases ==
  ASSUME Next
  PROVE  \/ UdscCreate
         \/ \E item \in Items : ItemAdd(item)
         \/ \E a, e, r \in BOOLEAN : GeneralConfig(a, e, r)
         \/ SaKey
         \/ ServicesStart
         \/ StopScript
         \/ UdscDestory
         \/ MasterReset
         \/ RequestSent
         \/ RequestAborted
         \/ RequestsExhausted
         \/ \E bytes \in Responses : Response(bytes)
         \/ \E bytes \in Responses : ResponsePending(bytes)
         \/ ResponseTimeout
         \/ StaleTimeout
  BY DEF Next, Command, RequestTimer, ResponseTimer

\* One step of any handler keeps the types.
LEMMA TypeStep ==
  ASSUME TypeOK, [Next]_vars
  PROVE  TypeOK'
<1> USE SizeAssumption, ItemsAssumption DEF TypeOK
<1>1. CASE UdscCreate
  BY <1>1 DEF ListOK, FlagsOK, CountsOK, UdscCreate, general, timers, items,
              history
<1>2. ASSUME NEW item \in Items, ItemAdd(item)
      PROVE  TypeOK'
  <2>1. ListOK'
    BY <1>2 DEF ListOK, ItemAdd, Slots
  <2>2. FlagsOK'
    BY <1>2 DEF FlagsOK, ItemAdd, general, timers, history
  <2>3. CountsOK'
    BY <1>2 DEF CountsOK, ItemAdd, history, Slots, Outcomes
  <2>4. QED
    BY <2>1, <2>2, <2>3
<1>3. ASSUME NEW a \in BOOLEAN, NEW e \in BOOLEAN, NEW r \in BOOLEAN,
             GeneralConfig(a, e, r)
      PROVE  TypeOK'
  BY <1>3 DEF ListOK, FlagsOK, CountsOK, GeneralConfig, list, timers, items,
              history
<1>4. CASE SaKey
  BY <1>4 DEF ListOK, FlagsOK, CountsOK, SaKey, list, general, timers, items,
              history
<1>5. CASE ServicesStart
  <2>1. ListOK'
    BY <1>5 DEF ListOK, ServicesStart, list
  <2>2. FlagsOK'
    BY <1>5 DEF FlagsOK, ServicesStart, general
  <2>3. CountsOK'
    BY <1>5 DEF CountsOK, ServicesStart, Outcomes
  <2>4. QED
    BY <2>1, <2>2, <2>3
<1>6. CASE StopScript
  <2>1. ListOK'
    BY <1>6 DEF ListOK, StopScript, ServicesStop, list
  <2>2. FlagsOK'
    BY <1>6 DEF FlagsOK, StopScript, ServicesStop, general
  <2>3. CountsOK'
    BY <1>6 DEF CountsOK, StopScript, items
  <2>4. QED
    BY <2>1, <2>2, <2>3
<1>7. CASE UdscDestory
  <2>1. ListOK'
    BY <1>7 DEF ListOK, UdscDestory, Cleared, Slots
  <2>2. FlagsOK'
    BY <1>7 DEF FlagsOK, UdscDestory, Cleared, timers
  <2>3. CountsOK'
    BY <1>7 DEF CountsOK, UdscDestory, Cleared, Outcomes
  <2>4. QED
    BY <2>1, <2>2, <2>3
<1>8. CASE MasterReset
  <2>1. ListOK'
    BY <1>8 DEF ListOK, MasterReset, Cleared, Slots
  <2>2. FlagsOK'
    BY <1>8 DEF FlagsOK, MasterReset, Cleared
  <2>3. CountsOK'
    BY <1>8 DEF CountsOK, MasterReset, Cleared, Outcomes
  <2>4. QED
    BY <2>1, <2>2, <2>3
<1>9. CASE RequestSent
  <2>1. ListOK'
    BY <1>9 DEF ListOK, RequestSent, Active, list, Slots
  <2>2. FlagsOK'
    BY <1>9 DEF FlagsOK, RequestSent, TesterPresentRefresh, general, history
  <2>3. PICK i \in sindex..(service_cnt - 1) : sends' = [sends EXCEPT ![i] = @ + 1]
    BY <1>9 DEF RequestSent
  <2>4. i \in Slots /\ sends[i] \in Nat
    BY <1>9 DEF RequestSent, Active, ListOK, CountsOK, Slots
  <2>5. sends' \in [Slots -> Nat]
    BY <2>3, <2>4 DEF CountsOK
  <2>6. outcome' \in [Slots -> Outcomes]
    BY <1>9 DEF RequestSent, CountsOK, Unsent, Outcomes
  <2>7. CountsOK'
    BY <1>9, <2>5, <2>6 DEF CountsOK, RequestSent, history
  <2>8. QED
    BY <2>1, <2>2, <2>7
<1>10. CASE RequestAborted
  <2>1. ListOK'
    BY <1>10 DEF ListOK, RequestAborted, Finish, ServicesStop, list
  <2>2. FlagsOK'
    BY <1>10 DEF FlagsOK, RequestAborted, Finish, ServicesStop,
                 general
  <2>3. CountsOK'
    BY <1>10 DEF CountsOK, RequestAborted, Finish, Unsent,
                 Verdicts, Outcomes
  <2>4. QED
    BY <2>1, <2>2, <2>3
<1>11. CASE RequestsExhausted
  <2>1. ListOK'
    BY <1>11 DEF ListOK, RequestsExhausted, Active, Finish,
                 ServicesStop, list
  <2>2. FlagsOK'
    BY <1>11 DEF FlagsOK, RequestsExhausted, Finish, ServicesStop,
                 TesterPresentRefresh, general
  <2>3. CountsOK'
    BY <1>11 DEF CountsOK, RequestsExhausted, Finish, Unsent,
                 Verdicts, Outcomes
  <2>4. QED
    BY <2>1, <2>2, <2>3
<1>12. ASSUME NEW bytes, Active, Answered(bytes), messages' \in Nat
       PROVE  TypeOK'
  <2>1. sindex \in Slots /\ finish_try_num[sindex] \in Nat
    BY <1>12 DEF ListOK, CountsOK, Active, Slots
  <2>2. PICK opens \in BOOLEAN : Abort(bytes, opens) \/ GoOn(bytes, opens)
    BY <1>12 DEF Answered
  <2>3. CASE Abort(bytes, opens)
    <3>1. ListOK'
      BY <1>12, <2>3 DEF ListOK, Answered, Abort, Finish, ServicesStop, list
    <3>2. FlagsOK'
      BY <1>12, <2>3 DEF FlagsOK, Answered, Abort, Finish, ServicesStop, general
    <3>3. CountsOK'
      BY <1>12, <2>1, <2>3 DEF CountsOK, Answered, Abort, Finish, Verdicts,
                               Outcomes, Tried
    <3>4. QED
      BY <3>1, <3>2, <3>3
  <2>4. CASE GoOn(bytes, opens)
    <3>1. ListOK'
      BY <1>12, <2>1, <2>4 DEF ListOK, Answered, GoOn, Finish, ServicesStop,
                               RequestStart, list
    <3>2. FlagsOK'
      BY <1>12, <2>4 DEF FlagsOK, Answered, GoOn, Finish, ServicesStop,
                         RequestStart, general
    <3>3. CountsOK'
      <4>1. /\ finish_try_num' \in [Slots -> Nat]
            /\ outcome' \in [Slots -> Outcomes]
        BY <2>1, <2>4 DEF CountsOK, GoOn, Tried, Outcomes
      <4>2. reports' \in Nat /\ verdict' \in Verdicts \cup {"none"}
        BY <2>4 DEF CountsOK, GoOn, Finish, Verdicts
      <4>3. QED
        BY <1>12, <4>1, <4>2 DEF CountsOK, Answered
    <3>4. QED
      BY <3>1, <3>2, <3>3
  <2>5. QED
    BY <2>2, <2>3, <2>4
<1>13. ASSUME NEW bytes \in Responses, Response(bytes)
       PROVE  TypeOK'
  BY <1>12, <1>13 DEF Response, Delivered, CountsOK
<1>14. ASSUME NEW bytes \in Responses, ResponsePending(bytes)
       PROVE  TypeOK'
  BY <1>14 DEF ListOK, FlagsOK, CountsOK, ResponsePending, Delivered, list,
               general, items
<1>15. CASE ResponseTimeout
  BY <1>12, <1>15 DEF ResponseTimeout, CountsOK
<1>16. CASE StaleTimeout
  BY <1>16 DEF ListOK, FlagsOK, CountsOK, StaleTimeout, list, general, items,
               history
<1>17. CASE UNCHANGED vars
  BY <1>17 DEF ListOK, FlagsOK, CountsOK, vars, list, general, timers, items,
               history
<1>18. QED
  BY <1>1, <1>2, <1>3, <1>4, <1>5, <1>6, <1>7, <1>8, <1>9, <1>10, <1>11,
     <1>13, <1>14, <1>15, <1>16, <1>17, NextCases

\* The client as it is created.
LEMMA InitType == Init => TypeOK
<1> SUFFICES ASSUME Init
             PROVE  TypeOK
  OBVIOUS
<1>1. ListOK
  BY SizeAssumption, ItemsAssumption DEF Init, ListOK, Slots
<1>2. FlagsOK
  BY DEF Init, FlagsOK
<1>3. CountsOK
  BY DEF Init, CountsOK, Outcomes
<1>4. QED
  BY <1>1, <1>2, <1>3 DEF TypeOK

\* Type correctness, for every list and every environment.
THEOREM TypeCorrect == Spec => []TypeOK
<1>1. TypeOK /\ [Next]_vars => TypeOK'
  BY TypeStep
<1>2. QED
  BY InitType, <1>1, PTL DEF Spec

-----------------------------------------------------------------------------
(***************************************************************************)
(* The control invariant                                                   *)
(***************************************************************************)

\* A stop and a reset leave no file and no buffer, and a key that comes later
\* brings none.
LEMMA NothingHeld ==
  /\ \A c : HoldsNothing(Released(c))
  /\ HoldsNothing(NewCommon)
  /\ \A c, k : HoldsNothing(c) => HoldsNothing([c EXCEPT !.keys = k])
  BY DEF HoldsNothing, Released, NewCommon

\* A stop of the client, and the report before it.
LEMMA StopKeeps ==
  ASSUME ControlInv, NEW c, ServicesStop(c), UNCHANGED starts,
         reports' \in {reports, reports + 1},
         reports' = reports + 1 => sindex >= 0,
         TypeOK'
  PROVE  ControlInv'
  BY NothingHeld
     DEF ControlInv, TypeOK, ListOK, CountsOK, ServicesStop, RequestTimerActive,
         RunHasTimer, ReportedIsQuiet, OwedReport, AheadIsOpen, StoppedIsReleased

\* One step of any handler keeps the control invariant.
LEMMA ControlStep ==
  ASSUME ControlInv, [Next]_vars
  PROVE  ControlInv'
<1> USE DEF ControlInv, RequestTimerActive, RunHasTimer, ReportedIsQuiet,
            OwedReport, AheadIsOpen, StoppedIsReleased, Active
<1>0. TypeOK'
  BY TypeStep
<1> USE <1>0
<1>1. CASE UdscCreate
  BY <1>1 DEF UdscCreate, general, timers, items, history
<1>2. ASSUME NEW item \in Items, ItemAdd(item)
      PROVE  ControlInv'
  BY <1>2, SizeAssumption DEF ItemAdd, TypeOK, ListOK, CountsOK, general, timers, history
<1>3. ASSUME NEW a \in BOOLEAN, NEW e \in BOOLEAN, NEW r \in BOOLEAN,
             GeneralConfig(a, e, r)
      PROVE  ControlInv'
  BY <1>3 DEF GeneralConfig, list, timers, items, history
<1>4. CASE SaKey
  BY <1>4, NothingHeld DEF SaKey, list, general, timers, items, history
<1>5. CASE ServicesStart
  <2>1. PICK i \in 0..service_cnt :
          /\ IsNext(0, i)
          /\ sindex' = i
          /\ requestTimer' = (requestTimer \/ i < service_cnt)
          /\ tpTimer' = (tpTimer \/ (i < service_cnt /\ tpEnable))
          /\ running' = (i < service_cnt)
    BY <1>5 DEF ServicesStart
  <2>2. service_cnt \in Nat /\ service_cnt' = service_cnt /\ ~requestTimer
    BY <1>5, SizeAssumption DEF ServicesStart, TypeOK, ListOK, list
  <2>3. i \in Nat
    BY <2>1, <2>2
  <2>4. RequestTimerActive' /\ RunHasTimer'
    <3>1. CASE i < service_cnt
      <4>1. requestTimer' /\ running'
        BY <2>1, <3>1
      <4>2. QED
        BY <2>1, <2>2, <2>3, <3>1, <4>1
    <3>2. CASE ~(i < service_cnt)
      <4>1. ~requestTimer' /\ ~running'
        BY <2>1, <2>2, <3>2
      <4>2. QED
        BY <4>1
    <3>3. QED
      BY <3>1, <3>2
  <2>5. OwedReport'
    BY <1>5, <2>1, <2>3 DEF ServicesStart, TypeOK, CountsOK
  <2>6. ReportedIsQuiet' /\ AheadIsOpen' /\ StoppedIsReleased'
    BY <1>5, <2>1, <2>3 DEF ServicesStart
  <2>7. QED
    BY <2>4, <2>5, <2>6
<1>6. CASE StopScript
  BY <1>6, StopKeeps DEF StopScript, TypeOK, CountsOK
<1>7. CASE UdscDestory
  BY <1>7, NothingHeld DEF UdscDestory, Cleared, TypeOK, ListOK, FlagsOK, CountsOK, timers
<1>8. CASE MasterReset
  BY <1>8, NothingHeld DEF MasterReset, Cleared, TypeOK, ListOK, FlagsOK, CountsOK
<1>9. CASE RequestSent
  BY <1>9, SizeAssumption
  DEF RequestSent, TypeOK, ListOK, CountsOK, TesterPresentRefresh, Unsent, EnabledIn,
      Slots, list, general, history
<1>10. CASE RequestAborted
  BY <1>10, StopKeeps DEF RequestAborted, Finish, TypeOK, CountsOK
<1>11. CASE RequestsExhausted
  <2>1. CASE Enabled(service_cnt - 1)
    BY <1>11, <2>1
    DEF RequestsExhausted, TypeOK, ListOK, CountsOK, FlagsOK, TesterPresentRefresh,
        Unsent, EnabledIn, Slots, list, general
  <2>2. CASE ~Enabled(service_cnt - 1)
    BY <1>11, <2>2, StopKeeps DEF RequestsExhausted, Finish, TypeOK, CountsOK
  <2>3. QED
    BY <2>1, <2>2
<1>12. ASSUME NEW bytes, Active, Answered(bytes)
       PROVE  ControlInv'
  <2>1. PICK opens \in BOOLEAN : Abort(bytes, opens) \/ GoOn(bytes, opens)
    BY <1>12 DEF Answered
  <2>2. CASE Abort(bytes, opens)
    BY <1>12, <2>2, StopKeeps DEF Answered, Abort, Finish, TypeOK, CountsOK
  <2>3. CASE GoOn(bytes, opens)
    <3>1. CASE \E c : Finish("normal", c)
      BY <1>12, <2>3, <3>1, StopKeeps DEF Answered, Finish, TypeOK, CountsOK
    <3>2. CASE ~\E c : Finish("normal", c)
      <4>1. PICK i \in sindex..(service_cnt - 1) :
              /\ (i = sindex /\ outcome' = outcome) \/ i > sindex
              /\ RequestStart(i)
              /\ UNCHANGED <<reports, verdict>>
        BY <2>3, <3>2 DEF GoOn
      <4>2. service_cnt' = service_cnt /\ {service_cnt, sindex, i} \subseteq Nat
        BY <1>12, <4>1, SizeAssumption DEF Answered, TypeOK, ListOK, list
      <4>3. \A j \in Slots : j # sindex => outcome'[j] = outcome[j]
        BY <2>3 DEF GoOn, TypeOK, CountsOK
      <4>4. RequestTimerActive' /\ RunHasTimer' /\ StoppedIsReleased'
        BY <4>1, <4>2 DEF RequestStart
      <4>5. ReportedIsQuiet' /\ OwedReport'
        BY <1>12, <4>1, <4>2 DEF Answered, RequestStart
      <4>6. AheadIsOpen'
        <5>1. ASSUME NEW j \in Slots, j >= i
              PROVE  outcome'[j] = "none"
          <6>1. i >= sindex /\ j >= sindex
            BY <4>1, <4>2, <5>1, SizeAssumption DEF Slots
          <6>2. outcome[j] = "none"
            BY <1>12, <6>1
          <6>3. outcome'[j] = outcome[j]
            BY <1>12, <4>1, <4>2, <4>3, <5>1 DEF Slots
          <6>4. QED
            BY <6>2, <6>3
        <5>2. QED
          BY <4>1, <5>1 DEF RequestStart
      <4>7. QED
        BY <4>4, <4>5, <4>6
    <3>3. QED
      BY <3>1, <3>2
  <2>4. QED
    BY <2>1, <2>2, <2>3
<1>13. ASSUME NEW bytes \in Responses, Response(bytes)
       PROVE  ControlInv'
  BY <1>12, <1>13 DEF Response, Delivered
<1>14. ASSUME NEW bytes \in Responses, ResponsePending(bytes)
       PROVE  ControlInv'
  BY <1>14 DEF ResponsePending, Delivered, TypeOK, ListOK, list, general, items
<1>15. CASE ResponseTimeout
  BY <1>12, <1>15 DEF ResponseTimeout
<1>16. CASE StaleTimeout
  BY <1>16 DEF StaleTimeout, list, general, items, history
<1>17. CASE UNCHANGED vars
  BY <1>17 DEF vars, list, general, timers, items, history
<1>18. QED
  BY <1>1, <1>2, <1>3, <1>4, <1>5, <1>6, <1>7, <1>8, <1>9, <1>10, <1>11,
     <1>13, <1>14, <1>15, <1>16, <1>17, NextCases

\* The inductive invariant of the run's control holds for every list and ECU.
THEOREM ControlCorrect == Spec => []ControlInv
<1>1. Init => ControlInv
  <2> SUFFICES ASSUME Init
               PROVE  ControlInv
    OBVIOUS
  <2>1. TypeOK
    BY InitType
  <2>2. QED
    BY <2>1, NothingHeld
       DEF Init, ControlInv, RequestTimerActive, RunHasTimer, ReportedIsQuiet,
           OwedReport, AheadIsOpen, StoppedIsReleased
<1>2. ControlInv /\ [Next]_vars => ControlInv'
  BY ControlStep
<1>3. QED
  BY <1>1, <1>2, PTL DEF Spec

-----------------------------------------------------------------------------
(***************************************************************************)
(* What the control invariant gives                                        *)
(***************************************************************************)

\* The handler of the request timer always finds the item it is for.
THEOREM RequestHasItem == Spec => []RequestTimerActive
<1>1. ControlInv => RequestTimerActive
  BY DEF ControlInv
<1>2. QED
  BY <1>1, ControlCorrect, PTL

\* No run is ever lost between two handlers: a run in progress has an item and a
\* timer that will come back to it.
THEOREM RunIsDriven == Spec => []RunHasTimer
<1>1. ControlInv => RunHasTimer
  BY DEF ControlInv
<1>2. QED
  BY <1>1, ControlCorrect, PTL

\* After its report a client sends nothing and reports nothing until it is started
\* again.
THEOREM ReportIsFinal == Spec => []ReportedIsQuiet
<1>1. ControlInv => ReportedIsQuiet
  BY DEF ControlInv
<1>2. QED
  BY <1>1, ControlCorrect, PTL

\* The API never sees more results than it gave start commands.
THEOREM ReportsAreBounded == Spec => []OneReportPerStart
<1>1. ControlInv => OneReportPerStart
  BY DEF ControlInv, TypeOK, CountsOK, OwedReport, OneReportPerStart
<1>2. QED
  BY <1>1, ControlCorrect, PTL

\* However a client is stopped, its transfer file is closed and its buffer freed.
THEOREM FileIsClosed == Spec => []NoFileLeft
<1>1. ControlInv => NoFileLeft
  BY DEF ControlInv, StoppedIsReleased, HoldsNothing, NoFileLeft
<1>2. QED
  BY <1>1, ControlCorrect, PTL

\* No order of timeouts, late responses and commands makes the client send an item
\* that it has already passed in the run.
THEOREM PassedStaysPassed == Spec => PassedIsNotResent
<1> DEFINE NotResent ==
      \A i \in Slots : sends'[i] > sends[i] => outcome[i] = "none"
<1>1. ASSUME ControlInv, [Next]_vars, NEW i \in Slots, sends'[i] > sends[i]
      PROVE  outcome[i] = "none"
  <2> USE <1>1 DEF ControlInv, TypeOK, CountsOK
  <2>0. sends[i] \in Nat
    OBVIOUS
  <2>1. ~UNCHANGED sends
    BY <2>0
  <2>2. ~UNCHANGED items
    BY <2>1 DEF items
  <2>3. ~\E item \in Items : ItemAdd(item)
    BY <2>0 DEF ItemAdd
  <2>4. ~(ServicesStart \/ UdscDestory \/ MasterReset)
    BY <2>0 DEF ServicesStart, UdscDestory, MasterReset, Cleared
  <2>5. CASE RequestSent
    <3>1. PICK j \in sindex..(service_cnt - 1) : sends' = [sends EXCEPT ![j] = @ + 1]
      BY <2>5 DEF RequestSent
    <3>2. i = j
      BY <2>0, <3>1
    <3>3. sindex >= 0 /\ i >= sindex
      BY <2>5, <3>1, <3>2 DEF RequestSent, Active
    <3>4. QED
      BY <3>3 DEF AheadIsOpen
  <2>6. ~(RequestAborted \/ RequestsExhausted)
    BY <2>1 DEF RequestAborted, RequestsExhausted
  <2>7. ~(\E bytes \in Responses : Response(bytes)) /\ ~ResponseTimeout
    BY <2>1 DEF Response, ResponseTimeout, Answered
  <2>8. ~(\E bytes \in Responses : ResponsePending(bytes)) /\ ~StaleTimeout
    BY <2>2 DEF ResponsePending, StaleTimeout
  <2>9. ~(UdscCreate \/ SaKey \/ StopScript)
    BY <2>2 DEF UdscCreate, SaKey, StopScript
  <2>10. ~\E a, e, r \in BOOLEAN : GeneralConfig(a, e, r)
    BY <2>2 DEF GeneralConfig
  <2>11. ~UNCHANGED vars
    BY <2>2 DEF vars
  <2>12. QED
    BY <2>3, <2>4, <2>5, <2>6, <2>7, <2>8, <2>9, <2>10, <2>11, NextCases
<1>2. ControlInv /\ [Next]_vars => [NotResent]_vars
  BY <1>1
<1>3. QED
  BY <1>2, ControlCorrect, PTL DEF Spec, PassedIsNotResent

\* With isFailAbort the failure of an item and the report of the run are one step,
\* whether the failure is a send, a response, a timeout or a response handler.
THEOREM AbortIsFinal == Spec => AbortEndsRun
<1> DEFINE Fails(i) == outcome[i] = "none" /\ outcome'[i] \in {"unmet", "unsent"}
           Ends == /\ sindex' = -1
                   /\ reports' = reports + 1
                   /\ verdict' \in Verdicts \ {"normal"}
           EndsRun == isFailAbort /\ (\E i \in Slots : Fails(i)) => Ends
<1>1. ASSUME TypeOK, [Next]_vars, isFailAbort, NEW i \in Slots, Fails(i)
      PROVE  Ends
  <2> USE <1>1 DEF TypeOK
  <2>1. ~UNCHANGED outcome /\ ~UNCHANGED items
    BY DEF items
  <2>2. ~\E item \in Items : ItemAdd(item)
    BY DEF ItemAdd, CountsOK
  <2>3. ~(ServicesStart \/ UdscDestory \/ MasterReset)
    BY DEF ServicesStart, UdscDestory, MasterReset, Cleared
  <2>4. ~(RequestSent \/ RequestsExhausted)
    BY DEF RequestSent, RequestsExhausted, Unsent
  <2>5. CASE RequestAborted
    BY <2>5 DEF RequestAborted, Finish, ServicesStop, Verdicts
  <2>6. ASSUME NEW bytes, Answered(bytes)
        PROVE  Ends
    <3>1. PICK opens \in BOOLEAN : Abort(bytes, opens) \/ GoOn(bytes, opens)
      BY <2>6 DEF Answered
    <3>2. ~GoOn(bytes, opens)
      BY DEF GoOn, CountsOK
    <3>3. Abort(bytes, opens)
      BY <3>1, <3>2
    <3>4. QED
      BY <3>3 DEF Abort, Finish, ServicesStop, Verdicts
  <2>7. CASE (\E bytes \in Responses : Response(bytes)) \/ ResponseTimeout
    BY <2>6, <2>7 DEF Response, ResponseTimeout
  <2>8. ~(\E bytes \in Responses : ResponsePending(bytes)) /\ ~StaleTimeout
    BY <2>1 DEF ResponsePending, StaleTimeout
  <2>9. ~(UdscCreate \/ SaKey \/ StopScript)
    BY <2>1 DEF UdscCreate, SaKey, StopScript
  <2>10. ~\E a, e, r \in BOOLEAN : GeneralConfig(a, e, r)
    BY <2>1 DEF GeneralConfig
  <2>11. ~UNCHANGED vars
    BY <2>1 DEF vars
  <2>12. QED
    BY <2>2, <2>3, <2>4, <2>5, <2>7, <2>8, <2>9, <2>10, <2>11, NextCases
<1>2. TypeOK /\ [Next]_vars => [EndsRun]_vars
  BY <1>1
<1>3. QED
  BY <1>2, TypeCorrect, PTL DEF Spec, AbortEndsRun

\* A run is reported, stopped, or left behind a list whose last item could not be sent.
THEOREM EndIsTold == Spec => EndIsReported
<1> DEFINE Told == \/ reports' = reports + 1
                   \/ StopScript \/ MasterReset
                   \/ /\ ~isFailAbort
                      /\ sindex' = service_cnt /\ outcome'[service_cnt - 1] = "unsent"
           RunEndsTold == running /\ ~running' => Told
<1>1. ASSUME ControlInv, Next, running, ~running'
      PROVE  Told
  <2>1. TypeOK /\ Active
    BY <1>1 DEF ControlInv, RunHasTimer
  <2>2. running' # running
    BY <1>1
  <2>3. CASE \/ UdscCreate \/ SaKey \/ StaleTimeout \/ RequestSent \/ UdscDestory
             \/ ServicesStart
             \/ \E item \in Items : ItemAdd(item)
             \/ \E a, e, r \in BOOLEAN : GeneralConfig(a, e, r)
             \/ \E bytes \in Responses : ResponsePending(bytes)
    BY <2>1, <2>2, <2>3 DEF UdscCreate, SaKey, StaleTimeout, RequestSent, UdscDestory,
         ServicesStart, ItemAdd, GeneralConfig, ResponsePending, history
  <2>4. CASE StopScript \/ MasterReset
    BY <2>4
  <2>5. CASE RequestAborted
    BY <2>5 DEF RequestAborted, Finish
  <2>6. CASE RequestsExhausted
    <3>1. service_cnt - 1 \in Slots /\ sindex < service_cnt
      BY <2>1, SizeAssumption DEF TypeOK, ListOK, Active, Slots
    <3>2. CASE Enabled(service_cnt - 1)
      <4>1. service_cnt - 1 \in EnabledIn(sindex, service_cnt)
        BY <2>1, <3>1, <3>2 DEF EnabledIn, TypeOK, ListOK, Slots
      <4>2. ~isFailAbort /\ sindex' = service_cnt
        BY <2>6, <3>2, <4>1 DEF RequestsExhausted
      <4>3. outcome' = Unsent(EnabledIn(sindex, service_cnt))
        BY <2>6 DEF RequestsExhausted
      <4> QED
        BY <3>1, <4>1, <4>2, <4>3 DEF Unsent
    <3>3. CASE ~Enabled(service_cnt - 1)
      BY <2>6, <3>3 DEF RequestsExhausted, Finish
    <3> QED
      BY <3>2, <3>3
  <2>7. ASSUME NEW bytes, Answered(bytes)
        PROVE  Told
    <3>1. PICK opens \in BOOLEAN : Abort(bytes, opens) \/ GoOn(bytes, opens)
      BY <2>7 DEF Answered
    <3> QED
      BY <1>1, <3>1 DEF Abort, GoOn, Finish, RequestStart
  <2>8. CASE ResponseTimeout \/ \E bytes \in Responses : Response(bytes)
    BY <2>7, <2>8 DEF ResponseTimeout, Response
  <2> QED
    BY <1>1, <2>3, <2>4, <2>5, <2>6, <2>8, NextCases
<1>2. ControlInv /\ [Next]_vars => [RunEndsTold]_vars
  BY <1>1
<1>3. QED
  BY <1>2, ControlCorrect, PTL DEF Spec, EndIsReported

-----------------------------------------------------------------------------
(***************************************************************************)
(* What a run passes by                                                    *)
(***************************************************************************)

\* A response or a timeout gives the current item its outcome, unless the item is
\* executed again, and goes on with the next enabled item or behind the last.
LEMMA AnswerPasses ==
  ASSUME TypeOK, Active, NEW bytes, Answered(bytes)
  PROVE  /\ UNCHANGED <<service_items, service_cnt>>
         /\ \A i \in Slots : i # sindex => outcome'[i] = outcome[i]
         /\ \/ sindex' = -1 /\ verdict' # "normal"
            \/ sindex' = -1 /\ outcome'[sindex] # "none"
                 /\ \A i \in Slots : i > sindex => ~Enabled(i)
            \/ sindex' = sindex
            \/ /\ sindex' > sindex /\ sindex' \in Nat /\ outcome'[sindex] # "none"
               /\ \A i \in Slots : sindex < i /\ i < sindex' => ~Enabled(i)
<1>1. sindex \in Slots /\ sindex < service_cnt /\ service_cnt \in Nat
  BY SizeAssumption DEF TypeOK, ListOK, Active, Slots
<1>2. UNCHANGED <<service_items, service_cnt>>  BY DEF Answered, list
<1>3. PICK opens \in BOOLEAN : Abort(bytes, opens) \/ GoOn(bytes, opens)
  BY DEF Answered
<1>4. CASE Abort(bytes, opens)
  <2>1. \A i \in Slots : i # sindex => outcome'[i] = outcome[i]
    BY <1>4 DEF Abort, TypeOK, CountsOK
  <2>2. sindex' = -1 /\ verdict' # "normal"
    BY <1>4 DEF Abort, Finish, ServicesStop
  <2> QED  BY <1>2, <2>1, <2>2
<1>5. CASE GoOn(bytes, opens)
  <2>1. \A i \in Slots : i # sindex => outcome'[i] = outcome[i]
    BY <1>5 DEF GoOn, TypeOK, CountsOK
  <2>2. PICK again \in BOOLEAN :
          /\ ~again => outcome'[sindex] # "none"
          /\ \/ \E i \in sindex..(service_cnt - 1) :
                  /\ IF again THEN i = sindex ELSE i > sindex /\ IsNext(sindex + 1, i)
                  /\ RequestStart(i)
             \/ /\ ~again
                /\ IsNext(sindex + 1, service_cnt)
                /\ sindex' = -1
    <3> DEFINE again == HandledBy(bytes, opens).keep
                          \/ KeptByRule(CurrentItem, finish_try_num[sindex], bytes)
    <3>1. CASE again
      <4>1. \E i \in sindex..(service_cnt - 1) : i = sindex /\ RequestStart(i)
        BY <1>5, <3>1 DEF GoOn
      <4> QED  BY <4>1
    <3>2. CASE ~again
      <4>1. \/ \E i \in sindex..(service_cnt - 1) :
                  i > sindex /\ IsNext(sindex + 1, i) /\ RequestStart(i)
            \/ IsNext(sindex + 1, service_cnt) /\ sindex' = -1
        BY <1>5, <3>2 DEF GoOn, Finish, ServicesStop
      <4>2. outcome'[sindex] # "none"
        BY <1>1, <1>5, <3>2 DEF GoOn, TypeOK, CountsOK
      <4> QED  BY <4>1, <4>2
    <3> QED  BY <3>1, <3>2
  <2>3. ASSUME NEW j \in Nat, IsNext(sindex + 1, j), NEW i \in Slots,
               sindex < i, i < j
        PROVE  ~Enabled(i)
    BY <1>1, <2>3 DEF IsNext, EnabledIn, Slots
  <2>4. CASE \E i \in sindex..(service_cnt - 1) :
               /\ IF again THEN i = sindex ELSE i > sindex /\ IsNext(sindex + 1, i)
               /\ RequestStart(i)
    <3>1. PICK i \in sindex..(service_cnt - 1) :
            /\ IF again THEN i = sindex ELSE i > sindex /\ IsNext(sindex + 1, i)
            /\ sindex' = i
      BY <2>4 DEF RequestStart
    <3>2. i \in Nat  BY <1>1, <3>1 DEF Slots
    <3>3. CASE again  BY <1>2, <2>1, <3>1, <3>3
    <3>4. CASE ~again
      <4>1. \A k \in Slots : sindex < k /\ k < i => ~Enabled(k)
        BY <2>3, <3>1, <3>2, <3>4
      <4> QED  BY <1>2, <2>1, <2>2, <3>1, <3>2, <3>4, <4>1
    <3> QED  BY <3>3, <3>4
  <2>5. CASE ~again /\ IsNext(sindex + 1, service_cnt) /\ sindex' = -1
    <3>1. ASSUME NEW i \in Slots, i > sindex  PROVE  ~Enabled(i)
      <4>1. i < service_cnt => ~Enabled(i)  BY <1>1, <2>3, <2>5, <3>1 DEF Slots
      <4> QED  BY <4>1 DEF Enabled
    <3> QED  BY <1>2, <2>1, <2>2, <2>5, <3>1
  <2> QED  BY <2>2, <2>4, <2>5
<1> QED  BY <1>3, <1>4, <1>5

\* Every step leaves an outcome for what the run has passed by.
LEMMA CoverStep ==
  ASSUME CoverInv, [Next]_vars
  PROVE  CoverInv'
<1> USE SizeAssumption
<1>1. TypeOK /\ BehindIsDone /\ TypeOK' /\ ControlInv'
  BY TypeStep, ControlStep DEF CoverInv, ControlInv
<1> SUFFICES BehindIsDone'  BY <1>1 DEF CoverInv
<1>2. service_cnt \in Nat /\ sindex \in Int /\ sindex <= service_cnt /\ Slots \subseteq Nat
  BY <1>1 DEF TypeOK, ListOK, Slots
<1>3. ASSUME UNCHANGED <<service_items, service_cnt, sindex, outcome>>
      PROVE  BehindIsDone'
  BY <1>1, <1>3 DEF BehindIsDone, Enabled
<1>4. ASSUME sindex' = -1  PROVE  BehindIsDone'
  BY <1>4 DEF BehindIsDone
<1>5. CASE UdscCreate \/ SaKey \/ StaleTimeout \/ UNCHANGED vars
  BY <1>3, <1>5 DEF UdscCreate, SaKey, StaleTimeout, list, items, vars
<1>6. CASE \E a, e, r \in BOOLEAN : GeneralConfig(a, e, r)
  BY <1>3, <1>6 DEF GeneralConfig, list, items
<1>7. CASE \E bytes \in Responses : ResponsePending(bytes)
  BY <1>3, <1>7 DEF ResponsePending, list, items
<1>8. CASE StopScript \/ UdscDestory \/ MasterReset \/ RequestAborted
  BY <1>4, <1>8 DEF StopScript, ServicesStop, UdscDestory, MasterReset, Cleared,
                    RequestAborted, Finish
<1>9. ASSUME NEW item \in Items, ItemAdd(item)  PROVE  BehindIsDone'
  <2>1. sindex' = sindex /\ service_cnt' = service_cnt + 1
    BY <1>9 DEF ItemAdd
  <2>2. \A i \in Slots : i < sindex =>
          outcome'[i] = outcome[i] /\ service_items'[i] = service_items[i]
    BY <1>1, <1>2, <1>9 DEF ItemAdd, TypeOK, ListOK, CountsOK
  <2>3. ASSUME NEW i \in Slots, sindex >= 0, i < sindex, Enabled(i)'
        PROVE  outcome'[i] # "none"
    <3>1. Enabled(i)  BY <1>2, <2>2, <2>3 DEF Enabled
    <3> QED  BY <1>1, <2>2, <2>3, <3>1 DEF BehindIsDone
  <2> QED  BY <2>1, <2>3 DEF BehindIsDone
<1>10. CASE ServicesStart
  <2>1. PICK j \in 0..service_cnt : IsNext(0, j) /\ sindex' = j
    BY <1>10 DEF ServicesStart
  <2>2. \A i \in Slots : i < j => ~Enabled(i)
    BY <1>2, <2>1 DEF IsNext, EnabledIn
  <2>3. UNCHANGED <<service_items, service_cnt>>
    BY <1>10 DEF ServicesStart, list
  <2> QED  BY <2>1, <2>2, <2>3 DEF BehindIsDone, Enabled
<1>11. CASE RequestSent
  <2>1. UNCHANGED <<service_items, service_cnt>> /\ sindex >= 0
    BY <1>11 DEF RequestSent, list, Active
  <2>2. PICK j \in sindex..(service_cnt - 1) :
          sindex' = j /\ outcome' = Unsent(EnabledIn(sindex, j))
    BY <1>11 DEF RequestSent
  <2>3. ASSUME NEW i \in Slots, i < j, Enabled(i)
        PROVE  outcome'[i] # "none"
    <3>1. CASE i < sindex
      BY <1>1, <2>1, <2>2, <2>3, <3>1 DEF BehindIsDone, Unsent
    <3>2. CASE i >= sindex
      BY <1>2, <2>1, <2>2, <2>3, <3>2 DEF Unsent, EnabledIn
    <3> QED  BY <1>2, <3>1, <3>2
  <2> QED  BY <2>1, <2>2, <2>3 DEF BehindIsDone, Enabled
<1>12. CASE RequestsExhausted
  <2>1. CASE Enabled(service_cnt - 1)
    <3>1. UNCHANGED <<service_items, service_cnt>> /\ sindex >= 0
          /\ sindex' = service_cnt /\ outcome' = Unsent(EnabledIn(sindex, service_cnt))
      BY <1>12, <2>1 DEF RequestsExhausted, list, Active
    <3>2. ASSUME NEW i \in Slots, Enabled(i)  PROVE  outcome'[i] # "none"
      <4>1. CASE i < sindex
        BY <1>1, <3>1, <3>2, <4>1 DEF BehindIsDone, Unsent
      <4>2. CASE i >= sindex
        BY <1>2, <3>1, <3>2, <4>2 DEF Unsent, EnabledIn, Enabled
      <4> QED  BY <1>2, <4>1, <4>2
    <3> QED  BY <3>1, <3>2 DEF BehindIsDone, Enabled
  <2>2. CASE ~Enabled(service_cnt - 1)
    BY <1>4, <1>12, <2>2 DEF RequestsExhausted, Finish, ServicesStop
  <2> QED  BY <2>1, <2>2
<1>13. ASSUME NEW bytes, Active, Answered(bytes)  PROVE  BehindIsDone'
  <2>1. /\ UNCHANGED <<service_items, service_cnt>> /\ sindex >= 0
        /\ \A i \in Slots : i # sindex => outcome'[i] = outcome[i]
    BY <1>1, <1>13, AnswerPasses DEF Active
  <2>2. CASE sindex' = sindex
    <3>1. \A i \in Slots : i < sindex => outcome'[i] = outcome[i]  BY <1>2, <2>1
    <3> QED  BY <1>1, <2>1, <2>2, <3>1 DEF BehindIsDone, Enabled
  <2>3. CASE /\ sindex' > sindex /\ sindex' \in Nat /\ outcome'[sindex] # "none"
             /\ \A i \in Slots : sindex < i /\ i < sindex' => ~Enabled(i)
    <3>1. ASSUME NEW i \in Slots, i < sindex', Enabled(i)
          PROVE  outcome'[i] # "none"
      <4>1. CASE i < sindex  BY <1>1, <1>2, <2>1, <3>1, <4>1 DEF BehindIsDone
      <4>2. CASE i = sindex  BY <2>3, <4>2
      <4>3. ~(sindex < i)  BY <2>3, <3>1
      <4> QED  BY <1>2, <4>1, <4>2, <4>3
    <3> QED  BY <2>1, <3>1 DEF BehindIsDone, Enabled
  <2> QED  BY <1>1, <1>4, <1>13, <2>2, <2>3, AnswerPasses
<1>14. CASE (\E bytes \in Responses : Response(bytes)) \/ ResponseTimeout
  BY <1>13, <1>14 DEF Response, Delivered, ResponseTimeout
<1> QED
  BY <1>5, <1>6, <1>7, <1>8, <1>9, <1>10, <1>11, <1>12, <1>14, NextCases

\* A client that does not run.
LEMMA CoverInit == Init => CoverInv
<1>1. Init => ControlInv
  BY InitType, NothingHeld
     DEF Init, ControlInv, RequestTimerActive, RunHasTimer, ReportedIsQuiet,
         OwedReport, AheadIsOpen, StoppedIsReleased
<1> QED  BY <1>1 DEF Init, CoverInv, BehindIsDone

\* A normal result says that every enabled item of the list was passed: whatever
\* the order of timeouts, late responses, failing sends and items added on the way,
\* none was lost between two handlers.
THEOREM NormalIsComplete == Spec => NormalCoversList
<1> DEFINE Covers ==
      reports' > reports /\ verdict' = "normal"
        => \A i \in Slots : Enabled(i) => outcome'[i] # "none"
<1>1. ASSUME CoverInv, [Next]_vars, reports' > reports, verdict' = "normal",
             NEW i \in Slots, Enabled(i)
      PROVE  outcome'[i] # "none"
  <2>1. TypeOK /\ BehindIsDone  BY <1>1 DEF CoverInv, ControlInv
  <2>2. /\ service_cnt \in Nat /\ sindex \in Int /\ Slots \subseteq Nat
        /\ reports \in Nat /\ i < service_cnt /\ i \in Nat
    BY <1>1, <2>1, SizeAssumption DEF TypeOK, ListOK, CountsOK, Slots, Enabled
  <2>3. ~UNCHANGED reports  BY <1>1, <2>2
  <2>4. ~(\E item \in Items : ItemAdd(item)) /\ ~UdscCreate /\ ~SaKey
        /\ ~ServicesStart /\ ~StopScript /\ ~UdscDestory /\ ~MasterReset
        /\ ~RequestSent /\ ~StaleTimeout /\ ~UNCHANGED vars
    BY <2>3 DEF ItemAdd, UdscCreate, SaKey, ServicesStart, StopScript, UdscDestory,
                MasterReset, RequestSent, StaleTimeout, history, vars
  <2>5. ~\E a, e, r \in BOOLEAN : GeneralConfig(a, e, r)
    BY <2>3 DEF GeneralConfig, history
  <2>6. ~\E bytes \in Responses : ResponsePending(bytes)
    BY <2>3 DEF ResponsePending
  <2>7. ~RequestAborted
    BY <1>1 DEF RequestAborted, Finish
  <2>8. CASE RequestsExhausted
    <3>1. sindex >= 0 /\ outcome' = Unsent(EnabledIn(sindex, service_cnt))
      BY <2>8 DEF RequestsExhausted, Active
    <3>2. CASE i < sindex
      BY <1>1, <2>1, <3>1, <3>2 DEF BehindIsDone, Unsent
    <3>3. CASE i >= sindex
      BY <1>1, <2>2, <3>1, <3>3 DEF Unsent, EnabledIn
    <3> QED  BY <2>2, <3>2, <3>3
  <2>9. ASSUME NEW bytes, Active, Answered(bytes)
        PROVE  outcome'[i] # "none"
    <3>1. PICK opens \in BOOLEAN : Abort(bytes, opens) \/ GoOn(bytes, opens)
      BY <2>9 DEF Answered
    <3>2. ~Abort(bytes, opens)
      BY <1>1 DEF Abort, Finish
    <3>3. sindex' = -1
      BY <2>3, <3>1, <3>2 DEF GoOn, Finish, ServicesStop
    <3>4. sindex >= 0 /\ \A k \in Slots : k # sindex => outcome'[k] = outcome[k]
      BY <2>1, <2>9, AnswerPasses DEF Active
    <3>5. outcome'[sindex] # "none" /\ \A k \in Slots : k > sindex => ~Enabled(k)
      BY <1>1, <2>1, <2>9, <3>3, <3>4, AnswerPasses
    <3>6. CASE i < sindex
      BY <1>1, <2>1, <2>2, <3>4, <3>6 DEF BehindIsDone
    <3> QED  BY <1>1, <2>2, <3>5, <3>6
  <2>10. CASE (\E bytes \in Responses : Response(bytes)) \/ ResponseTimeout
    BY <2>9, <2>10 DEF Response, Delivered, ResponseTimeout
  <2> QED  BY <1>1, <2>4, <2>5, <2>6, <2>7, <2>8, <2>10, NextCases
<1>2. CoverInv /\ [Next]_vars => [Covers]_vars
  BY <1>1
<1>3. CoverInv /\ [Next]_vars => CoverInv'  BY CoverStep
<1> QED  BY <1>2, <1>3, CoverInit, PTL DEF Spec, NormalCoversList

-----------------------------------------------------------------------------
(***************************************************************************)
(* How often an item is sent                                               *)
(***************************************************************************)

\* Only a block of a transfer is sent again by its handler.
LEMMA OnlyBlocksAgain ==
  ASSUME NEW bytes, NEW opens, bytes.sid # "TD" \/ IsTimeout(bytes)
  PROVE  ~HandledBy(bytes, opens).keep
<1>1. \A c, ok : ~Handled(c, ok, FALSE).keep  BY DEF Handled
<1>2. \A c : ~TdSet(c, opens).keep  BY <1>1 DEF TdSet
<1>3. \A c : ~SeedResponse(c, bytes).keep  BY <1>1 DEF SeedResponse
<1>4. CASE IsTimeout(bytes)
  BY <1>4 DEF HandledBy, Handled
<1>5. CASE ~IsTimeout(bytes)
  <2>1. bytes.sid # "TD"  BY <1>5
  <2>2. ~Handle(common, bytes, opens).keep
    <3>1. CASE bytes.sid = "SA"  BY <1>3, <3>1 DEF Handle
    <3>2. CASE bytes.sid = "RFT"  BY <1>2, <3>2 DEF Handle, FileResponse
    <3>3. CASE bytes.sid = "RD"  BY <1>2, <3>3 DEF Handle, DownloadResponse
    <3>4. CASE bytes.sid = "RTE"  BY <1>1, <3>4 DEF Handle
    <3>5. CASE bytes.sid \notin {"SA", "RFT", "RD", "TD", "RTE"}
      BY <1>1, <3>5 DEF Handle
    <3> QED  BY <2>1, <3>1, <3>2, <3>3, <3>4, <3>5
  <2> QED  BY <1>5, <2>2 DEF HandledBy
<1> QED  BY <1>4, <1>5

\* An item that was sent for its tries stays within its bound.
LEMMA CountedIsBounded ==
  ASSUME NEW item \in Items, NEW n \in Nat, NEW tries \in Nat, Counted(item, n, tries)
  PROVE  n <= Repeats(item) + 1
<1>1. item.finish_num_max \in Nat  BY ItemsAssumption DEF Item
<1>2. CASE n <= 1
  <2>1. Repeats(item) \in Nat  BY <1>1 DEF Repeats
  <2> QED  BY <1>2, <2>1
<1>3. CASE n > 1
  <2>1. 2 * (n - 1) <= item.finish_num_max + 1 /\ item.finish_rule # "default"
    BY <1>1, <1>3 DEF Counted
  <2>2. n - 1 <= (item.finish_num_max + 1) \div 2  BY <1>1, <2>1
  <2> QED  BY <1>1, <2>1, <2>2 DEF Repeats
<1> QED  BY <1>2, <1>3

\* An item that is executed again has two more tries, and its rule had room for one.
LEMMA AgainIsCounted ==
  ASSUME NEW item \in Items, NEW n \in Nat, NEW tries \in Nat,
         NEW armed \in {0, 1}, Counted(item, n + armed, tries),
         NEW bytes, KeptByRule(item, tries, bytes)
  PROVE  Counted(item, n + 1, Tried(item, tries) + 1)
<1>1. item.finish_num_max \in Nat  BY ItemsAssumption DEF Item
<1>2. item.finish_rule # "default" /\ Tried(item, tries) = tries + 1
      /\ tries + 1 <= item.finish_num_max
  BY <1>1 DEF KeptByRule, Tried
<1>3. 2 * n <= tries + 2  BY DEF Counted
<1> QED  BY <1>1, <1>2, <1>3 DEF Counted

\* A response or a timeout: the current item is to be sent again, or was sent as
\* often as it may.
LEMMA AnswerRetries ==
  ASSUME TypeOK, RetryBound, TriesAreCounted, Active, TypeOK',
         NEW bytes, bytes.sid = CurrentItem.sid \/ IsTimeout(bytes), Answered(bytes)
  PROVE  TriesAreCounted' /\ RetryBound'
<1>1. /\ sindex \in Slots /\ sindex < service_cnt /\ service_cnt \in Nat
      /\ Slots \subseteq Nat /\ CurrentItem \in Items
  BY SizeAssumption DEF TypeOK, ListOK, Active, Slots, CurrentItem
<1>2. UNCHANGED <<service_items, service_cnt, sends>>  BY DEF Answered, list
<1>3. \A i \in Slots : sends[i] \in Nat /\ finish_try_num[i] \in Nat
  BY DEF TypeOK, CountsOK
<1>4. RetryBound'  BY <1>2 DEF RetryBound
<1>5. \A i \in Slots : i > sindex => sends[i] = 0
  BY <1>1 DEF TriesAreCounted
<1>6. PICK opens \in BOOLEAN : Abort(bytes, opens) \/ GoOn(bytes, opens)
  BY DEF Answered
<1>7. CASE sindex' = -1
  BY <1>4, <1>7 DEF TriesAreCounted
<1>8. CASE sindex' # -1
  <2>1. GoOn(bytes, opens)
    BY <1>6, <1>8 DEF Abort, Finish, ServicesStop
  <2> DEFINE tries == finish_try_num[sindex]
             again == \/ HandledBy(bytes, opens).keep
                      \/ KeptByRule(CurrentItem, tries, bytes)
  <2>2. PICK i \in sindex..(service_cnt - 1) :
          /\ IF again THEN i = sindex ELSE i > sindex
          /\ sindex' = i /\ requestTimer' = TRUE
    BY <1>8, <2>1 DEF GoOn, Finish, ServicesStop, RequestStart
  <2>3. i \in Slots /\ i \in Nat  BY <1>1, <2>2, SizeAssumption DEF TypeOK, ListOK, Slots
  <2>4. CASE ~again
    <3>1. \A k \in Slots : k >= i => sends[k] = 0
      BY <1>1, <1>5, <2>2, <2>3, <2>4
    <3>2. finish_try_num'[i] \in Nat  BY <2>3 DEF TypeOK, CountsOK
    <3>3. Counted(service_items[i], 0 + 1, finish_try_num'[i])
      BY <3>2 DEF Counted
    <3>4. sends[i] = 0  BY <2>3, <3>1
    <3> QED  BY <1>1, <1>2, <1>4, <2>2, <2>3, <3>1, <3>3, <3>4 DEF TriesAreCounted
  <2>5. CASE again
    <3>1. i = sindex  BY <2>2, <2>5
    <3>2. ASSUME CurrentItem.sid # "TD"
          PROVE  Counted(CurrentItem, sends[sindex] + 1, finish_try_num'[sindex])
      <4>1. KeptByRule(CurrentItem, tries, bytes)
        BY <2>5, <3>2, OnlyBlocksAgain
      <4>2. finish_try_num'[sindex] = Tried(CurrentItem, tries) + 1
        BY <1>1, <2>1, <2>5 DEF GoOn, TypeOK, CountsOK
      <4>3. PICK armed \in {0, 1} :
              Counted(CurrentItem, sends[sindex] + armed, tries)
        BY <1>1, <3>2 DEF TriesAreCounted, CurrentItem
      <4>4. Counted(CurrentItem, sends[sindex] + 1, Tried(CurrentItem, tries) + 1)
        BY <1>1, <1>3, <4>1, <4>3, AgainIsCounted
      <4> QED  BY <4>2, <4>4
    <3> QED
      BY <1>1, <1>2, <1>4, <1>5, <2>2, <3>1, <3>2 DEF TriesAreCounted, CurrentItem
  <2> QED  BY <2>4, <2>5
<1> QED  BY <1>7, <1>8

\* Every step keeps the tries counted.
LEMMA RetryStep ==
  ASSUME RetryInv, [Next]_vars
  PROVE  RetryInv'
<1> USE SizeAssumption
<1>1. /\ TypeOK /\ RequestTimerActive /\ TriesAreCounted /\ RetryBound
      /\ TypeOK' /\ ControlInv'
  BY TypeStep, ControlStep DEF RetryInv, ControlInv
<1> SUFFICES TriesAreCounted' /\ RetryBound'  BY <1>1 DEF RetryInv
<1>2. /\ service_cnt \in Nat /\ sindex \in Int /\ sindex <= service_cnt
      /\ Slots \subseteq Nat
      /\ \A i \in Slots : /\ sends[i] \in Nat /\ finish_try_num[i] \in Nat
                          /\ i < service_cnt => service_items[i] \in Items
  BY <1>1 DEF TypeOK, ListOK, CountsOK, Slots
<1>3. ASSUME UNCHANGED <<service_items, service_cnt, sindex, requestTimer,
                         finish_try_num, sends>>
      PROVE  TriesAreCounted' /\ RetryBound'
  BY <1>1, <1>3 DEF TriesAreCounted, RetryBound
<1>4. ASSUME sindex' = -1, UNCHANGED <<service_items, service_cnt, sends>>
      PROVE  TriesAreCounted' /\ RetryBound'
  BY <1>1, <1>4 DEF TriesAreCounted, RetryBound
<1>5. CASE UdscCreate \/ SaKey \/ StaleTimeout \/ UNCHANGED vars
  BY <1>3, <1>5 DEF UdscCreate, SaKey, StaleTimeout, list, items, timers, vars
<1>6. CASE \E a, e, r \in BOOLEAN : GeneralConfig(a, e, r)
  BY <1>3, <1>6 DEF GeneralConfig, list, items, timers
<1>7. CASE \E bytes \in Responses : ResponsePending(bytes)
  BY <1>3, <1>7 DEF ResponsePending, list, items
<1>8. CASE StopScript \/ RequestAborted
  BY <1>4, <1>8 DEF StopScript, ServicesStop, RequestAborted, Finish, list, items
<1>9. CASE UdscDestory \/ MasterReset
  <2>1. service_cnt' = 0 /\ sindex' = -1
    BY <1>9 DEF UdscDestory, MasterReset, Cleared
  <2>2. \A i \in Slots : ~(i < 0)  BY <1>2
  <2>3. RetryBound'  BY <2>1, <2>2 DEF RetryBound
  <2>4. ~(-1 >= 0)  OBVIOUS
  <2> QED  BY <2>1, <2>3, <2>4 DEF TriesAreCounted
<1>10. ASSUME NEW item \in Items, ItemAdd(item)
       PROVE  TriesAreCounted' /\ RetryBound'
  <2>1. /\ service_cnt \in Slots /\ service_cnt' = service_cnt + 1
        /\ UNCHANGED <<sindex, requestTimer>>
    BY <1>1, <1>2, <1>10 DEF ItemAdd, timers, Slots, TypeOK, ListOK
  <2>2. /\ service_items'[service_cnt] = item /\ sends'[service_cnt] = 0
        /\ finish_try_num'[service_cnt] = 0
        /\ \A i \in Slots : i # service_cnt =>
             /\ service_items'[i] = service_items[i] /\ sends'[i] = sends[i]
             /\ finish_try_num'[i] = finish_try_num[i]
    BY <1>1, <1>10, <2>1 DEF ItemAdd, TypeOK, ListOK, CountsOK
  <2>3. Repeats(item) \in Nat
    <3>1. item.finish_num_max \in Nat  BY ItemsAssumption DEF Item
    <3> QED  BY <3>1 DEF Repeats
  <2>4. RetryBound'
    <3>1. ASSUME NEW i \in Slots, i < service_cnt + 1, service_items'[i].sid # "TD"
          PROVE  sends'[i] <= Repeats(service_items'[i]) + 1
      <4>1. CASE i = service_cnt  BY <2>2, <2>3, <4>1
      <4>2. CASE i # service_cnt
        BY <1>1, <1>2, <2>2, <3>1, <4>2 DEF RetryBound
      <4> QED  BY <4>1, <4>2
    <3> QED  BY <2>1, <3>1 DEF RetryBound
  <2>5. TriesAreCounted'
    <3>1. ASSUME NEW i \in Slots, sindex >= 0, i > sindex  PROVE  sends'[i] = 0
      BY <1>1, <2>2, <3>1 DEF TriesAreCounted
    <3>2. ASSUME NEW i \in Slots, i = sindex, service_items'[i].sid # "TD"
          PROVE  Counted(service_items'[i], sends'[i] + (IF requestTimer THEN 1 ELSE 0),
                         finish_try_num'[i])
      <4>1. CASE i = service_cnt
        <5>1. ~requestTimer  BY <1>1, <1>2, <3>2, <4>1 DEF RequestTimerActive, Active
        <5>2. Counted(item, 0 + 0, 0)  BY DEF Counted
        <5> QED  BY <2>2, <4>1, <5>1, <5>2
      <4>2. CASE i # service_cnt
        <5>1. i >= 0 /\ i < service_cnt /\ sindex >= 0  BY <1>2, <3>2, <4>2
        <5> QED  BY <1>1, <2>2, <3>2, <4>2, <5>1 DEF TriesAreCounted
      <4> QED  BY <4>1, <4>2
    <3> QED  BY <2>1, <3>1, <3>2 DEF TriesAreCounted
  <2> QED  BY <2>4, <2>5
<1>11. CASE ServicesStart
  <2>1. sindex' \in Nat /\ sends' = [i \in Slots |-> 0]
        /\ UNCHANGED <<service_items, service_cnt, finish_try_num>>
    BY <1>11 DEF ServicesStart, list
  <2>2. requestTimer' \in BOOLEAN  BY <1>1 DEF TypeOK, FlagsOK
  <2>3. \A i \in Slots : \A n \in {0, 1} :
          Counted(service_items[i], 0 + n, finish_try_num[i])
    BY <1>2 DEF Counted
  <2>4. RetryBound'
    <3>1. ASSUME NEW i \in Slots, i < service_cnt
          PROVE  0 <= Repeats(service_items[i]) + 1
      <4>1. service_items[i].finish_num_max \in Nat
        BY <1>2, <3>1, ItemsAssumption DEF Item
      <4> QED  BY <4>1 DEF Repeats
    <3> QED  BY <2>1, <3>1 DEF RetryBound
  <2> QED  BY <2>1, <2>2, <2>3, <2>4 DEF TriesAreCounted
<1>12. CASE RequestSent
  <2>1. UNCHANGED <<service_items, service_cnt, finish_try_num>> /\ sindex >= 0
        /\ requestTimer /\ ~requestTimer'
    BY <1>12 DEF RequestSent, list, Active
  <2>2. PICK j \in sindex..(service_cnt - 1) :
          sindex' = j /\ sends' = [sends EXCEPT ![j] = @ + 1]
    BY <1>12 DEF RequestSent
  <2>3. j \in Slots /\ j \in Nat /\ j >= sindex /\ j < service_cnt
    BY <1>1, <1>2, <2>1, <2>2 DEF TypeOK, ListOK, Slots
  <2>4. /\ sends'[j] = sends[j] + 1
        /\ \A i \in Slots : i # j => sends'[i] = sends[i]
    BY <1>1, <2>2, <2>3 DEF TypeOK, CountsOK
  <2>5. ASSUME service_items[j].sid # "TD"
        PROVE  Counted(service_items[j], sends[j] + 1, finish_try_num[j])
    <3>1. CASE j = sindex  BY <1>1, <2>1, <2>3, <2>5, <3>1 DEF TriesAreCounted
    <3>2. CASE j # sindex
      <4>1. sends[j] = 0  BY <1>1, <1>2, <2>1, <2>3, <3>2 DEF TriesAreCounted
      <4> QED  BY <1>2, <2>3, <4>1 DEF Counted
    <3> QED  BY <3>1, <3>2
  <2>6. TriesAreCounted'
    <3>1. \A i \in Slots : i > j => sends'[i] = 0
      BY <1>1, <1>2, <2>1, <2>3, <2>4 DEF TriesAreCounted
    <3>2. sends[j] + 1 + 0 = sends[j] + 1  BY <1>2, <2>3
    <3> QED  BY <2>1, <2>2, <2>3, <2>4, <2>5, <3>1, <3>2 DEF TriesAreCounted
  <2>7. RetryBound'
    <3>1. ASSUME NEW i \in Slots, i < service_cnt, service_items[i].sid # "TD"
          PROVE  sends'[i] <= Repeats(service_items[i]) + 1
      <4>1. CASE i = j
        <5>1. sends[j] + 1 \in Nat  BY <1>2, <2>3
        <5> QED  BY <1>2, <2>3, <2>4, <2>5, <3>1, <4>1, <5>1, CountedIsBounded
      <4>2. CASE i # j  BY <1>1, <2>4, <3>1, <4>2 DEF RetryBound
      <4> QED  BY <4>1, <4>2
    <3> QED  BY <2>1, <3>1 DEF RetryBound
  <2> QED  BY <2>6, <2>7
<1>13. CASE RequestsExhausted
  <2>1. UNCHANGED <<service_items, service_cnt, finish_try_num, sends>> /\ sindex >= 0
        /\ sindex < service_cnt
    BY <1>13 DEF RequestsExhausted, list, Active
  <2>2. CASE Enabled(service_cnt - 1)
    <3>1. sindex' = service_cnt  BY <1>13, <2>2 DEF RequestsExhausted
    <3>2. ASSUME NEW i \in Slots, i > service_cnt
          PROVE  sends[i] = 0
      <4>1. i > sindex
        BY <1>2, <2>1, <3>2 DEF Slots
      <4> QED
        BY <1>1, <2>1, <4>1 DEF TriesAreCounted
    <3> QED  BY <1>1, <1>2, <2>1, <3>1, <3>2 DEF TriesAreCounted, RetryBound
  <2>3. CASE ~Enabled(service_cnt - 1)
    BY <1>4, <1>13, <2>1, <2>3 DEF RequestsExhausted, Finish, ServicesStop
  <2> QED  BY <2>2, <2>3
<1>14. CASE \E bytes \in Responses : Response(bytes)
  BY <1>1, <1>14, AnswerRetries DEF Response, Delivered
<1>15. CASE ResponseTimeout
  BY <1>1, <1>15, AnswerRetries DEF ResponseTimeout, IsTimeout
<1> QED
  BY <1>5, <1>6, <1>7, <1>8, <1>9, <1>10, <1>11, <1>12, <1>13, <1>14, <1>15, NextCases

\* In one run no item but a transfer is sent more often than its finish rule allows,
\* whatever responses come late, twice, or while the request is still waiting.
THEOREM RetriesAreBounded == Spec => []RetryBound
<1>1. ASSUME Init  PROVE  RetryInv
  <2>1. ControlInv /\ service_cnt = 0 /\ sindex = -1 /\ Slots \subseteq Nat
    BY <1>1, CoverInit DEF CoverInv, Init, Slots
  <2> QED  BY <2>1 DEF RetryInv, TriesAreCounted, RetryBound
<1>2. RetryInv => RetryBound  BY DEF RetryInv
<1> QED  BY <1>1, <1>2, RetryStep, PTL DEF Spec

-----------------------------------------------------------------------------
(***************************************************************************)
(* The client implements the abstract run                                  *)
(***************************************************************************)

\* Each handler is one step of UdsRun, or none that UdsRun can see.
LEMMA RunStep ==
  ASSUME ControlInv, [Next]_vars
  PROVE  [Run!RunNext]_Run!runVars
<1> USE SizeAssumption DEF ControlInv, RequestTimerActive, RunHasTimer, Active, Phase
<1>1. /\ service_cnt \in 0..service_size /\ service_cnt' \in 0..service_size
      /\ sindex \in -1..service_cnt /\ sindex' \in -1..service_cnt'
      /\ running \in BOOLEAN /\ running' \in BOOLEAN
  BY TypeStep DEF TypeOK, ListOK, FlagsOK
<1>2. ASSUME UNCHANGED <<sindex, running, starts, reports>>
      PROVE  UNCHANGED Run!runVars
  BY <1>2 DEF Run!runVars
<1>3. CASE UdscCreate \/ SaKey \/ StaleTimeout \/ UNCHANGED vars
  BY <1>2, <1>3 DEF UdscCreate, SaKey, StaleTimeout, history, vars
<1>4. CASE \E item \in Items : ItemAdd(item)
  BY <1>2, <1>4 DEF ItemAdd, history
<1>5. CASE \E a, e, r \in BOOLEAN : GeneralConfig(a, e, r)
  BY <1>2, <1>5 DEF GeneralConfig, history
<1>6. CASE \E bytes \in Responses : ResponsePending(bytes)
  BY <1>2, <1>6 DEF ResponsePending
<1>7. CASE ServicesStart
  <2>1. ~running /\ sindex' >= 0
    BY <1>1, <1>7 DEF ServicesStart, list
  <2>2. Run!Open
    BY <1>1, <1>7, <2>1 DEF Run!Open, ServicesStart, list
  <2>3. QED
    BY <2>2 DEF Run!RunNext
<1>8. CASE StopScript \/ UdscDestory \/ MasterReset
  <2>1. Run!Cancel
    BY <1>8 DEF Run!Cancel, StopScript, ServicesStop, UdscDestory, MasterReset,
                Cleared
  <2>2. QED
    BY <2>1 DEF Run!RunNext
<1>9. ASSUME Active, NEW stat, NEW c, Finish(stat, c), UNCHANGED starts
      PROVE  Run!RunNext
  BY <1>1, <1>9 DEF Run!RunNext, Run!Report, Finish, ServicesStop
<1>10. CASE RequestSent
  <2>1. Run!Advance
    BY <1>1, <1>10 DEF Run!Advance, RequestSent, list, history
  <2>2. QED
    BY <2>1 DEF Run!RunNext
<1>11. CASE RequestAborted
  BY <1>9, <1>11 DEF RequestAborted
<1>12. CASE RequestsExhausted
  <2>1. CASE Enabled(service_cnt - 1)
    <3>1. Run!Strand
      BY <1>1, <1>12, <2>1 DEF Run!Strand, RequestsExhausted, list
    <3>2. QED
      BY <3>1 DEF Run!RunNext
  <2>2. CASE ~Enabled(service_cnt - 1)
    BY <1>9, <1>12, <2>2 DEF RequestsExhausted
  <2>3. QED
    BY <2>1, <2>2
<1>13. ASSUME NEW bytes, Active, Answered(bytes)
       PROVE  Run!RunNext
  <2>1. PICK opens \in BOOLEAN : Abort(bytes, opens) \/ GoOn(bytes, opens)
    BY <1>13 DEF Answered
  <2>2. CASE \E stat, c : Finish(stat, c)
    BY <1>9, <1>13, <2>2 DEF Answered
  <2>3. CASE ~\E stat, c : Finish(stat, c)
    <3>1. PICK i \in sindex..(service_cnt - 1) :
            RequestStart(i) /\ UNCHANGED <<reports, verdict>>
      BY <1>1, <2>1, <2>3 DEF Abort, GoOn
    <3>2. Run!Advance
      BY <1>1, <1>13, <3>1 DEF Run!Advance, RequestStart, Answered, list
    <3>3. QED
      BY <3>2 DEF Run!RunNext
  <2>4. QED
    BY <2>2, <2>3
<1>14. CASE (\E bytes \in Responses : Response(bytes)) \/ ResponseTimeout
  BY <1>13, <1>14 DEF Response, Delivered, ResponseTimeout
<1>15. QED
  BY <1>3, <1>4, <1>5, <1>6, <1>7, <1>8, <1>10, <1>11, <1>12, <1>14, NextCases

\* Every behaviour of the client is one the API was promised.
THEOREM RunImplemented == Spec => ImplementsRun
<1>1. Init => Run!RunInit
  BY DEF Init, Run!RunInit, Phase
<1>2. ControlInv /\ [Next]_vars => [Run!RunNext]_Run!runVars
  BY RunStep
<1>3. QED
  BY <1>1, <1>2, ControlCorrect, PTL DEF Spec, ImplementsRun, Run!RunSpec

-----------------------------------------------------------------------------
(***************************************************************************)
(* What the items share.  Prepared and BitOr are recursive: the first      *)
(* follows the list, the second the bits of its arguments.                 *)
(***************************************************************************)

Pairs == Nat \X Nat

Half(p) == <<p[1] \div 2, p[2] \div 2>>

LowBit(p) == IF 1 \in {p[1] % 2, p[2] % 2} THEN 1 ELSE 0

\* f takes the bits of two numbers together.
IsBitOr(f) ==
  f = [p \in Pairs |-> IF p = <<0, 0>> THEN 0 ELSE 2 * f[Half(p)] + LowBit(p)]

\* Pairs of numbers up to n.
Upto(n) == {p \in Pairs : p[1] <= n /\ p[2] <= n}

\* Halving makes a pair smaller, down to <<0, 0>>.
LEMMA HalfIsSmaller ==
  /\ \A p \in Pairs : Half(p) \in Pairs /\ LowBit(p) \in {0, 1}
  /\ \A p \in Upto(0) : p = <<0, 0>>
  /\ \A n \in Nat : \A p \in Upto(n + 1) : p # <<0, 0>> => Half(p) \in Upto(n)
  /\ \A p \in Pairs : p # <<0, 0>> =>
       /\ p[1] + p[2] \in Nat
       /\ p[1] + p[2] - 1 \in Nat
       /\ Half(p) \in Upto(p[1] \div 2 + p[2] \div 2)
       /\ p[1] \div 2 + p[2] \div 2 <= p[1] + p[2] - 1
<1>1. ASSUME NEW p \in Pairs
      PROVE  Half(p) \in Pairs /\ LowBit(p) \in {0, 1}
  <2>1. p[1] \in Nat /\ p[2] \in Nat
    BY DEF Pairs
  <2> QED
    BY <2>1 DEF Pairs, Half, LowBit
<1>2. ASSUME NEW p \in Upto(0)
      PROVE  p = <<0, 0>>
  BY DEF Upto, Pairs
<1>3. ASSUME NEW n \in Nat, NEW p \in Upto(n + 1), p # <<0, 0>>
      PROVE  Half(p) \in Upto(n)
  <2>1. p[1] \in Nat /\ p[2] \in Nat /\ p[1] <= n + 1 /\ p[2] <= n + 1
    BY DEF Pairs, Upto
  <2>2. p[1] \div 2 \in Nat /\ p[2] \div 2 \in Nat /\ p[1] \div 2 <= n /\ p[2] \div 2 <= n
    BY <2>1
  <2> QED
    BY <2>2 DEF Pairs, Upto, Half
<1>4. ASSUME NEW p \in Pairs, p # <<0, 0>>
      PROVE  /\ p[1] + p[2] \in Nat
             /\ p[1] + p[2] - 1 \in Nat
             /\ Half(p) \in Upto(p[1] \div 2 + p[2] \div 2)
             /\ p[1] \div 2 + p[2] \div 2 <= p[1] + p[2] - 1
  <2>1. PICK a \in Nat, b \in Nat : p = <<a, b>>
    BY DEF Pairs
  <2>2. a + b > 0
    BY <1>4, <2>1
  <2>3. a \div 2 \in Nat /\ b \div 2 \in Nat /\ a \div 2 + b \div 2 <= a + b - 1
    BY <2>2
  <2>4. Half(p) = <<a \div 2, b \div 2>> /\ p[1] = a /\ p[2] = b
    BY <2>1 DEF Half
  <2> QED
    BY <2>2, <2>3, <2>4 DEF Pairs, Upto
<1> QED
  BY <1>1, <1>2, <1>3, <1>4

\* There is such a function.
LEMMA BitOrExists == \E f : IsBitOr(f)
<1> DEFINE X == [Pairs -> Nat]
           F(g) == [p \in Pairs |-> IF p = <<0, 0>> THEN 0
                                    ELSE 2 * g[Half(p)] + LowBit(p)]
           G == [q \in Nat \X X |-> F(q[2])]
           zero == [p \in Pairs |-> 0]
<1>1. zero \in X
  OBVIOUS
<1>2. ASSUME NEW g \in X
      PROVE  F(g) \in X
  BY HalfIsSmaller
<1>3. G \in [Nat \X X -> X]
  BY <1>2
<1>4. PICK h : IsIterated(h, X, zero, G)
  <2> HIDE DEF X, G, zero
  <2> QED
    BY <1>1, <1>3, Recursion
<1>5. h \in [Nat -> X] /\ h[0] = zero /\ \A n \in Nat : h[n + 1] = F(h[n])
  <2>1. ASSUME NEW n \in Nat
        PROVE  h[n + 1] = F(h[n])
    <3>1. h[n] \in X /\ h[n + 1] = G[<<n, h[n]>>]
      <4> HIDE DEF X, G
      <4> QED
        BY <1>4 DEF IsIterated
    <3> QED
      BY <3>1
  <2> QED
    BY <1>4, <2>1 DEF IsIterated
<1>6. \A n \in Nat : \A p \in Pairs :
        h[n + 1][p] = IF p = <<0, 0>> THEN 0 ELSE 2 * h[n][Half(p)] + LowBit(p)
  <2> SUFFICES ASSUME NEW n \in Nat, NEW p \in Pairs
               PROVE  h[n + 1][p] = IF p = <<0, 0>> THEN 0
                                    ELSE 2 * h[n][Half(p)] + LowBit(p)
    OBVIOUS
  <2>1. PICK g : g = h[n]
    OBVIOUS
  <2>2. F(g)[p] = IF p = <<0, 0>> THEN 0 ELSE 2 * g[Half(p)] + LowBit(p)
    OBVIOUS
  <2>3. h[n + 1] = F(g)
    BY <1>5, <2>1
  <2> HIDE DEF F
  <2> QED
    BY <2>1, <2>2, <2>3
<1>7. \A p \in Pairs : h[0][p] = 0
  BY <1>5
<1> HIDE DEF F, G, X, zero
<1> DEFINE S == {n \in Nat : \A p \in Upto(n) : h[n + 1][p] = h[n][p]}
<1>8. 0 \in S
  <2> SUFFICES ASSUME NEW p \in Upto(0) PROVE h[0 + 1][p] = h[0][p]
    OBVIOUS
  <2>1. p \in Pairs /\ p = <<0, 0>>
    BY HalfIsSmaller DEF Upto
  <2> QED
    BY <1>6, <1>7, <2>1
<1>9. ASSUME NEW n \in Nat, n \in S
      PROVE  n + 1 \in S
  <2> SUFFICES ASSUME NEW p \in Upto(n + 1)
               PROVE  h[(n + 1) + 1][p] = h[n + 1][p]
    OBVIOUS
  <2>1. p \in Pairs /\ n + 1 \in Nat
    BY DEF Upto
  <2>2. CASE p = <<0, 0>>
    BY <1>6, <2>1, <2>2
  <2>3. CASE p # <<0, 0>>
    <3>1. Half(p) \in Upto(n)
      BY <2>3, HalfIsSmaller
    <3>2. h[n + 1][Half(p)] = h[n][Half(p)]
      BY <1>9, <3>1
    <3>3. h[(n + 1) + 1][p] = 2 * h[n + 1][Half(p)] + LowBit(p)
      BY <1>6, <2>1, <2>3
    <3>4. h[n + 1][p] = 2 * h[n][Half(p)] + LowBit(p)
      BY <1>6, <2>1, <2>3
    <3> QED
      BY <3>2, <3>3, <3>4
  <2> QED
    BY <2>2, <2>3
<1> HIDE DEF S
<1>10. Nat \subseteq S
  BY <1>8, <1>9, Induction
<1>11. \A n \in Nat : \A p \in Upto(n) : h[n + 1][p] = h[n][p]
  BY <1>10 DEF S
<1>12. ASSUME NEW m \in Nat, NEW q \in Upto(m), NEW n \in Nat, m <= n
       PROVE  h[n][q] = h[m][q]
  <2> DEFINE T == {d \in Nat : h[m + d][q] = h[m][q]}
  <2>1. 0 \in T
    OBVIOUS
  <2>2. ASSUME NEW d \in Nat, d \in T
        PROVE  d + 1 \in T
    <3>1. m + d \in Nat /\ q \in Upto(m + d) /\ (m + d) + 1 = m + (d + 1)
      BY DEF Upto, Pairs
    <3>2. h[(m + d) + 1][q] = h[m + d][q]
      BY <1>11, <3>1
    <3> QED
      BY <2>2, <3>1, <3>2
  <2> HIDE DEF T
  <2>3. Nat \subseteq T
    BY <2>1, <2>2, Induction
  <2>4. n - m \in T /\ m + (n - m) = n
    BY <1>12, <2>3
  <2> QED
    BY <2>4 DEF T
<1> DEFINE f == [p \in Pairs |-> h[p[1] + p[2]][p]]
<1>13. ASSUME NEW p \in Pairs
       PROVE  h[p[1] + p[2]][p] =
                IF p = <<0, 0>> THEN 0 ELSE 2 * f[Half(p)] + LowBit(p)
  <2>1. CASE p = <<0, 0>>
    BY <1>7, <2>1 DEF Pairs
  <2>2. CASE p # <<0, 0>>
    <3>1. PICK n \in Nat : n = p[1] + p[2] - 1
      BY <2>2, HalfIsSmaller
    <3>2. PICK q \in Pairs : q = Half(p)
      BY HalfIsSmaller
    <3>3. PICK m \in Nat : m = p[1] \div 2 + p[2] \div 2
      BY DEF Pairs
    <3>4. q \in Upto(m) /\ m <= n /\ n + 1 = p[1] + p[2] /\ m = q[1] + q[2]
      BY <2>2, <3>1, <3>2, <3>3, HalfIsSmaller DEF Half, Pairs
    <3>5. h[n][q] = h[m][q]
      BY <1>12, <3>4
    <3>6. f[q] = h[m][q]
      BY <3>4
    <3>7. h[n + 1][p] = 2 * h[n][q] + LowBit(p)
      BY <1>6, <2>2, <3>2
    <3> HIDE DEF f
    <3> QED
      BY <2>2, <3>2, <3>4, <3>5, <3>6, <3>7
  <2> QED
    BY <2>1, <2>2
<1>14. IsBitOr(f)
  BY <1>13 DEF IsBitOr
<1> QED
  BY <1>14

\* The bits of two numbers together are a number.
LEMMA BitOrType ==
  ASSUME NEW a \in Nat, NEW b \in Nat
  PROVE  BitOr[<<a, b>>] \in Nat
<1>1. BitOr = CHOOSE f : IsBitOr(f)
  BY DEF BitOr, IsBitOr, Pairs, Half, LowBit
<1>2. IsBitOr(BitOr)
  BY <1>1, BitOrExists
<1>3. \A p \in Pairs :
        BitOr[p] = IF p = <<0, 0>> THEN 0 ELSE 2 * BitOr[Half(p)] + LowBit(p)
  <2>1. PICK g : g = [p \in Pairs |-> IF p = <<0, 0>> THEN 0
                                      ELSE 2 * BitOr[Half(p)] + LowBit(p)]
    OBVIOUS
  <2>2. BitOr = g
    BY <1>2, <2>1, Zenon DEF IsBitOr
  <2> HIDE DEF BitOr
  <2>3. \A p \in Pairs :
          g[p] = IF p = <<0, 0>> THEN 0 ELSE 2 * BitOr[Half(p)] + LowBit(p)
    BY <2>1
  <2> QED
    BY <2>2, <2>3, Zenon
<1> HIDE DEF BitOr
<1> DEFINE S == {n \in Nat : \A p \in Upto(n) : BitOr[p] \in Nat}
<1>4. 0 \in S
  <2> SUFFICES ASSUME NEW p \in Upto(0) PROVE BitOr[p] \in Nat
    OBVIOUS
  <2> QED
    BY <1>3, HalfIsSmaller DEF Upto
<1>5. ASSUME NEW n \in Nat, n \in S
      PROVE  n + 1 \in S
  <2> SUFFICES ASSUME NEW p \in Upto(n + 1) PROVE BitOr[p] \in Nat
    OBVIOUS
  <2>1. p \in Pairs
    BY DEF Upto
  <2>2. p # <<0, 0>> => BitOr[Half(p)] \in Nat
    BY <1>5, HalfIsSmaller
  <2>3. LowBit(p) \in Nat
    BY <2>1, HalfIsSmaller
  <2> QED
    BY <1>3, <2>1, <2>2, <2>3
<1> HIDE DEF S
<1>6. Nat \subseteq S
  BY <1>4, <1>5, Induction
<1>7. <<a, b>> \in Upto(a + b) /\ a + b \in Nat
  BY DEF Upto, Pairs
<1> QED
  BY <1>6, <1>7 DEF S

\* The lesser of two numbers is one of them.
LEMMA LesserIs ==
  ASSUME NEW a \in Nat, NEW b \in Nat
  PROVE  Lesser(a, b) \in Nat /\ Lesser(a, b) <= a /\ Lesser(a, b) <= b
  BY DEF Lesser

\* What the shared data, the bytes of a request and what the ECU has taken start from.
LEMMA NewData ==
  /\ NewCommon \in Common
  /\ NewRequest \in Request
  /\ NothingTaken \in Takings
  /\ FileOpened \in Takings
  BY WordAssumption, ByteAssumption, FileAssumption
  DEF NewCommon, Common, NewRequest, Request, NothingTaken, FileOpened, Takings

\* What an ECU has taken stays within the file and the width of the number.
LEMMA TakenType ==
  ASSUME DataOK
  PROVE  /\ \A S : TakenWithout(S) \in Takings
         /\ \A bytes, met : TakenAfter(bytes, met) \in Takings
<1>1. taken \in Takings /\ common.pos \in 0..FileSize
  BY DEF DataOK, Common
<1>2. BlockTaken \in Takings
  <2>1. (taken.next + 1) % Byte \in 0..(Byte - 1)
    BY <1>1, ByteAssumption DEF Takings
  <2> QED
    BY <1>1, <2>1 DEF BlockTaken, Takings
<1> QED
  BY <1>1, <1>2, NewData DEF TakenWithout, TakenAfter

\* A block is read within the file.
LEMMA ReadBlockType ==
  ASSUME NEW c \in Common, NEW q \in Request, NEW limit \in 0..(Word - 1)
  PROVE  /\ ReadBlock(c, q, limit).common \in Common
         /\ ReadBlock(c, q, limit).request \in Request
<1> DEFINE b == IF limit > 0 THEN Lesser(c.block, limit) ELSE c.block
           d == [c EXCEPT !.block = b]
           n == Lesser(Payload(d), FileSize - d.pos)
<1>1. b \in 0..(Word - 1)
  BY LesserIs DEF Common, Lesser
<1>2. d \in Common
  BY <1>1 DEF Common
<1>3. Payload(d) \in Nat
  BY <1>2, WordAssumption DEF Payload, Common
<1>4. n \in Nat /\ n <= FileSize - d.pos
  <2>1. FileSize - d.pos \in Nat
    BY <1>2, FileAssumption DEF Common
  <2> QED
    BY <1>3, <2>1, LesserIs
<1>5. (IF limit > 0 THEN [c EXCEPT !.block = Lesser(@, limit)] ELSE c) = d
  BY DEF Common
<1>6. ReadBlock(c, q, limit) =
        IF ~c.buff \/ ~c.fd
        THEN [common |-> [d EXCEPT !.total = 0, !.size = 0], request |-> q]
        ELSE IF n > 0
        THEN [common  |-> [d EXCEPT !.pos = @ + n],
              request |-> [q EXCEPT !.count = c.count, !.len = n]]
        ELSE [common |-> d, request |-> q]
  <2>1. d.pos = c.pos
    BY DEF Common
  <2> HIDE DEF d
  <2> QED
    BY <1>5, <2>1, Zenon DEF ReadBlock
<1> HIDE DEF d, n
<1>7. [d EXCEPT !.total = 0, !.size = 0] \in Common
  <2>1. 0 \in 0..(Word - 1) /\ 0 \in 0..FileSize
    BY WordAssumption, FileAssumption
  <2> QED
    BY <1>2, <2>1 DEF Common
<1>8. [d EXCEPT !.pos = @ + n] \in Common
  <2>1. d.pos + n \in 0..FileSize
    BY <1>2, <1>4, FileAssumption DEF Common
  <2> QED
    BY <1>2, <2>1 DEF Common
<1>9. [q EXCEPT !.count = c.count, !.len = n] \in Request
  <2>1. n \in 0..FileSize /\ c.count \in 0..(Byte - 1)
    BY <1>2, <1>4, FileAssumption DEF Common
  <2> QED
    BY <2>1 DEF Request
<1> QED
  BY <1>2, <1>6, <1>7, <1>8, <1>9

\* Preparing a request keeps the data within its range.
LEMMA PreprocessType ==
  ASSUME NEW c \in Common, NEW q \in Request, NEW item \in Item
  PROVE  /\ Preprocess(c, q, item).common \in Common
         /\ Preprocess(c, q, item).request \in Request
<1>1. item.limit \in 0..(Word - 1)
  BY DEF Item
<1>2. AppendKey(c, q).common \in Common /\ AppendKey(c, q).request \in Request
  BY DEF AppendKey, Common, Request
<1>3. /\ ReadBlock(c, q, item.limit).common \in Common
      /\ ReadBlock(c, q, item.limit).request \in Request
  BY <1>1, ReadBlockType
<1> QED
  BY <1>2, <1>3 DEF Preprocess

\* Opening the file keeps the data within its range.
LEMMA TdSetType ==
  ASSUME NEW c \in Common, NEW opens \in BOOLEAN
  PROVE  TdSet(c, opens).common \in Common
<1>1. [c EXCEPT !.buff = TRUE, !.fd = FALSE] \in Common
  BY DEF Common
<1>2. [c EXCEPT !.buff = TRUE, !.fd = TRUE, !.pos = 0, !.count = 1,
                !.total = 0, !.size = FileSize] \in Common
  <2>1. /\ 0 \in 0..(Word - 1) /\ 0 \in 0..FileSize /\ FileSize \in 0..FileSize
        /\ 1 \in 0..(Byte - 1)
    BY WordAssumption, ByteAssumption, FileAssumption
  <2> QED
    BY <2>1 DEF Common
<1> QED
  BY <1>1, <1>2 DEF TdSet, Handled

\* The response handlers keep the data within its range.
LEMMA HandleType ==
  ASSUME NEW c \in Common, NEW r \in Bytes, NEW opens \in BOOLEAN
  PROVE  Handle(c, r, opens).common \in Common
<1>1. SeedResponse(c, r).common \in Common
  BY DEF SeedResponse, Handled, Common
<1>2. WithBlock(c, r.block) \in Common
  <2>1. PICK a \in Nat, b \in Nat : a = c.block /\ b = r.block
    BY DEF Common, Bytes
  <2>2. PICK n \in Nat : n = BitOr[<<a, b>>]
    BY BitOrType
  <2>3. WithBlock(c, r.block) = [c EXCEPT !.block = n % Word]
    BY <2>1, <2>2 DEF WithBlock, Common
  <2>4. n % Word \in 0..(Word - 1)
    BY WordAssumption
  <2> QED
    BY <2>3, <2>4 DEF Common
<1>3. DownloadResponse(c, r, opens).common \in Common
  BY <1>2, TdSetType DEF DownloadResponse
<1>4. FileResponse(c, r, opens).common \in Common
  BY <1>2, TdSetType DEF FileResponse
<1>5. BlockResponse(c).common \in Common
  <2>1. PICK n \in Nat : n = Payload(c)
    BY WordAssumption DEF Payload, Common
  <2> DEFINE x == (c.count + 1) % Byte
             y == (c.total + n) % Word
             d == [c EXCEPT !.count = x, !.total = y]
  <2>2. x \in 0..(Byte - 1) /\ y \in 0..(Word - 1)
    BY WordAssumption, ByteAssumption DEF Common
  <2>3. d \in Common
    BY <2>2 DEF Common
  <2>4. [c EXCEPT !.count = (@ + 1) % Byte, !.total = (@ + Payload(c)) % Word] = d
    BY <2>1 DEF Common
  <2>5. [d EXCEPT !.fd = FALSE] \in Common
    BY <2>3 DEF Common
  <2> HIDE DEF d
  <2> QED
    BY <2>3, <2>4, <2>5 DEF BlockResponse, Handled
<1>6. Handled([c EXCEPT !.fd = FALSE], TRUE, FALSE).common \in Common
  BY DEF Handled, Common
<1>7. Handled(c, TRUE, FALSE).common \in Common
  BY DEF Handled
<1> QED
  BY <1>1, <1>3, <1>4, <1>5, <1>6, <1>7, Zenon DEF Handle

\* The data with the requests prepared from sindex on, item by item.
Carried == [common : Common, request : [Slots -> Request]]

PreparedOne(k, s) ==
  LET p == Preprocess(s.common, s.request[k - 1], service_items[k - 1])
  IN  IF Enabled(k - 1)
      THEN [common  |-> p.common,
            request |-> [s.request EXCEPT ![k - 1] = p.request]]
      ELSE s

IsPrepared(f, i) ==
  f = [k \in sindex..i |->
         IF k = sindex THEN [common |-> common, request |-> request]
         ELSE PreparedOne(k, f[k - 1])]

\* Prepared is made item by item, and its data stays within its range.
LEMMA PreparedIs ==
  ASSUME TypeOK, DataOK, Active, NEW i \in sindex..service_cnt
  PROVE  \E f : /\ Prepared(i) = f[i]
                /\ f[sindex] = [common |-> common, request |-> request]
                /\ \A k \in sindex..i : f[k] \in Carried
                /\ \A k \in (sindex + 1)..i : f[k] = PreparedOne(k, f[k - 1])
<1> DEFINE x == [common |-> common, request |-> request]
           G == [q \in Int \X Carried |->
                   IF q[1] - 1 \in 0..(service_cnt - 1) THEN PreparedOne(q[1], q[2])
                                                        ELSE q[2]]
<1>1. /\ sindex \in Int /\ i \in Int /\ sindex >= 0 /\ i <= service_cnt
      /\ service_cnt \in Nat /\ service_cnt <= service_size
  BY SizeAssumption DEF TypeOK, ListOK, Active
<1>2. x \in Carried
  BY DEF Carried, DataOK
<1>3. ASSUME NEW k \in Int, NEW s \in Carried, k - 1 \in 0..(service_cnt - 1)
      PROVE  PreparedOne(k, s) \in Carried
  <2>1. s.common \in Common /\ s.request \in [Slots -> Request]
    BY DEF Carried
  <2>2. k - 1 \in Slots /\ service_items[k - 1] \in Item
    BY <1>1, <1>3, SizeAssumption, ItemsAssumption DEF TypeOK, ListOK, Slots
  <2>3. PICK p : p = Preprocess(s.common, s.request[k - 1], service_items[k - 1])
    OBVIOUS
  <2>4. p.common \in Common /\ p.request \in Request
    BY <2>1, <2>2, <2>3, PreprocessType
  <2>5. [s.request EXCEPT ![k - 1] = p.request] \in [Slots -> Request]
    BY <2>1, <2>2, <2>4
  <2>6. [common |-> p.common, request |-> [s.request EXCEPT ![k - 1] = p.request]]
          \in Carried
    BY <2>4, <2>5 DEF Carried
  <2> QED
    BY <2>3, <2>6, Zenon DEF PreparedOne
<1>4. G \in [Int \X Carried -> Carried]
  BY <1>3
<1>5. \E f : IsPrepared(f, i)
  <2> HIDE DEF G
  <2>1. PICK h : IsStepwise(h, sindex, i, x, G)
    BY <1>1, <1>2, <1>4, IntervalRecursion
  <2>2. \A k \in sindex..i : h[k] \in Carried
    BY <1>1, <1>2, <1>4, <2>1, StepwiseType
  <2>3. \A k \in (sindex + 1)..i : G[<<k, h[k - 1]>>] = PreparedOne(k, h[k - 1])
    <3> SUFFICES ASSUME NEW k \in (sindex + 1)..i
                 PROVE  G[<<k, h[k - 1]>>] = PreparedOne(k, h[k - 1])
      OBVIOUS
    <3>1. k \in Int /\ k - 1 \in sindex..i /\ k - 1 \in 0..(service_cnt - 1)
      BY <1>1
    <3>2. h[k - 1] \in Carried
      BY <2>2, <3>1
    <3> QED
      BY <3>1, <3>2 DEF G
  <2>4. [k \in sindex..i |-> IF k = sindex THEN x ELSE G[<<k, h[k - 1]>>]]
          = [k \in sindex..i |-> IF k = sindex THEN x ELSE PreparedOne(k, h[k - 1])]
    <3>1. \A k \in sindex..i : k # sindex => k \in (sindex + 1)..i
      BY <1>1
    <3> HIDE DEF x
    <3> QED
      BY <2>3, <3>1
  <2>5. IsPrepared(h, i)
    BY <2>1, <2>4, Zenon DEF IsStepwise, IsPrepared
  <2> QED
    BY <2>5
<1>6. PICK f : IsPrepared(f, i) /\ Prepared(i) = f[i]
  <2>1. Prepared(i) = (CHOOSE f : IsPrepared(f, i))[i]
    BY DEF Prepared, IsPrepared, PreparedOne
  <2> QED
    BY <1>5, <2>1
<1>7. \A k \in sindex..i : f[k] = IF k = sindex THEN x ELSE PreparedOne(k, f[k - 1])
  <2>1. PICK g : g = [k \in sindex..i |-> IF k = sindex THEN x
                                          ELSE PreparedOne(k, f[k - 1])]
    OBVIOUS
  <2>2. f = g
    BY <1>6, <2>1, Zenon DEF IsPrepared
  <2> HIDE DEF x
  <2>3. \A k \in sindex..i : g[k] = IF k = sindex THEN x ELSE PreparedOne(k, f[k - 1])
    BY <2>1
  <2> QED
    BY <2>2, <2>3, Zenon
<1> DEFINE S == {k \in Int : k \in sindex..i => f[k] \in Carried}
<1>8. sindex \in S
  BY <1>1, <1>2, <1>7
<1>9. ASSUME NEW k \in (sindex + 1)..i, k - 1 \in S
      PROVE  k \in S
  <2>1. /\ k \in Int /\ k \in sindex..i /\ k - 1 \in sindex..i /\ k # sindex
        /\ k - 1 \in 0..(service_cnt - 1)
    BY <1>1
  <2>2. f[k - 1] \in Carried
    BY <1>9, <2>1
  <2>3. f[k] = PreparedOne(k, f[k - 1])
    BY <1>7, <2>1
  <2> QED
    BY <1>3, <2>1, <2>2, <2>3
<1> HIDE DEF S
<1>10. sindex..i \subseteq S
  BY <1>1, <1>8, <1>9, IntervalInduction
<1>11. \A k \in sindex..i : f[k] \in Carried
  <2> SUFFICES ASSUME NEW k \in sindex..i PROVE f[k] \in Carried
    OBVIOUS
  <2>1. k \in S
    BY <1>10
  <2> QED
    BY <2>1 DEF S
<1>12. f[sindex] = x
  <2>1. sindex \in sindex..i
    BY <1>1
  <2> HIDE DEF x
  <2> QED
    BY <1>7, <2>1
<1>13. \A k \in (sindex + 1)..i : f[k] = PreparedOne(k, f[k - 1])
  <2>1. \A k \in (sindex + 1)..i : k \in sindex..i /\ k # sindex
    BY <1>1
  <2> HIDE DEF x
  <2> QED
    BY <1>7, <2>1
<1> QED
  BY <1>6, <1>11, <1>12, <1>13

\* Preparing the requests keeps the data within its range.
LEMMA PreparedType ==
  ASSUME TypeOK, DataOK, Active, NEW i \in sindex..service_cnt
  PROVE  Prepared(i) \in Carried
<1>1. i \in sindex..i
  BY DEF TypeOK, ListOK
<1> QED
  BY <1>1, PreparedIs

\* One step of any handler keeps the data within its range.
LEMMA DataStep ==
  ASSUME TypeOK, DataOK, [Next]_vars
  PROVE  DataOK'
<1>1. common \in Common /\ request \in [Slots -> Request] /\ taken \in Takings
  BY DEF DataOK
<1>2. ASSUME NEW c \in Common
      PROVE  Released(c) \in Common
  BY DEF Released, Common
<1>3. CASE UNCHANGED <<common, request>> /\ taken' \in {taken, NothingTaken}
  BY <1>1, <1>3, NewData DEF DataOK
<1>4. CASE Cleared
  BY <1>4, NewData DEF Cleared, DataOK
<1>5. ASSUME NEW item \in Items, ItemAdd(item)
      PROVE  DataOK'
  BY <1>1, <1>5, NewData DEF ItemAdd, DataOK
<1>6. CASE SaKey
  BY <1>1, <1>6 DEF SaKey, items, DataOK, Common
<1>7. CASE StopScript
  BY <1>1, <1>2, <1>7 DEF StopScript, ServicesStop, items, DataOK
<1>8. ASSUME Active, NEW i \in sindex..service_cnt,
             request' = Prepared(i).request,
             common' \in {Prepared(i).common, Released(Prepared(i).common)},
             taken' = taken \/ \E S : taken' = TakenWithout(S)
      PROVE  DataOK'
  <2>1. Prepared(i).common \in Common /\ Prepared(i).request \in [Slots -> Request]
    BY <1>8, PreparedType DEF Carried
  <2>2. taken' \in Takings
    BY <1>1, <1>8, TakenType
  <2> QED
    BY <1>2, <1>8, <2>1, <2>2 DEF DataOK
<1>9. CASE RequestSent
  <2>1. PICK i \in sindex..(service_cnt - 1) :
               /\ common' = Prepared(i + 1).common
               /\ request' = Prepared(i + 1).request
               /\ taken' = TakenWithout(EnabledIn(sindex, i))
    BY <1>9 DEF RequestSent
  <2>2. Active /\ i + 1 \in sindex..service_cnt
    BY <1>9 DEF RequestSent, TypeOK, ListOK
  <2> QED
    BY <1>8, <2>1, <2>2
<1>10. CASE RequestAborted
  <2>1. PICK i \in sindex..(service_cnt - 1) :
               /\ common' = Released(Prepared(i + 1).common)
               /\ request' = Prepared(i + 1).request
               /\ taken' = TakenWithout({i})
    BY <1>10 DEF RequestAborted, Finish, ServicesStop
  <2>2. Active /\ i + 1 \in sindex..service_cnt
    BY <1>10 DEF RequestAborted, TypeOK, ListOK
  <2> QED
    BY <1>8, <2>1, <2>2
<1>11. CASE RequestsExhausted
  <2>1. /\ common' \in {Prepared(service_cnt).common,
                        Released(Prepared(service_cnt).common)}
        /\ request' = Prepared(service_cnt).request
        /\ taken' = TakenWithout(EnabledIn(sindex, service_cnt))
    BY <1>11 DEF RequestsExhausted, Finish, ServicesStop
  <2>2. Active /\ service_cnt \in sindex..service_cnt
    BY <1>11 DEF RequestsExhausted, Active, TypeOK, ListOK
  <2> QED
    BY <1>8, <2>1, <2>2
<1>12. ASSUME NEW bytes \in Bytes \cup {NoBytes}, Answered(bytes)
       PROVE  DataOK'
  <2>1. PICK opens \in BOOLEAN : Abort(bytes, opens) \/ GoOn(bytes, opens)
    BY <1>12 DEF Answered
  <2>2. PICK h : h = HandledBy(bytes, opens)
    OBVIOUS
  <2>3. h.common \in Common
    <3>1. CASE IsTimeout(bytes)
      BY <1>1, <2>2, <3>1 DEF HandledBy, Handled
    <3>2. CASE ~IsTimeout(bytes)
      <4>1. bytes \in Bytes
        BY <3>2 DEF IsTimeout
      <4> QED
        BY <1>1, <2>2, <3>2, <4>1, HandleType DEF HandledBy
    <3> QED
      BY <3>1, <3>2
  <2>4. common' \in {h.common, Released(h.common), Released(common)}
    BY <2>1, <2>2 DEF Abort, GoOn, Finish, ServicesStop
  <2>5. request' = request
    BY <1>12 DEF Answered
  <2>6. taken' = TakenAfter(bytes, FALSE) \/ taken' = TakenAfter(bytes, h.meet)
    BY <2>1, <2>2 DEF Abort, GoOn
  <2>7. taken' \in Takings
    BY <1>1, <2>6, TakenType
  <2> QED
    BY <1>1, <1>2, <2>3, <2>4, <2>5, <2>7 DEF DataOK
<1>13. ASSUME NEW bytes \in Responses, Response(bytes)
       PROVE  DataOK'
  BY <1>12, <1>13, ResponsesAssumption DEF Response
<1>14. CASE ResponseTimeout
  BY <1>12, <1>14 DEF ResponseTimeout
<1>15. CASE UNCHANGED vars
  BY <1>3, <1>15 DEF vars, items
<1>16. CASE Next
  <2>1. CASE \/ UdscCreate \/ ServicesStart \/ StaleTimeout
             \/ \E a, e, r \in BOOLEAN : GeneralConfig(a, e, r)
             \/ \E bytes \in Responses : ResponsePending(bytes)
    BY <1>3, <2>1 DEF UdscCreate, ServicesStart, StaleTimeout, GeneralConfig,
                      ResponsePending, items
  <2>2. CASE UdscDestory \/ MasterReset
    BY <1>4, <2>2 DEF UdscDestory, MasterReset
  <2> QED
    BY <1>5, <1>6, <1>7, <1>9, <1>10, <1>11, <1>13, <1>14, <1>16, <2>1, <2>2, NextCases
<1> QED
  BY <1>15, <1>16

-----------------------------------------------------------------------------
(***************************************************************************)
(* The file arrives as a whole                                             *)
(***************************************************************************)

\* Reading a block keeps track of the file, and makes its answer count no more than
\* was read.
LEMMA ReadBlockCovers ==
  ASSUME NEW c \in Common, NEW q \in Request, NEW limit \in 0..(Word - 1), Tracked(c)
  PROVE  Tracked(ReadBlock(c, q, limit).common) /\ Covered(ReadBlock(c, q, limit).common)
<1> DEFINE b == IF limit > 0 THEN Lesser(c.block, limit) ELSE c.block
           d == [c EXCEPT !.block = b]
           n == Lesser(Payload(d), FileSize - d.pos)
           e == [d EXCEPT !.pos = @ + n]
<1>1. b \in 0..(Word - 1)
  BY LesserIs DEF Common, Lesser
<1>2. /\ d \in Common /\ d.fd = c.fd /\ d.buff = c.buff /\ d.size = c.size
      /\ d.pos = c.pos /\ d.total = c.total
  BY <1>1 DEF Common
<1>3. Payload(d) \in Nat /\ FileSize - d.pos \in Nat /\ d.pos \in Nat /\ d.total \in Nat
  BY <1>2, WordAssumption, FileAssumption DEF Payload, Common
<1>4. ReadBlock(c, q, limit).common =
        IF ~c.buff \/ ~c.fd
        THEN [d EXCEPT !.total = 0, !.size = 0]
        ELSE IF n > 0 THEN e ELSE d
  <2>1. (IF limit > 0 THEN [c EXCEPT !.block = Lesser(@, limit)] ELSE c) = d
    BY DEF Common
  <2>2. d.pos = c.pos
    BY DEF Common
  <2> HIDE DEF d
  <2> QED
    BY <2>1, <2>2 DEF ReadBlock
<1> HIDE DEF d
<1>5. CASE ~c.buff \/ ~c.fd
  <2>1. ~c.fd
    BY <1>5 DEF Tracked
  <2>2. [d EXCEPT !.total = 0, !.size = 0].fd = FALSE
    BY <1>2, <2>1 DEF Common
  <2> QED
    BY <1>4, <1>5, <2>2 DEF Tracked, Covered
<1>6. CASE c.buff /\ c.fd
  <2>1. /\ d.fd /\ d.buff /\ d.size = FileSize
        /\ d.pos = FileSize \/ d.total <= d.pos
    BY <1>2, <1>6 DEF Tracked
  <2>2. n \in Nat /\ (n = Payload(d) \/ n = FileSize - d.pos)
    BY <1>3 DEF Lesser
  <2>3. /\ e.fd /\ e.buff /\ e.size = FileSize /\ e.total = d.total /\ e.pos = d.pos + n
        /\ e.block = d.block
    BY <1>2, <2>1 DEF Common
  <2>4. Payload(e) = Payload(d)
    BY <2>3 DEF Payload
  <2> HIDE DEF n, e
  <2>5. d.pos <= FileSize /\ FileSize \in Nat
    BY <1>2, FileAssumption, WordAssumption DEF Common
  <2>6. n = FileSize - d.pos => d.pos + n = FileSize
    BY <1>3, <2>5
  <2>7. n = Payload(d) /\ d.total <= d.pos => d.total + Payload(d) <= d.pos + n
    BY <1>3
  <2>8. n = Payload(d) /\ d.pos = FileSize => n = 0 \/ n = FileSize - d.pos
    BY <1>3, <2>5 DEF n, Lesser
  <2>9. d.pos + n = FileSize \/ d.total + Payload(d) <= d.pos + n
    BY <1>3, <2>1, <2>2, <2>5, <2>6, <2>7, <2>8
  <2>10. d.pos + n = FileSize \/ d.total <= d.pos + n
    BY <1>3, <2>2, <2>9
  <2>11. Tracked(e) /\ Covered(e)
    BY <2>3, <2>4, <2>9, <2>10 DEF Tracked, Covered
  <2>12. ~(n > 0) => n = 0 /\ d.pos + n = d.pos
    BY <1>3, <2>2
  <2>13. ~(n > 0) => Tracked(d) /\ Covered(d)
    BY <2>1, <2>9, <2>12 DEF Tracked, Covered
  <2> QED
    BY <1>4, <1>6, <2>11, <2>13
<1> QED
  BY <1>5, <1>6

\* Preparing an item keeps track of the file.
LEMMA PreprocessTracked ==
  ASSUME NEW c \in Common, NEW q \in Request, NEW item \in Item, Tracked(c)
  PROVE  /\ Tracked(Preprocess(c, q, item).common)
         /\ item.sid = "TD" => Covered(Preprocess(c, q, item).common)
<1>1. item.limit \in 0..(Word - 1)
  BY DEF Item
<1>2. AppendKey(c, q).common = c
  BY DEF AppendKey
<1>3. /\ Tracked(ReadBlock(c, q, item.limit).common)
      /\ Covered(ReadBlock(c, q, item.limit).common)
  BY <1>1, ReadBlockCovers
<1> QED
  BY <1>2, <1>3 DEF Preprocess

\* So does preparing one item after the other; the last of them is covered.
LEMMA PreparedTracked ==
  ASSUME TypeOK, DataOK, Active, Tracked(common), NEW i \in sindex..service_cnt
  PROVE  /\ Tracked(Prepared(i).common)
         /\ i > sindex /\ Enabled(i - 1) /\ service_items[i - 1].sid = "TD" =>
              Covered(Prepared(i).common)
<1>1. /\ sindex \in Int /\ i \in Int /\ sindex >= 0 /\ i <= service_cnt
      /\ service_cnt \in Nat /\ service_cnt <= service_size
  BY SizeAssumption DEF TypeOK, ListOK, Active
<1>2. PICK f : /\ Prepared(i) = f[i]
               /\ f[sindex] = [common |-> common, request |-> request]
               /\ \A k \in sindex..i : f[k] \in Carried
               /\ \A k \in (sindex + 1)..i : f[k] = PreparedOne(k, f[k - 1])
  BY PreparedIs
<1> DEFINE S == {k \in Int : k \in sindex..i => Tracked(f[k].common)}
<1>3. sindex \in S
  BY <1>1, <1>2
<1>4. ASSUME NEW k \in (sindex + 1)..i, k - 1 \in sindex..i, Tracked(f[k - 1].common)
      PROVE  /\ Tracked(f[k].common)
             /\ Enabled(k - 1) /\ service_items[k - 1].sid = "TD" => Covered(f[k].common)
  <2>1. PICK s : s = f[k - 1]
    OBVIOUS
  <2>2. s.common \in Common /\ s.request \in [Slots -> Request] /\ Tracked(s.common)
    BY <1>2, <1>4, <2>1 DEF Carried
  <2>3. k - 1 \in Slots /\ service_items[k - 1] \in Item
    BY <1>1, SizeAssumption, ItemsAssumption DEF TypeOK, ListOK, Slots
  <2>4. PICK p : p = Preprocess(s.common, s.request[k - 1], service_items[k - 1])
    OBVIOUS
  <2>5. Tracked(p.common) /\ (service_items[k - 1].sid = "TD" => Covered(p.common))
    BY <2>2, <2>3, <2>4, PreprocessTracked
  <2>6. f[k] = PreparedOne(k, s)
    BY <1>2, <2>1
  <2>7. f[k].common = IF Enabled(k - 1) THEN p.common ELSE s.common
    BY <2>4, <2>6 DEF PreparedOne
  <2> QED
    BY <2>2, <2>5, <2>7
<1>5. ASSUME NEW k \in (sindex + 1)..i, k - 1 \in S
      PROVE  k \in S
  <2>1. k - 1 \in sindex..i /\ k \in Int
    BY <1>1
  <2> QED
    BY <1>4, <1>5, <2>1
<1> HIDE DEF S
<1>6. sindex..i \subseteq S
  BY <1>1, <1>3, <1>5, IntervalInduction
<1>7. \A k \in sindex..i : Tracked(f[k].common)
  BY <1>6 DEF S
<1>8. i \in sindex..i
  BY <1>1
<1>9. ASSUME i > sindex
      PROVE  Enabled(i - 1) /\ service_items[i - 1].sid = "TD" => Covered(f[i].common)
  <2>1. i \in (sindex + 1)..i /\ i - 1 \in sindex..i
    BY <1>1, <1>9
  <2> QED
    BY <1>4, <1>7, <2>1
<1> QED
  BY <1>2, <1>7, <1>8, <1>9

\* What preparing a request makes of the data c: of an open file it may read the block
\* the request then holds, under the number that is up.
Continues(c, p) ==
  /\ p.common.fd = c.fd
  /\ p.common.count = c.count
  /\ \/ p.common.pos = c.pos
     \/ /\ c.fd
        /\ p.request.count = c.count
        /\ c.pos + p.request.len = p.common.pos

\* Reading a block does so, with a limit and at the end of the file.
LEMMA ReadBlockContinues ==
  ASSUME NEW c \in Common, NEW q \in Request, NEW limit \in 0..(Word - 1)
  PROVE  Continues(c, ReadBlock(c, q, limit))
<1> DEFINE b == IF limit > 0 THEN Lesser(c.block, limit) ELSE c.block
           d == [c EXCEPT !.block = b]
           n == Lesser(Payload(d), FileSize - d.pos)
<1>1. /\ d.fd = c.fd /\ d.buff = c.buff /\ d.pos = c.pos /\ d.count = c.count
      /\ {"total", "size", "pos"} \subseteq DOMAIN d
  BY DEF Common
<1>2. ReadBlock(c, q, limit) =
        IF ~c.buff \/ ~c.fd
        THEN [common |-> [d EXCEPT !.total = 0, !.size = 0], request |-> q]
        ELSE IF n > 0
        THEN [common  |-> [d EXCEPT !.pos = @ + n],
              request |-> [q EXCEPT !.count = c.count, !.len = n]]
        ELSE [common |-> d, request |-> q]
  <2>1. (IF limit > 0 THEN [c EXCEPT !.block = Lesser(@, limit)] ELSE c) = d
    BY DEF Common
  <2>2. d.pos = c.pos
    BY DEF Common
  <2> HIDE DEF d
  <2> QED
    BY <2>1, <2>2 DEF ReadBlock
<1> HIDE DEF d, n
<1>3. CASE ~c.buff \/ ~c.fd
  <2>1. PICK e : e = [d EXCEPT !.total = 0, !.size = 0]
    OBVIOUS
  <2>2. e.fd = c.fd /\ e.count = c.count /\ e.pos = c.pos
    BY <1>1, <2>1
  <2> QED
    BY <1>2, <1>3, <2>1, <2>2 DEF Continues
<1>4. CASE c.buff /\ c.fd /\ n > 0
  <2>1. PICK e : e = [d EXCEPT !.pos = @ + n]
    OBVIOUS
  <2>2. e.fd = c.fd /\ e.count = c.count /\ e.pos = c.pos + n
    BY <1>1, <2>1
  <2>3. PICK r : r = [q EXCEPT !.count = c.count, !.len = n]
    OBVIOUS
  <2>4. r.count = c.count /\ r.len = n
    BY <2>3 DEF Request
  <2>5. ReadBlock(c, q, limit) = [common |-> e, request |-> r]
    BY <1>2, <1>4, <2>1, <2>3
  <2>6. PICK p : p = ReadBlock(c, q, limit) /\ p.common = e /\ p.request = r
    BY <2>5
  <2>7. Continues(c, p)
    BY <1>1, <1>4, <2>2, <2>4, <2>6 DEF Continues
  <2> QED
    BY <2>6, <2>7
<1>5. CASE c.buff /\ c.fd /\ ~(n > 0)
  <2>1. ReadBlock(c, q, limit) = [common |-> d, request |-> q]
    BY <1>2, <1>5
  <2> QED
    BY <1>1, <2>1 DEF Continues
<1> QED
  BY <1>3, <1>4, <1>5

\* Preparing any other item changes nothing of what is shared.
LEMMA PreprocessContinues ==
  ASSUME NEW c \in Common, NEW q \in Request, NEW item \in Item
  PROVE  /\ Continues(c, Preprocess(c, q, item))
         /\ item.sid # "TD" => Preprocess(c, q, item).common = c
<1>1. item.limit \in 0..(Word - 1)
  BY DEF Item
<1>2. AppendKey(c, q).common = c
  BY DEF AppendKey
<1>3. Continues(c, ReadBlock(c, q, item.limit))
  BY <1>1, ReadBlockContinues
<1> QED
  BY <1>2, <1>3 DEF Preprocess, Continues

\* So that of several items prepared before i none of which is a block, the last one,
\* i, is what the data continues with.
LEMMA PreparedContinues ==
  ASSUME TypeOK, DataOK, Active, NEW i \in sindex..(service_cnt - 1),
         \A k \in EnabledIn(sindex, i) : service_items[k].sid # "TD"
  PROVE  /\ Enabled(i) => Continues(common, [common  |-> Prepared(i + 1).common,
                                            request |-> Prepared(i + 1).request[i]])
         /\ ~Enabled(i) \/ service_items[i].sid # "TD" =>
              Prepared(i + 1).common = common
<1>1. /\ sindex \in Int /\ i \in Int /\ sindex >= 0 /\ i + 1 \in sindex..service_cnt
      /\ service_cnt \in Nat /\ service_cnt <= service_size
  BY SizeAssumption DEF TypeOK, ListOK, Active
<1>2. PICK f : /\ Prepared(i + 1) = f[i + 1]
               /\ f[sindex] = [common |-> common, request |-> request]
               /\ \A k \in sindex..(i + 1) : f[k] \in Carried
               /\ \A k \in (sindex + 1)..(i + 1) : f[k] = PreparedOne(k, f[k - 1])
  BY <1>1, PreparedIs
<1>3. ASSUME NEW k \in (sindex + 1)..(i + 1), f[k - 1].common = common
      PROVE  /\ Enabled(k - 1) => Continues(common, [common  |-> f[k].common,
                                                    request |-> f[k].request[k - 1]])
             /\ ~Enabled(k - 1) \/ service_items[k - 1].sid # "TD" =>
                  f[k].common = common
  <2>1. PICK s : s = f[k - 1]
    OBVIOUS
  <2>2. k - 1 \in sindex..(i + 1) /\ k - 1 \in Slots /\ service_items[k - 1] \in Item
    BY <1>1, SizeAssumption, ItemsAssumption DEF TypeOK, ListOK, Slots
  <2>3. s.common \in Common /\ s.request \in [Slots -> Request] /\ s.common = common
    BY <1>2, <1>3, <2>1, <2>2 DEF Carried
  <2>4. PICK p : p = Preprocess(s.common, s.request[k - 1], service_items[k - 1])
    OBVIOUS
  <2>5. /\ Continues(common, p)
        /\ service_items[k - 1].sid # "TD" => p.common = common
    BY <2>2, <2>3, <2>4, PreprocessContinues
  <2>6. f[k] = IF Enabled(k - 1)
               THEN [common  |-> p.common,
                     request |-> [s.request EXCEPT ![k - 1] = p.request]]
               ELSE s
    BY <1>2, <2>1, <2>4 DEF PreparedOne
  <2>7. ASSUME Enabled(k - 1)
        PROVE  f[k].common = p.common /\ f[k].request[k - 1] = p.request
    BY <2>2, <2>3, <2>6, <2>7
  <2> QED
    BY <2>3, <2>5, <2>6, <2>7 DEF Continues
<1> DEFINE S == {k \in Int : k \in sindex..i => f[k].common = common}
<1>4. sindex \in S
  BY <1>1, <1>2
<1>5. ASSUME NEW k \in (sindex + 1)..i, k - 1 \in S
      PROVE  k \in S
  <2>1. /\ k \in Int /\ k \in (sindex + 1)..(i + 1) /\ k - 1 \in sindex..i
        /\ k - 1 \in sindex..(i - 1)
    BY <1>1
  <2>2. ~Enabled(k - 1) \/ service_items[k - 1].sid # "TD"
    BY <2>1 DEF EnabledIn
  <2> QED
    BY <1>3, <1>5, <2>1, <2>2
<1> HIDE DEF S
<1>6. sindex..i \subseteq S
  BY <1>1, <1>4, <1>5, IntervalInduction
<1>7. f[i].common = common
  BY <1>1, <1>6 DEF S
<1>8. i + 1 \in (sindex + 1)..(i + 1) /\ (i + 1) - 1 = i
  BY <1>1
<1> QED
  BY <1>2, <1>3, <1>7, <1>8

\* Opening the file starts anew.
LEMMA TdSetTracked ==
  ASSUME NEW c \in Common, NEW opens \in BOOLEAN, Tracked(c)
  PROVE  Tracked(TdSet(c, opens).common)
<1> DEFINE a == [c EXCEPT !.buff = TRUE, !.fd = FALSE]
           b == [c EXCEPT !.buff = TRUE, !.fd = TRUE, !.pos = 0, !.count = 1,
                          !.total = 0, !.size = FileSize]
<1>1. a.fd = FALSE
  BY DEF Common
<1>2. b.buff = TRUE /\ b.size = FileSize /\ b.total = 0 /\ b.pos = 0
  BY DEF Common
<1>3. TdSet(c, opens).common \in {c, a, b}
  BY DEF TdSet, Handled
<1> HIDE DEF a, b
<1> QED
  BY <1>1, <1>2, <1>3 DEF Tracked

\* An answer to a block that was read keeps track of the file, and ends the transfer
\* only if all of it was read.
LEMMA BlockResponseTracked ==
  ASSUME NEW c \in Common, Tracked(c), Covered(c)
  PROVE  /\ Tracked(BlockResponse(c).common)
         /\ c.fd /\ ~BlockResponse(c).keep => c.pos = FileSize
<1>1. PICK n \in Nat : n = Payload(c)
  BY WordAssumption DEF Payload, Common
<1> DEFINE x == (c.count + 1) % Byte
           y == (c.total + n) % Word
           d == [c EXCEPT !.count = x, !.total = y]
           e == [d EXCEPT !.fd = FALSE]
<1>2. /\ d.total = y /\ d.size = c.size /\ d.pos = c.pos /\ d.fd = c.fd /\ d.buff = c.buff
      /\ e.fd = FALSE
  BY DEF Common
<1>3. [c EXCEPT !.count = (@ + 1) % Byte, !.total = (@ + Payload(c)) % Word] = d
  BY <1>1 DEF Common
<1>4. BlockResponse(c) = IF d.total >= d.size THEN Handled(e, TRUE, FALSE)
                                              ELSE Handled(d, TRUE, TRUE)
  <2>1. PICK z : z = [c EXCEPT !.count = (@ + 1) % Byte,
                              !.total = (@ + Payload(c)) % Word]
    OBVIOUS
  <2>2. z = d
    BY <1>3, <2>1
  <2>3. BlockResponse(c) =
          IF z.total >= z.size THEN Handled([z EXCEPT !.fd = FALSE], TRUE, FALSE)
                               ELSE Handled(z, TRUE, TRUE)
    BY <2>1 DEF BlockResponse
  <2> HIDE DEF d
  <2> QED
    BY <2>2, <2>3
<1> HIDE DEF d, e
<1>5. c.fd => c.pos = FileSize \/ (y <= c.pos /\ c.pos < FileSize)
  <2> SUFFICES ASSUME c.fd, c.pos # FileSize PROVE y <= c.pos /\ c.pos < FileSize
    OBVIOUS
  <2>1. c.total + n <= c.pos
    BY <1>1 DEF Covered
  <2>2. c.pos \in Nat /\ c.pos < FileSize /\ FileSize < Word /\ c.total \in Nat
        /\ FileSize \in Nat /\ Word \in Nat
    BY FileAssumption, WordAssumption DEF Common
  <2>3. c.total + n \in 0..(Word - 1)
    BY <2>1, <2>2
  <2>4. y = c.total + n
    BY <2>3, WordAssumption
  <2> QED
    BY <2>1, <2>2, <2>4
<1>6. Tracked(d)
  BY <1>2, <1>5 DEF Tracked
<1>7. Tracked(e)
  BY <1>2 DEF Tracked
<1>8. c.fd /\ d.total >= d.size => c.pos = FileSize
  <2>1. c.fd => d.size = FileSize
    BY <1>2 DEF Tracked
  <2>2. y \in Nat /\ c.pos \in Nat /\ FileSize \in Nat
    BY FileAssumption, WordAssumption DEF Common
  <2> QED
    BY <1>2, <1>5, <2>1, <2>2
<1> QED
  BY <1>4, <1>6, <1>7, <1>8 DEF Handled

\* Every response handler keeps track of the file, that of 0x36 if its block was read.
LEMMA HandleTracked ==
  ASSUME NEW c \in Common, NEW r \in Bytes, NEW opens \in BOOLEAN, Tracked(c),
         r.sid = "TD" => Covered(c)
  PROVE  Tracked(Handle(c, r, opens).common)
<1>1. Tracked(SeedResponse(c, r).common)
  BY DEF SeedResponse, Handled, Common, Tracked
<1>2. WithBlock(c, r.block) \in Common /\ Tracked(WithBlock(c, r.block))
  <2>1. PICK a \in Nat, b \in Nat : a = c.block /\ b = r.block
    BY DEF Common, Bytes
  <2>2. PICK n \in Nat : n = BitOr[<<a, b>>]
    BY BitOrType
  <2>3. WithBlock(c, r.block) = [c EXCEPT !.block = n % Word]
    BY <2>1, <2>2 DEF WithBlock, Common
  <2>4. n % Word \in 0..(Word - 1)
    BY WordAssumption
  <2> QED
    BY <2>3, <2>4 DEF Common, Tracked
<1>3. Tracked(DownloadResponse(c, r, opens).common)
  BY <1>2, TdSetTracked DEF DownloadResponse
<1>4. Tracked(FileResponse(c, r, opens).common)
  BY <1>2, TdSetTracked DEF FileResponse
<1>5. r.sid = "TD" => Tracked(BlockResponse(c).common)
  BY BlockResponseTracked
<1>6. Tracked(Handled([c EXCEPT !.fd = FALSE], TRUE, FALSE).common)
  BY DEF Handled, Common, Tracked
<1>7. Tracked(Handled(c, TRUE, FALSE).common)
  BY DEF Handled
<1> QED
  BY <1>1, <1>3, <1>4, <1>5, <1>6, <1>7, Zenon DEF Handle

\* A file that is opened is read from its beginning, and its first block is number 1.
LEMMA TdSetOpens ==
  ASSUME NEW c \in Common, NEW opens \in BOOLEAN, TdSet(c, opens).meet
  PROVE  LET d == TdSet(c, opens).common IN d.fd /\ d.pos = 0 /\ d.count = 1
  BY DEF TdSet, Handled, Common

\* What a handler makes of position, number and file.
LEMMA HandleContinues ==
  ASSUME NEW c \in Common, NEW r \in Bytes, NEW opens \in BOOLEAN,
         NEW h, h = Handle(c, r, opens)
  PROVE  /\ r.sid \in {"RD", "RFT"} /\ h.meet =>
              h.common.fd /\ h.common.pos = 0 /\ h.common.count = 1
         /\ r.sid = "TD" => /\ h.common.pos = c.pos
                            /\ h.common.count = (c.count + 1) % Byte
                            /\ h.common.fd <=> c.fd /\ h.keep
         /\ r.sid \notin {"RD", "RFT", "TD", "RTE"} =>
              /\ h.common.pos = c.pos
              /\ h.common.count = c.count
              /\ h.common.fd = c.fd
<1>1. ASSUME r.sid = "RD" \/ r.sid = "RFT", h.meet
      PROVE  h.common.fd /\ h.common.pos = 0 /\ h.common.count = 1
  <2>1. WithBlock(c, r.block) \in Common
    <3>1. PICK a \in Nat, b \in Nat : a = c.block /\ b = r.block
      BY DEF Common, Bytes
    <3>2. PICK n \in Nat : n = BitOr[<<a, b>>]
      BY BitOrType
    <3>3. n % Word \in 0..(Word - 1)
      BY WordAssumption
    <3> QED
      BY <3>1, <3>2, <3>3 DEF WithBlock, Common
  <2>2. PICK d \in Common : h = TdSet(d, opens)
    BY <1>1, <2>1 DEF Handle, DownloadResponse, FileResponse
  <2> QED
    BY <1>1, <2>2, TdSetOpens
<1>2. ASSUME r.sid = "TD"
      PROVE  /\ h.common.pos = c.pos /\ h.common.count = (c.count + 1) % Byte
             /\ h.common.fd <=> c.fd /\ h.keep
  <2>1. PICK d : d = [c EXCEPT !.count = (@ + 1) % Byte, !.total = (@ + Payload(c)) % Word]
    OBVIOUS
  <2>2. /\ d.pos = c.pos /\ d.fd = c.fd /\ d.count = (c.count + 1) % Byte
        /\ {"fd", "pos", "count"} \subseteq DOMAIN d
    BY <2>1 DEF Common
  <2>3. h = IF d.total >= d.size THEN Handled([d EXCEPT !.fd = FALSE], TRUE, FALSE)
                                 ELSE Handled(d, TRUE, TRUE)
    BY <1>2, <2>1 DEF Handle, BlockResponse
  <2> QED
    BY <2>2, <2>3 DEF Handled
<1>3. ASSUME r.sid \notin {"RD", "RFT", "TD", "RTE"}
      PROVE  h.common.pos = c.pos /\ h.common.count = c.count /\ h.common.fd = c.fd
  <2>1. h = SeedResponse(c, r) \/ h = Handled(c, TRUE, FALSE)
    BY <1>3, Zenon DEF Handle
  <2> QED
    BY <2>1 DEF SeedResponse, Handled, Common
<1> QED
  BY <1>1, <1>2, <1>3

\* The fields of what an ECU has taken.
LEMMA TakenFields ==
  /\ NothingTaken.whole = FALSE
  /\ FileOpened.got = 0 /\ FileOpened.next = 1
  /\ BlockTaken.got = IF ContinuesFile THEN common.pos ELSE taken.got
  /\ BlockTaken.next = (taken.next + 1) % Byte
  BY DEF NothingTaken, FileOpened, BlockTaken

\* After an answer or its timeout the ECU has what was read of the file, and all of it
\* if the answer ends the transfer.
LEMMA AnswerTaken ==
  ASSUME TransferInv, Active, NEW bytes \in Bytes \cup {NoBytes}, NEW opens \in BOOLEAN,
         IsTimeout(bytes) \/ (responseTimer /\ bytes.sid = CurrentItem.sid),
         NEW h, h = HandledBy(bytes, opens),
         NEW t, t = TakenAfter(bytes, h.meet), t.whole
  PROVE  /\ t.got = h.common.pos
         /\ h.common.fd => t.next = h.common.count
         /\ h.common.fd \/ h.common.pos = FileSize
         /\ CurrentItem.sid = "TD" /\ ~h.keep => t.got = FileSize
<1>1. /\ common \in Common /\ taken \in Takings /\ sindex >= 0
      /\ Tracked(common) /\ BlockIsRead /\ TakenIsRead
  BY DEF TransferInv, DataOK, Active
<1>2. IsTimeout(bytes) => h.common = common /\ bytes.sid = "none" /\ bytes.kind = "none"
  BY DEF HandledBy, Handled, IsTimeout, NoBytes
<1>3. ~IsTimeout(bytes) => bytes \in Bytes /\ h = Handle(common, bytes, opens)
  BY DEF HandledBy, IsTimeout
<1>4. CASE CurrentItem.sid = "TD"
  <2>1. taken.whole /\ bytes.kind = "positive" /\ t = BlockTaken
    <3>1. CASE taken.whole /\ bytes.kind = "positive"
      BY <1>4, <3>1, Zenon DEF TakenAfter
    <3>2. CASE ~(taken.whole /\ bytes.kind = "positive")
      <4>1. t = NothingTaken
        BY <1>4, <3>2, Zenon DEF TakenAfter
      <4> QED
        BY <4>1, TakenFields, Zenon
    <3> QED
      BY <3>1, <3>2
  <2>2. ~IsTimeout(bytes)
    BY <1>2, <2>1
  <2>3. bytes.sid = "TD" /\ AwaitsBlock /\ Covered(common)
    BY <1>1, <1>4, <2>2 DEF AwaitsBlock, BlockIsRead
  <2>4. /\ h.common.pos = common.pos
        /\ h.common.count = (common.count + 1) % Byte
        /\ h.common.fd <=> common.fd /\ h.keep
    BY <1>1, <1>3, <2>2, <2>3, HandleContinues
  <2>5. common.fd /\ ~h.keep => common.pos = FileSize
    <3>1. h = BlockResponse(common)
      BY <1>3, <2>2, <2>3 DEF Handle
    <3> QED
      BY <1>1, <2>3, <3>1, BlockResponseTracked
  <2>6. /\ t.got = common.pos
        /\ t.next = (taken.next + 1) % Byte
    BY <1>1, <2>1, TakenFields DEF TakenIsRead
  <2>7. common.fd \/ common.pos = FileSize
    BY <1>1, <2>1 DEF TakenIsRead
  <2>8. common.fd => taken.next = common.count
    BY <1>1, <2>1 DEF TakenIsRead
  <2> QED
    BY <2>4, <2>5, <2>6, <2>7, <2>8
<1>5. CASE CurrentItem.sid # "TD" /\ bytes.sid \in {"RD", "RFT"}
  <2>1. h.meet /\ t = FileOpened
    BY <1>5, TakenFields, Zenon DEF TakenAfter
  <2>2. ~IsTimeout(bytes)
    BY <1>2, <1>5
  <2>3. h.common.fd /\ h.common.pos = 0 /\ h.common.count = 1
    BY <1>1, <1>3, <1>5, <2>1, <2>2, HandleContinues
  <2>4. t.got = 0 /\ t.next = 1
    BY <2>1, TakenFields, Zenon
  <2> QED
    BY <1>5, <2>3, <2>4
<1>6. CASE CurrentItem.sid # "TD" /\ bytes.sid \notin {"RD", "RFT"}
  <2>1. bytes.sid # "RTE" /\ t = taken
    BY <1>6, TakenFields, Zenon DEF TakenAfter
  <2>2. /\ h.common.pos = common.pos /\ h.common.count = common.count
        /\ h.common.fd = common.fd
    <3>1. CASE IsTimeout(bytes)
      BY <1>2, <3>1
    <3>2. CASE ~IsTimeout(bytes)
      BY <1>1, <1>3, <1>6, <2>1, <3>2, HandleContinues
    <3> QED
      BY <3>1, <3>2
  <2>3. ~AwaitsBlock
    BY <1>6 DEF AwaitsBlock
  <2> QED
    BY <1>1, <1>6, <2>1, <2>2, <2>3 DEF TakenIsRead
<1> QED
  BY <1>4, <1>5, <1>6

\* One step of any handler keeps the invariant.
LEMMA TransferStep ==
  ASSUME Orderly, TransferInv, [Next]_vars
  PROVE  TransferInv'
<1>1. TypeOK /\ DataOK /\ OneIsAsked /\ Tracked(common) /\ BlockIsRead /\ TakenIsRead
  BY DEF TransferInv
<1>2. TypeOK' /\ DataOK'
  BY <1>1, TypeStep, DataStep
<1>3. common \in Common
  BY <1>1 DEF DataOK
<1>4. ASSUME NEW c
      PROVE  Tracked(Released(c))
  BY DEF Released, Tracked
<1>5. ASSUME responseTimer' = FALSE, Tracked(common'), TakenIsRead'
      PROVE  TransferInv'
  BY <1>2, <1>5 DEF TransferInv, OneIsAsked, BlockIsRead, AwaitsBlock
<1>6. ASSUME NEW c, ServicesStop(c)
      PROVE  TransferInv'
  <2>1. TakenIsRead'
    BY <1>6 DEF ServicesStop, TakenIsRead
  <2> QED
    BY <1>4, <1>5, <1>6, <2>1 DEF ServicesStop
<1>7. ASSUME ~responseTimer, responseTimer' = responseTimer, Tracked(common'), TakenIsRead'
      PROVE  TransferInv'
  <2>1. responseTimer = FALSE
    BY <1>1, <1>7 DEF TypeOK, FlagsOK
  <2>2. responseTimer' = FALSE
    BY <1>7, <2>1, Zenon
  <2> QED
    BY <1>5, <1>7, <2>2, Zenon
<1>8. ASSUME UNCHANGED <<sindex, requestTimer, responseTimer, taken>>,
             Active => request'[sindex] = request[sindex],
             common' = common \/ common' = [common EXCEPT !.keys = @ + 1],
             Active => Active' /\ CurrentItem' = CurrentItem
      PROVE  TransferInv'
  <2>1. /\ common'.fd = common.fd /\ common'.buff = common.buff
        /\ common'.size = common.size /\ common'.pos = common.pos
        /\ common'.total = common.total /\ common'.block = common.block
        /\ common'.count = common.count
    BY <1>3, <1>8 DEF Common
  <2>2. Tracked(common') /\ (Covered(common) => Covered(common'))
    BY <1>1, <2>1 DEF Tracked, Covered, Payload
  <2>3. OneIsAsked'
    BY <1>1, <1>8 DEF OneIsAsked
  <2>4. BlockIsRead'
    BY <1>1, <1>8, <2>2 DEF OneIsAsked, BlockIsRead, AwaitsBlock
  <2>5. AwaitsBlock /\ common.fd /\ ContinuesFile =>
          (AwaitsBlock /\ common.fd /\ ContinuesFile)'
    BY <1>1, <1>8, <2>1 DEF OneIsAsked, AwaitsBlock, ContinuesFile
  <2>6. TakenIsRead'
    BY <1>1, <1>8, <2>1, <2>5 DEF TakenIsRead
  <2> QED
    BY <1>2, <2>2, <2>3, <2>4, <2>6 DEF TransferInv
<1>9. CASE UdscCreate
  BY <1>8, <1>9 DEF UdscCreate, timers, items, Active, CurrentItem
<1>10. ASSUME NEW item \in Items, ItemAdd(item)
       PROVE  TransferInv'
  <2>1. Active => Active' /\ CurrentItem' = CurrentItem
    BY <1>1, <1>10, SizeAssumption DEF ItemAdd, Active, CurrentItem, TypeOK, ListOK, Slots
  <2>2. Active => request'[sindex] = request[sindex]
    BY <1>1, <1>10, SizeAssumption DEF ItemAdd, Active, DataOK, TypeOK, ListOK, Slots
  <2> QED
    BY <1>8, <1>10, <2>1, <2>2 DEF ItemAdd, timers
<1>11. ASSUME NEW a, NEW e, NEW r, GeneralConfig(a, e, r)
       PROVE  TransferInv'
  BY <1>8, <1>11 DEF GeneralConfig, timers, items, list, Active, CurrentItem
<1>12. CASE SaKey
  BY <1>8, <1>12 DEF SaKey, timers, items, list, Active, CurrentItem
<1>13. CASE ServicesStart
  <2>1. TakenIsRead'
    BY <1>13 DEF ServicesStart, TakenIsRead, NothingTaken
  <2> QED
    BY <1>1, <1>7, <1>13, <2>1 DEF ServicesStart, OneIsAsked
<1>14. CASE StopScript
  BY <1>6, <1>14 DEF StopScript
<1>15. CASE UdscDestory
  <2>1. ~responseTimer /\ responseTimer' = responseTimer /\ common' = NewCommon
    BY <1>1, <1>15 DEF UdscDestory, OneIsAsked, timers, Cleared
  <2>2. TakenIsRead'
    BY <1>15 DEF UdscDestory, Cleared, TakenIsRead
  <2> QED
    BY <1>7, <2>1, <2>2 DEF NewCommon, Tracked
<1>16. CASE MasterReset
  <2>1. TakenIsRead'
    BY <1>16 DEF MasterReset, Cleared, TakenIsRead
  <2> QED
    BY <1>5, <1>16, <2>1 DEF MasterReset, Cleared, NewCommon, Tracked
<1>17. CASE RequestSent
  <2>1. PICK i \in sindex..(service_cnt - 1) :
               /\ Enabled(i) /\ sindex' = i /\ common' = Prepared(i + 1).common
               /\ request' = Prepared(i + 1).request
               /\ taken' = TakenWithout(EnabledIn(sindex, i))
    BY <1>17 DEF RequestSent
  <2>2. /\ Active /\ requestTimer' = FALSE /\ responseTimer' = TRUE
        /\ UNCHANGED <<service_items, service_cnt>>
    BY <1>17 DEF RequestSent, list
  <2>3. i + 1 \in sindex..service_cnt /\ i + 1 > sindex /\ (i + 1) - 1 = i
    BY <1>1 DEF TypeOK, ListOK
  <2>4. /\ Tracked(common')
        /\ service_items[i].sid = "TD" => Covered(common')
    BY <1>1, <2>1, <2>2, <2>3, PreparedTracked
  <2>5. Active'
    BY <1>1, <2>1, <2>2 DEF Active, TypeOK, ListOK
  <2>6. CurrentItem' = service_items[i]
    BY <2>1, <2>2 DEF CurrentItem
  <2>7. OneIsAsked' /\ BlockIsRead'
    BY <2>2, <2>4, <2>5, <2>6 DEF OneIsAsked, BlockIsRead, AwaitsBlock
  <2>8. TakenIsRead'
    <3> SUFFICES ASSUME taken'.whole PROVE TakenIsRead'
      BY DEF TakenIsRead
    <3>1. /\ taken' = taken
          /\ \A k \in EnabledIn(sindex, i) : service_items[k].sid # "TD"
      BY <2>1, TakenFields DEF TakenWithout
    <3>2. /\ taken.got = common.pos /\ (common.fd => taken.next = common.count)
          /\ common.fd \/ common.pos = FileSize
      BY <1>1, <1>17, <2>2, <3>1 DEF TakenIsRead, AwaitsBlock, OneIsAsked, RequestSent,
                                     Active
    <3> DEFINE p == [common |-> common', request |-> request'[i]]
    <3>3. p.common = common' /\ p.request = request'[i]
      OBVIOUS
    <3>4. /\ Continues(common, p)
          /\ service_items[i].sid # "TD" => common' = common
      BY <1>1, <2>1, <2>2, <3>1, PreparedContinues
    <3> HIDE DEF p
    <3>5. service_items[i].sid = "TD" => AwaitsBlock'
      BY <2>2, <2>6 DEF AwaitsBlock
    <3>6. common'.pos = common.pos \/ (AwaitsBlock /\ common.fd /\ ContinuesFile)'
      <4>1. CASE common'.pos = common.pos
        BY <4>1
      <4>2. CASE common'.pos # common.pos
        <5>1. /\ common.fd /\ request'[i].count = common.count
              /\ common.pos + request'[i].len = common'.pos
          BY <3>3, <3>4, <4>2 DEF Continues
        <5>2. service_items[i].sid = "TD" /\ common'.fd
          BY <3>3, <3>4, <4>2, <5>1 DEF Continues
        <5>3. ContinuesFile'
          BY <2>1, <3>1, <3>2, <5>1 DEF ContinuesFile
        <5> QED
          BY <3>5, <5>2, <5>3
      <4> QED
        BY <4>1, <4>2
    <3>7. /\ common'.fd => taken'.next = common'.count
          /\ common'.fd \/ common'.pos = FileSize
      BY <3>1, <3>2, <3>3, <3>4 DEF Continues
    <3> QED
      BY <3>1, <3>2, <3>6, <3>7 DEF TakenIsRead
  <2> QED
    BY <1>2, <2>4, <2>7, <2>8 DEF TransferInv
<1>18. CASE RequestAborted
  BY <1>6, <1>18 DEF RequestAborted, Finish
<1>19. CASE RequestsExhausted
  <2>1. CASE ServicesStop(Prepared(service_cnt).common)
    BY <1>6, <2>1
  <2>2. CASE /\ responseTimer' = responseTimer /\ common' = Prepared(service_cnt).common
             /\ Enabled(service_cnt - 1)
    <3>1. ~responseTimer /\ Active
      BY <1>1, <1>19 DEF OneIsAsked, RequestsExhausted
    <3>2. service_cnt \in sindex..service_cnt
      BY <1>1, <3>1 DEF Active, TypeOK, ListOK
    <3>3. Tracked(common')
      BY <1>1, <2>2, <3>1, <3>2, PreparedTracked
    <3>4. TakenIsRead'
      <4> SUFFICES ASSUME taken'.whole PROVE TakenIsRead'
        BY DEF TakenIsRead
      <4>1. taken' = TakenWithout(EnabledIn(sindex, service_cnt))
        BY <1>19 DEF RequestsExhausted
      <4>2. /\ taken' = taken
            /\ \A k \in EnabledIn(sindex, service_cnt) : service_items[k].sid # "TD"
        BY <4>1, TakenFields DEF TakenWithout
      <4>3. /\ taken.got = common.pos /\ (common.fd => taken.next = common.count)
            /\ common.fd \/ common.pos = FileSize
        BY <1>1, <3>1, <4>2 DEF TakenIsRead, AwaitsBlock, Active
      <4>4. PICK i \in sindex..(service_cnt - 1) : i = service_cnt - 1
        BY <1>1, <3>1 DEF Active, TypeOK, ListOK
      <4>5. /\ i \in EnabledIn(sindex, service_cnt) /\ i + 1 = service_cnt
            /\ EnabledIn(sindex, i) \subseteq EnabledIn(sindex, service_cnt)
        BY <1>1, <2>2, <4>4 DEF TypeOK, ListOK, EnabledIn
      <4>6. common' = common
        BY <1>1, <2>2, <3>1, <4>2, <4>5, PreparedContinues
      <4> QED
        BY <4>2, <4>3, <4>6 DEF TakenIsRead
    <3> QED
      BY <1>7, <2>2, <3>1, <3>3, <3>4
  <2> QED
    BY <1>19, <2>1, <2>2 DEF RequestsExhausted, Finish
<1>20. ASSUME NEW bytes \in Bytes \cup {NoBytes}, Active, Answered(bytes),
              IsTimeout(bytes) \/ (responseTimer /\ bytes.sid = CurrentItem.sid)
       PROVE  TransferInv'
  <2>1. PICK opens \in BOOLEAN : Abort(bytes, opens) \/ GoOn(bytes, opens)
    BY <1>20 DEF Answered
  <2>2. Tracked(HandledBy(bytes, opens).common)
    <3>1. CASE IsTimeout(bytes)
      BY <1>1, <3>1 DEF HandledBy, Handled
    <3>2. CASE ~IsTimeout(bytes)
      <4>1. bytes \in Bytes /\ (bytes.sid = "TD" => Covered(common))
        BY <1>1, <1>20, <3>2 DEF IsTimeout, BlockIsRead, AwaitsBlock
      <4> QED
        BY <1>1, <1>3, <3>2, <4>1, HandleTracked DEF HandledBy
    <3> QED
      BY <3>1, <3>2
  <2>3. PICK h : h = HandledBy(bytes, opens)
    OBVIOUS
  <2>4. \/ \E c : ServicesStop(c)
        \/ /\ responseTimer' = FALSE /\ common' = h.common
           /\ taken' = TakenAfter(bytes, h.meet)
    BY <2>1, <2>3 DEF Abort, GoOn, Finish
  <2>5. CASE /\ responseTimer' = FALSE /\ common' = h.common
             /\ taken' = TakenAfter(bytes, h.meet)
    <3>1. TakenIsRead'
      BY <1>20, <2>3, <2>5, AnswerTaken DEF TakenIsRead
    <3> QED
      BY <1>5, <2>2, <2>3, <2>5, <3>1
  <2> QED
    BY <1>6, <2>4, <2>5
<1>21. ASSUME NEW bytes \in Responses, Response(bytes)
       PROVE  TransferInv'
  <2>1. bytes \in Bytes
    BY ResponsesAssumption
  <2> QED
    BY <1>20, <1>21, <2>1 DEF Response, Delivered
<1>22. ASSUME NEW bytes \in Responses, ResponsePending(bytes)
       PROVE  TransferInv'
  <2>1. /\ responseTimer /\ responseTimer' = TRUE
        /\ UNCHANGED <<sindex, requestTimer, list, common, taken, request>>
    BY <1>22 DEF ResponsePending, Delivered, items
  <2>2. responseTimer' = responseTimer \/ responseTimer \notin BOOLEAN
    BY <2>1
  <2>3. responseTimer \in BOOLEAN
    BY <1>1 DEF TypeOK, FlagsOK
  <2> QED
    BY <1>8, <2>1, <2>2, <2>3 DEF list, Active, CurrentItem
<1>23. CASE ResponseTimeout
  BY <1>20, <1>23 DEF ResponseTimeout, IsTimeout
<1>24. CASE StaleTimeout
  BY <1>1, <1>24 DEF StaleTimeout, OneIsAsked
<1>25. CASE UNCHANGED vars
  BY <1>8, <1>25 DEF vars, timers, items, list, Active, CurrentItem
<1> QED
  BY <1>9, <1>10, <1>11, <1>12, <1>13, <1>14, <1>15, <1>16, <1>17, <1>18, <1>19, <1>21,
     <1>22, <1>23, <1>24, <1>25, NextCases

\* Nothing but an answer that ends the transfer makes an item met.
LEMMA MetIsAnswered ==
  ASSUME TypeOK, Next, Active, outcome[sindex] = "none", outcome'[sindex] = "met"
  PROVE  \E bytes \in Responses \cup {NoBytes} : \E opens \in BOOLEAN :
           /\ GoOn(bytes, opens)
           /\ bytes # NoBytes => Delivered(bytes)
<1>1. sindex \in Slots /\ sindex < service_cnt /\ outcome[sindex] # "met"
  BY SizeAssumption DEF TypeOK, ListOK, Active, Slots
<1>2. outcome' # outcome
  OBVIOUS
<1>3. ASSUME NEW S, outcome' = Unsent(S)
      PROVE  FALSE
  BY <1>1, <1>3 DEF Unsent
<1>4. outcome \in [Slots -> Outcomes]
  BY DEF TypeOK, CountsOK
<1>5. ASSUME NEW bytes, Answered(bytes)
      PROVE  \E opens \in BOOLEAN : GoOn(bytes, opens)
  <2>1. PICK opens \in BOOLEAN : Abort(bytes, opens) \/ GoOn(bytes, opens)
    BY <1>5 DEF Answered
  <2>2. ~Abort(bytes, opens)
    <3> SUFFICES ASSUME outcome' = [outcome EXCEPT ![sindex] = "unmet"] PROVE FALSE
      BY DEF Abort
    <3> QED
      BY <1>1, <1>4
  <2> QED
    BY <2>1, <2>2
<1>6. CASE \/ UdscCreate \/ SaKey \/ StopScript \/ StaleTimeout
           \/ \E a, e, r \in BOOLEAN : GeneralConfig(a, e, r)
           \/ \E bytes \in Responses : ResponsePending(bytes)
  BY <1>2, <1>6 DEF UdscCreate, SaKey, StopScript, StaleTimeout, GeneralConfig,
                    ResponsePending, items
<1>7. CASE \/ UdscDestory \/ MasterReset \/ ServicesStart
  BY <1>1, <1>7 DEF UdscDestory, MasterReset, ServicesStart, Cleared
<1>8. CASE \E item \in Items : ItemAdd(item)
  <2>1. outcome' = [outcome EXCEPT ![service_cnt] = "none"]
    BY <1>8 DEF ItemAdd
  <2> QED
    BY <1>1, <1>4, <2>1
<1>9. CASE RequestSent \/ RequestAborted \/ RequestsExhausted
  BY <1>3, <1>9 DEF RequestSent, RequestAborted, RequestsExhausted
<1>10. CASE \E bytes \in Responses : Response(bytes)
  BY <1>5, <1>10 DEF Response
<1>11. CASE ResponseTimeout
  BY <1>5, <1>11 DEF ResponseTimeout
<1> QED
  BY <1>6, <1>7, <1>8, <1>9, <1>10, <1>11, NextCases

\* An ECU that answers each request once and in time has taken all of the file, block
\* after block, when the item that transfers it is passed as met, unless one of its
\* blocks was not sent, not answered or rejected: for every file, every block length it
\* grants, every limit, list and configuration (udsc_service_36_td_request_preprocess,
\* udsc_service_36_td_response_handler).
THEOREM TransferCorrect ==
  ASSUME Orderly
  PROVE  Spec => WholeFileTaken
<1>1. Init => TransferInv
  <2> SUFFICES ASSUME Init PROVE TransferInv
    OBVIOUS
  <2>1. TypeOK
    BY InitType
  <2>2. DataOK
    BY NewData DEF Init, DataOK
  <2>3. OneIsAsked /\ Tracked(common) /\ BlockIsRead /\ TakenIsRead
    BY DEF Init, OneIsAsked, Tracked, BlockIsRead, AwaitsBlock, TakenIsRead, NewCommon
  <2> QED
    BY <2>1, <2>2, <2>3 DEF TransferInv
<1>2. TransferInv /\ [Next]_vars => TransferInv'
  BY TransferStep
<1>3. ASSUME TransferInv, [Next]_vars
      PROVE  [Active /\ CurrentItem.sid = "TD" /\ taken'.whole
                /\ outcome[sindex] = "none" /\ outcome'[sindex] = "met"
                => taken'.got = FileSize]_vars
  <2> SUFFICES ASSUME Next, Active, CurrentItem.sid = "TD", taken'.whole,
                      outcome[sindex] = "none", outcome'[sindex] = "met"
               PROVE  taken'.got = FileSize
    BY <1>3
  <2>1. TypeOK
    BY <1>3 DEF TransferInv
  <2>2. PICK bytes \in Responses \cup {NoBytes}, opens \in BOOLEAN :
               GoOn(bytes, opens) /\ (bytes # NoBytes => Delivered(bytes))
    BY <2>1, MetIsAnswered
  <2>3. PICK h : h = HandledBy(bytes, opens)
    OBVIOUS
  <2>4. sindex \in Slots /\ outcome \in [Slots -> Outcomes]
    BY <2>1, SizeAssumption DEF TypeOK, ListOK, CountsOK, Active, Slots
  <2>5. ~h.keep
    <3>1. PICK again, met :
            /\ again = (h.keep \/ KeptByRule(CurrentItem, finish_try_num[sindex], bytes))
            /\ met = (MeetsExpect(CurrentItem, bytes) /\ h.meet)
      OBVIOUS
    <3>2. outcome' = IF again THEN outcome
                     ELSE [outcome EXCEPT ![sindex] = IF met THEN "met" ELSE "unmet"]
      BY <2>2, <2>3, <3>1, Zenon DEF GoOn
    <3>3. ~again
      BY <2>4, <3>2
    <3> QED
      BY <3>1, <3>3
  <2>6. bytes \in Bytes \cup {NoBytes}
    BY ResponsesAssumption
  <2>7. IsTimeout(bytes) \/ (responseTimer /\ bytes.sid = CurrentItem.sid)
    BY <2>2 DEF IsTimeout, Delivered
  <2>8. taken' = TakenAfter(bytes, h.meet)
    BY <2>2, <2>3, Zenon DEF GoOn
  <2> QED
    BY <1>3, <2>3, <2>5, <2>6, <2>7, <2>8, AnswerTaken
<1> QED
  BY <1>1, <1>2, <1>3, PTL DEF Spec, WholeFileTaken

\* With isFailAbort no block is sent after one that was rejected or not answered, if a
\* positive response is expected of it (udsc_service_response_finish).
THEOREM LossIsFinal == Spec => LostBlockEndsRun
<1>1. ASSUME Next, isFailAbort, taken.whole, ~taken'.whole, Active,
             CurrentItem.sid = "TD", CurrentItem.response_rule = "positive"
      PROVE  ~running'
  <2>1. taken' # taken
    BY <1>1
  <2>2. ASSUME NEW S, S = {}
        PROVE  TakenWithout(S) = taken
    BY <2>2 DEF TakenWithout
  <2>3. ASSUME NEW bytes, Answered(bytes)
        PROVE  ~running'
    <3>1. PICK opens \in BOOLEAN : Abort(bytes, opens) \/ GoOn(bytes, opens)
      BY <2>3 DEF Answered
    <3>2. CASE GoOn(bytes, opens)
      <4>1. PICK h : h = HandledBy(bytes, opens)
        OBVIOUS
      <4>2. MeetsExpect(CurrentItem, bytes) /\ taken' = TakenAfter(bytes, h.meet)
        BY <1>1, <3>2, <4>1, Zenon DEF GoOn
      <4>3. bytes.kind = "positive"
        BY <1>1, <4>2 DEF MeetsExpect
      <4>4. taken' = BlockTaken
        BY <1>1, <4>2, <4>3, Zenon DEF TakenAfter
      <4>5. BlockTaken.whole
        BY DEF BlockTaken
      <4> QED
        BY <1>1, <4>4, <4>5
    <3> QED
      BY <3>1, <3>2 DEF Abort, Finish, ServicesStop
  <2>4. CASE \/ UdscCreate \/ SaKey \/ StopScript \/ StaleTimeout
             \/ \E item \in Items : ItemAdd(item)
             \/ \E a, e, r \in BOOLEAN : GeneralConfig(a, e, r)
             \/ \E bytes \in Responses : ResponsePending(bytes)
    BY <2>1, <2>4 DEF UdscCreate, SaKey, StopScript, StaleTimeout, ItemAdd,
                      GeneralConfig, ResponsePending, items
  <2>5. CASE UdscDestory \/ MasterReset \/ ServicesStart
    BY <1>1, <2>5 DEF UdscDestory, MasterReset, ServicesStart
  <2>6. CASE RequestSent \/ RequestAborted \/ RequestsExhausted
    BY <1>1, <2>1, <2>2, <2>6 DEF RequestSent, RequestAborted, RequestsExhausted, Finish,
                                  ServicesStop
  <2>7. CASE ResponseTimeout \/ \E bytes \in Responses : Response(bytes)
    BY <2>3, <2>7 DEF ResponseTimeout, Response
  <2> QED
    BY <1>1, <2>4, <2>5, <2>6, <2>7, NextCases
<1>2. [Next]_vars =>
        [isFailAbort /\ taken.whole /\ ~taken'.whole /\ Active
           /\ CurrentItem.sid = "TD" /\ CurrentItem.response_rule = "positive"
           => ~running']_vars
  BY <1>1
<1> QED
  BY <1>2, PTL DEF Spec, LostBlockEndsRun
=============================================================================
