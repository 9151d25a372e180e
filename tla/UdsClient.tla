----------------------------- MODULE UdsClient ------------------------------
(***************************************************************************)
(* The execution engine of one UDS client (dm_uds_client.c): a list of     *)
(* service items that is configured, started, and then executed item by    *)
(* item.  For each enabled item a request timer (the delay of the item)    *)
(* fires, the request is sent, a response timer is armed, and a response   *)
(* or its timeout decides whether the item is repeated, the next item is   *)
(* started, or the run is finished and its result reported.                *)
(*                                                                         *)
(* All handlers of a client run to completion on the event loop of its     *)
(* diag master, so each is one atomic action.  Timers are modelled by      *)
(* whether they are armed: an armed timer may fire at any time, in any     *)
(* order with the other timer, the messages and the commands.              *)
(*                                                                         *)
(* The environment: the diag master API, whose commands reach the client   *)
(* while it is in use (~isidle); the ECU, whose responses may be late,     *)
(* duplicated or belong to another item; the transport, which may fail to  *)
(* send.                                                                   *)
(***************************************************************************)
EXTENDS Integers, UdsCommonVar

CONSTANTS
  service_size,  \* capacity of the list (SERVICE_ITEM_SIZE_MAX in the program)
  Sids,          \* service identifiers
  Items,         \* configurations of a service item the API may add
  Responses,     \* diagnostic messages the ECU may send
  NoItem,        \* the content of an empty slot of the list
  MaxStarts,     \* bound: start commands that are carried out
  MaxMessages,   \* bound: diagnostic messages that are delivered
  MaxKeys,       \* bound: keys held by key_byte
  Orderly        \* the ECU answers a request at most once and before its timeout

\* The bytes of a diagnostic message: its service, whether it is a positive or
\* a negative response or NRC 78 (response pending), the parity of its
\* sub-function and the block length it holds.
Bytes == [sid : Sids, kind : {"positive", "negative", "pending"},
          odd : BOOLEAN, block : 0..(Word - 1)]

\* An empty byte array: what a timeout delivers, or an unset expectation.
NoBytes == [sid |-> "none", kind |-> "none", odd |-> FALSE, block |-> 0]

Item == [isenable : BOOLEAN, sid : Sids, odd : BOOLEAN, issuppress : BOOLEAN,
         response_rule : {"not_set", "positive", "negative", "match", "none"},
         expect : Bytes \cup {NoBytes},
         finish_rule : {"default", "equal_to", "un_equal_to"},
         finish : Bytes \cup {NoBytes},
         finish_num_max : Nat, limit : 0..(Word - 1)]

ASSUME SizeAssumption == service_size \in Nat \ {0}
ASSUME ItemsAssumption == Items \subseteq Item /\ NoItem \notin Items
ASSUME ResponsesAssumption == Responses \subseteq Bytes
ASSUME BoundsAssumption ==
  MaxStarts \in Nat /\ MaxMessages \in Nat /\ MaxKeys \in Nat
ASSUME OrderlyAssumption == Orderly \in BOOLEAN

VARIABLES
  isidle,          \* the client is not in use
  service_items,   \* the list
  service_cnt,     \* number of items in the list
  isFailAbort,     \* a failed item ends the run
  tpEnable,        \* tester present is sent during a run
  isTpRefresh,     \* a request restarts the tester present timer
  sindex,          \* index of the item being executed, -1 when stopped
  requestTimer,    \* request_watcher is armed
  responseTimer,   \* response_watcher is armed
  tpTimer,         \* testerPresent_watcher is armed
  finish_try_num,  \* per item
  request,         \* per item: request_byte
  common           \* common_var

VARIABLES          \* history: what the environment has seen
  running,         \* a run has been started and is not over
  starts,          \* start commands carried out
  reports,         \* results reported
  verdict,         \* result reported since the last start, or "none"
  sends,           \* per item: requests sent in this run
  outcome,         \* per item: how it was passed in this run
  taken,           \* what the ECU has taken of the file opened last in this run
  messages         \* diagnostic messages delivered

list    == <<isidle, service_items, service_cnt>>
general == <<isFailAbort, tpEnable, isTpRefresh>>
timers  == <<requestTimer, responseTimer, tpTimer>>
items   == <<finish_try_num, request, sends, outcome, taken>>
history == <<running, starts, reports, verdict, messages>>

vars == <<list, general, sindex, timers, items, common, history>>

Slots == 0..(service_size - 1)

Verdicts == {"normal", "sent_error", "unexpect", "timeout"}

Outcomes == {"none", "met", "unmet", "unsent"}

\* Of the file: whether each of its blocks read so far was sent and answered by a
\* positive response (whole), the bytes taken from its beginning on (got), and the
\* number of the block that comes next (next).
Takings == [whole : BOOLEAN, got : 0..FileSize, next : 0..(Byte - 1)]

NothingTaken == [whole |-> FALSE, got |-> 0, next |-> 0]

FileOpened == [whole |-> TRUE, got |-> 0, next |-> 1]

ListOK ==
  /\ isidle \in BOOLEAN
  /\ service_cnt \in 0..service_size
  /\ service_items \in [Slots -> Items \cup {NoItem}]
  /\ \A i \in Slots : service_items[i] \in Items <=> i < service_cnt
  /\ sindex \in -1..service_cnt

FlagsOK ==
  /\ isFailAbort \in BOOLEAN
  /\ tpEnable \in BOOLEAN
  /\ isTpRefresh \in BOOLEAN
  /\ requestTimer \in BOOLEAN
  /\ responseTimer \in BOOLEAN
  /\ tpTimer \in BOOLEAN
  /\ running \in BOOLEAN

CountsOK ==
  /\ finish_try_num \in [Slots -> Nat]
  /\ sends \in [Slots -> Nat]
  /\ outcome \in [Slots -> Outcomes]
  /\ starts \in Nat
  /\ reports \in Nat
  /\ verdict \in Verdicts \cup {"none"}
  /\ messages \in Nat

\* The list is filled from the front and sindex stays within it or right behind.
TypeOK == ListOK /\ FlagsOK /\ CountsOK

Init ==
  /\ isidle = TRUE
  /\ service_items = [i \in Slots |-> NoItem]
  /\ service_cnt = 0
  /\ isFailAbort = FALSE
  /\ tpEnable = FALSE
  /\ isTpRefresh = FALSE
  /\ sindex = -1
  /\ requestTimer = FALSE
  /\ responseTimer = FALSE
  /\ tpTimer = FALSE
  /\ finish_try_num = [i \in Slots |-> 0]
  /\ request = [i \in Slots |-> NewRequest]
  /\ common = NewCommon
  /\ running = FALSE
  /\ starts = 0
  /\ reports = 0
  /\ verdict = "none"
  /\ sends = [i \in Slots |-> 0]
  /\ outcome = [i \in Slots |-> "none"]
  /\ taken = NothingTaken
  /\ messages = 0

-----------------------------------------------------------------------------
(***************************************************************************)
(* Helpers                                                                 *)
(***************************************************************************)

\* udsc_service_isactive: sindex names an item of the list.
Active == 0 <= sindex /\ sindex < service_cnt

CurrentItem == service_items[sindex]

Enabled(i) == i < service_cnt /\ service_items[i].isenable

EnabledIn(i, j) == {k \in i..(j - 1) : Enabled(k)}

\* Mutant: items that are still to be executed may be skipped.
IsNextSkipping(i, j) == i <= j /\ (j = service_cnt \/ Enabled(j))

\* j is the first enabled item from i on, or the end of the list.
IsNext(i, j) ==
  /\ i <= j
  /\ EnabledIn(i, j) = {}
  /\ j = service_cnt \/ Enabled(j)

\* Mutant: the tester present timer goes on.
ServicesStopSending(c) ==
  /\ sindex' = -1
  /\ requestTimer' = FALSE
  /\ responseTimer' = FALSE
  /\ common' = Released(c)
  /\ running' = FALSE
  /\ UNCHANGED tpTimer

\* Mutant: the current item stays the current one.
ServicesStopInPlace(c) ==
  /\ requestTimer' = FALSE
  /\ responseTimer' = FALSE
  /\ tpTimer' = FALSE
  /\ common' = Released(c)
  /\ running' = FALSE
  /\ UNCHANGED sindex

\* udsc_services_stop
ServicesStop(c) ==
  /\ sindex' = -1
  /\ requestTimer' = FALSE
  /\ responseTimer' = FALSE
  /\ tpTimer' = FALSE
  /\ common' = Released(c)
  /\ running' = FALSE

\* Mutant: every run is reported as a normal one.
FinishNormally(stat, c) ==
  /\ ServicesStop(c)
  /\ reports' = reports + 1
  /\ verdict' = "normal"

\* finish_callback, then udsc_services_stop
Finish(stat, c) ==
  /\ ServicesStop(c)
  /\ reports' = reports + 1
  /\ verdict' = stat

\* Mutant: the search for the next item starts over.
RequestStartOver(i) ==
  /\ sindex' = 0
  /\ requestTimer' = TRUE
  /\ running' = TRUE

\* udsc_service_request_start
RequestStart(i) ==
  /\ sindex' = i
  /\ requestTimer' = TRUE
  /\ running' = TRUE

-----------------------------------------------------------------------------
(***************************************************************************)
(* Commands of the API                                                     *)
(***************************************************************************)

\* A free client is handed to the API.
UdscCreate ==
  /\ isidle
  /\ isidle' = FALSE
  /\ UNCHANGED <<service_items, service_cnt, general, sindex, timers, items,
                 common, history>>

\* Mutant: the list has no capacity.
ItemAddUnbounded(item) ==
  /\ ~isidle
  /\ service_items' = [service_items EXCEPT ![service_cnt] = item]
  /\ service_cnt' = service_cnt + 1
  /\ UNCHANGED <<isidle, general, sindex, timers, items, common, history>>

\* An item is appended, also while a run is in progress; a full list refuses.
ItemAdd(item) ==
  /\ ~isidle
  /\ service_cnt < service_size
  /\ service_items' = [service_items EXCEPT ![service_cnt] = item]
  /\ service_cnt' = service_cnt + 1
  /\ finish_try_num' = [finish_try_num EXCEPT ![service_cnt] = 0]
  /\ request' = [request EXCEPT ![service_cnt] = NewRequest]
  /\ sends' = [sends EXCEPT ![service_cnt] = 0]
  /\ outcome' = [outcome EXCEPT ![service_cnt] = "none"]
  /\ UNCHANGED <<isidle, general, sindex, timers, common, taken, history>>

GeneralConfig(abort, enable, refresh) ==
  /\ ~isidle
  /\ isFailAbort' = abort
  /\ tpEnable' = enable
  /\ isTpRefresh' = refresh
  /\ UNCHANGED <<list, sindex, timers, items, common, history>>

\* The key the API computed for a seed is appended to key_byte.
SaKey ==
  /\ ~isidle
  /\ common.keys < MaxKeys
  /\ common' = [common EXCEPT !.keys = @ + 1]
  /\ UNCHANGED <<list, general, sindex, timers, items, history>>

\* The delay of the first enabled item is started; without one, sindex stays
\* behind the end of the list.
ServicesStart ==
  /\ ~isidle
  /\ ~Active
  /\ starts < MaxStarts
  /\ \E i \in 0..service_cnt :
       /\ IsNext(0, i)
       /\ sindex' = i
       /\ requestTimer' = (requestTimer \/ i < service_cnt)
       /\ tpTimer' = (tpTimer \/ (i < service_cnt /\ tpEnable))
       /\ running' = (i < service_cnt)
  /\ starts' = starts + 1
  /\ verdict' = "none"
  /\ sends' = [i \in Slots |-> 0]
  /\ outcome' = [i \in Slots |-> "none"]
  /\ taken' = NothingTaken
  /\ UNCHANGED <<list, general, responseTimer, finish_try_num, request, common,
                 reports, messages>>

StopScript ==
  /\ ~isidle
  /\ ServicesStop(common)
  /\ UNCHANGED <<list, general, items, starts, reports, verdict, messages>>

\* udsc_reset
Cleared ==
  /\ isidle' = TRUE
  /\ service_items' = [i \in Slots |-> NoItem]
  /\ service_cnt' = 0
  /\ isFailAbort' = FALSE
  /\ tpEnable' = FALSE
  /\ isTpRefresh' = FALSE
  /\ sindex' = -1
  /\ common' = NewCommon
  /\ finish_try_num' = [i \in Slots |-> 0]
  /\ request' = [i \in Slots |-> NewRequest]
  /\ sends' = [i \in Slots |-> 0]
  /\ outcome' = [i \in Slots |-> "none"]
  /\ taken' = NothingTaken

\* Mutant: a client is given back in the middle of a run.
UdscDestoryActive ==
  /\ ~isidle
  /\ Cleared
  /\ running' = FALSE
  /\ UNCHANGED <<timers, starts, reports, verdict, messages>>

\* The client is given back.  An active client refuses to be reset, and a reset
\* leaves the timers as they are.
UdscDestory ==
  /\ ~isidle
  /\ ~Active
  /\ Cleared
  /\ running' = FALSE
  /\ UNCHANGED <<timers, starts, reports, verdict, messages>>

\* Every client is stopped and reset, in use or not.
MasterReset ==
  /\ Cleared
  /\ requestTimer' = FALSE
  /\ responseTimer' = FALSE
  /\ tpTimer' = FALSE
  /\ running' = FALSE
  /\ UNCHANGED <<starts, reports, verdict, messages>>

-----------------------------------------------------------------------------
(***************************************************************************)
(* The request timer fires: udsc_service_request_handler.  From the        *)
(* current item on, each enabled item is prepared and sent until one is    *)
(* sent, or fails with isFailAbort set, or the list is exhausted.  The     *)
(* handler's return for a client that is not active is never taken: see    *)
(* the invariant RequestTimerActive.                                       *)
(***************************************************************************)

\* common and request after the enabled items of sindex..(i - 1) are prepared.
Prepared(i) ==
  LET before[k \in sindex..i] ==
        IF k = sindex THEN [common |-> common, request |-> request]
        ELSE LET s == before[k - 1]
                 p == Preprocess(s.common, s.request[k - 1], service_items[k - 1])
             IN  IF Enabled(k - 1)
                 THEN [common  |-> p.common,
                       request |-> [s.request EXCEPT ![k - 1] = p.request]]
                 ELSE s
  IN  before[i]

Unsent(S) == [i \in Slots |-> IF i \in S THEN "unsent" ELSE outcome[i]]

\* The blocks read for the items of S, if any, are not sent.
TakenWithout(S) ==
  IF \E i \in S : service_items[i].sid = "TD" THEN NothingTaken ELSE taken

\* The tester present timer is restarted, also by a handler that sends nothing.
TesterPresentRefresh == tpTimer' = (tpTimer \/ (tpEnable /\ isTpRefresh))

\* Mutant: no timeout is set for the response.
RequestSentForever ==
  /\ requestTimer
  /\ Active
  /\ \E i \in sindex..(service_cnt - 1) :
       /\ Enabled(i)
       /\ sindex' = i
       /\ sends' = [sends EXCEPT ![i] = @ + 1]
       /\ outcome' = Unsent(EnabledIn(sindex, i))
  /\ requestTimer' = FALSE
  /\ TesterPresentRefresh
  /\ UNCHANGED <<list, general, responseTimer, finish_try_num, request, common,
                 taken, history>>

\* Item i is sent, those before it could not be.
RequestSent ==
  /\ requestTimer
  /\ Active
  /\ \E i \in sindex..(service_cnt - 1) :
       /\ Enabled(i)
       /\ isFailAbort => EnabledIn(sindex, i) = {}
       /\ sindex' = i
       /\ common' = Prepared(i + 1).common
       /\ request' = Prepared(i + 1).request
       /\ sends' = [sends EXCEPT ![i] = @ + 1]
       /\ outcome' = Unsent(EnabledIn(sindex, i))
       /\ taken' = TakenWithout(EnabledIn(sindex, i))
  /\ requestTimer' = FALSE
  /\ responseTimer' = TRUE
  /\ TesterPresentRefresh
  /\ UNCHANGED <<list, general, finish_try_num, history>>

\* Sending fails and ends the run.
RequestAborted ==
  /\ requestTimer
  /\ Active
  /\ isFailAbort
  /\ \E i \in sindex..(service_cnt - 1) :
       /\ IsNext(sindex, i)
       /\ Finish("sent_error", Prepared(i + 1).common)
       /\ request' = Prepared(i + 1).request
       /\ outcome' = Unsent({i})
       /\ taken' = TakenWithout({i})
  /\ UNCHANGED <<list, general, finish_try_num, sends, starts, messages>>

\* Mutant: isfail is not cleared for each item, so that any failure is remembered.
RequestsExhaustedFailed ==
  /\ requestTimer
  /\ Active
  /\ isFailAbort => EnabledIn(sindex, service_cnt) = {}
  /\ outcome' = Unsent(EnabledIn(sindex, service_cnt))
  /\ IF EnabledIn(sindex, service_cnt) # {}
     THEN /\ sindex' = service_cnt
          /\ requestTimer' = FALSE
          /\ running' = FALSE
          /\ UNCHANGED <<responseTimer, tpTimer, common, reports, verdict>>
     ELSE Finish("normal", common)
  /\ UNCHANGED <<list, general, finish_try_num, request, sends, taken, starts, messages>>

\* No item of the rest of the list can be sent.  Only the failure of the last
\* item is remembered (isfail is cleared for each item): a disabled last item
\* ends the run as a normal one, an enabled one leaves sindex behind the end.
RequestsExhausted ==
  /\ requestTimer
  /\ Active
  /\ isFailAbort => EnabledIn(sindex, service_cnt) = {}
  /\ request' = Prepared(service_cnt).request
  /\ outcome' = Unsent(EnabledIn(sindex, service_cnt))
  /\ taken' = TakenWithout(EnabledIn(sindex, service_cnt))
  /\ IF Enabled(service_cnt - 1)
     THEN /\ sindex' = service_cnt
          /\ requestTimer' = FALSE
          /\ TesterPresentRefresh
          /\ common' = Prepared(service_cnt).common
          /\ running' = FALSE
          /\ UNCHANGED <<responseTimer, reports, verdict>>
     ELSE Finish("normal", Prepared(service_cnt).common)
  /\ UNCHANGED <<list, general, finish_try_num, sends, starts, messages>>

-----------------------------------------------------------------------------
(***************************************************************************)
(* A response or its timeout: udsc_service_response_finish.                *)
(***************************************************************************)

IsTimeout(bytes) == bytes = NoBytes

\* Mutant: a negative response passes for a positive one.
MeetsExpectAny(item, bytes) ==
  IF IsTimeout(bytes)
  THEN item.response_rule \in {"not_set", "none"}
  ELSE item.response_rule # "none"

\* udsc_service_match_response_expect
MeetsExpect(item, bytes) ==
  IF IsTimeout(bytes)
  THEN item.response_rule \in {"not_set", "none"}
  ELSE /\ ~item.issuppress
       /\ CASE item.response_rule = "not_set"  -> TRUE
            [] item.response_rule = "positive" -> bytes.kind = "positive"
            [] item.response_rule = "negative" -> bytes.kind = "negative"
            [] item.response_rule = "match"    -> bytes = item.expect
            [] item.response_rule = "none"     -> FALSE

\* Mutant: a try that fails the finish rule is not counted.
TriedOnRepeat(item, n) == n

\* udsc_service_match_finish_rule: the tries of the item with this response ...
Tried(item, n) == IF item.finish_rule = "default" THEN n ELSE n + 1

\* ... and whether it is to be executed again.
KeptByRule(item, n, bytes) ==
  /\ \/ item.finish_rule = "equal_to" /\ bytes # item.finish
     \/ item.finish_rule = "un_equal_to" /\ bytes = item.finish
  /\ ~(Tried(item, n) > item.finish_num_max)

\* Only a response has a handler, a timeout has none.
HandledBy(bytes, opens) ==
  IF IsTimeout(bytes) THEN Handled(common, TRUE, FALSE)
                      ELSE Handle(common, bytes, opens)

\* The answered block is the continuation of what the ECU has, under its number.
ContinuesFile ==
  request[sindex].count = taken.next /\ taken.got + request[sindex].len = common.pos

BlockTaken ==
  [whole |-> TRUE, got |-> IF ContinuesFile THEN common.pos ELSE taken.got,
   next  |-> (taken.next + 1) % Byte]

\* What the ECU has taken with its response; met says whether the handler has opened
\* a file.
TakenAfter(bytes, met) ==
  IF CurrentItem.sid = "TD"
  THEN IF taken.whole /\ bytes.kind = "positive" THEN BlockTaken ELSE NothingTaken
  ELSE CASE bytes.sid \in {"RD", "RFT"} -> IF met THEN FileOpened ELSE NothingTaken
         [] bytes.sid = "RTE" -> NothingTaken
         [] OTHER -> taken

\* The expectation is not met, before or after the response handler, and
\* isFailAbort ends the run.
Abort(bytes, opens) ==
  LET h == HandledBy(bytes, opens)
      unexpected == ~MeetsExpect(CurrentItem, bytes)
  IN  /\ isFailAbort
      /\ unexpected \/ ~h.meet
      /\ Finish(IF IsTimeout(bytes) THEN "timeout" ELSE "unexpect",
                IF unexpected THEN common ELSE h.common)
      /\ finish_try_num' =
           [finish_try_num EXCEPT ![sindex] = Tried(CurrentItem, @)]
      /\ outcome' = [outcome EXCEPT ![sindex] = "unmet"]
      /\ taken' = TakenAfter(bytes, FALSE)

\* The run goes on: the current item is executed again, the next enabled item
\* is started, or the run is finished.
GoOn(bytes, opens) ==
  LET h == HandledBy(bytes, opens)
      met == MeetsExpect(CurrentItem, bytes) /\ h.meet
      n == finish_try_num[sindex]
      again == h.keep \/ KeptByRule(CurrentItem, n, bytes)
  IN  /\ isFailAbort => met
      /\ finish_try_num' =
           [finish_try_num EXCEPT ![sindex] =
              IF again THEN Tried(CurrentItem, n) + 1 ELSE Tried(CurrentItem, n)]
      /\ outcome' =
           IF again THEN outcome
           ELSE [outcome EXCEPT ![sindex] = IF met THEN "met" ELSE "unmet"]
      /\ taken' = TakenAfter(bytes, h.meet)
      /\ \/ \E i \in sindex..(service_cnt - 1) :
              /\ IF again THEN i = sindex ELSE i > sindex /\ IsNext(sindex + 1, i)
              /\ RequestStart(i)
              /\ responseTimer' = FALSE
              /\ common' = h.common
              /\ UNCHANGED <<tpTimer, reports, verdict>>
         \/ /\ ~again
            /\ IsNext(sindex + 1, service_cnt)
            /\ Finish("normal", h.common)

Answered(bytes) ==
  /\ \E opens \in BOOLEAN : Abort(bytes, opens) \/ GoOn(bytes, opens)
  /\ UNCHANGED <<list, general, request, sends, starts>>

\* A message for another service, or for a client that is not active, changes
\* nothing and is left out.
Delivered(bytes) ==
  /\ ~isidle
  /\ messages < MaxMessages
  /\ Orderly => responseTimer /\ ~requestTimer
  /\ messages' = messages + 1
  /\ Active
  /\ bytes.sid = CurrentItem.sid

Response(bytes) ==
  /\ Delivered(bytes)
  /\ bytes.kind # "pending"
  /\ Answered(bytes)

\* NRC 78: the response timer is started anew, whatever the state of the item.
ResponsePending(bytes) ==
  /\ Delivered(bytes)
  /\ bytes.kind = "pending"
  /\ responseTimer' = TRUE
  /\ UNCHANGED <<list, general, sindex, requestTimer, tpTimer, items, common,
                 running, starts, reports, verdict>>

ResponseTimeout ==
  /\ responseTimer
  /\ Active
  /\ Answered(NoBytes)
  /\ UNCHANGED messages

\* The timer was left armed by a run that is over.
StaleTimeout ==
  /\ responseTimer
  /\ ~Active
  /\ responseTimer' = FALSE
  /\ UNCHANGED <<list, general, sindex, requestTimer, tpTimer, items, common,
                 history>>

-----------------------------------------------------------------------------

Command ==
  \/ UdscCreate
  \/ \E item \in Items : ItemAdd(item)
  \/ \E abort, enable, refresh \in BOOLEAN : GeneralConfig(abort, enable, refresh)
  \/ SaKey
  \/ ServicesStart
  \/ StopScript
  \/ UdscDestory
  \/ MasterReset

RequestTimer == RequestSent \/ RequestAborted \/ RequestsExhausted

ResponseTimer == ResponseTimeout \/ StaleTimeout

Next ==
  \/ Command
  \/ RequestTimer
  \/ ResponseTimer
  \/ \E bytes \in Responses : Response(bytes) \/ ResponsePending(bytes)

Spec == Init /\ [][Next]_vars

\* The event loop fires every armed timer; nothing is assumed of the API, the
\* ECU or the transport.
Fairness == WF_vars(RequestTimer) /\ WF_vars(ResponseTimer)

FairSpec == Spec /\ Fairness

-----------------------------------------------------------------------------
(***************************************************************************)
(* Properties                                                              *)
(***************************************************************************)

\* The handler of the request timer dereferences the current item: whenever the
\* timer is armed there is one, and a run that waits for it.
RequestTimerActive == requestTimer => Active /\ running

\* A run in progress never loses its last timer: whatever is stopped, ignored,
\* repeated or skipped, the event loop will come back to it.
RunHasTimer == running => Active /\ (requestTimer \/ responseTimer)

\* Once the result of a run is reported nothing of it is left behind: no timer
\* will send a request, a tester present or a second report until the next
\* start (udsc_services_stop after every finish_callback).
ReportedIsQuiet ==
  verdict # "none" => sindex = -1 /\ ~requestTimer /\ ~responseTimer /\ ~tpTimer

\* The API never receives more results than it gave start commands, for lists
\* that grow, lists without an enabled item and messages for no run included.
OneReportPerStart == reports <= starts

Repeats(item) ==
  IF item.finish_rule = "default" THEN 0 ELSE (item.finish_num_max + 1) \div 2

\* In one run an item other than a transfer (0x36) is sent at most once, and
\* once more for every two tries its finish rule has: both the rule and the
\* repetition count the try (finish_try_num).
RetryBound ==
  \A i \in Slots :
    i < service_cnt /\ service_items[i].sid # "TD"
      => sends[i] <= Repeats(service_items[i]) + 1

\* A normal result says that every enabled item of the list was passed: answered,
\* timed out, or found impossible to send.  None is lost between two handlers.
NormalCoversList ==
  [][reports' > reports /\ verdict' = "normal"
       => \A i \in Slots : Enabled(i) => outcome'[i] # "none"]_vars

\* With isFailAbort the first item that fails ends the run with an error, in the
\* same step: no later item is sent.
AbortEndsRun ==
  [][isFailAbort
     /\ (\E i \in Slots : outcome[i] = "none" /\ outcome'[i] \in {"unmet", "unsent"})
       => /\ sindex' = -1
          /\ reports' = reports + 1
          /\ verdict' \in Verdicts \ {"normal"}]_vars

\* Late and duplicated responses never make the client send an item again that
\* it has passed in this run.
PassedIsNotResent ==
  [][\A i \in Slots : sends'[i] > sends[i] => outcome[i] = "none"]_vars

\* A stopped client holds no file and no buffer of the last transfer, however it
\* was stopped: by a report, a command, or a reset.
NoFileLeft == sindex = -1 => ~common.fd /\ ~common.buff

\* An orderly ECU has the whole file when the transfer item is passed as met, if each
\* block was sent and answered by a positive response: the blocks it has taken, each the
\* continuation of the one before and under its number, make up the file, though the
\* client ends the transfer by the capacity of the blocks it counts.
WholeFileTaken ==
  [][Active /\ CurrentItem.sid = "TD" /\ taken'.whole
       /\ outcome[sindex] = "none" /\ outcome'[sindex] = "met"
       => taken'.got = FileSize]_vars

\* With isFailAbort and a positive response expected, a block of an open transfer that
\* is rejected or not answered ends the run: no later block is sent after the gap.
LostBlockEndsRun ==
  [][isFailAbort /\ taken.whole /\ ~taken'.whole
       /\ Active /\ CurrentItem.sid = "TD" /\ CurrentItem.response_rule = "positive"
       => ~running']_vars

\* A run ends with a report, unless it is stopped or the diag master is reset; giving
\* the client back does not end one.  In one case the code tells nobody (see
\* RequestsExhausted): without isFailAbort, the last item of the list could not be sent.
EndIsReported ==
  [][running /\ ~running' =>
       \/ reports' = reports + 1
       \/ StopScript \/ MasterReset
       \/ /\ ~isFailAbort
          /\ sindex' = service_cnt /\ outcome'[service_cnt - 1] = "unsent"]_vars

\* As long as the event loop fires its timers, every run comes to an end,
\* whatever the ECU answers in finitely many messages and without any.
RunEnds == running ~> ~running

\* What the API may rely on (UdsRun): a run is opened by a start, never moves
\* backwards, and is closed once.
Phase == IF running THEN "running" ELSE IF sindex >= 0 THEN "stranded" ELSE "stopped"

Run == INSTANCE UdsRun WITH Size <- service_size, phase <- Phase,
         place <- sindex, opened <- starts, answered <- reports

\* Every behaviour of the client, with any configuration, transport and ECU, is
\* one the abstract run allows.
ImplementsRun == Run!RunSpec

-----------------------------------------------------------------------------
(***************************************************************************)
(* The inductive invariant behind the safety properties.  It adds that a   *)
(* run which is not over still owes its report (so the next one cannot be  *)
(* one too many), and that what lies ahead of sindex has no outcome yet.    *)
(***************************************************************************)

OwedReport == reports + (IF sindex >= 0 THEN 1 ELSE 0) <= starts

AheadIsOpen == sindex >= 0 => \A i \in Slots : i >= sindex => outcome[i] = "none"

HoldsNothing(c) == {"buff", "fd"} \subseteq DOMAIN c /\ ~c.buff /\ ~c.fd

StoppedIsReleased == sindex < 0 => HoldsNothing(common)

ControlInv ==
  /\ TypeOK
  /\ RequestTimerActive
  /\ RunHasTimer
  /\ ReportedIsQuiet
  /\ OwedReport
  /\ AheadIsOpen
  /\ StoppedIsReleased

\* What the run has passed by has an outcome.
BehindIsDone ==
  sindex >= 0 => \A i \in Slots : i < sindex /\ Enabled(i) => outcome[i] # "none"

CoverInv == ControlInv /\ BehindIsDone

\* Sent n times, of which the first was the item's turn and each of the others was
\* counted twice in tries.
Counted(item, n, tries) ==
  /\ 2 * (n - 1) <= tries
  /\ n > 1 => item.finish_rule # "default" /\ tries <= item.finish_num_max + 1

\* An item ahead was not sent.  The current one was sent for all tries but the last,
\* which is still to be sent as long as the request timer is armed.
TriesAreCounted ==
  sindex >= 0 => \A i \in Slots :
    /\ i > sindex => sends[i] = 0
    /\ i = sindex /\ i < service_cnt /\ service_items[i].sid # "TD" =>
         Counted(service_items[i], sends[i] + (IF requestTimer THEN 1 ELSE 0),
                 finish_try_num[i])

RetryInv == ControlInv /\ TriesAreCounted /\ RetryBound

\* With an orderly ECU a response timer waits for the answer to the current item.
OneIsAsked == responseTimer => Active /\ ~requestTimer

\* What the items share stays within its range: the file is never read past its
\* end and no length or count exceeds its width.
DataOK == common \in Common /\ request \in [Slots -> Request] /\ taken \in Takings

\* What has been answered of an open file has been read from it ...
Tracked(c) ==
  c.fd => c.buff /\ c.size = FileSize /\ (c.pos = FileSize \/ c.total <= c.pos)

\* ... and what an answer will count has been read as well.
Covered(c) == c.fd => c.pos = FileSize \/ c.total + Payload(c) <= c.pos

AwaitsBlock == responseTimer /\ CurrentItem.sid = "TD"

BlockIsRead == AwaitsBlock => Covered(common)

\* What the ECU has is what was read of the file, but for the block it was just sent; a
\* file that was closed was taken in full.
TakenIsRead ==
  sindex >= 0 /\ taken.whole =>
    /\ common.fd => taken.next = common.count
    /\ taken.got = common.pos \/ (AwaitsBlock /\ common.fd /\ ContinuesFile)
    /\ common.fd \/ common.pos = FileSize

TransferInv ==
  TypeOK /\ DataOK /\ OneIsAsked /\ Tracked(common) /\ BlockIsRead /\ TakenIsRead
=============================================================================
