---------------------------- MODULE ServiceScript ---------------------------
(***************************************************************************)
(* The data of one script: the services a user configures, their way       *)
(* through the API, the diag master and its UDS client to the ECU, and the *)
(* way of the answers, the seeds and the keys back.  UdsClient looks at    *)
(* the same client and abstracts these bytes; here it is the timing that   *)
(* is abstract: a timer may fire whenever it runs.                         *)
(*                                                                         *)
(* Left out: replies to calls, whose order with the other messages DmApi   *)
(* looks at; configuration once a script runs, and its being stopped.      *)
(***************************************************************************)
EXTENDS ServiceConfig, IpcMessage, SequencesExt

CONSTANTS
  Scripts,         \* the sequences of services a user may want
  Generals,        \* the general configurations
  Answers(_),      \* what an ECU may answer to a request
  DataMax,         \* bytes of a request or an answer the buffers take
  ItemMax,         \* SERVICE_ITEM_SIZE_MAX
  RrMax,           \* UDSC_REQUEST_RESULT_CALLBACK_MAX
  TesterPresentMax,\* bound on tester present requests
  TimeoutMax       \* bound on response timeouts

Services == UNION {{s[i] : i \in 1..Len(s)} : s \in Scripts}

\* Transfers of data and their end are items of their own (UdsClient).
ASSUME ScriptAssumption ==
  /\ ItemMax \in Nat /\ RrMax \in Nat /\ DataMax \in Word
  /\ TesterPresentMax \in Nat /\ TimeoutMax \in Nat
  /\ \A c \in Services :
       ConfigOK(c) /\ c.sid \notin {TD, RTE} /\ RequestLen(c) <= DataMax
  /\ \A g \in Generals : g.tpta \in DWord /\ g.tpsa \in DWord

VARIABLES     \* the user and the API
  script,     \* history: the services configured, as the user gave them
  general,    \* history: the general configuration
  rr_handler, \* the callbacks for results; the k-th one is named k
  started,
  given       \* the last callback: what it was given

VARIABLES     \* the diag master and its UDS client
  items,
  udsc,       \* the fields of the client the general configuration sets
  sindex,     \* the item at work, or 0 (the code: -1)
  request_watcher, response_watcher, testerPresent_watcher, \* running timers
  key_byte,
  seeds,      \* history: seeds handled
  late,       \* history: response timeouts that fired
  presents,   \* history: tester present requests sent
  owed        \* history: answers of the ECU the user has not been given

VARIABLES
  toApi, toDm, \* datagrams on their way, each with what it is about
  ecu          \* requests an ECU has received and not answered for good

user == <<script, general, rr_handler, started, given>>
config == <<items, udsc>>
timers == <<request_watcher, response_watcher, testerPresent_watcher>>
history == <<seeds, late, presents, owed>>
vars == <<user, config, sindex, timers, key_byte, history, toApi, toDm, ecu>>

\* UDSC_RESPONSE_EXPECT and finish rules
NOT_SET == 0
POSITIVE == 1
NEGATIVE == 2
MATCH == 3
NO_RESPONSE == 4
FINISH_EQUAL_TO == 1
FINISH_UN_EQUAL_TO == 2

\* Return codes of a finish.
FinishCode == [NORMAL |-> 0, TIMEOUT |-> 12, UNEXPECT |-> 13]

\* What a message is about, for the properties: the item (0 if none), whether
\* its request was sent for the first time, the seeds and the timeouts before
\* it, the request and the answer.
About(item, first) ==
  [item |-> item, first |-> first, seeds |-> seeds, late |-> late,
   request |-> <<>>, answer |-> <<>>]

Message(bytes, of) == [bytes |-> bytes, of |-> of]

NoGeneral ==
  [isFailAbort |-> 0, tpEnable |-> 0, isTpRefresh |-> 0, tpInterval |-> 0,
   tpta |-> 0, tpsa |-> 0]

Init ==
  /\ script = <<>> /\ general = NoGeneral /\ rr_handler = <<>>
  /\ started = FALSE /\ given = [kind |-> "none"]
  /\ items = <<>> /\ udsc = NoGeneral /\ sindex = 0
  /\ request_watcher = FALSE /\ response_watcher = FALSE
  /\ testerPresent_watcher = FALSE
  /\ key_byte = ByteArrayNew /\ seeds = 0 /\ late = 0 /\ presents = 0
  /\ owed = {}
  /\ toApi = <<>> /\ toDm = <<>> /\ ecu = <<>>

-----------------------------------------------------------------------------
(***************************************************************************)
(* Calls of the user.  Before the start nothing else is under way: a call, *)
(* its handler in the diag master and the reply are one step.              *)
(***************************************************************************)

\* dm_api_udsc_service_result_callback_set
ResultCallbackSet ==
  /\ ~started /\ script = <<>>
  /\ Len(rr_handler) < RrMax
  /\ rr_handler' = Append(rr_handler, Len(rr_handler) + 1)
  /\ UNCHANGED <<script, general, started, given, config, sindex, timers,
                 key_byte, history, toApi, toDm, ecu>>

\* dm_api_udsc_service_config and its handler, which decodes into a new
\* configuration.  A client with ItemMax items refuses another.
ServiceConfigured(c) ==
  /\ ~started
  /\ \E s \in Scripts : IsPrefix(Append(script, c), s)
  /\ c.rr_callid <= Len(rr_handler)
  /\ Len(items) < ItemMax
  /\ script' = Append(script, c)
  /\ items' = Append(items, RequestBuild(ItemOf(Decoded(Encoded(c), NewConfig))))
  /\ UNCHANGED <<general, rr_handler, started, given, udsc, sindex, timers,
                 key_byte, history, toApi, toDm, ecu>>

\* dm_api_udsc_general_config
GeneralConfigured(g) ==
  /\ ~started /\ script = <<>>
  /\ general' = g
  /\ udsc' = GeneralDecoded(GeneralEncoded(g))
  /\ UNCHANGED <<script, rr_handler, started, given, items, sindex, timers,
                 key_byte, history, toApi, toDm, ecu>>

\* udsc_service_request_start: the delay before the request.
RequestStart == request_watcher' = TRUE

TesterPresentStart == testerPresent_watcher' = TRUE

\* udsc_service_response_start: the timer runs anew, and so it does, for a longer
\* time, for udsc_service_response_refresh.
ResponseStart == response_watcher' = TRUE

ResponseRefresh == response_watcher' = TRUE

ResponseStop == response_watcher' = FALSE

\* dm_api_udsc_start
Start ==
  /\ ~started /\ items # <<>>
  /\ started' = TRUE
  /\ sindex' = 1 /\ RequestStart
  /\ IF udsc.tpEnable # 0 THEN TesterPresentStart
                          ELSE UNCHANGED testerPresent_watcher
  /\ UNCHANGED <<script, general, rr_handler, given, config, response_watcher,
                 key_byte, history, toApi, toDm, ecu>>

-----------------------------------------------------------------------------
(***************************************************************************)
(* Timers of the UDS client                                                *)
(***************************************************************************)

\* udsc_service_request_preprocessor: the key goes behind the request that
\* is kept.
Preprocessed(i) ==
  IF i.sid = SA /\ i.sub % 2 = 0
  THEN [i EXCEPT !.request_byte = ByteArrayAppendArray(@, key_byte)]
  ELSE i

\* The type of the address is passed the timeout of the item.  A request that
\* keys have made longer than the buffer of the diag master is left out.
RequestHandler ==
  /\ request_watcher /\ sindex > 0
  /\ Preprocessed(items[sindex]).request_byte.dlen <= DataMax
  /\ LET i == Preprocessed(items[sindex])
         first == Content(items[sindex].request_byte)
                    = Content(RequestBuild(items[sindex]).request_byte)
     IN  /\ items' = [items EXCEPT ![sindex] = i]
         /\ toApi' = Append(toApi,
              Message(ServiceMessage(ServiceIndication, Content(i.request_byte),
                                     i.sa, i.ta, i.timeout),
                      About(sindex, first)))
  /\ request_watcher' = FALSE /\ ResponseStart
  /\ UNCHANGED <<user, udsc, sindex, testerPresent_watcher, key_byte, history,
                 toDm, ecu>>

\* udsc_tester_present_callback
TesterPresent ==
  /\ testerPresent_watcher /\ presents < TesterPresentMax
  /\ presents' = presents + 1
  /\ toApi' = Append(toApi,
       Message(ServiceMessage(ServiceIndication, <<62, 128>>, udsc.tpsa,
                              udsc.tpta, 0), About(0, TRUE)))
  /\ UNCHANGED <<user, config, sindex, timers, key_byte, seeds, late, owed, toDm,
                 ecu>>

-----------------------------------------------------------------------------
(***************************************************************************)
(* Responses.  d is the response, <<>> for a timeout.                      *)
(***************************************************************************)

\* udsc_service_match_finish_rule
FinishKeeps(i, d) ==
  /\ \/ i.finish_rule = FINISH_EQUAL_TO /\ ~ByteArrayCharEqual(i.finish_byte, d)
     \/ i.finish_rule = FINISH_UN_EQUAL_TO /\ ByteArrayCharEqual(i.finish_byte, d)
  /\ i.finish_try_num < i.finish_num_max

FinishTried(i) ==
  IF i.finish_rule \in {FINISH_EQUAL_TO, FINISH_UN_EQUAL_TO} THEN 1 ELSE 0

\* The bit of a positive response is taken off.
Service(byte) == IF (byte \div 64) % 2 = 1 THEN byte - 64 ELSE byte

\* udsc_service_match_response_expect
MeetsExpect(i, d) ==
  /\ d # <<>> => i.response_rule # NO_RESPONSE /\ i.issuppress = 0
  /\ i.response_rule = POSITIVE => d # <<>> /\ Service(d[1]) = i.sid
  /\ i.response_rule = NEGATIVE => d # <<>> /\ d[1] = 127
  /\ i.response_rule = MATCH => d # <<>> /\ ByteArrayCharEqual(i.expect_byte, d)

\* A response to the service of the item at work.
IsOwnResponse(i, d) == d[1] = i.sid + 64 \/ (d[1] = 127 /\ d[2] = i.sid)

IsPending(d) == Len(d) = 3 /\ d[1] = 127 /\ d[3] = 120

\* udsc_service_27_sa_response_handler: also of a negative response, the
\* second byte of which is taken for the sub-function.
IsSeed(i, d) == d # <<>> /\ i.sid = SA /\ d[2] % 2 = 1

\* Mutant: the old key is kept.
KeyAfterSeedKept(seed) == key_byte

KeyAfterSeed(seed) == IF seed THEN ByteArrayClear(key_byte) ELSE key_byte

SeedSent(d, of) ==
  <<Message(SaMessage(SaSeed, d[2], <<>>), [of EXCEPT !.seeds = seeds + 1])>>

\* The transfer a response to it prepares may fail.
MayFail(i) == i.sid \in {RD, RFT}

Finished(code, ind, resp, of) ==
  <<Message(FinishMessage(code, ind, resp), of)>>

\* udsc_services_stop
Stopped ==
  /\ sindex' = 0
  /\ request_watcher' = FALSE /\ ResponseStop
  /\ testerPresent_watcher' = FALSE

\* Another try of the item at work, or the next one after a delay.
Proceed(keep) ==
  /\ sindex' = IF keep THEN sindex ELSE sindex + 1
  /\ RequestStart /\ ResponseStop
  /\ UNCHANGED testerPresent_watcher

\* udsc_service_response_finish, behind the checks of the response; out is
\* what was sent before.
Answered(d, of, out) ==
  LET i == items[sindex]
      abort == udsc.isFailAbort # 0
      early == ~MeetsExpect(i, d) /\ abort
      seed == ~early /\ IsSeed(i, d)
      sent == out \o (IF seed THEN SeedSent(d, of) ELSE <<>>)
      keep == FinishKeeps(i, d)
      try == i.finish_try_num + FinishTried(i)
  IN \E meets \in IF MayFail(i) /\ d # <<>> THEN {MeetsExpect(i, d), FALSE}
                                            ELSE {MeetsExpect(i, d)} :
       LET failed == ~meets /\ abort
           last == ~keep /\ sindex = Len(items)
       IN  /\ items' = [items EXCEPT ![sindex].finish_try_num =
                          IF keep /\ ~failed THEN try + 1 ELSE try]
           /\ key_byte' = KeyAfterSeed(seed)
           /\ seeds' = IF seed THEN seeds + 1 ELSE seeds
           /\ \/ /\ failed
                 /\ toApi' = toApi \o sent \o
                      Finished(IF d = <<>> THEN FinishCode.TIMEOUT
                                           ELSE FinishCode.UNEXPECT,
                               Content(i.request_byte), d, of)
                 /\ Stopped
              \/ /\ ~failed /\ last
                 /\ toApi' = toApi \o sent \o
                      Finished(FinishCode.NORMAL, <<>>, <<>>, of)
                 /\ Stopped
              \/ /\ ~failed /\ ~last
                 /\ toApi' = toApi \o sent
                 /\ Proceed(keep)

ResponseTimeout ==
  /\ response_watcher /\ sindex > 0
  /\ late < TimeoutMax
  /\ late' = late + 1
  /\ Answered(<<>>, [About(sindex, TRUE) EXCEPT !.late = late + 1], <<>>)
  /\ UNCHANGED <<user, udsc, presents, owed, toDm, ecu>>

-----------------------------------------------------------------------------
(***************************************************************************)
(* Messages the diag master reads                                          *)
(***************************************************************************)

\* A result goes to the callback of the item at work, unless it is the
\* negative response to another service.
ResultSent(d, of) ==
  LET i == items[sindex]
      foreign == /\ d[1] = 127 /\ d[2] # i.sid
                 /\ d[1] # i.sid + 64
  IN  IF i.rr_callid > 0 /\ ~foreign
      THEN <<Message(ResultMessage(i.rr_callid, d), of)>>
      ELSE <<>>

\* diag_master_cammand_service_response_handler
ResponseRead ==
  LET m == Head(toDm)
      d == ServiceFields(m.bytes).data
      of == [m.of EXCEPT !.late = late]
  IN  /\ toDm # <<>> /\ Command(m.bytes) = ServiceResponse
      /\ toDm' = Tail(toDm)
      /\ \/ /\ sindex > 0 /\ IsOwnResponse(items[sindex], d) /\ ~IsPending(d)
            /\ Answered(d, of, ResultSent(d, of))
         \/ /\ sindex > 0 /\ IsOwnResponse(items[sindex], d) /\ IsPending(d)
            /\ toApi' = toApi \o ResultSent(d, of)
            /\ ResponseRefresh
            /\ UNCHANGED <<items, sindex, request_watcher,
                           testerPresent_watcher, key_byte, seeds>>
         \/ /\ sindex > 0 /\ ~IsOwnResponse(items[sindex], d)
            /\ toApi' = toApi \o ResultSent(d, of)
            /\ UNCHANGED <<items, sindex, timers, key_byte, seeds>>
         \/ /\ sindex = 0
            /\ UNCHANGED <<items, sindex, timers, key_byte, seeds, toApi>>
      /\ UNCHANGED <<user, udsc, late, presents, owed, ecu>>

\* dm_udsc_service_key_generate: behind what is there already.
KeyGenerate(key) == key_byte' = ByteArrayAppendNChar(key_byte, key)

\* diag_master_cammand_sa_key_handler
KeyRead ==
  LET m == Head(toDm)
  IN  /\ toDm # <<>> /\ Command(m.bytes) = SaKey
      /\ toDm' = Tail(toDm)
      /\ KeyGenerate(SaFields(m.bytes).data)
      /\ UNCHANGED <<user, config, sindex, timers, history, toApi, ecu>>

-----------------------------------------------------------------------------
(***************************************************************************)
(* Messages the API reads, and the callbacks it makes                      *)
(***************************************************************************)

ApiReads(command) ==
  /\ toApi # <<>> /\ Command(Head(toApi).bytes) = command
  /\ toApi' = Tail(toApi)
  /\ UNCHANGED <<script, general, rr_handler, started, config, sindex, timers,
                 key_byte, seeds, late, presents>>

\* A tester present request wants no answer.
RequestRead ==
  LET m == Head(toApi)
      f == ServiceFields(m.bytes)
  IN  /\ ApiReads(ServiceIndication)
      /\ given' = [kind |-> "request", data |-> f.data, sa |-> f.sa, ta |-> f.ta,
                   of |-> m.of]
      /\ ecu' = IF m.of.item = 0 THEN ecu
                ELSE Append(ecu, [m.of EXCEPT !.request = f.data])
      /\ UNCHANGED <<toDm, owed>>

\* Mutant: the last callback that was set is not looked up.
ResultHandlerShort(rr_callid) ==
  IF rr_callid > 0 /\ rr_callid < RrMax /\ rr_callid < Len(rr_handler)
  THEN {rr_handler[rr_callid]} ELSE {}

\* The last id handed out, RrMax, is not looked up.
ResultHandler(rr_callid) ==
  IF rr_callid > 0 /\ rr_callid < RrMax /\ rr_callid <= Len(rr_handler)
  THEN {rr_handler[rr_callid]} ELSE {}

\* What is no longer owed when a callback is given an answer.
GivenTo(cb, d) == {a \in owed : script[a.item].rr_callid = cb /\ a.data = d}

\* dm_api_cammand_service_result_handler
ResultRead ==
  LET m == Head(toApi)
      f == ResultFields(m.bytes)
      called == ResultHandler(f.rr_callid)
  IN  /\ ApiReads(ServiceRequestResult)
      /\ \/ /\ called = {} /\ UNCHANGED <<given, owed>>
         \/ \E cb \in called :
              /\ given' = [kind |-> "result", cb |-> cb, data |-> f.data, of |-> m.of]
              /\ owed' = owed \ GivenTo(cb, f.data)
      /\ UNCHANGED <<toDm, ecu>>

\* The key a user makes of the n-th seed: a byte that names it.
Key(n) == <<n % 256>>

\* dm_api_cammand_service_sa_seed_handler, and the user's call of
\* dm_api_udsc_sa_key.
SeedRead ==
  LET m == Head(toApi)
      f == SaFields(m.bytes)
  IN  /\ ApiReads(SaSeed)
      /\ given' = [kind |-> "seed", data |-> f.data, of |-> m.of]
      /\ toDm' = Append(toDm, Message(SaMessage(SaKey, f.level, Key(m.of.seeds)), m.of))
      /\ UNCHANGED <<ecu, owed>>

\* dm_api_cammand_services_finish_handler
FinishRead ==
  LET m == Head(toApi)
      f == FinishFields(m.bytes)
  IN  /\ ApiReads(ScriptResult)
      /\ given' = [kind |-> "finish", recode |-> Recode(m.bytes), ind |-> f.ind,
                   resp |-> f.resp, of |-> m.of]
      /\ UNCHANGED <<toDm, ecu, owed>>

-----------------------------------------------------------------------------
(***************************************************************************)
(* An ECU answers a request once, at any time or never; it may say before  *)
(* that it needs longer, once.                                             *)
(***************************************************************************)
Without(s, k) == SubSeq(s, 1, k - 1) \o SubSeq(s, k + 1, Len(s))

\* The diag master reads the second byte of a negative answer and of one to
\* security access, which is there.
IsAnswer(d) ==
  /\ d \in Seq(Byte) /\ Len(d) \in 1..DataMax
  /\ d[1] \in {127, SA + 64} => Len(d) >= 2

\* The answer d to item k is for the user: it is to the service of the item, for which
\* a callback was set.
Owing(k, d) ==
  IF script[k].rr_callid > 0 /\ IsOwnResponse(items[k], d)
  THEN {[item |-> k, data |-> d]} ELSE {}

\* dm_api_service_response
ServiceResponded(k, d) ==
  /\ IsAnswer(d)
  /\ IsPending(d) => ecu[k].answer = <<>>
  /\ ecu' = IF IsPending(d) THEN [ecu EXCEPT ![k].answer = d] ELSE Without(ecu, k)
  /\ toDm' = Append(toDm,
       Message(ServiceMessage(ServiceResponse, d, script[ecu[k].item].ta,
                              script[ecu[k].item].sa, 1),
               [ecu[k] EXCEPT !.answer = d]))
  /\ owed' = owed \cup Owing(ecu[k].item, d)
  /\ UNCHANGED <<user, config, sindex, timers, key_byte, seeds, late, presents, toApi>>

Next ==
  \/ ResultCallbackSet
  \/ \E c \in Services : ServiceConfigured(c)
  \/ \E g \in Generals : GeneralConfigured(g)
  \/ Start
  \/ RequestHandler
  \/ TesterPresent
  \/ ResponseTimeout
  \/ ResponseRead
  \/ KeyRead
  \/ RequestRead
  \/ ResultRead
  \/ SeedRead
  \/ FinishRead
  \/ \E k \in 1..Len(ecu) : \E d \in Answers(ecu[k].request) : ServiceResponded(k, d)

Spec == Init /\ [][Next]_vars

-----------------------------------------------------------------------------
(***************************************************************************)
(* Properties                                                              *)
(***************************************************************************)

\* The arrays of an item, whose size is that of their block, and the state
\* around them.
TypeOK ==
  /\ Len(items) = Len(script) /\ sindex \in 0..Len(items)
  /\ \A k \in 1..Len(items) :
       \A f \in {"request_byte", "variable_byte", "expect_byte", "finish_byte"} :
         WellFormed(items[k][f])
  /\ WellFormed(key_byte)
  /\ request_watcher \in BOOLEAN /\ response_watcher \in BOOLEAN
  /\ testerPresent_watcher \in BOOLEAN /\ late \in 0..TimeoutMax /\ started \in BOOLEAN
  /\ seeds \in Nat /\ presents \in 0..TesterPresentMax
  /\ \A k \in 1..Len(toApi) : toApi[k].bytes \in Seq(Byte)
  /\ \A k \in 1..Len(toDm) : toDm[k].bytes \in Seq(Byte)

Plain ==
  {"sid", "sub", "did", "delay", "timeout", "tatype", "ta", "sa", "finish_rule",
   "finish_num_max", "rr_callid", "maxNumberOfBlockLength", "desc"}

\* What the user asked for arrives in the item, whichever keys the message
\* holds and however the arrays grew, also while the script runs; and so does
\* the general configuration (dm_service_config_encode to
\* diag_master_cammand_service_config_handler).
ItemIsConfigured ==
  /\ \A k \in 1..Len(script) :
       LET c == script[k]
           i == items[k]
       IN  /\ \A f \in Plain : i[f] = c[f]
           /\ (i.issuppress # 0) = (c.issuppress # 0)
           /\ i.response_rule = c.expectRespon_rule
           /\ Content(i.variable_byte) = Content(c.variableByte)
           /\ Content(i.expect_byte) = Content(c.expectResponByte)
           /\ Content(i.finish_byte) = Content(c.finishByte)
           /\ c.sid = RD => i.rd_34 = c.service_34_rd
           /\ c.sid = RFT => i.rft_38 = c.service_38_rft
           /\ c.sid \in {RD, RFT} => i.local_path = c.local_path
  /\ \A f \in {"isFailAbort", "tpEnable", "isTpRefresh"} :
       (udsc[f] # 0) = (general[f] # 0)
  /\ \A f \in {"tpInterval", "tpta", "tpsa"} : udsc[f] = general[f]

\* A number read from n bytes behind the first p of d.
NumberAt(d, p, n) ==
  LET read[k \in 0..n] == IF k = 0 THEN 0 ELSE 256 * read[k - 1] + d[p + k]
  IN  read[n]

\* The number is n, if it has no more bytes than that.
IsNumber(d, p, size, n) == Shifted(n)[size] = 0 => NumberAt(d, p, size) = n

\* An ECU finds in d what c asks for: the service, its sub-function with the
\* bit that suppresses a response, and its parameters.  As the code has it, the
\* length of an address is in the high half of its format.
Asks(d, c) ==
  LET p == HeadLen(c.sid)
      q == p + FixedLen(c)
      rd == c.service_34_rd
      addr == rd.addressAndLengthFormatIdentifier \div 16
      rft == c.service_38_rft
      name == Len(rft.filePathAndName)
      size == rft.fileSizeParameterLength
  IN  /\ Len(d) >= RequestLen(c) /\ d[1] = c.sid
      /\ HaveSub(c.sid) => /\ d[2] % 128 = c.sub % 128
                           /\ (d[2] >= 128) = (c.issuppress # 0 \/ c.sub >= 128)
      /\ c.sid \in {RDBI, WDBI, RC} => NumberAt(d, p, 2) = c.did
      /\ c.sid = RD =>
           /\ d[2] = rd.dataFormatIdentifier
           /\ d[3] = rd.addressAndLengthFormatIdentifier
           /\ IsNumber(d, 3, addr, rd.memoryAddress)
           /\ IsNumber(d, 3 + addr, d[3] % 16, rd.memorySize)
      /\ c.sid = RFT =>
           /\ d[2] = rft.modeOfOperation
           /\ NumberAt(d, 2, 2) = rft.filePathAndNameLength
           /\ SubSeq(d, 5, 4 + name) = rft.filePathAndName
           /\ d[5 + name] = rft.dataFormatIdentifier /\ d[6 + name] = size
           /\ IsNumber(d, 6 + name, size, rft.fileSizeUnCompressed)
           /\ IsNumber(d, 6 + name + size, size, rft.fileSizeCompressed)
      /\ SubSeq(d, q + 1, RequestLen(c)) = Content(c.variableByte)
      /\ c.sid # SA => Len(d) = RequestLen(c)

\* The request an ECU is handed, after JSON, the item, the request built of it
\* and the datagram, says what the user configured, with the addresses the
\* user configured, and so does a tester present request
\* (dm_udsc_service_request_build, diag_master_service_request).
EcuReadsConfig ==
  given.kind = "request" =>
    IF given.of.item = 0
    THEN /\ given.data = <<62, 128>>
         /\ given.sa = general.tpsa /\ given.ta = general.tpta
    ELSE LET c == script[given.of.item]
         IN  Asks(given.data, c) /\ given.sa = c.sa /\ given.ta = c.ta

KeyOf(d, c) == SubSeq(d, 3 + c.variableByte.dlen, Len(d))

\* The key comes in a message of its own and stays in key_byte: if no answer
\* was late, and the request is not a repeated one, it carries the key of the
\* last seed, and no other, or none (udsc_service_request_preprocessor,
\* diag_master_cammand_sa_key_handler).
KeyIsOfLastSeed ==
  \A k \in 1..Len(ecu) :
    LET c == script[ecu[k].item]
    IN  c.sid = SA /\ c.sub % 2 = 0 /\ ecu[k].first /\ ecu[k].late = 0 =>
          KeyOf(ecu[k].request, c) \in {<<>>, Key(ecu[k].seeds)}

\* The answer is still on its way to the callback of its service.
OnItsWay(a) ==
  \/ \E k \in 1..Len(toDm) :
       /\ Command(toDm[k].bytes) = ServiceResponse
       /\ toDm[k].of.item = a.item /\ ServiceFields(toDm[k].bytes).data = a.data
  \/ \E k \in 1..Len(toApi) :
       /\ Command(toApi[k].bytes) = ServiceRequestResult
       /\ ResultFields(toApi[k].bytes) =
            [rr_callid |-> script[a.item].rr_callid, data |-> a.data]

\* Unless a response timer fired, what an ECU answers to a service reaches the callback
\* set for it: no answer is dropped in the diag master or the API, whichever items are
\* repeated, refuse it or end the script; and none is given to another callback or with
\* other bytes.  A script that fails is reported with the request that failed and its
\* answer.  The callback with the last id, RrMax, is excepted: see ResultHandler
\* (diag_master_cammand_service_response_handler, dm_api_cammand_service_result_handler).
AnswerReachesUser ==
  /\ late = 0 => \A a \in owed : script[a.item].rr_callid < RrMax => OnItsWay(a)
  /\ given.kind = "result" /\ given.of.late = 0 =>
       /\ given.cb = script[given.of.item].rr_callid
       /\ given.data = given.of.answer
  /\ given.kind = "finish" /\ given.of.late = 0 /\ given.recode # FinishCode.NORMAL =>
       /\ given.ind = given.of.request
       /\ given.resp = given.of.answer

\* The comment at diag_master.c:219: a response to another service than that of the item
\* at work is not handled, so that a callback is given answers to its services only.
ForeignIsIgnored ==
  given.kind = "result" =>
    \E k \in 1..Len(items) :
      items[k].rr_callid = given.cb /\ IsOwnResponse(items[k], given.data)
=============================================================================
