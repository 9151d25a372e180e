# Diag master: models, checks and proofs

This directory holds TLA+ models of the diag master (`src/`): the daemon that
executes lists of UDS diagnostic services for an API in another process.  It
says what each part of the system is, which part each module models, what TLC
checks about it on small instances, and what TLAPS proves about it for every
instance.

## 1. The system

| component | source | state | operations | depends on |
|---|---|---|---|---|
| UDS client | `diag_master/dm_uds_client.c` | list of service items, index of the current one (`sindex`), three timers, shared data of security access and file transfer (`common_var`), flags | add item, configure, start, stop, reset; request timer, response timer, tester present timer, response | event loop; sends through a callback, reports through a callback |
| client pool and commands | `diag_master/diag_master.c` (50-1093) | the array of clients, `isidle`, the ids, the DoIP client bound to each | one handler per command of the API, a reply for each | UDS client, DoIP client, sockets |
| registry (DMS) | `diag_master.c` (922-1524) | a slot per diag master, one thread each; the paths of the sockets | connect, create, thread, destroy | client pool, file system |
| keepalive | `diag_master.c` (69-143, 589-620), `dm_api.c` (1054-1063) | `keepalive_cnt`, the watchers of the diag master's socket and timer | heartbeat, reply, give up | registry, API |
| API | `diag_master_api/dm_api.c` | instances, callback tables, request/reply socket | synchronous commands, dispatch of requests of the diag master | client pool |
| DoIP client | `diag_master/dm_doip_client.c` | two sockets and their watchers, `con_stat`, `isactive`, a buffer for what is read | connect, activate, request, alive check, disconnect | TCP, event loop |
| codec | `diag_master_common/dm_common.c`, `dm_common.h` | byte arrays | encode and decode commands, messages and configurations | cJSON (vendored) |
| descriptions | `diag_master_common/dm_udsc_types.c` | none | texts for the log | |

libev, libuv and cJSON are vendored; `demo/` shows the use of the API.

Interaction.  The API sends a command over a socket and waits for its reply.
The diag master reads it in its event loop and runs the handler of the command
to completion.  Before that the API asks DMS, a thread of its own, for a diag master;
that gets another thread, and both share the slots of the registry and the names of
sockets in the file system.  `start` arms the request timer of a client; from then on the
client is driven by its timers and by *responses*, which the API receives from
the ECU and sends as one more command.  When a run is over the client calls
`finish_callback`, and the diag master sends the result to the API.  Within a diag master
nothing runs in parallel; what makes it hard is that its handlers
come in any order: a timer and a response for the same item, a response for the
item before, a stop between a request and its response, an item added to a list
that is being executed, a send that fails.

What makes each component correct:

- *UDS client*: a run never gets stuck, is reported once and completely, leaves
  nothing behind; no item is lost, sent again or passed by the answer to another;
  the ECU has the whole file when a transfer counts as done.
- *client pool*: a client belongs to one user at a time; a user finds it as new;
  every command has one reply; a DoIP client is freed with its user.
- *registry and keepalive*: a slot, and the path named after it, belongs to one diag
  master; one whose API is gone ends, and one whose API answers goes on.
- *API*: a reply belongs to its request; every answer reaches the callback it is for, and
  no other; no callback is called after its user is gone.
- *DoIP client*: nothing is sent before routing activation; no socket is lost or
  watched after it was closed; the end of a connection is noticed.
- *codec*: what the user configures is what the ECU is asked; what the ECU answers is
  what the user is given; an array is never longer than its block.

The code behaviours that are hard to test are listed one by one, with their lines and the
properties about them, under `hazards` in `PROJECT.json`.

## 2. Modules

| module | models |
|---|---|
| `UdsCommonVar` | `struct common_variable` and the handlers of 0x27, 0x34, 0x36, 0x37 and 0x38 as operators from shared data to shared data |
| `UdsClient` | one UDS client: every handler of `dm_uds_client.c` that changes its state, and the commands of `diag_master.c` for one client |
| `UdsRun` | the abstract specification: what a client promises whoever starts it |
| `MCUdsClient` | the instances TLC checks (items, responses) |
| `UdsClientProofs` | theorems about `UdsClient` |
| `DmIpc` | the two sockets between the diag master and the API, and the messages on them |
| `DiagMaster` | one diag master: the pool, every command of the API, the notices to it, the DoIP connections; the run of a client as `UdsRun` sees it |
| `DmApi` | the API: calls, replies, requests of the diag master, callbacks that make calls |
| `DmSystem` | both, composed over the sockets; the properties of the whole, and the instances TLC checks through its `Dm*.cfg` |
| `DmSystemProofs` | theorems about `DmSystem`: types, and that what executes is in use |
| `DmPoolProofs` | more theorems about `DmSystem`: handles, agreement, stops, calls and replies |
| `Dms` | the registry, the threads of diag masters, the heartbeat, the paths, and users that connect, leave and crash |
| `DmsProofs` | theorems about `Dms` |
| `DoipMessage` | the layout of DoIP messages, sent and received |
| `DoipClient` | one DoIP client, its connection as a stream of bytes, its sockets, and the server |
| `DoipLink` | the abstract specification: the states of a DoIP connection the diag master relies on |
| `MCDoipClient` | the instance of `DoipClient` TLC checks |
| `DoipClientProofs` | theorems about `DoipClient` |
| `ByteArray` | the byte arrays of `dm_common.c`: block, length and size |
| `ByteArrayProofs` | theorems about `ByteArray` |
| `NatRecursion` | lemmas on induction over numbers and on recursive functions, for the other proofs |
| `ServiceConfig` | the configuration of a service: its JSON object, the item made of it, and the bytes of the request built from that |
| `IpcMessage` | the bytes of the messages between API and diag master: which field each side writes and reads where |
| `ServiceScript` | a script from the user to the ECU and back, over these four: requests, results, seeds, keys, finish |
| `MCServiceScript` | the scripts and answers TLC checks |
| `ServiceScriptProofs` | theorems about `ServiceScript` and the modules it composes |

### State and code

The variables of `UdsClient` have the names of the fields of `uds_client`:
`isidle`, `service_items`, `service_cnt`, `isFailAbort`, `tpEnable`,
`isTpRefresh`, `sindex`; `common` is `common_var`, `finish_try_num` and
`request` (for `request_byte`) are fields of the items, kept per slot of the list.
`requestTimer`, `responseTimer` and `tpTimer` say whether the three watchers are
armed.  `response_meet_expect` and `iskeep` are set and used within one handler;
they are the local `met` and `again` of `GoOn` and `Abort`.

`running`, `starts`, `reports`, `verdict`, `sends`, `outcome`, `taken` and `messages` are
history: what the environment has seen.  `taken` is what the ECU has of the file: it takes
a block as the continuation of the last one if it comes under the next number, and what it has
is no longer `whole` once a block was rejected, not answered, or not sent.  No guard reads them, except that the
bounds `MaxStarts` and `MaxMessages` limit how often the API starts a run and
the ECU sends a message.

A service item is a record of what the handlers decide on: whether it is
enabled, its service, the parity of its sub-function (a seed or a key for
0x27), whether it suppresses responses, its response rule and finish rule, and
the block limit of 0x36.  A diagnostic message is a record of its service, its
kind (positive, negative, NRC 78), the parity of its sub-function, and the block
length a handler would read from it.  `NoBytes` is the empty array of a timeout.

### Actions and code

| action | code |
|---|---|
| `UdscCreate`, `UdscDestory`, `MasterReset` | the command handlers of those names; `Cleared` is `udsc_reset`; an active client refuses (`dm_udsc_reset`) |
| `ItemAdd`, `GeneralConfig`, `SaKey` | `service_config`, `general_config`, `sa_key` handlers; at any time, also during a run |
| `ServicesStart`, `StopScript` | `dm_udsc_services_start`, `udsc_services_stop` |
| `RequestSent`, `RequestAborted`, `RequestsExhausted` | `udsc_service_request_handler`: its loop in one step, by how it ends |
| `Response`, `ResponsePending`, `ResponseTimeout`, `StaleTimeout` | `udsc_service_response_finish`, by its early returns; `Abort` and `GoOn` are its two ends |

The loop of the request handler sends item after item until one can be sent.
Which sends fail is the transport's choice: a message to the API is always
taken, a DoIP request may fail.  So each of the three actions picks the item at
which the loop ends and records those before it as unsent.  The transformation of
the shared data by the items prepared on the way is `Prepared`, a recursive
function over the list.

A timer is armed or not; an armed timer may fire at any moment.  This allows every
order that durations could produce, and some they do not: the properties that hold
hold for all delays and timeouts.

### What is left out of these modules

- durations, and with them the P2 times that 0x10 sets (`dsc_response_handler`);
- the tester present message itself: sending it changes nothing, only the timer is
  modelled;
- bytes that no handler decides on, and how a request is built from its item
  (`ServiceConfig` has that);
- a failed `malloc`, and a `stat` that fails after `fopen` succeeded;
- a block length below two, for which the code reads more than its buffer holds: the
  model reads the rest of the file instead, which is what the arithmetic says;
- `dm_udsc_service_item_del`, and the callbacks (`key_callback`, `vb_callback`,
  `response_callback`) that nothing in the repository sets.  `diag_master.c` enables every item;
  the client also knows disabled ones (`dm_udsc_service_enable_set`), and the model
  keeps them, because three loops of the client skip them.

### The diag master and the API

`DiagMaster` and `DmApi` extend `DmIpc` and share nothing but its two queues.  A
datagram that does not fit is dropped, as the sockets do not block and no sender of
the diag master looks at the result; the API does, and its call fails.

| state | code |
|---|---|
| `udsc_cnt`, `udscs` | the fields of `diag_master_t`; of a client, what the commands and handlers of the pool decide on |
| `running`, `tester` of a client | its request or response timer is armed; its tester present timer is |
| `doipc` of a client | no DoIP client, or the `con_stat` and `isactive` of the one bound to it |
| `isvalid`, `callback` | `dm_api_udscs`: the record of a client, and its callbacks (`callback` names the handle they were set for) |
| `calls` | the stack of `dm_api_recv_reply_handler`: a callback that makes a call runs within the one below |

`tag` in a message, `lease`, `run`, `handled`, `upset`, `abandoned`, `handle`,
`failed` and `quiet` are history: which call a message, a client or a record
belongs to.  No guard reads them.  `made` and `steps` count calls and timer steps and
are read by the guards of the bounds `MaxCalls` and `MaxSteps` only.

| action | code |
|---|---|
| `ReplyIgnored`, `Refuse`, `Ignore`, `Accept` | the read handler of the socket (`diag_master_ev_io_om_ipc_read`) up to its `switch` |
| `UdscCreate`, `UdscCreateFull`, `UdscCreateFailed` | `udsc_create` handler: an idle or new client; no slot left; no memory |
| `UdscDestory`, `UdscStart`, `UdscStop`, `MasterReset`, `ServiceConfig`, `Configure`, `DoipcCreate`, `DoipcCreateFailed` | the handlers of those names |
| `ServiceResponse` | `service_response` handler: reply, result for the callback, seed, then the run |
| `RequestSent`, `RequestsExhausted`, `RequestAborted`, `ResponseTimeout`, `TesterPresent` | the timers, with `SentBytes` for what the transport says |
| `DoipcRead` | the read and write handlers of a DoIP connection |
| `Call`, `UserCall`, `CallbackSet` | the functions of the API; `Checked` names those that look up the record first |
| `ReplyExpected`, `ReplyFailed`, `ReplyDropped`, `RecvTimeout` | `dm_api_recv_reply_handler` by how it goes on |
| `NoticeHandled`, `NoticeDropped` | `dm_api_request_handler`, within a call or from `dm_api_request_event_loop` |

`ServiceConfig` refuses a full list only (`SERVICE_ITEM_SIZE_MAX`).  `Ignore` and
`NoticeDropped` may happen to any message, since the age of a message is not modelled;
every property about success is therefore about calls that did not fail.  A run is
driven forward or repeats an item, as `Progress` says: `UdsClient` is the model of what
decides on it.

Left out here, and modelled by `Dms`, `DoipClient` and `ServiceScript`: the heartbeat, the
registry and connecting to it, the bytes of DoIP connections, the contents of flags, keys,
seeds and results.  Two simplifications leave something out: the callbacks of a user call `response` and `sa_key` only, as
those in `demo/` do; a TCP connection that succeeds at once is `connected` like one
that requests activation, though the code requests none then, so the model is more
generous than the code about reaching `active`.

### The registry and the heartbeat

A step of `Dms` is what a thread does between two accesses to what it shares: a request is
taken and a free slot looked for (`MasterCreate`), the thread started (`ThreadStart`), the
slot stored (`SlotStore`), the diag master told its slot (`Register`), the reply sent
(`RequestDone`).  In between the new thread runs, and may already end (`Close`,
`SlotClear`).

| state | code |
|---|---|
| `slot` | `dms->diag_master[]` |
| `pc`, `current` | where `diag_master_ev_io_dms_read` is, and the diag master it makes |
| `index` | `diag_master->index` with `diag_master->dms`, both set after the thread was started |
| `place` | the number in the path of the diag master's socket |
| `listening` | its `iread_watcher` and `keepalive_watcher` are active |
| `busy` | any other watcher of its loop is: a timer of a client, a DoIP connection |
| `bound`, `path` | the file system: who is bound to a path |
| `orphaned` | history: a diag master ended without having learned its slot |

Left out: the two stores of `SlotStore` and `Register` in another order (they are not
synchronised with the thread that reads them, `diag_master.c:1304-1309`), a name that two
APIs choose at random, a restart of DMS, replies to commands, Windows and libuv.

### DoIP connections

`DoipClient` keeps the fields of `doip_client_t`; `tcprecv` and `tcpsend` name the descriptor
that an active watcher watches.  `open` is the kernel's set of open descriptors, and the kernel
hands out the lowest.  A read takes all that has arrived, or one of `ReadLens` bytes of it, and
puts it over what `rxbuf` holds; handlers look at `rxbuf` whatever the length was.
`ConnectAsked` passes the user's configuration through the bytes of the message that asks for
the connection (`Arriving`).  `begins`, `framed`, `asked` and `granted` are history: where the server's messages
begin in the stream, that no read on this connection has ended within one of them (it may have taken
several at once), the configuration the user asked for, and that the server has activated routing on this connection.

Left out: vehicle discovery, of which the code has the socket only; short writes; a write to a
connection that was reset (`SIGPIPE`); a descriptor 0, which the code takes for none.

### Scripts

`ServiceScript` composes `ByteArray`, `ServiceConfig` and `IpcMessage`.  A JSON object is a
function from the keys it holds to their values.  A message is its bytes and, for the
properties, what it is about (`About`).  `owed` is history: the answers of the ECU that are for a
callback and have not been given to it; `seeds`, `late` and `presents` count.  The buffers are not cleared, so a byte nobody
wrote is `Junk`.  A key is a byte that names the seed it was made for.

What a user configures has the types of the code (`ConfigOK`): bytes, numbers of 16 and of 32
bits, and no number written with more than its four bytes, as a shift by the width of a number is
undefined.  `DataMax` bounds what the buffers of the messages take: the request of a
service is not longer (`ScriptAssumption`), nor is an answer (`IsAnswer`), and a request that
keys made longer is not sent (`RequestHandler`).  The code would send it with a length its
buffer does not have (`diag_master.c:811`).  An answer has at least one byte, and the second
where the diag master reads it without a look at the length (`dm_uds_client.c:338`, `:645`).

Left out: replies to calls (`DmApi` has them), configuration during a run and stop
(`UdsClient` has them), 0x36 and 0x37 and the file (`UdsCommonVar`), the text of JSON
(cJSON, vendored), failed allocation.

### Not modelled

- The texts of services and codes (`dm_udsc_types.c`, the tables in `dm_doip_client.c` and
  `dm_common.c`): they are for the log, and no behaviour depends on them.
- cJSON, `ev.h`, `uv.h`: vendored; the models say what the code relies on.
- `demo/`: uses of the API; the calls in the callbacks of `DmApi` are taken from there.
- The lookup of clients by diagnostic ids in the API (`dm_api.c:1065-1143`): the ids are kept when
  a client is given back, so that the next one with its number is found by them.
- The variants for Windows and libuv: the models follow Linux and libev.

These texts, libraries and demos are most of what `map` does not name.

## 3. What the runs check

The runs `uds_*` check `MCUdsClient`, the runs `dm_*` check `DmSystem`; the others are named
after their modules.

| run | question | instance |
|---|---|---|
| `uds_client` | is the engine safe, whatever arrives in whatever order; are repetitions bounded; does every run end, and is it reported; does the client implement `UdsRun`? | lists of up to two of five kinds of items (expecting a positive response; repeated until a positive response, and repeated until anything but a negative one while a certain one is expected; suppressed; disabled), two runs, two messages out of four, every command, any transport, fair timers |
| `uds_transfer` | does the ECU have the whole file when it counts as sent, does a lost block end the run, is the file closed? | lists of up to three items of a download of five bytes, blocks of 3, 4, their bits together (7), and a rejected download's (8), limits; 32-valued words, a sequence number of 4 values, so that it wraps; an ECU that answers at most once, with a rejection or not at all if it likes; sends that fail |
| `dm_pool` | do both sides agree on who uses which client, whatever is late, dropped or too much? | two clients, one of them there from the start, lists of one item, two datagrams per queue, five calls (create, destroy, configure, start, DoIP, master reset), one timer step |
| `dm_run` | what does a successful call mean, and does it return, while runs send and callbacks call? | one client, tester present enabled, five calls (create, configure, start, stop, and responses and keys from callbacks), two timer steps |
| `dms` | is a slot, and its path, one diag master's at a time; is who is gone noticed, and who answers kept? | three users, one slot that is used again and again, one heartbeat that may stay unanswered (the code: 10), sockets of two datagrams; crashes at any time |
| `doip` | are sockets, watchers, activation and the state the diag master sees right, whatever arrives in whatever pieces? | three descriptors, a socket that may not be had at any time, two connections, two addresses of the tester, reads of 8 (a header), 15 and 17 bytes or of everything into a buffer of 32, which takes a grant and the message behind it, two messages besides routing |
| `script` | does the ECU read what the user configured, and the user what the ECU answered? | four scripts of up to four services (seed and key twice; write with an expectation; read until; a suppressed routine; download and file transfer), blocks with two bytes of slack, four ids of callbacks of which three are used, one timeout, one tester present |

Passing properties of `UdsClient`:

- `RequestTimerActive`, `RunHasTimer`: the request handler finds an item, and a
  run is never left without a timer.
- `ReportedIsQuiet`, `OneReportPerStart`: a report is the end, and there is one per
  start at most.
- `NormalCoversList`: a normal result means that each enabled item was passed.
- `EndIsReported`: a run that ends is reported, unless a stop or a reset of the diag master ends it.  The code has
  one more case, in which nobody is told (`dm_uds_client.c:301`): `isFailAbort` is off, and the last item is enabled
  and could not be sent.  The property admits that case only.
- `AbortEndsRun`: with `isFailAbort`, the first failure and the report are one step.
- `PassedIsNotResent`, `RetryBound`: responses that come late or twice do not make
  the client repeat a passed item, and the number of times an item is sent is
  bounded by its finish rule.
- `WholeFileTaken`: when a transfer item is passed as met and each block was sent and answered by a
  positive response, the ECU has taken the whole file, block by block and under the right numbers, though
  the client ends the transfer by the capacity of the blocks it counts, and the numbers wrap.
- `LostBlockEndsRun`: with `isFailAbort` and a positive response expected, a block that is rejected or
  not answered ends the run.  The code counts such a block like any other (`:461`); that no later one is
  sent behind the gap rests on the expectation of the item alone.
- `NoFileLeft`: a client that is stopped, by a report, a command or a reset, holds no file and no buffer.
- `RunEnds`: every run ends.
- `ImplementsRun`: the refinement mapping is `running`/`sindex` to a phase, `sindex`
  to a place, `starts` and `reports` to the counts.

Passing properties of `DmSystem`:

- `HandleIsLease`: a client the API has a record of is leased to the call that made the
  record.  It holds through timeouts and late replies, because a late reply to a create
  still carries the id of the client that was leased, and the record is gone before the
  command to destroy is sent.  It fails where the pool was full or was reset in use, which
  `upset` records.
- `RunningIsInUse`: a client that executes is in use, so that the handlers of its timers
  find it by its id.
- `Agreement`: if no call has failed, then between two calls the records of the API are
  the clients in use, but for those that refused to be destroyed; whatever is still under way
  between the two processes does not change that.
- `SuccessIsDone`: as long as no call has failed, a call that succeeds was carried out,
  though replies are recognised by their command only, and calls made by callbacks read
  from the same socket.
- `StopIsBarrier`: as long as no call has failed, nothing of a stopped run reaches a
  callback after the stop has succeeded; the one queue for replies and notices is why.
- `CallsReturn`: every call returns, unless tester present goes on meanwhile.

Passing properties of `Dms`:

- `SlotIsLive`: a slot never holds a diag master that was freed, unless its thread ended before
  it had learned its slot.
- `PathIsOwn`: the path of a diag master leads to it while its thread runs, though paths are
  taken over by binding anew and each thread removes its own when it ends.
- `SenderIsOwn`: what a diag master receives is from its own user, or from one that was given up
  and does not know.
- `OfflineIsSilent`: a user that has answered everything is not given up.
- `GoneIsFreed`: a diag master whose user is gone ends, unless a client keeps its loop alive or
  a stray user its heartbeat.

Passing properties of `DoipClient`:

- `DescriptorsHeld`, `WatchersHeld`: the open sockets are those the client holds, and a watcher
  watches one of them, though connecting may fail halfway and is repeated over an old connection.
- `ActiveIsGranted`, `RoutedOnly`: as long as no read has ended within a message, the client is active
  only on a connection whose server has granted that, and sends diagnostic messages on no other, whichever
  messages one read joins and whatever the last connection left in the buffer; what it sends bears the address
  asked for with this connection, without any such provision.  `doip_stale` shows that the provision is needed.
- `ConnectingEnds`, `LostIsNoticed`: no attempt and no lost connection stays for ever.
- `ImplementsLink`: the client makes the steps of `DoipLink` only.

Passing properties of `ServiceScript`:

- `EcuReadsConfig`: what was configured is in the request the ECU gets, at the places where
  an ECU looks for it.
- `KeyIsOfLastSeed`: a key request carries the key of the last seed or none, if it is not a
  repeated one and nothing was late.
- `AnswerReachesUser`: as long as no response timer has fired, every answer of the ECU for which a callback was
  set is on its way to it, in one of the two queues, until the callback has it: the diag master and the API drop
  none.  A callback is given what the ECU answered to its own request only, with its bytes, and a failure is reported with
  the request and its answer.  The callback with the last id is excepted: the code does not
  look it up (`dm_api.c:1022`).

Bounds.  Two items are enough for every relation between a current and a next
item; three for a download, a transfer and its exit.  Two starts are needed to
see what a run leaves to the next, two messages for one that comes too late
behind one that came in time.  The words and bytes are small, so that they wrap.
Two clients are enough for one that is idle, one that is new and a pool
that is full; five calls for create, start, destroy and create again with one that
is lost in between; queues of two datagrams for one that overflows, a reply behind a
notice, and a call within a call.  The `dm_*` runs disable TLC's deadlock check: the calls
are bounded, and a user who makes none is no error.

In `uds_transfer` the ECU is orderly (`Orderly`): a second answer to the same block
would be counted as one more block, and no client of this protocol could tell.

One slot is enough for a path that is used again; three users for one that goes, one that
comes, and one that has asked for the same slot or sends to it still.  `OfflineIsSilent` needs
one heartbeat that may stay unanswered and sockets of two datagrams (`KeepaliveMax > 0`,
`QueueMax > 1`), and the run has just these; its proof is for all larger ones.  Two connections show what one leaves to the next.
In `script` the last of the four ids of callbacks is not used, so that each answer is owed.  The arrays of the
scripts outgrow their blocks twice and fill one to the last byte.  `dms`, `doip` and `script`
disable the deadlock check as well: users come once, a connection rests, a script ends.

Fairness.  `RunEnds` assumes weak fairness of the request timer and of the
response timer: libev fires an armed timer, and both handlers always return.
Nothing is assumed of the API, the ECU or the transport; messages are bounded, since
an ECU that sends NRC 78 for ever keeps a run alive for ever.

`CallsReturn` assumes weak fairness of one thing: a thread in a call reads its
socket, or its receive timeout expires.  Nothing is assumed of the diag master, which
may never reply.  The exception for tester present is needed: the timeout of 100 ms starts
anew with each datagram, and does not expire when tester present comes more often
(`tpInterval` is given in milliseconds and has no lower bound, and the timers of several
clients add up).

`GoneIsFreed` assumes that threads run, that the handler of a socket with something to read runs,
and that of a timer that is due; nothing of the users, who may crash, nor of the timers of
clients (`Rest`), which may go on for ever.  `ConnectingEnds` and `LostIsNoticed` assume the event
loop (`Loop`), and of the kernel that it ends an attempt to connect (`Accepted`, `Refused`);
nothing of the server.

Violated properties.  Five runs state what a comment says and TLC shows that the code
does otherwise; `PROJECT.json` quotes the comments under `findings`:

| run | what the code does |
|---|---|
| `dm_full` | a full pool hands out the id of another user's client |
| `dm_doip` | every request sent over DoIP counts as failed |
| `dms_stuck` | a diag master that stops its watchers, its API being gone, stays for ever while a timer of a client or a DoIP connection is active; its slot stays taken and nothing can reach it |
| `script_foreign` | a positive response to another service, repeated or late, is given to the callback of the item at work |
| `doip_stale` | a routing activation response of which the header was read alone is judged by what an earlier connection left in the buffer, so that a denial counts as a grant |

The models show further behaviours of this kind, which have no run of their own:

- a run whose last item cannot be sent, `isFailAbort` being off, ends without a report, keeps its file and
  stays behind its list (`dm_uds_client.c:301`); and one that is ended by a failed request is reported as
  a success (`diag_master.c:169`);
- a late response passes an item that has not been sent;
- a client that is executing survives its destruction (`diag_master.c:294`);
- a late reply answers the next call of the same command (`dm_api.c:258`);
- an item added behind a run that ended without a report makes the client active, and
  stuck until a stop (`dm_uds_client.c:61`);
- a client is given back with its response or tester present timer armed (`:841`), and, by a
  reset of the diag master, with its DoIP client (`diag_master.c:366`);
- with `finish_num_max` 1 an item is sent twice (`:620`), a repeated key request carries the key
  twice (`:214`), a rejected block is counted as transferred (`:461`), so that without `isFailAbort`
  the rest of the file is sent behind a gap;
- the block length of a response is or-ed into that of the one before, so that blocks may have a length
  neither response named (`:452`);
- the callbacks of the last user of a client are called for the next (`dm_api.c:562`); the callback
  with the last id that is handed out is never called (`:1022`);
- the seed arrives at the user with length 0 (`dm_uds_client.c:336`, `:351` says that a key is made of it);
- the key may arrive after the request that should carry it was sent (`diag_master.c:532`), and a
  negative response to 0x27 is taken for a seed (`dm_uds_client.c:328`);
- the timeout of an item is sent where the type of its address belongs (`dm_uds_client.c:276`);
- the result of a script is sent longer than it was written, by the size of a header
  (`diag_master.c:846`);
- the halves of the format of addresses and lengths in 0x34 are taken the wrong way round
  (`dm_uds_client.c:1196`), and `EcuReadsConfig` reads them as the code does;
- a thread that ends before DMS has stored its slot leaves it taken for ever, and DMS then writes to a
  diag master that was freed (`diag_master.c:1304`, `orphaned`);
- if no thread can be started, the path of the API is removed before the error is sent to it
  (`diag_master.c:1297`);
- a user that was given up sends to a path that may be another's by now (`Strays`);
- a DoIP connection that succeeds at once never requests activation (`dm_doip_client.c:846`), messages
  that arrive together are dropped but for the first, diagnostic responses are all dropped (`:702`), and the target
  address of a request is written over by its data (`:781`).

Each passing property is accompanied by a mutant: an operator with a mistake that could be
made in the code (commented `Mutant:` in the modules), under which TLC finds the property
violated.

## 4. What is proved

Every theorem is of the form `Spec => ...`, for every value of the constants that the
assumptions of the modules admit, and without the small bounds of the runs; where one needs
more, it says so in its statement.  The inductive invariants are defined in the modules of the
components, behind the properties (that of `ServiceScript` in `ServiceScriptProofs`), and TLC has
checked each of them on the runs' instances.

### UDS client (`UdsClientProofs`)

- `TypeCorrect`: `TypeOK` is inductive on its own.
- `ControlCorrect`: the inductive invariant `ControlInv`.  The properties
  are not inductive: a report may be one too many if the run before it ended
  behind the list, so `OwedReport` says that as long as `sindex` is not -1 one report
  is still owed; an item may be sent twice if it lies ahead of `sindex` and was already
  passed, so `AheadIsOpen` excludes that; a file may be left open if the shared data
  is lost track of after a stop, so `StoppedIsReleased` says what it is.
- `RequestHasItem`, `RunIsDriven`, `ReportIsFinal`, `ReportsAreBounded`, `FileIsClosed`: the
  invariants `RequestTimerActive`, `RunHasTimer`, `ReportedIsQuiet`, `OneReportPerStart` and
  `NoFileLeft`.
- `PassedStaysPassed`, `AbortIsFinal`, `EndIsTold`: the action properties `PassedIsNotResent`,
  `AbortEndsRun` and `EndIsReported`.
- `NormalIsComplete`: `NormalCoversList`.  `CoverInv` adds that what `sindex` has passed has an
  outcome (`BehindIsDone`); items are added behind the list only, so it stays true while the
  list grows under a run.
- `RetriesAreBounded`: `RetryBound`.  `RetryInv` ties the number of times an item was sent to
  `finish_try_num` (`TriesAreCounted`): each repetition counts twice, by the finish rule and by
  the repetition itself, and a request timer that is armed stands for the one still to come.
- `RunImplemented`: `ImplementsRun`, step by step (`RunStep`).

The argument has one step per handler (`NextCases`); a handler that stops the client is
covered by `StopKeeps`.  None of these theorems expands `Prepared`: the control of the
client does not depend on the shared data.  Two are about that data and what the ECU makes of it:

- `TransferCorrect`: `WholeFileTaken`, for an orderly ECU (`Orderly`), which is an assumption of the
  property in the run as well.  What a request handler makes of the data is a recursive function over the
  list (`Prepared`), and what a response does to the block length is one over bits (`BitOr`).
  `PreparedIs` and `BitOrExists` show, by `NatRecursion`, that there are such functions, and
  induction gives their values (`PreparedType`, `BitOrType`).  `TransferInv` compares what has been counted with what has been
  read: an open file has been read to its end or at least as far as has been counted
  (`Tracked`), and while an answer to a block is awaited that stays true when it is counted
  (`BlockIsRead`).  It needs that an armed response timer waits for the answer to the item
  at work (`OneIsAsked`); a second answer to a block would break it.  `TakenIsRead` ties the ECU to the client:
  what it has taken is what was read, but for the block it was just sent, and under the same count.
- `LossIsFinal`: `LostBlockEndsRun`, by the cases in which the ECU loses a block: a failed send, an answer
  that does not meet the expectation, a timeout.

The assumptions are those of the modules: a list has room for one item, items and responses are
records of their kind, words have at least one value and bytes at least two.

### Diag master and API (`DmSystemProofs`, `DmPoolProofs`)

For every number of clients, length of lists, capacity of queues and set of calls:

- `TypeCorrect`: `TypeOK`, in particular that queues, lists and the pool keep within their
  capacities.  It is proved together with
- `RunningClientIsInUse`: `RunningIsInUse`.  The conjunction of the two is inductive: the type
  alone does not say that a run which moves stays within its list, nor that an
  idle client has none; `RunningIsInUse` does, and needs in turn that lists only grow
  while a client is in use.
- `HandlesCorrect`: `HandleIsLease`.  It compares a record of the API with a client of the
  diag master, between which there are two queues.  `LeaseInv` therefore says who holds a client that
  is in use: the record, a reply to `create` that will make it (`GrantIsLease`), or a command
  `destory` that gives it back (`DestoryIsLast`), and never two of them.  The clause on
  `destory` is what a reader may miss: without it the command could free a client that was
  handed out again.
- `SidesAgree`: `Agreement`.  `OutstandingInv` says that, unless a call has failed, just one
  thing is under way for the call of the user: its command or the reply to it.
  `AgreementInv` adds that leases differ, that a client in use without a record
  is on its way to one or back (`UnrecordedIsPending`), and that one which refused to be
  destroyed is never asked for again (`AbandonedStays`).  The proof showed that the property
  needs no empty queues, as it was first stated: what is left in them between two calls
  is neither a grant nor a `destory`.
- `StopsCorrect`: `StopIsBarrier`.  `StopInv` says that what a run has sent bears a call that is
  later than the last stop of its client, and that nothing of the client lies behind the
  reply to a stop (`StoppedIsSilent`): replies and notices share one queue.
- `SuccessIsReal`: `SuccessIsDone`.  A reply is recognised by its command only, and a callback may
  make a call of the command of the call below it, so the user's call may well return with the
  reply to another one.  `SuccessInv` counts: for each command, no more calls are under
  way, as a command or as a reply, than wait (`RepliesSuffice`), and the user's call was handled, is
  under way, or they are fewer (`FirstIsServed`).  When it reads its reply it waits alone, so one
  call is under way at most, and that one came back with the reply.  The counts need that no call is under
  way twice (`MessagesDiffer`) and that a reply without an error tells the truth
  (`RepliesAreTrue`).

The lemmas follow the system: messages and queues (`SentOK`, `ReceivedOK`), one lemma per
group of commands and per group of timers, then the API, and `NextOK` puts them together.
`DmPoolProofs` first states what each step of either process does to the queues and the clients
(`MasterCases`, `ApiCases` and the lemmas before them), and then treats each invariant
over these few cases.

### Registry and heartbeat (`DmsProofs`)

For every set of users, number of slots and capacity of a socket:

- `TypeCorrect`: `TypeOK`.
- `RegistryCorrect`: `RegistryInv`, with `SlotsAreLive` (`SlotIsLive`) and `PathsAreOwn`
  (`PathIsOwn`).  DMS looks for a slot, starts the thread, stores the slot and tells the diag
  master its slot in four steps, and the thread runs, or ends, between any two of them:
  `SlotOfCurrent` says what DMS may rely on at each of the four, `SlotOfThread` what the
  thread may, and the exception of both is the diag master that ended before it knew its slot
  (`orphaned`).  `RequestsAreNew` and `MadeInOrder` are what keeps one user from having two diag
  masters.
- `SendersAreOwn`: `SenderIsOwn`, with `DatagramInv`: a user is told the path of its own diag master
  and sends there only (`ToldOwnPath`).
- `AnsweringIsHeard`: `OfflineIsSilent`, under `KeepaliveMax > 0` and `QueueMax > 1` (the code
  allows 10 heartbeats, and a socket of the system holds more than two datagrams).
  `HeartbeatInv` says that a heartbeat that counts lies in one of the two sockets
  (`HeartbeatIsUnderWay`), for which a user must have its path (`PathIsThere`) and one reply
  (`ReplyIsSingle`).  Both assumptions are needed: with no heartbeat to spare the first one ends the
  diag master, and in a socket of one datagram the reply to connect leaves no room for it.

### DoIP client (`DoipClientProofs`)

For every set of configurations, requests and responses, and streams of any length:

- `ConfigArrives`: the bytes of the message that asks for a connection carry each field to
  where the diag master reads it.
- `TypeCorrect`, `DescriptorsCorrect`, `WatchersCorrect`: `TypeOK`, `DescriptorsHeld` and
  `WatchersHeld`.  Their conjunction is inductive with `ConnectionIsFresh` (what is not established
  carries nothing and is not active) and `Addressed` (`ClientInv`).
- `ActivationCorrect`, `RoutingCorrect`: `ActiveIsGranted` and `RoutedOnly`.  The stream is bytes,
  of which the client looks at the first message of each read only.
  `Activation` says that the messages of the stream are just those that begin at the offsets in `begins`
  (`Framing`), and that what the answers among them promise has happened (`Promised`); sending adds an
  offset, reading whole messages, one or several, shifts those behind them down, and a read that ends
  within a message ends `framed`.  An answer needs no part of the old buffer, since a message that was read
  reaches as far as its code does (a conjunct of `Framing`).  A request of activation is under way at most once, as otherwise an old grant could
  answer a new request.
- `LinkIsImplemented`: `ImplementsLink`, by one step per action of `DoipClient`.

Besides the types of the constants the assumption is that a response of an ECU, with its header, has a
length that 32 bits can hold (`DoipClient`), since the length in the header is one.

### Byte arrays (`ByteArrayProofs`)

For every array, every number of bytes and every slack, the lemmas the codec
rests on: `NewWellFormed`, `ClearWellFormed`, `AppendWellFormed` and `AppendArrayWellFormed` say that
the size of an array stays that of its block and that its bytes are those before and those
appended.  `WellFormed` is the part of `ServiceScript!TypeOK` that is about arrays.  The
argument is by the two cases of `ByteArrayAppendNChar`: the bytes fit (`CopiedOK`) or move to a new
block.

The loop over the elements of a JSON array (`AppendedEach`) is a recursive function; `ServiceScriptProofs`
shows with `NatRecursion` that it appends them all (`AppendedEachIs`).

### Scripts (`ServiceScriptProofs`)

For all scripts of services `ConfigOK` admits, all general configurations, whatever an ECU answers, and all
bounds:

- `RequestAsks`, `ItemBuilt`: an ECU finds in the bytes of a request what the user configured.  Numbers are
  written by a recursive function (`Shifted`) and read by another (`NumberAt`); `NumberIsAt` shows
  that one undoes the other where a number fits the bytes it is given.  `At` says where a part
  lies in the whole, and leads from the parts of a download or a file transfer to the request.
- Lemmas for each kind of message (`ServiceKind`, `SaKind` and those before them) say that what is
  written into a buffer of `Junk` is read from there again.
- `ScriptCorrect`: the inductive invariant `IInv`.  `Contents` says of every item, message, answer and callback
  that it has what it should have.  That alone would do for what the ECU reads; which key a
  request carries, and which callback an answer reaches, depends on the order of what is under way.
  `Flow` says of it, as long as no answer was late: one request is under way at most, that of the item
  at work, or its answers (`Asked`); a seed or a key comes before the request and the
  answers behind it, and as long as one of them is under way no key is stored (`Keyed`); nothing
  is under way while the request timer runs (`Still`).  Before the start there is nothing at
  all (`NotStarted`).
- `TypeCorrect`, `ItemsAreConfigured`, `ConfigReachesEcu`, `KeysFitSeeds`: the invariants
  `TypeOK`, `ItemIsConfigured`, `EcuReadsConfig` and `KeyIsOfLastSeed`.  `ItemIsConfigured` is about all that
  a user configures, also what no request shows: the rules for answers, callbacks, general flags.  It is
  proved only, no run checks it.
- `AnswersOwed`: the inductive invariant `OwedInv`, which says of each answer that is owed where it
  stands: in a response on its way to the diag master, or in a result on its way to the API, with the id
  of its callback and its bytes (`Coming`).  It needs `Flow`, by which the item at work
  when the diag master reads an answer is the one that was asked.
- `AnswersArrive`: `AnswerReachesUser`, from `IInv` and `OwedInv`.

That `Flow` needs `late = 0` is no weakness of the proof: with a late answer an ECU has two
requests, and the diag master takes the answer to one for the answer to the other.

### Recursion (`NatRecursion`)

The library states induction for predicates, which none of the provers can instantiate here.
`Induction` states it for sets: it follows from the well-foundedness of the finite subsets, by
way of the intervals below the numbers outside of the set.  From there `Recursion` shows that steps
can be iterated, and `IntervalRecursion` that a function defined over an interval by its
predecessor exists, so that its definition says what its values are.

### Only model-checked

Liveness: `RunEnds`, `CallsReturn`, `GoneIsFreed`, `ConnectingEnds`, `LostIsNoticed`.  They rest on
fairness, and with it on `ENABLED`, which TLAPS does not handle here.  Every invariant of the
passing runs, and every action property and refinement among their properties, is proved.

## 5. What could come next

- `DiagMaster` as a composition with the abstract run: each client's `sindex` and `running`
  as an instance of `UdsRun`, and a pool of leases as the abstract specification of the pool.
- The hazards without a property (`PROJECT.json`): most of them need the behaviour to be
  decided first.
