---------------------------- MODULE UdsCommonVar ----------------------------
(***************************************************************************)
(* The data the service items of one UDS client share (struct              *)
(* common_variable of dm_uds_client.h) and the bytes of a request that     *)
(* change while a run is in progress: the key of security access (0x27)    *)
(* and the block of a file transfer (0x34/0x38, 0x36, 0x37).               *)
(*                                                                         *)
(* Pure operators: each maps the shared data before a handler to the       *)
(* shared data after it.  UdsClient uses them inside its actions.          *)
(*                                                                         *)
(* The data is abstracted to what the handlers decide on:                  *)
(*   block  maxNumberOfBlockLength       count  fileTransferCount          *)
(*   total  fileTransferTotalSize        size   fileSize                   *)
(*   buff   td_buff is allocated         fd     filefd is open             *)
(*   pos    read position of filefd      keys   keys held by key_byte      *)
(* and, of request_byte, to the appended keys (keys), the sequence number  *)
(* (count) and the number of file bytes (len) it carries.                  *)
(***************************************************************************)
EXTENDS Naturals

CONSTANTS
  Word,      \* values of an INT32U (2^32 in the program)
  Byte,      \* values of an INT8U (2^8 in the program)
  FileSize   \* bytes of the file that local_path names

ASSUME WordAssumption == Word \in Nat \ {0}
ASSUME ByteAssumption == Byte \in Nat \ {0, 1}
ASSUME FileAssumption == FileSize \in 0..(Word - 1)

Common == [block : 0..(Word - 1), count : 0..(Byte - 1), total : 0..(Word - 1),
           size : 0..FileSize, pos : 0..FileSize, buff : BOOLEAN,
           fd : BOOLEAN, keys : Nat]

NewCommon == [block |-> 0, count |-> 0, total |-> 0, size |-> 0, pos |-> 0,
              buff |-> FALSE, fd |-> FALSE, keys |-> 0]

Request == [keys : Nat, count : 0..(Byte - 1), len : 0..FileSize]

NewRequest == [keys |-> 0, count |-> 0, len |-> 0]

\* Mutant: the file stays open.
ReleasedOpen(c) ==
  [block |-> c.block, count |-> c.count, total |-> c.total, size |-> c.size,
   pos |-> c.pos, keys |-> c.keys, buff |-> FALSE, fd |-> c.fd]

\* udsc_services_stop and udsc_reset free the buffer and close the file.
Released(c) ==
  [block |-> c.block, count |-> c.count, total |-> c.total, size |-> c.size,
   pos |-> c.pos, keys |-> c.keys, buff |-> FALSE, fd |-> FALSE]

Lesser(a, b) == IF a < b THEN a ELSE b

\* The bits of a and b together, the |= of the block length.
BitOr[p \in Nat \X Nat] ==
  IF p = <<0, 0>>
  THEN 0
  ELSE 2 * BitOr[<<p[1] \div 2, p[2] \div 2>>]
         + (IF 1 \in {p[1] % 2, p[2] % 2} THEN 1 ELSE 0)

\* What one 0x36 request carries of the file: a block less SID and counter.
Payload(c) == (c.block + Word - 2) % Word

-----------------------------------------------------------------------------
(***************************************************************************)
(* Before a request is sent.                                               *)
(***************************************************************************)

\* 0x27 with an even sub-function: every key held so far is appended to the
\* request, once more for each time the item is sent.
AppendKey(c, q) == [common |-> c, request |-> [q EXCEPT !.keys = @ + c.keys]]

\* 0x36: the next block is read into the request; without an open file, or
\* past its end, the request goes out as it was.
ReadBlock(c, q, limit) ==
  LET capped == IF limit > 0 THEN [c EXCEPT !.block = Lesser(@, limit)] ELSE c
      n == Lesser(Payload(capped), FileSize - c.pos)
  IN  IF ~c.buff \/ ~c.fd
      THEN [common |-> [capped EXCEPT !.total = 0, !.size = 0], request |-> q]
      ELSE IF n > 0
      THEN [common  |-> [capped EXCEPT !.pos = @ + n],
            request |-> [q EXCEPT !.count = c.count, !.len = n]]
      ELSE [common |-> capped, request |-> q]

\* udsc_service_request_preprocessor
Preprocess(c, q, item) ==
  IF item.sid = "SA" /\ ~item.odd THEN AppendKey(c, q)
  ELSE IF item.sid = "TD" THEN ReadBlock(c, q, item.limit)
  ELSE [common |-> c, request |-> q]

-----------------------------------------------------------------------------
(***************************************************************************)
(* When a response has come.  Each handler also says whether the response  *)
(* still meets the expectation (meet) and whether the item is to be sent   *)
(* again (keep).                                                           *)
(***************************************************************************)

Handled(c, ok, again) == [common |-> c, meet |-> ok, keep |-> again]

\* udsc_service_27_sa_response_handler: the byte after the first is taken for
\* the sub-function; of a negative response it is 0x27, which is odd.
SeedResponse(c, r) ==
  Handled(IF r.kind = "negative" \/ r.odd THEN [c EXCEPT !.keys = 0] ELSE c,
          TRUE, FALSE)

\* udsc_service_36_td_set: the file is opened for the transfer that follows.
TdSet(c, opens) ==
  IF c.block = 0 THEN Handled(c, FALSE, FALSE)
  ELSE IF ~opens
  THEN Handled([c EXCEPT !.buff = TRUE, !.fd = FALSE], FALSE, FALSE)
  ELSE Handled([c EXCEPT !.buff = TRUE, !.fd = TRUE, !.pos = 0, !.count = 1,
                         !.total = 0, !.size = FileSize],
               TRUE, FALSE)

WithBlock(c, n) == [c EXCEPT !.block = BitOr[<<@, n>>] % Word]

\* 0x34: the length is read from whatever response came, negative ones too.
DownloadResponse(c, r, opens) == TdSet(WithBlock(c, r.block), opens)

\* 0x38: in a negative response the byte read as modeOfOperation is the SID.
FileResponse(c, r, opens) ==
  TdSet(IF r.kind = "positive" THEN WithBlock(c, r.block) ELSE c, opens)

\* Mutant: the SID and the counter are counted with the block.
BlockResponseWhole(c) ==
  LET counted == [c EXCEPT !.count = (@ + 1) % Byte,
                           !.total = (@ + c.block) % Word]
  IN  IF counted.total >= c.size
      THEN Handled([counted EXCEPT !.fd = FALSE], TRUE, FALSE)
      ELSE Handled(counted, TRUE, TRUE)

\* 0x36: one more block is counted as transferred.
BlockResponse(c) ==
  LET counted == [c EXCEPT !.count = (@ + 1) % Byte,
                           !.total = (@ + Payload(c)) % Word]
  IN  IF counted.total >= c.size
      THEN Handled([counted EXCEPT !.fd = FALSE], TRUE, FALSE)
      ELSE Handled(counted, TRUE, TRUE)

\* udsc_service_response_handler
Handle(c, r, opens) ==
  CASE r.sid = "SA"  -> SeedResponse(c, r)
    [] r.sid = "RFT" -> FileResponse(c, r, opens)
    [] r.sid = "RD"  -> DownloadResponse(c, r, opens)
    [] r.sid = "TD"  -> BlockResponse(c)
    [] r.sid = "RTE" -> Handled([c EXCEPT !.fd = FALSE], TRUE, FALSE)
    [] OTHER -> Handled(c, TRUE, FALSE)
=============================================================================
