---------------------------- MODULE ServiceConfig ---------------------------
(***************************************************************************)
(* The way of one service from the configuration a user fills in           *)
(* (service_config of dm_common.h) to the request an ECU receives: it is   *)
(* encoded as a JSON object by the API, decoded by the diag master, stored *)
(* in an item of the client's list, and built into the bytes of a request. *)
(*                                                                         *)
(* A JSON object is a function from the keys it holds to their values; its *)
(* text, written and read by cJSON, is left out.  Strings are sequences.   *)
(***************************************************************************)
EXTENDS ByteArray

\* Service ids the code tells apart.
DSC == 16
ER == 17
RDTCI == 25
RDBI == 34
SA == 39
CC == 40
DDDI == 44
WDBI == 46
RC == 49
RD == 52
TD == 54
RTE == 55
RFT == 56
CDTCS == 133
ROE == 134
LC == 135

NewDownload ==
  [dataFormatIdentifier |-> 0, addressAndLengthFormatIdentifier |-> 0,
   memoryAddress |-> 0, memorySize |-> 0]

NewFileTransfer ==
  [modeOfOperation |-> 0, filePathAndNameLength |-> 0, filePathAndName |-> <<>>,
   dataFormatIdentifier |-> 0, fileSizeParameterLength |-> 0,
   fileSizeUnCompressed |-> 0, fileSizeCompressed |-> 0]

\* memset to 0, with new byte arrays.
NewConfig ==
  [sid |-> 0, sub |-> 0, did |-> 0, delay |-> 0, timeout |-> 0, issuppress |-> 0,
   tatype |-> 0, ta |-> 0, sa |-> 0, variableByte |-> ByteArrayNew,
   expectResponByte |-> ByteArrayNew, expectRespon_rule |-> 0,
   finishByte |-> ByteArrayNew, finish_rule |-> 0, finish_num_max |-> 0,
   rr_callid |-> 0, service_34_rd |-> NewDownload,
   service_38_rft |-> NewFileTransfer, maxNumberOfBlockLength |-> 0,
   local_path |-> <<>>, desc |-> <<>>]

\* Unsigned numbers of 16 and of 32 bits.
Word == {n \in Nat : n \div 256 < 256}

DWord == {n \in Nat : n \div 16777216 < 256}

\* The fields of a configuration have the types of dm_common.h.  A number has
\* four bytes, and to write more of it is undefined: the code shifts it by its
\* width.
DownloadOK(rd) ==
  /\ rd.dataFormatIdentifier \in Byte
  /\ rd.addressAndLengthFormatIdentifier \in Byte
  /\ rd.addressAndLengthFormatIdentifier \div 16 <= 4
  /\ rd.addressAndLengthFormatIdentifier % 16 <= 4
  /\ rd.memoryAddress \in DWord /\ rd.memorySize \in DWord

FileTransferOK(rft) ==
  /\ rft.modeOfOperation \in Byte /\ rft.dataFormatIdentifier \in Byte
  /\ rft.filePathAndNameLength \in Word /\ rft.filePathAndName \in Seq(Byte)
  /\ rft.fileSizeParameterLength \in 0..4
  /\ rft.fileSizeUnCompressed \in DWord /\ rft.fileSizeCompressed \in DWord

ConfigOK(c) ==
  /\ \A f \in {"sid", "sub", "issuppress"} : c[f] \in Byte
  /\ c.did \in Word
  /\ \A f \in {"delay", "timeout", "tatype", "ta", "sa", "expectRespon_rule",
                "finish_rule", "finish_num_max", "rr_callid",
                "maxNumberOfBlockLength"} : c[f] \in DWord
  /\ \A f \in {"variableByte", "expectResponByte", "finishByte"} : WellFormed(c[f])
  /\ DownloadOK(c.service_34_rd) /\ FileTransferOK(c.service_38_rft)

-----------------------------------------------------------------------------
(***************************************************************************)
(* The JSON object                                                         *)
(***************************************************************************)

Arrays == {"variableByte", "expectResponByte", "finishByte"}

\* Numbers that are left out when they are 0.
Optional ==
  {"sid", "sub", "did", "delay", "timeout", "tatype", "ta", "sa",
   "maxNumberOfBlockLength", "finish_num_max", "rr_callid"}

Keys(c) ==
  {"issuppress", "expectRespon_rule", "finish_rule"}
    \cup {k \in Optional : c[k] > 0}
    \cup {k \in Arrays : c[k].dlen > 0}
    \cup {k \in {"desc"} : c.desc # <<>>}
    \cup {k \in {"service_34_rd"} : c.sid = RD}
    \cup {k \in {"service_38_rft"} : c.sid = RFT}

\* dm_service_config_encode; the path goes with the transfer it belongs to.
Encoded(c) ==
  [k \in Keys(c) |->
     CASE k = "issuppress" -> c.issuppress # 0
       [] k \in Arrays -> Content(c[k])
       [] k \in {"service_34_rd", "service_38_rft"} ->
            [service |-> c[k], local_path |-> c.local_path]
       [] OTHER -> c[k]]

\* Element by element, as the decoder reads an array.
AppendedEach(a, s) ==
  LET after[n \in 0..Len(s)] ==
        IF n = 0 THEN a ELSE ByteArrayAppendChar(after[n - 1], s[n])
  IN  after[Len(s)]

Transfers(m) == DOMAIN m \cap {"service_34_rd", "service_38_rft"}

\* dm_service_config_decode: what m does not hold stays as it was in c.
Decoded(m, c) ==
  [k \in DOMAIN c |->
     IF k = "local_path" /\ Transfers(m) # {}
     THEN m[CHOOSE t \in Transfers(m) : TRUE].local_path
     ELSE IF k \notin DOMAIN m THEN c[k]
     ELSE CASE k = "issuppress" -> IF m[k] THEN 1 ELSE 0
            [] k \in Arrays -> AppendedEach(c[k], m[k])
            [] k \in Transfers(m) -> m[k].service
            [] OTHER -> m[k]]

\* The general configuration holds every key; the flags become true and false.
GeneralEncoded(g) ==
  [isFailAbort |-> g.isFailAbort # 0, tpEnable |-> g.tpEnable # 0,
   isTpRefresh |-> g.isTpRefresh # 0, tpInterval |-> g.tpInterval,
   tpta |-> g.tpta, tpsa |-> g.tpsa]

GeneralDecoded(m) ==
  [isFailAbort |-> IF m.isFailAbort THEN 1 ELSE 0,
   tpEnable |-> IF m.tpEnable THEN 1 ELSE 0,
   isTpRefresh |-> IF m.isTpRefresh THEN 1 ELSE 0,
   tpInterval |-> m.tpInterval, tpta |-> m.tpta, tpsa |-> m.tpsa]

-----------------------------------------------------------------------------
(***************************************************************************)
(* The item and its request                                                *)
(***************************************************************************)

HaveSub(sid) == sid \in {DSC, ER, SA, CC, CDTCS, ROE, LC, RDTCI, DDDI, RC}

\* dm_udsc_service_item_add: zeros, but for the arrays and the type of address.
NewItem ==
  [sid |-> 0, sub |-> 0, did |-> 0, delay |-> 0, timeout |-> 0, issuppress |-> 0,
   tatype |-> 1, ta |-> 0, sa |-> 0, request_byte |-> ByteArrayNew,
   variable_byte |-> ByteArrayNew, expect_byte |-> ByteArrayNew,
   response_rule |-> 0, finish_byte |-> ByteArrayNew, finish_rule |-> 0,
   finish_num_max |-> 0, finish_try_num |-> 0, rr_callid |-> 0,
   maxNumberOfBlockLength |-> 0, rd_34 |-> NewDownload,
   rft_38 |-> NewFileTransfer, local_path |-> <<>>, desc |-> <<>>]

\* dm_udsc_service_sid_set, _sub_set, _did_set, _delay_set and _timeout_set
ItemSet(i, c) ==
  [i EXCEPT !.sid = c.sid, !.sub = c.sub, !.did = c.did, !.delay = c.delay,
            !.timeout = c.timeout]

\* The parameters of a service are stored for that service only.
TransferSet(i, c) ==
  CASE c.sid = RD ->
         [i EXCEPT !.rd_34 = c.service_34_rd, !.local_path = c.local_path]
    [] c.sid = RFT ->
         [i EXCEPT !.rft_38 = c.service_38_rft, !.local_path = c.local_path]
    [] OTHER -> i

\* A new item with the values of c.
ItemOf(c) ==
  TransferSet(
    [ItemSet(NewItem, c) EXCEPT
       !.desc = c.desc, !.issuppress = c.issuppress, !.tatype = c.tatype,
       !.ta = c.ta, !.sa = c.sa,
       !.variable_byte = ByteArrayAppendArray(@, c.variableByte),
       !.expect_byte = ByteArrayAppendArray(@, c.expectResponByte),
       !.finish_byte = ByteArrayAppendArray(@, c.finishByte),
       !.response_rule = c.expectRespon_rule, !.finish_rule = c.finish_rule,
       !.finish_num_max = c.finish_num_max, !.rr_callid = c.rr_callid,
       !.maxNumberOfBlockLength = c.maxNumberOfBlockLength], c)

\* n without its lowest bytes.
Shifted(n) ==
  LET rest[bytes \in Nat] == IF bytes = 0 THEN n ELSE rest[bytes - 1] \div 256
  IN  rest

\* The low bytes of a number, the highest first.
BigEndian(n, size) == [i \in 1..size |-> Shifted(n)[size - i] % 256]

\* The bytes of a request before its parameters, and those of them that the
\* service has before the variable ones.
HeadLen(sid) == IF HaveSub(sid) THEN 2 ELSE 1

FixedLen(c) ==
  LET format == c.service_34_rd.addressAndLengthFormatIdentifier
      rft == c.service_38_rft
  IN  CASE c.sid \in {RDBI, WDBI, RC} -> 2
        [] c.sid = RD -> (2 + format \div 16) + (format % 16)
        [] c.sid = RFT -> 5 + Len(rft.filePathAndName) + 2 * rft.fileSizeParameterLength
        [] OTHER -> 0

RequestLen(c) == HeadLen(c.sid) + FixedLen(c) + c.variableByte.dlen

SubByte(i) == IF i.issuppress # 0 /\ i.sub < 128 THEN i.sub + 128 ELSE i.sub

Download(rd) ==
  <<rd.dataFormatIdentifier, rd.addressAndLengthFormatIdentifier>>
    \o BigEndian(rd.memoryAddress, rd.addressAndLengthFormatIdentifier \div 16)
    \o BigEndian(rd.memorySize, rd.addressAndLengthFormatIdentifier % 16)

FileTransfer(rft) ==
  <<rft.modeOfOperation>> \o BigEndian(rft.filePathAndNameLength, 2)
    \o rft.filePathAndName
    \o <<rft.dataFormatIdentifier, rft.fileSizeParameterLength>>
    \o BigEndian(rft.fileSizeUnCompressed, rft.fileSizeParameterLength)
    \o BigEndian(rft.fileSizeCompressed, rft.fileSizeParameterLength)

\* Mutant: an id with a sub-function takes no data identifier.
ParametersExclusive(i) ==
  IF HaveSub(i.sid) THEN <<>>
  ELSE IF i.sid \in {RDBI, WDBI, RC} THEN BigEndian(i.did, 2)
  ELSE IF i.sid = RFT THEN FileTransfer(i.rft_38)
  ELSE IF i.sid = RD THEN Download(i.rd_34)
  ELSE <<>>

Parameters(i) ==
  IF i.sid \in {RDBI, WDBI, RC} THEN BigEndian(i.did, 2)
  ELSE IF i.sid = RFT THEN FileTransfer(i.rft_38)
  ELSE IF i.sid = RD THEN Download(i.rd_34)
  ELSE <<>>

\* dm_udsc_service_request_build
RequestBuild(i) ==
  LET head == <<i.sid>> \o (IF HaveSub(i.sid) THEN <<SubByte(i)>> ELSE <<>>)
      fixed == AppendedEach(ByteArrayClear(i.request_byte), head \o Parameters(i))
  IN  [i EXCEPT !.request_byte = ByteArrayAppendArray(fixed, i.variable_byte)]
=============================================================================
