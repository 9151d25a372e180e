----------------------------- MODULE IpcMessage -----------------------------
(***************************************************************************)
(* The layout of the messages between the API and a diag master            *)
(* (dm_common.h), as the bytes of a datagram: which field is written where *)
(* by the sender, and where the receiver reads it.                         *)
(*                                                                         *)
(* Both sides keep one buffer per direction and never clear it to send, so *)
(* a byte that is not written, and one behind the end of a datagram, holds *)
(* something old: Junk, a value no field has.  Offsets count from 0.       *)
(***************************************************************************)
EXTENDS Integers, Sequences

CONSTANT Junk

ASSUME JunkAssumption == Junk \in 0..255

\* Commands
ServiceIndication == 1
ServiceResponse == 2
ScriptResult == 5
ServiceRequestResult == 12
SaSeed == 13
SaKey == 14
DoipcCreate == 17

\* DM_IPC_COMMON_MSG_SIZE: command, code, client, and a time of 8 bytes.
MsgSize == 18

\* A number of up to four bytes in the order of the machine, the lowest byte first.
Digits(n) ==
  <<n % 256, (n \div 256) % 256, (n \div 65536) % 256, (n \div 16777216) % 256>>

Little(n, size) == SubSeq(Digits(n), 1, size)

Buffer(size) == [i \in 1..size |-> Junk]

Put(b, offset, s) ==
  [i \in 1..Len(b) |->
     IF i \in (offset + 1)..(offset + Len(s)) THEN s[i - offset] ELSE b[i]]

PutNumber(b, offset, size, n) == Put(b, offset, Little(n, size))

\* n bytes read at an offset, also behind the end of the datagram.
Get(b, offset, n) ==
  [i \in 1..n |-> IF offset + i <= Len(b) THEN b[offset + i] ELSE Junk]

\* A number of one, two or four bytes.
GetNumber(b, offset, size) ==
  LET s == Get(b, offset, size)
  IN  CASE size = 1 -> s[1]
        [] size = 2 -> s[1] + 256 * s[2]
        [] size = 4 -> s[1] + 256 * s[2] + 65536 * s[3] + 16777216 * s[4]

\* dm_common_encode: the time is of no use to the models.
Headed(b, cmd, recode, id) ==
  PutNumber(PutNumber(PutNumber(Put(b, 0, [i \in 1..MsgSize |-> 0]),
                                0, 4, cmd), 4, 4, recode), 8, 2, id)

\* dm_common_decode
Command(b) == GetNumber(b, 0, 4)

Recode(b) == GetNumber(b, 4, 4)

-----------------------------------------------------------------------------
(***************************************************************************)
(* Requests and responses of a service share one layout behind the header, *)
(* whose first field, of 4 bytes, is never written.                        *)
(***************************************************************************)
SaOffset == MsgSize + 4
TaOffset == MsgSize + 8
TaTypeOffset == MsgSize + 12
PayloadLenOffset == MsgSize + 16
PayloadOffset == MsgSize + 20

\* diag_master_service_request and dm_api_service_response
ServiceMessage(cmd, data, sa, ta, tatype) ==
  LET b == Put(PutNumber(PutNumber(PutNumber(PutNumber(
               Buffer(PayloadOffset + Len(data)),
               SaOffset, 4, sa), TaOffset, 4, ta), TaTypeOffset, 4, tatype),
               PayloadLenOffset, 4, Len(data)), PayloadOffset, data)
  IN  Headed(b, cmd, 0, 0)

ServiceFields(b) ==
  [sa |-> GetNumber(b, SaOffset, 4), ta |-> GetNumber(b, TaOffset, 4),
   tatype |-> GetNumber(b, TaTypeOffset, 4),
   data |-> Get(b, PayloadOffset, GetNumber(b, PayloadLenOffset, 4))]

-----------------------------------------------------------------------------
CallIdOffset == MsgSize
ResultLenOffset == MsgSize + 4
ResultOffset == MsgSize + 8

\* diag_master_service_request_result
ResultMessage(rr_callid, data) ==
  Headed(Put(PutNumber(PutNumber(Buffer(ResultOffset + Len(data)),
             CallIdOffset, 4, rr_callid), ResultLenOffset, 4, Len(data)),
             ResultOffset, data),
         ServiceRequestResult, 0, 0)

ResultFields(b) ==
  [rr_callid |-> GetNumber(b, CallIdOffset, 4),
   data |-> Get(b, ResultOffset, GetNumber(b, ResultLenOffset, 4))]

-----------------------------------------------------------------------------
IndLenOffset == MsgSize
IndOffset == MsgSize + 4

\* diag_master_all_service_result: the header is counted twice, so that more
\* is sent than was written.
FinishMessage(recode, ind, resp) ==
  LET behind == IndOffset + Len(ind)
      b == Put(PutNumber(Put(PutNumber(
               Buffer(MsgSize + behind + 4 + Len(resp)),
               IndLenOffset, 4, Len(ind)), IndOffset, ind),
               behind, 4, Len(resp)), behind + 4, resp)
  IN  Headed(b, ScriptResult, recode, 0)

FinishFields(b) ==
  LET indl == GetNumber(b, IndLenOffset, 4)
      respl == GetNumber(b, IndOffset + indl, 4)
  IN  [ind |-> Get(b, IndOffset, indl), resp |-> Get(b, IndOffset + indl + 4, respl)]

-----------------------------------------------------------------------------
(***************************************************************************)
(* Seeds and keys share one layout.                                        *)
(***************************************************************************)
LevelOffset == MsgSize
SaSizeOffset == MsgSize + 1
SaDataOffset == MsgSize + 3

\* diag_master_service_sa_seed_request and dm_api_udsc_sa_key
SaMessage(cmd, level, data) ==
  Headed(Put(PutNumber(PutNumber(Buffer(SaDataOffset + Len(data)),
             LevelOffset, 1, level), SaSizeOffset, 2, Len(data)),
             SaDataOffset, data),
         cmd, 0, 0)

SaFields(b) ==
  [level |-> GetNumber(b, LevelOffset, 1),
   data |-> Get(b, SaDataOffset, GetNumber(b, SaSizeOffset, 2))]

-----------------------------------------------------------------------------
(***************************************************************************)
(* The configuration of a DoIP client: nothing lies between its fields.    *)
(***************************************************************************)
VersionOffset == MsgSize
SourceAddrOffset == MsgSize + 1
ClientIpOffset == MsgSize + 3
ClientPortOffset == MsgSize + 7
ServerIpOffset == MsgSize + 9
ServerPortOffset == MsgSize + 13
DoipcCreateSize == MsgSize + 15

\* Mutant: the address of the tester is taken for one of a byte.
DoipcCreateMessageShort(c) ==
  Headed(PutNumber(PutNumber(PutNumber(PutNumber(PutNumber(PutNumber(
           Buffer(DoipcCreateSize),
           VersionOffset, 1, c.ver), SourceAddrOffset, 1, c.sa_addr),
           ClientIpOffset, 4, c.src_ip), ClientPortOffset, 2, c.src_port),
           ServerIpOffset, 4, c.dst_ip), ServerPortOffset, 2, c.dst_port),
         DoipcCreate, 0, 0)

\* dm_api_doipc_create
DoipcCreateMessage(c) ==
  Headed(PutNumber(PutNumber(PutNumber(PutNumber(PutNumber(PutNumber(
           Buffer(DoipcCreateSize),
           VersionOffset, 1, c.ver), SourceAddrOffset, 2, c.sa_addr),
           ClientIpOffset, 4, c.src_ip), ClientPortOffset, 2, c.src_port),
           ServerIpOffset, 4, c.dst_ip), ServerPortOffset, 2, c.dst_port),
         DoipcCreate, 0, 0)

\* diag_master_cammand_doipc_create_handler
DoipcCreateFields(b) ==
  [ver |-> GetNumber(b, VersionOffset, 1),
   sa_addr |-> GetNumber(b, SourceAddrOffset, 2),
   src_ip |-> GetNumber(b, ClientIpOffset, 4),
   src_port |-> GetNumber(b, ClientPortOffset, 2),
   dst_ip |-> GetNumber(b, ServerIpOffset, 4),
   dst_port |-> GetNumber(b, ServerPortOffset, 2)]
=============================================================================
