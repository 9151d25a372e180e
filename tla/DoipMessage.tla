---------------------------- MODULE DoipMessage ----------------------------
(***************************************************************************)
(* The messages of DoIP a client sends and reads, as sequences of bytes    *)
(* (dm_doip_client.c).  Offsets count from 0, as in the source: the byte   *)
(* at offset i of a message m is m[i + 1].                                 *)
(***************************************************************************)
EXTENDS Integers, Sequences

\* Numbers of 8, 16 and 32 bits (2^32 is too large a number to be written here).
Byte == 0..255
Word == 0..(2^16 - 1)
DWord == {n \in Nat : n \div 16777216 \in Byte}

\* Payload types.
RoutingActivationRequest == 5
RoutingActivationResponse == 6
AliveCheckRequest == 7
AliveCheckResponse == 8
DiagnosticMessage == 32769

\* Offsets.
VersionOffset == 0
InvVersionOffset == VersionOffset + 1
TypeOffset == InvVersionOffset + 1
LengthOffset == TypeOffset + 2
HeaderLen == LengthOffset + 4
ActivationReqTypeOffset == HeaderLen + 2
ActivationReqIsoOffset == ActivationReqTypeOffset + 1
ActivationReqOemOffset == ActivationReqIsoOffset + 4
ActivationResCodeOffset == HeaderLen + 2 + 2
DiagSourceOffset == HeaderLen
DiagTargetOffset == DiagSourceOffset + 2
DiagDataOffset == DiagTargetOffset + 2

\* ISO13400_2012: the version a connection is made with, whatever is configured.
Version == 2

\* Routing activation response codes: denied, and activated.
Denied == 0
Activated == 16

-----------------------------------------------------------------------------

\* A number in two bytes and in four, the highest first.
TwoBytes(value) == <<(value \div 256) % 256, value % 256>>

FourBytes(value) ==
  <<(value \div 16777216) % 256, (value \div 65536) % 256, (value \div 256) % 256,
    value % 256>>

\* The header: version, its complement, payload type and length.
HeaderEncode(ver, type, len) ==
  <<ver, 255 - ver>> \o TwoBytes(type) \o FourBytes(len)

\* Whether bytes hold a header, and the payload type they hold.
HasHeader(bytes) == Len(bytes) >= HeaderLen

HeaderType(bytes) == 256 * bytes[TypeOffset + 1] + bytes[TypeOffset + 2]

HeaderLength(bytes) ==
  16777216 * bytes[LengthOffset + 1] + 65536 * bytes[LengthOffset + 2]
    + 256 * bytes[LengthOffset + 3] + bytes[LengthOffset + 4]

\* Default activation, no OEM part.
RoutingRequest(sa) ==
  HeaderEncode(Version, RoutingActivationRequest, ActivationReqOemOffset - HeaderLen)
    \o TwoBytes(sa) \o <<0>> \o FourBytes(0)

AliveResponse(sa) ==
  HeaderEncode(Version, AliveCheckResponse, 2) \o TwoBytes(sa)

\* A request of a UDS client.  The target address is written, and the request over
\* it: it begins where the target address does.
DiagnosticRequest(sa, ta, msg) ==
  HeaderEncode(Version, DiagnosticMessage, Len(msg) + DiagTargetOffset - HeaderLen)
    \o TwoBytes(sa) \o msg

-----------------------------------------------------------------------------
(***************************************************************************)
(* What a server sends (ISO 13400-2)                                       *)
(***************************************************************************)

\* The address of the tester in what it sends.
Tester(bytes) == 256 * bytes[DiagSourceOffset + 1] + bytes[DiagSourceOffset + 2]

RoutingResponse(tester, entity, code) ==
  HeaderEncode(Version, RoutingActivationResponse, 9)
    \o TwoBytes(tester) \o TwoBytes(entity) \o <<code>> \o FourBytes(0)

AliveRequest == HeaderEncode(Version, AliveCheckRequest, 0)

DiagnosticResponse(entity, tester, msg) ==
  HeaderEncode(Version, DiagnosticMessage, Len(msg) + DiagDataOffset - HeaderLen)
    \o TwoBytes(entity) \o TwoBytes(tester) \o msg
=============================================================================
