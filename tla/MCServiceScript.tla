--------------------------- MODULE MCServiceScript --------------------------
(***************************************************************************)
(* An instance of ServiceScript for TLC.                                   *)
(***************************************************************************)
EXTENDS ServiceScript

\* An array to which a user has appended s, which is longer than a new block.
Bytes(s) ==
  [data |-> s \o Zeros(Reserved), dlen |-> Len(s), size |-> Len(s) + Reserved]

\* Every service goes from 3712 to 4096.
Plainly(sid) ==
  [NewConfig EXCEPT !.sid = sid, !.timeout = 50, !.sa = 3712, !.ta = 4096,
                    !.tatype = 1]

SeedRequest == [Plainly(SA) EXCEPT !.sub = 1, !.rr_callid = 2]

KeyRequest == [Plainly(SA) EXCEPT !.sub = 2]

\* The identifier is written with a value that makes the array grow twice, and
\* the answer must be the one expected.
Write ==
  [Plainly(WDBI) EXCEPT !.did = 61840, !.variableByte = Bytes(<<1, 2, 3, 0, 255>>),
     !.expectResponByte = Bytes(<<110, 241, 144>>), !.expectRespon_rule = MATCH,
     !.rr_callid = 1]

\* Read until the answer is the one wanted, twice at most.
ReadUntil ==
  [Plainly(RDBI) EXCEPT !.did = 258, !.finishByte = Bytes(<<98, 1, 2, 1>>),
     !.finish_rule = FINISH_EQUAL_TO, !.finish_num_max = 1, !.rr_callid = 2]

\* A routine has a sub-function and an identifier.
Routine ==
  [Plainly(RC) EXCEPT !.sub = 1, !.did = 515, !.issuppress = 1,
     !.expectRespon_rule = NO_RESPONSE, !.delay = 20]

DownloadRequest ==
  [Plainly(RD) EXCEPT !.expectRespon_rule = POSITIVE, !.rr_callid = 3, !.local_path = <<97>>,
     !.service_34_rd = [dataFormatIdentifier |-> 17,
        addressAndLengthFormatIdentifier |-> 50, memoryAddress |-> 66051,
        memorySize |-> 513]]

FileRequest ==
  [Plainly(RFT) EXCEPT !.expectRespon_rule = POSITIVE, !.local_path = <<98>>,
     !.service_38_rft = [modeOfOperation |-> 1, filePathAndNameLength |-> 2,
        filePathAndName |-> <<47, 98>>, dataFormatIdentifier |-> 0,
        fileSizeParameterLength |-> 2, fileSizeUnCompressed |-> 515,
        fileSizeCompressed |-> 258]]

MCScripts ==
  {<<SeedRequest, KeyRequest, SeedRequest, KeyRequest>>,
   <<Write, ReadUntil>>, <<ReadUntil, Routine>>,
   <<DownloadRequest, FileRequest>>}

\* For the responses to another service.
WriteScripts == {<<Write>>}

MCGenerals ==
  {[NoGeneral EXCEPT !.isFailAbort = 1, !.tpEnable = 1, !.tpInterval = 100,
                     !.tpta = 57343, !.tpsa = 3712]}

\* A negative response, and a positive one; where a value is read, one of two
\* values, or a request for more time first; and from a writer the response to
\* another service.
MCAnswers(d) ==
  {<<127, d[1], 34>>}
    \cup (CASE d[1] = SA -> {<<103, d[2], 9, 9>>}
            [] d[1] = RDBI -> {<<98, d[2], d[3], 1>>, <<98, d[2], d[3], 2>>,
                               <<127, d[1], 120>>}
            [] d[1] = WDBI -> {<<110, d[2], d[3]>>, <<126, 0>>}
            [] OTHER -> {<<d[1] + 64, 32, 1, 2>>})
=============================================================================
