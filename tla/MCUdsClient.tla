---------------------------- MODULE MCUdsClient -----------------------------
(***************************************************************************)
(* Model-checking instances of UdsClient: lists of ordinary services       *)
(* without shared data, for which Word, Byte and FileSize do not matter,   *)
(* and downloads.                                                          *)
(***************************************************************************)
EXTENDS UdsClient

Positive(s) == [sid |-> s, kind |-> "positive", odd |-> FALSE, block |-> 0]
Negative(s) == [sid |-> s, kind |-> "negative", odd |-> FALSE, block |-> 0]
Pending(s)  == [sid |-> s, kind |-> "pending", odd |-> FALSE, block |-> 0]

\* An item without expectation, executed once.
Plain(s) ==
  [isenable |-> TRUE, sid |-> s, odd |-> FALSE, issuppress |-> FALSE,
   response_rule |-> "not_set", expect |-> NoBytes, finish_rule |-> "default",
   finish |-> NoBytes, finish_num_max |-> 0, limit |-> 0]

Expecting(s, rule) == [Plain(s) EXCEPT !.response_rule = rule]

Until(s, rule, bytes, n) ==
  [Plain(s) EXCEPT !.finish_rule = rule, !.finish = bytes, !.finish_num_max = n]

MCSids == {"RDBI", "RC"}

\* Two services: one whose responses are confused between its items, one that
\* is only once in the list.
MCResponses == {Positive("RDBI"), Negative("RDBI"), Pending("RDBI"), Negative("RC")}

\* Expectations and both finish rules of diag_master, and a disabled item: diag_master
\* enables every one, but dm_udsc_service_enable_set of the client also disables them,
\* and the handlers skip those.
MCItems ==
  {Expecting("RDBI", "positive"),
   Until("RDBI", "equal_to", Positive("RDBI"), 2),
   [Until("RDBI", "un_equal_to", Negative("RDBI"), 1) EXCEPT
      !.response_rule = "match", !.expect = Positive("RDBI")],
   [Expecting("RC", "none") EXCEPT !.issuppress = TRUE],
   [Plain("RC") EXCEPT !.isenable = FALSE]}

\* The items of a download: one of the transfers goes on whatever is answered.
Download ==
  {Expecting("RD", "positive"),
   [Expecting("TD", "positive") EXCEPT !.limit = 4],
   Plain("TD"),
   Expecting("RTE", "positive")}

\* Block lengths of 3 and 4, of which a third is made by their bits together;
\* a rejected request for download leaves bits of its own.
DownloadResponses ==
  {Positive("TD"), Negative("TD"), Positive("RTE")}
    \cup {[Positive("RD") EXCEPT !.block = n] : n \in {3, 4}}
    \cup {[Negative("RD") EXCEPT !.block = 8]}

DownloadSids == {"RD", "TD", "RTE"}
=============================================================================
