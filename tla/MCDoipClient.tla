---------------------------- MODULE MCDoipClient ----------------------------
(***************************************************************************)
(* An instance of DoipClient for TLC.                                      *)
(***************************************************************************)
EXTENDS DoipClient

\* The same tester with two addresses.
MCConfigs ==
  {[ver |-> 1, sa_addr |-> sa, src_ip |-> 16777343, src_port |-> 0,
    dst_ip |-> 33554559, dst_port |-> 13400] : sa \in {3712, 3713}}

\* A tester present request, and the negative response to it.
MCDiagRequests == {<<62, 0>>}

MCDiagResponses == {<<127, 62, 17>>}
=============================================================================
