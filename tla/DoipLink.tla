------------------------------ MODULE DoipLink ------------------------------
(***************************************************************************)
(* What the diag master relies on of a DoIP client: the state of its link  *)
(* and the steps between states.  The client is bound to a UDS client,     *)
(* connects when the API says so, and sends when it is active.  DiagMaster *)
(* makes these steps for its clients.                                      *)
(***************************************************************************)

VARIABLE link

States == {"none", "disconnected", "connecting", "connected", "active"}

Init == link = "none"

\* The API asks for a connection: made or in progress or refused.
Connect == link' \in {"connecting", "connected", "disconnected"}

Established == link = "connecting" /\ link' = "connected"

\* The server answers a request to activate routing.
Answered == link \in {"connected", "active"} /\ link' \in {"connected", "active"}

Lost == link \in {"connecting", "connected", "active"} /\ link' = "disconnected"

Destroyed == link # "none" /\ link' = "none"

Next == Connect \/ Established \/ Answered \/ Lost \/ Destroyed

Spec == Init /\ [][Next]_link
=============================================================================
