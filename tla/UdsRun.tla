------------------------------- MODULE UdsRun -------------------------------
(***************************************************************************)
(* What a UDS client promises the API that starts it, without items,       *)
(* timers or messages: each start opens a run, a run moves forward through *)
(* the list, and a run is closed at most once, by a report or by a stop.   *)
(*                                                                         *)
(* A run may also become stranded: it has reached the end of the list and  *)
(* no report was made.  Only a command, or a message that happens to match *)
(* an item added later, brings the client out of it.                       *)
(***************************************************************************)
EXTENDS Integers

CONSTANT Size     \* longest list

VARIABLES
  phase,          \* "stopped", "running" or "stranded"
  place,          \* position in the list, -1 when stopped
  opened,         \* runs opened so far
  answered        \* runs reported so far

runVars == <<phase, place, opened, answered>>

RunInit ==
  /\ phase = "stopped"
  /\ place = -1
  /\ opened = 0
  /\ answered = 0

\* A start is accepted unless a run is in progress; a list that has nothing to
\* execute is stranded at once.
Open ==
  /\ phase # "running"
  /\ opened' = opened + 1
  /\ phase' \in {"running", "stranded"}
  /\ place' \in 0..Size
  /\ UNCHANGED answered

\* An item is sent, repeated or passed: never backwards.
Advance ==
  /\ phase # "stopped"
  /\ phase' = "running"
  /\ place' \in place..Size
  /\ UNCHANGED <<opened, answered>>

\* Nothing more could be sent, and nobody is told.
Strand ==
  /\ phase = "running"
  /\ phase' = "stranded"
  /\ place' \in place..Size
  /\ UNCHANGED <<opened, answered>>

Report ==
  /\ phase # "stopped"
  /\ answered' = answered + 1
  /\ phase' = "stopped"
  /\ place' = -1
  /\ UNCHANGED opened

\* A stop or a reset closes the run without a report.
Cancel ==
  /\ phase' = "stopped"
  /\ place' = -1
  /\ UNCHANGED <<opened, answered>>

RunNext == Open \/ Advance \/ Strand \/ Report \/ Cancel

RunSpec == RunInit /\ [][RunNext]_runVars
=============================================================================
