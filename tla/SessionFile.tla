----------------------------- MODULE SessionFile -----------------------------
(***************************************************************************)
(* What the rest of the trainer relies on when it keeps a session in       *)
(* training.dat: the file is missing, torn, or one whole snapshot of a     *)
(* session; a start takes a whole snapshot as it is and nothing else.      *)
(***************************************************************************)
CONSTANTS Snapshots, NoFile, Torn, NoState  \* the last three are no snapshots

VARIABLES
  file,    \* NoFile, Torn or the snapshot it holds
  live,    \* the snapshot the trainer works from, NoState when it is down
  saving   \* live has to reach the file

vars == <<file, live, saving>>

Init ==
  /\ file = NoFile
  /\ live = NoState
  /\ saving = FALSE

\* A new session, or the next generation of the one under way.
Change(v) ==
  /\ ~saving
  /\ live' = v
  /\ saving' = TRUE
  /\ UNCHANGED file

Load ==
  /\ live = NoState
  /\ file \in Snapshots
  /\ live' = file
  /\ UNCHANGED <<file, saving>>

Tear ==
  /\ saving
  /\ file' = Torn
  /\ UNCHANGED <<live, saving>>

Complete ==
  /\ saving
  /\ file' = live
  /\ saving' = FALSE
  /\ UNCHANGED live

Kill ==
  /\ live' = NoState
  /\ saving' = FALSE
  /\ UNCHANGED file

Next == (\E v \in Snapshots : Change(v)) \/ Load \/ Tear \/ Complete \/ Kill

Spec == Init /\ [][Next]_vars

=============================================================================
