---------------------------- MODULE MCReverseCall ----------------------------
\* Two scenarios.  In "calls", the entry point and another goroutine call Dart
\* while a second handler replaces the first.  In "notes", Go pushes notes
\* while handlers and a PushHandler come and go.
EXTENDS ReverseCall, TLC

CONSTANTS c1, c2, h1, h2

VARIABLE scenario

MCInit == Init /\ scenario \in {"calls", "notes"}

MCNext ==
  /\ Next
  /\ UNCHANGED scenario
  /\ scenario = "calls" => UNCHANGED notes /\ None \notin created'
  /\ scenario = "notes" => UNCHANGED pc

MCSpec ==
  /\ MCInit /\ [][MCNext]_<<vars, scenario>>
  /\ Fairness
=============================================================================
