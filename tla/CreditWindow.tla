---------------------------- MODULE CreditWindow ----------------------------
(***************************************************************************)
(* What a stream promises to the client that grants it credits, whatever   *)
(* goroutines, locks and channels are behind it: items pass freely until   *)
(* the first grant; from then on each item uses one credit of those        *)
(* granted, and the window never becomes unlimited again.                  *)
(***************************************************************************)
EXTENDS Integers

VARIABLES
  limited,   \* a grant has set the window
  received,  \* credits granted
  used,      \* items that used a credit
  free       \* items that passed before the first grant

window == <<limited, received, used, free>>

Init ==
  /\ limited = FALSE
  /\ received = 0
  /\ used = 0
  /\ free = 0

Grant ==
  /\ limited' = TRUE
  /\ received' > received
  /\ UNCHANGED <<used, free>>

Pass ==
  /\ ~limited
  /\ free' = free + 1
  /\ UNCHANGED <<limited, received, used>>

Use ==
  /\ limited
  /\ used < received
  /\ used' = used + 1
  /\ UNCHANGED <<limited, received, free>>

Next == Grant \/ Pass \/ Use

Spec == Init /\ [][Next]_window
=============================================================================
