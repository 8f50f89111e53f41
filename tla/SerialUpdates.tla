---------------------------- MODULE SerialUpdates ----------------------------
(***************************************************************************)
(* What the contended row looks like to one who cannot see transactions,   *)
(* snapshots, rejections and retries: a value that workers increment one   *)
(* after the other, each at most once.                                     *)
(***************************************************************************)
EXTENDS Naturals

CONSTANT Null,    \* no row
         Worker   \* those who increment the value

VARIABLE value,  \* the version of the row, Null if there is no row
         served  \* the workers whose update took effect

vars == <<value, served>>

Init == value = Null /\ served = {}

Create ==
  /\ value = Null /\ served = {}
  /\ value' = 0
  /\ UNCHANGED served

Increment(w) ==
  /\ value # Null
  /\ w \notin served
  /\ value' = value + 1
  /\ served' = served \cup {w}

Remove ==
  /\ value # Null
  /\ value' = Null
  /\ UNCHANGED served

Next == Create \/ Remove \/ \E w \in Worker : Increment(w)

Spec == Init /\ [][Next]_vars
=============================================================================
