---------------------------- MODULE AtomicRecovery ----------------------------
(***************************************************************************)
(* What a recovery looks like to one who cannot see transactions and their *)
(* snapshots: in one step it uses up the one valid grant, changes the      *)
(* password and ends the sessions, except those that were made beside it.  *)
(***************************************************************************)
EXTENDS Naturals

CONSTANT Grant,   \* the recovery grants of the subject
         Session  \* its sessions

VARIABLE password,  \* how often the password was changed
         valid,     \* the grant that can be used, if there is one
         spent,     \* the grants that were used or revoked
         made,      \* the sessions that were ever made
         beside,    \* those of them that were made while a recovery was in progress
         live       \* the sessions that a request can use

vars == <<password, valid, spent, made, beside, live>>

Init ==
  /\ password = 0
  /\ valid = {} /\ spent = {}
  /\ made = {} /\ beside = {} /\ live = {}

\* A new grant takes the place of the one before.
Issue(g) ==
  /\ g \notin valid \cup spent
  /\ valid' = {g}
  /\ spent' = spent \cup valid
  /\ UNCHANGED <<password, made, beside, live>>

Recover(g) ==
  /\ valid = {g}
  /\ valid' = {} /\ spent' = spent \cup {g}
  /\ password' = password + 1
  /\ live' \in SUBSET (live \cap beside)
  /\ UNCHANGED <<made, beside>>

LogIn(x) ==
  /\ x \notin made
  /\ made' = made \cup {x} /\ live' = live \cup {x}
  /\ beside' = beside \/ beside' = beside \cup {x}
  /\ UNCHANGED <<password, valid, spent>>

\* A session expires or is revoked.
End(x) ==
  /\ x \in live
  /\ live' = live \ {x}
  /\ UNCHANGED <<password, valid, spent, made, beside>>

Next ==
  \/ \E g \in Grant : Issue(g) \/ Recover(g)
  \/ \E x \in Session : LogIn(x) \/ End(x)

Spec == Init /\ [][Next]_vars
=============================================================================
