---------------------------- MODULE RecoveryLease ----------------------------
(***************************************************************************)
(* What the recovery lease of an operation promises the workers, whatever  *)
(* else is written to the operation's row: a lease is granted only when    *)
(* the one before it is gone or has expired, under the next token; only    *)
(* the worker it was granted to ever believes it holds it, and only that   *)
(* worker moves its expiry or gives it up.  A worker may not learn that it *)
(* has prolonged its lease: its belief then trails the lease that stands.  *)
(* Times are clock readings that may be old when used, never ahead.        *)
(***************************************************************************)
EXTENDS Naturals

CONSTANT Null,     \* no lease
         Worker,   \* those who may be granted the lease
         Duration  \* how long a lease lasts

VARIABLE lease,     \* the lease that stands, or Null
         believed,  \* per worker, the lease it believes it holds, or Null
         granted,   \* how many leases were granted
         clock      \* the time

vars == <<lease, believed, granted, clock>>

Init ==
  /\ lease = Null
  /\ believed = [w \in Worker |-> Null]
  /\ granted = 0
  /\ clock = 0

\* The standing lease, if any, has run out; worker w is granted the next one.
Grant(w) ==
  /\ \E at \in 0..clock :
       /\ lease # Null => lease.expires <= at
       /\ lease' = [owner |-> w, token |-> granted + 1, expires |-> at + Duration]
  /\ granted' = granted + 1
  /\ UNCHANGED <<believed, clock>>

\* The worker that was granted the standing lease learns that it was.
Learn(w) ==
  /\ lease # Null
  /\ lease.owner = w
  /\ believed' = [believed EXCEPT ![w] = lease]
  /\ UNCHANGED <<lease, granted, clock>>

\* What worker w believes it holds is the lease that stands, its expiry apart.
Holds(w) ==
  /\ believed[w] # Null
  /\ lease # Null
  /\ lease.owner = w
  /\ lease.token = believed[w].token

\* The worker that holds the standing lease prolongs it before it runs out, past
\* what it believes of it, and may not learn that it did.
Extend(w) ==
  /\ Holds(w)
  /\ \E at \in 0..clock :
       /\ lease.expires > at
       /\ believed[w].expires <= at + Duration
       /\ lease' = [lease EXCEPT !.expires = at + Duration]
  /\ \/ believed' = [believed EXCEPT ![w] = lease']
     \/ UNCHANGED believed
  /\ UNCHANGED <<granted, clock>>

\* The holder puts the standing lease back to what it believes of it.
PutBack(w) ==
  /\ Holds(w)
  /\ lease' = believed[w]
  /\ UNCHANGED <<believed, granted, clock>>

\* A worker gives up the standing lease, or forgets the lease it believes it holds:
\* one that was superseded, or any in a crash.
Drop(w) ==
  /\ believed[w] # Null
  /\ believed' = [believed EXCEPT ![w] = Null]
  /\ \/ UNCHANGED lease
     \/ Holds(w) /\ lease' = Null
  /\ UNCHANGED <<granted, clock>>

Tick ==
  /\ clock' = clock + 1
  /\ UNCHANGED <<lease, believed, granted>>

Next ==
  \/ \E w \in Worker : Grant(w) \/ Learn(w) \/ Extend(w) \/ PutBack(w) \/ Drop(w)
  \/ Tick

Spec == Init /\ [][Next]_vars
-----------------------------------------------------------------------------
\* By its own clock, worker w still has the lease.
Live(w) == believed[w] # Null /\ believed[w].expires > clock

\* Nobody takes an unexpired lease from the worker that has it: it stands, for at
\* least as long as the worker believes, until the worker gives it up, and it is the
\* last that was granted.
LiveStands ==
  \A w \in Worker : Live(w) =>
    Holds(w) /\ believed[w].expires <= lease.expires /\ lease.token = granted
=============================================================================
