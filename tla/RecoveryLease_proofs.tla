------------------------- MODULE RecoveryLease_proofs -------------------------
(***************************************************************************)
(* Theorems about RecoveryLease, for any number of workers.  They need     *)
(* nothing of Duration but that it is a number of ticks, and of Null but   *)
(* that it is no lease.                                                    *)
(***************************************************************************)
EXTENDS RecoveryLease, TLAPS

Lease == [owner: Worker, token: Nat, expires: Nat]

\* The standing lease is the last that was granted, and a worker only believes in
\* one that it was granted itself.
IInv ==
  /\ clock \in Nat /\ granted \in Nat
  /\ lease \in Lease \cup {Null}
  /\ lease # Null => lease.token = granted
  /\ believed \in [Worker -> Lease \cup {Null}]
  /\ \A w \in Worker : believed[w] # Null => believed[w].owner = w
  /\ LiveStands

LEMMA GrantStep ==
  ASSUME Duration \in Nat, IInv, NEW w \in Worker, Grant(w)
  PROVE  IInv'
<1>1. PICK at \in 0..clock :
        /\ lease # Null => lease.expires <= at
        /\ lease' = [owner |-> w, token |-> granted + 1, expires |-> at + Duration]
  BY DEF Grant
<1>2. granted' = granted + 1 /\ UNCHANGED <<believed, clock>>
  BY DEF Grant
<1>3. lease' \in Lease /\ lease'.token = granted'
  BY <1>1, <1>2 DEF IInv, Lease
<1>4. \A v \in Worker : ~Live(v)'
  <2>1. SUFFICES ASSUME NEW v \in Worker, Live(v) PROVE FALSE
    BY <1>2 DEF Live
  <2>2. lease # Null /\ lease.expires > clock
    BY <2>1 DEF IInv, LiveStands, Live, Holds, Lease
  <2>3. QED
    BY <1>1, <2>2 DEF IInv, Lease
<1>5. QED
  BY <1>2, <1>3, <1>4 DEF IInv, LiveStands

LEMMA LearnStep ==
  ASSUME IInv, NEW w \in Worker, Learn(w)
  PROVE  IInv'
<1>1. /\ lease # Null /\ lease.owner = w /\ lease \in Lease
      /\ believed' = [believed EXCEPT ![w] = lease]
      /\ UNCHANGED <<lease, granted, clock>>
  BY DEF Learn, IInv
<1>2. believed'[w] = lease /\ \A v \in Worker : v # w => believed'[v] = believed[v]
  BY <1>1 DEF IInv
<1>3. \A v \in Worker : v # w /\ Live(v)' => Live(v)
  BY <1>1, <1>2 DEF Live
<1>4. LiveStands'
  BY <1>1, <1>2, <1>3 DEF IInv, LiveStands, Holds, Lease
<1>5. QED
  BY <1>1, <1>2, <1>4 DEF IInv

\* Only the holder of the standing lease can have an unexpired one.
LEMMA OthersExpired ==
  ASSUME IInv, NEW w \in Worker, Holds(w), NEW v \in Worker, v # w
  PROVE  ~Live(v)
BY DEF IInv, LiveStands, Holds

LEMMA ExtendStep ==
  ASSUME Duration \in Nat, Null \notin Lease, IInv, NEW w \in Worker, Extend(w)
  PROVE  IInv'
<1>1. PICK at \in 0..clock :
        /\ believed[w].expires <= at + Duration
        /\ lease' = [lease EXCEPT !.expires = at + Duration]
  BY DEF Extend
<1>2. /\ Holds(w) /\ lease # Null /\ lease \in Lease
      /\ believed[w] # Null /\ believed[w] \in Lease
      /\ believed' = [believed EXCEPT ![w] = lease'] \/ believed' = believed
      /\ UNCHANGED <<granted, clock>>
  BY DEF Extend, Holds, IInv
<1>3. /\ lease' \in Lease /\ lease'.owner = lease.owner /\ lease'.token = lease.token
      /\ lease'.expires = at + Duration
  BY <1>1, <1>2 DEF IInv, Lease
<1>4. /\ believed'[w] \in {lease', believed[w]}
      /\ \A v \in Worker : v # w => believed'[v] = believed[v]
      /\ believed' \in [Worker -> Lease \cup {Null}]
  BY <1>2, <1>3 DEF IInv
<1>5. \A v \in Worker : v # w => ~Live(v)'
  BY <1>2, <1>4, OthersExpired DEF Live
<1>6. Live(w)' => (Holds(w) /\ believed[w].expires <= lease.expires)'
  BY <1>1, <1>2, <1>3, <1>4 DEF IInv, Holds, Live, Lease
<1>7. lease' # Null => lease'.token = granted'
  BY <1>2, <1>3 DEF IInv
<1>8. LiveStands'
  BY <1>5, <1>6, <1>7 DEF LiveStands, Holds
<1>9. \A v \in Worker : believed'[v] # Null => believed'[v].owner = v
  BY <1>2, <1>3, <1>4 DEF IInv, Holds
<1>10. QED
  BY <1>2, <1>3, <1>4, <1>7, <1>8, <1>9 DEF IInv

LEMMA PutBackStep ==
  ASSUME IInv, NEW w \in Worker, PutBack(w)
  PROVE  IInv'
<1>1. /\ Holds(w) /\ lease' = believed[w]
      /\ believed[w] # Null /\ believed[w] \in Lease /\ believed[w].owner = w
      /\ lease # Null /\ lease'.token = granted
      /\ UNCHANGED <<believed, granted, clock>>
  BY DEF PutBack, Holds, IInv
<1>2. \A v \in Worker : v # w => ~Live(v)'
  BY <1>1, OthersExpired DEF Live
<1>3. (Holds(w) /\ believed[w].expires <= lease.expires)'
  BY <1>1 DEF Holds, Lease
<1>4. LiveStands'
  BY <1>1, <1>2, <1>3 DEF LiveStands
<1>5. QED
  BY <1>1, <1>4 DEF IInv

LEMMA DropStep ==
  ASSUME IInv, NEW w \in Worker, Drop(w)
  PROVE  IInv'
<1>1. /\ believed[w] # Null /\ believed' = [believed EXCEPT ![w] = Null]
      /\ UNCHANGED <<granted, clock>>
      /\ lease' = lease \/ (Holds(w) /\ lease' = Null)
  BY DEF Drop
<1>2. believed'[w] = Null /\ \A v \in Worker : v # w => believed'[v] = believed[v]
  BY <1>1 DEF IInv
<1>3. \A v \in Worker : Live(v)' => v # w /\ Live(v)
  BY <1>1, <1>2 DEF Live
<1>4. LiveStands'
  <2>1. SUFFICES ASSUME NEW v \in Worker, v # w, Live(v)
                 PROVE  lease' = lease /\ believed'[v] = believed[v]
    BY <1>1, <1>2, <1>3 DEF IInv, LiveStands, Holds
  <2>2. QED
    BY <1>1, <1>2, <2>1, OthersExpired
<1>5. QED
  BY <1>1, <1>2, <1>4 DEF IInv

LEMMA TickStep ==
  ASSUME IInv, Tick
  PROVE  IInv'
<1>1. clock' = clock + 1 /\ UNCHANGED <<lease, believed, granted>>
  BY DEF Tick
<1>2. \A v \in Worker : Live(v)' => Live(v)
  BY <1>1 DEF Live, IInv, Lease
<1>3. QED
  BY <1>1, <1>2 DEF IInv, LiveStands, Holds

\* At first there is no lease.
LEMMA InitIInv == Init => IInv
BY DEF Init, IInv, LiveStands, Live

\* Every step keeps the inductive invariant.
LEMMA NextIInv ==
  ASSUME Duration \in Nat, Null \notin Lease, IInv, [Next]_vars
  PROVE  IInv'
<1>1. CASE UNCHANGED vars
  BY <1>1 DEF vars, IInv, LiveStands, Live, Holds
<1>2. QED
  BY <1>1, GrantStep, LearnStep, ExtendStep, PutBackStep, DropStep, TickStep DEF Next

\* An unexpired lease is the one that stands, at least as long as its worker
\* believes, and the last that was granted; so no two workers have one.
THEOREM LiveLeaseStands ==
  ASSUME Duration \in Nat, Null \notin Lease
  PROVE  Spec => [](LiveStands /\ \A v, w \in Worker : Live(v) /\ Live(w) => v = w)
<1>1. IInv => LiveStands /\ \A v, w \in Worker : Live(v) /\ Live(w) => v = w
  BY DEF IInv, LiveStands, Live, Holds
<1>2. IInv /\ [Next]_vars => IInv'
  BY NextIInv
<1>3. QED
  BY InitIInv, <1>1, <1>2, PTL DEF Spec
=============================================================================
