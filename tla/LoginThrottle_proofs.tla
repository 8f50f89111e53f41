------------------------- MODULE LoginThrottle_proofs -------------------------
(***************************************************************************)
(* Theorems about LoginThrottle, for any number of requests in progress,   *)
(* addresses and subjects, and any limits.  The bound on the guesses       *)
(* follows from who can still record one while a counter blocks: only a    *)
(* request that inspected it before, so the one that made it block is not  *)
(* among them.                                                             *)
(***************************************************************************)
EXTENDS LoginThrottle, FiniteSetTheorems, TLAPS

\* Request x has passed counter c, and may record a guess in it.
AtRisk(x, c) ==
  \/ /\ \/ x.step = "record"
        \/ /\ x.step = "inspect"
           /\ ~x.blocked /\ c.kind \notin x.unread
     /\ c \in {IpBucket(x.ip), PairBucket(x.ip, x.subject)}
  \/ /\ x.step \in {"record", "attempt"} /\ x.tested
     /\ c = Credential(x.subject)

Pending(c) == {r \in Request : AtRisk(req[r], c)}

\* A counter that is not full has counted every guess; one that blocks has room
\* for those that are pending.
Budget(c) ==
  /\ count[c].block = "none" => since[c] <= count[c].failed
  /\ Restarts(count[c]) /\ count[c].block # "active" => since[c] = 0
  /\ count[c].block = "active" =>
       since[c] + Cardinality(Pending(c)) <= Limit[c.kind] + Cardinality(Request) - 1

IInv ==
  /\ TypeOK
  /\ BlockedAtLimit
  /\ \A c \in Counter : Budget(c)

-----------------------------------------------------------------------------
\* The limit of a counter.
LEMMA Limits ==
  ASSUME NEW c \in Counter
  PROVE  Limit[c.kind] \in Nat \ {0}
BY LimitAssumption DEF Counter, IpBucket, PairBucket, Credential, Kind

\* The buckets and the credential of a request.
LEMMA Own ==
  ASSUME NEW x \in Login
  PROVE  /\ IpBucket(x.ip) \in Counter /\ PairBucket(x.ip, x.subject) \in Counter
         /\ x.subject \in Known => Credential(x.subject) \in Counter
BY DEF Counter, Login

\* The counters of different kinds differ.
LEMMA Kinds ==
  ASSUME NEW i, NEW s
  PROVE  /\ IpBucket(i).kind = "IP" /\ PairBucket(i, s).kind = "IPR_IP"
         /\ Credential(s).kind = "CREDENTIAL"
BY DEF IpBucket, PairBucket, Credential

\* How many requests may be pending.
LEMMA Sizes ==
  ASSUME NEW c
  PROVE  /\ Cardinality(Request) \in Nat /\ IsFiniteSet(Pending(c))
         /\ Cardinality(Pending(c)) \in Nat
         /\ Cardinality(Pending(c)) <= Cardinality(Request)
<1>1. Pending(c) \subseteq Request /\ IsFiniteSet(Request)
  BY RequestAssumption DEF Pending
<1>2. QED
  <2> HIDE DEF Pending
  <2>1. QED
    BY <1>1, FS_Subset, FS_CardinalityType

\* One request changes, and passes no counter that it had not passed.
LEMMA Shrinks ==
  ASSUME TypeOK, NEW r \in Request, NEW x, NEW c,
         req' = [req EXCEPT ![r] = x],
         AtRisk(x, c) => AtRisk(req[r], c)
  PROVE  /\ Pending(c)' \subseteq Pending(c)
         /\ ~AtRisk(x, c) => r \notin Pending(c)'
         /\ Cardinality(Pending(c))' \in Nat
         /\ Cardinality(Pending(c))' <= Cardinality(Pending(c))
         /\ AtRisk(req[r], c) /\ ~AtRisk(x, c) =>
              Cardinality(Pending(c))' <= Cardinality(Pending(c)) - 1
<1> DEFINE P == Pending(c)
           Q == {q \in Request : AtRisk(req'[q], c)}
<1>1. Q = Pending(c)'
  BY DEF Pending, AtRisk
<1>2. \A q \in Request : req'[q] = IF q = r THEN x ELSE req[q]
  BY DEF TypeOK
<1>3. /\ Q \subseteq P
      /\ ~AtRisk(x, c) => r \notin Q
      /\ AtRisk(req[r], c) => r \in P
  <2>1. \A q \in Request : AtRisk(req'[q], c) => AtRisk(req[q], c)
    <3> TAKE q \in Request
    <3>1. CASE q = r
      BY <1>2, <3>1
    <3>2. CASE q # r
      BY <1>2, <3>2
    <3>3. QED
      BY <3>1, <3>2
  <2>2. AtRisk(req'[r], c) => AtRisk(x, c)
    BY <1>2
  <2>3. QED
    BY <2>1, <2>2 DEF Pending
<1>4. IsFiniteSet(P) /\ Cardinality(P) \in Nat
  BY Sizes
<1>5. Cardinality(Q) \in Nat /\ Cardinality(Q) <= Cardinality(P)
  <2> HIDE DEF P, Q
  <2>1. QED
    BY <1>3, <1>4, FS_Subset, FS_CardinalityType
<1>6. Q # P => Cardinality(Q) < Cardinality(P)
  <2> HIDE DEF P, Q
  <2>1. Cardinality(P) = Cardinality(Q) => P = Q
    BY <1>3, <1>4, FS_Subset
  <2>2. QED
    BY <2>1, <1>4, <1>5
<1>7. AtRisk(req[r], c) /\ ~AtRisk(x, c) => Q # P
  BY <1>3
<1>8. QED
  <2> HIDE DEF Q
  <2>1. Cardinality(Pending(c))' = Cardinality(Q)
    BY <1>1
  <2>2. QED
    BY <1>1, <1>3, <1>4, <1>5, <1>6, <1>7, <2>1

-----------------------------------------------------------------------------
\* What a recorded failure makes of a counter.
LEMMA FailedType ==
  ASSUME IInv, NEW c \in Counter
  PROVE  /\ Failed(c) \in State
         /\ Failed(c).failed <= Limit[c.kind]
         /\ Failed(c).block = "none" <=> Failed(c).failed < Limit[c.kind]
<1>1. /\ count[c] \in State /\ count[c].failed <= Limit[c.kind]
      /\ count[c].block = "none" <=> count[c].failed < Limit[c.kind]
  BY DEF IInv, TypeOK, BlockedAtLimit
<1>2. Limit[c.kind] \in Nat \ {0}
  BY Limits
<1>3. CASE count[c].block = "active"
  BY <1>1, <1>3 DEF Failed
<1>4. CASE count[c].block # "active"
  <2>1. /\ Failures(count[c]) \in Nat /\ Failures(count[c]) <= Limit[c.kind]
    BY <1>1, <1>2, <1>4 DEF Failures, Restarts, State
  <2>2. Failed(c) = [failed |-> Failures(count[c]),
                     block |-> IF Reaches(Failures(count[c]), Limit[c.kind])
                                 THEN "active" ELSE "none",
                     elapsed |-> FALSE]
    BY <1>4 DEF Failed
  <2>3. QED
    BY <1>2, <2>1, <2>2 DEF State, Reaches
<1>5. QED
  BY <1>3, <1>4

\* The steps that write no counter.
LEMMA QuietBudget ==
  ASSUME IInv, NEW r \in Request, NEW x, NEW c \in Counter,
         req' = [req EXCEPT ![r] = x],
         count'[c] = count[c], since'[c] = since[c],
         count[c].block = "active" /\ AtRisk(x, c) => AtRisk(req[r], c)
  PROVE  Budget(c)'
<1>1. Budget(c) /\ TypeOK
  BY DEF IInv
<1>2. CASE count[c].block = "active"
  <2>1. /\ Cardinality(Pending(c))' \in Nat
        /\ Cardinality(Pending(c))' <= Cardinality(Pending(c))
    BY <1>1, <1>2, Shrinks
  <2>2. since[c] \in Nat /\ Limit[c.kind] \in Nat
    BY <1>1, Limits DEF TypeOK
  <2>3. Cardinality(Pending(c)) \in Nat /\ Cardinality(Request) \in Nat
    BY Sizes
  <2>4. since[c] + Cardinality(Pending(c)) <= Limit[c.kind] + Cardinality(Request) - 1
    BY <1>1, <1>2 DEF Budget
  <2>5. since[c] + Cardinality(Pending(c))' <= Limit[c.kind] + Cardinality(Request) - 1
    BY <2>1, <2>2, <2>3, <2>4
  <2>6. QED
    BY <1>1, <1>2, <2>5 DEF Budget
<1>3. CASE count[c].block # "active"
  BY <1>1, <1>3 DEF Budget
<1>4. QED
  BY <1>2, <1>3

\* A failure is recorded, by a request that may do so no more; as a guess, if
\* the request was pending.
LEMMA RecordBudget ==
  ASSUME IInv, NEW r \in Request, NEW x, NEW c \in Counter,
         req' = [req EXCEPT ![r] = x], ~AtRisk(x, c),
         count'[c] = Failed(c),
         \/ since'[c] = since[c]
         \/ AtRisk(req[r], c) /\ since'[c] = since[c] + 1
  PROVE  Budget(c)'
<1>1. /\ TypeOK /\ Budget(c)
      /\ count[c].block = "none" <=> count[c].failed < Limit[c.kind]
  BY DEF IInv, BlockedAtLimit
<1>2. /\ count[c] \in State /\ since[c] \in Nat /\ Limit[c.kind] \in Nat \ {0}
      /\ count[c].failed <= Limit[c.kind]
  BY <1>1, Limits DEF TypeOK
<1>3. /\ Cardinality(Pending(c)) \in Nat /\ Cardinality(Request) \in Nat
      /\ Cardinality(Pending(c)) <= Cardinality(Request)
  BY Sizes
<1>4. /\ Cardinality(Pending(c))' \in Nat
      /\ Cardinality(Pending(c))' <= Cardinality(Pending(c))
      /\ AtRisk(req[r], c) => Cardinality(Pending(c))' <= Cardinality(Pending(c)) - 1
  BY <1>1, Shrinks
<1>5. Cardinality(Pending(c))' <= Cardinality(Request) - 1
  <2>1. r \notin Pending(c)' /\ Pending(c)' \subseteq Pending(c)
    BY <1>1, Shrinks
  <2>2. Pending(c) \subseteq Request
    BY DEF Pending
  <2>3. PICK Q \in SUBSET Request : Q = Pending(c)'
    BY <2>1, <2>2
  <2>4. IsFiniteSet(Request)
    BY RequestAssumption
  <2>5. /\ IsFiniteSet(Q) /\ Cardinality(Q) <= Cardinality(Request)
        /\ Cardinality(Request) = Cardinality(Q) => Request = Q
    BY <2>4, FS_Subset
  <2>6. Q # Request
    BY <2>1, <2>3
  <2>7. Cardinality(Q) = Cardinality(Pending(c))' /\ Cardinality(Q) \in Nat
    BY <2>3, <2>5, FS_CardinalityType
  <2>8. QED
    BY <1>3, <2>5, <2>6, <2>7
<1>6. CASE count[c].block = "active"
  <2>1. count'[c] = count[c]
    BY <1>6 DEF Failed
  <2>2. since[c] + Cardinality(Pending(c)) <= Limit[c.kind] + Cardinality(Request) - 1
    BY <1>1, <1>6 DEF Budget
  <2>3. since'[c] + Cardinality(Pending(c))' <= Limit[c.kind] + Cardinality(Request) - 1
    BY <1>2, <1>3, <1>4, <2>2
  <2>4. QED
    BY <1>6, <2>1, <2>3 DEF Budget
<1>7. CASE count[c].block # "active"
  <2>1. count'[c] = [failed |-> Failures(count[c]),
                     block |-> IF Reaches(Failures(count[c]), Limit[c.kind])
                                 THEN "active" ELSE "none",
                     elapsed |-> FALSE]
    BY <1>7 DEF Failed
  <2>2. since'[c] \in Nat /\ since'[c] <= since[c] + 1
    BY <1>2
  <2>3. since[c] + 1 <= Failures(count[c])
    BY <1>1, <1>2, <1>7 DEF Budget, Failures, Restarts, State
  <2>4. Failures(count[c]) \in Nat /\ Failures(count[c]) <= Limit[c.kind]
    BY <1>1, <1>2, <1>7 DEF Failures, Restarts, State
  <2>5. since'[c] + Cardinality(Pending(c))' <= Limit[c.kind] + Cardinality(Request) - 1
    BY <1>2, <1>3, <1>4, <1>5, <2>2, <2>3, <2>4
  <2>6. since'[c] <= Failures(count[c])
    BY <1>2, <2>2, <2>3, <2>4
  <2>7. /\ count'[c].failed = Failures(count[c]) /\ count'[c].elapsed = FALSE
        /\ count'[c].block \in {"active", "none"}
    BY <2>1
  <2>8. QED
    BY <2>5, <2>6, <2>7 DEF Budget, Restarts
<1>8. QED
  BY <1>6, <1>7

\* A counter that does not block, and in which no guess is recorded.
LEMMA NewBudget ==
  ASSUME NEW c \in Counter, count'[c] \in State, count'[c].block # "active",
         since'[c] = 0
  PROVE  Budget(c)'
BY DEF Budget, State, Restarts

\* A counter that is left alone while no request goes on.
LEMMA SameBudget ==
  ASSUME NEW c \in Counter, Budget(c), count'[c] = count[c], since'[c] = since[c], UNCHANGED req
  PROVE  Budget(c)'
BY DEF Budget, Pending, Restarts, AtRisk

\* What every step does to the counters, for TypeOK and BlockedAtLimit.
LEMMA Counters ==
  ASSUME IInv, count' \in [Counter -> State], since' \in [Counter -> Nat],
         req' \in [Request -> Login \cup {Idle}],
         \A c \in Counter : Budget(c)',
         \A c \in Counter :
           \/ count'[c].failed = count[c].failed
              /\ (count'[c].block = "none" <=> count[c].block = "none")
           \/ count'[c] = Failed(c)
           \/ count'[c] = Fresh
  PROVE  IInv'
<1>1. ASSUME NEW c \in Counter
      PROVE  /\ count'[c].failed <= Limit[c.kind]
             /\ count'[c].block = "none" <=> count'[c].failed < Limit[c.kind]
  <2>1. Limit[c.kind] \in Nat \ {0}
    BY Limits
  <2>2. CASE count'[c].failed = count[c].failed
             /\ (count'[c].block = "none" <=> count[c].block = "none")
    BY <2>2 DEF IInv, TypeOK, BlockedAtLimit
  <2>3. CASE count'[c] = Failed(c)
    BY <2>3, FailedType
  <2>4. CASE count'[c] = Fresh
    BY <2>1, <2>4 DEF Fresh
  <2>5. QED
    BY <2>2, <2>3, <2>4
<1>2. QED
  BY <1>1 DEF IInv, TypeOK, BlockedAtLimit

\* A step of one request that writes no counter.
LEMMA QuietStep ==
  ASSUME IInv, NEW r \in Request, NEW x \in Login \cup {Idle},
         req' = [req EXCEPT ![r] = x], UNCHANGED <<count, since>>,
         \A c \in Counter : count[c].block = "active" /\ AtRisk(x, c) => AtRisk(req[r], c)
  PROVE  IInv'
<1>1. count \in [Counter -> State] /\ since \in [Counter -> Nat]
      /\ req' \in [Request -> Login \cup {Idle}]
  BY DEF IInv, TypeOK
<1>2. \A c \in Counter : Budget(c)'
  BY QuietBudget
<1>3. QED
  BY <1>1, <1>2, Counters

\* An idle request is at no counter.
LEMMA IdleSafe == \A c \in Counter : ~AtRisk(Idle, c)
BY DEF AtRisk, Idle

LEMMA StartStep ==
  ASSUME IInv, NEW r \in Request, Start(r)
  PROVE  IInv'
<1>1. PICK i \in Ip, s \in Subject, correct \in BOOLEAN :
        req' = [req EXCEPT ![r] =
                 [Idle EXCEPT !.step = "inspect", !.ip = i, !.subject = s,
                              !.correct = correct, !.unread = {"IP", "IPR_IP"}]]
  BY DEF Start
<1>2. PICK x : x = [Idle EXCEPT !.step = "inspect", !.ip = i, !.subject = s,
                                !.correct = correct, !.unread = {"IP", "IPR_IP"}]
  OBVIOUS
<1>3. x \in Login /\ x.step = "inspect" /\ x.unread = {"IP", "IPR_IP"} /\ x.ip = i
      /\ x.subject = s
  BY <1>2 DEF Idle, Login
<1>4. \A c \in Counter : ~AtRisk(x, c)
  BY <1>3, Kinds DEF AtRisk
<1>5. QED
  BY <1>1, <1>2, <1>3, <1>4, QuietStep DEF Start

LEMMA InspectStep ==
  ASSUME IInv, NEW r \in Request, Inspect(r)
  PROVE  IInv'
<1>1. PICK kind \in req[r].unread :
        req' = [req EXCEPT ![r].unread = @ \ {kind},
                           ![r].blocked = @ \/ Blocks(r, kind)]
  BY DEF Inspect
<1>2. PICK x : x = [req[r] EXCEPT !.unread = @ \ {kind}, !.blocked = @ \/ Blocks(r, kind)]
  OBVIOUS
<1>3. req[r] \in Login /\ req[r].step = "inspect" /\ req \in [Request -> Login \cup {Idle}]
  BY DEF IInv, TypeOK, Inspect, Idle
<1>4. req' = [req EXCEPT ![r] = x]
  BY <1>1, <1>2, <1>3
<1>5. kind \in {"IP", "IPR_IP"} /\ Blocks(r, kind) \in BOOLEAN
  BY <1>3 DEF Login, Blocks
<1>6. /\ x \in Login /\ x.step = "inspect" /\ x.ip = req[r].ip /\ x.subject = req[r].subject
      /\ x.unread = req[r].unread \ {kind}
      /\ x.blocked = (req[r].blocked \/ Blocks(r, kind))
  BY <1>2, <1>3, <1>5 DEF Login
<1>7. ASSUME NEW c \in Counter, count[c].block = "active", AtRisk(x, c)
      PROVE  AtRisk(req[r], c)
  <2>1. /\ ~x.blocked /\ c.kind \notin x.unread
        /\ c \in {IpBucket(x.ip), PairBucket(x.ip, x.subject)}
    BY <1>6, <1>7 DEF AtRisk
  <2>2. c.kind # kind
    <3>1. SUFFICES ASSUME c.kind = kind PROVE Bucket(r, kind) = c
      BY <1>6, <1>7, <2>1 DEF Blocks
    <3>2. QED
      BY <1>5, <1>6, <2>1, <3>1, Kinds DEF Bucket
  <2>3. QED
    BY <1>3, <1>6, <2>1, <2>2 DEF AtRisk
<1>8. QED
  BY <1>4, <1>6, <1>7, QuietStep DEF Inspect

LEMMA ReadCredentialStep ==
  ASSUME IInv, NEW r \in Request, ReadCredential(r)
  PROVE  IInv'
<1>1. PICK open \in BOOLEAN, step \in {"reset", "record"} :
        /\ req' = [req EXCEPT ![r].step = step, ![r].tested = open]
        /\ open => req[r].subject \in Known /\ count[Credential(req[r].subject)].block # "active"
  <2>1. PICK found \in BOOLEAN :
          LET s == req[r].subject
              open == found /\ s \in Known /\ count[Credential(s)].block # "active"
          IN  req' = [req EXCEPT ![r].step = IF open /\ req[r].correct THEN "reset" ELSE "record",
                                 ![r].tested = open]
    BY DEF ReadCredential
  <2>2. QED
    BY <2>1
<1>2. PICK x : x = [req[r] EXCEPT !.step = step, !.tested = open]
  OBVIOUS
<1>3. req[r] \in Login /\ req[r].step = "inspect" /\ req[r].unread = {} /\ ~req[r].blocked
      /\ req \in [Request -> Login \cup {Idle}]
  BY DEF IInv, TypeOK, ReadCredential, Idle
<1>4. req' = [req EXCEPT ![r] = x]
  BY <1>1, <1>2, <1>3
<1>5. /\ x \in Login /\ x.step = step /\ x.tested = open
      /\ x.ip = req[r].ip /\ x.subject = req[r].subject
  BY <1>2, <1>3 DEF Login
<1>6. ASSUME NEW c \in Counter, count[c].block = "active", AtRisk(x, c)
      PROVE  AtRisk(req[r], c)
  <2>1. ~(x.tested /\ c = Credential(x.subject))
    BY <1>1, <1>5, <1>6
  <2>2. c \in {IpBucket(x.ip), PairBucket(x.ip, x.subject)}
    BY <1>6, <2>1 DEF AtRisk
  <2>3. QED
    BY <1>3, <1>5, <2>2 DEF AtRisk
<1>7. QED
  BY <1>4, <1>5, <1>6, QuietStep DEF ReadCredential

\* A request that ends without having written.
LEMMA EndStep ==
  ASSUME IInv, NEW r \in Request, End(r), UNCHANGED <<count, since>>
  PROVE  IInv'
BY IdleSafe, QuietStep DEF End

LEMMA RecordFailureStep ==
  ASSUME IInv, NEW r \in Request, RecordFailure(r)
  PROVE  IInv'
<1> DEFINE buckets == {IpBucket(req[r].ip), PairBucket(req[r].ip, req[r].subject)}
<1>1. /\ count' = [c \in Counter |-> IF c \in buckets THEN Failed(c) ELSE count[c]]
      /\ since' = [c \in Counter |-> IF c \in buckets THEN since[c] + 1 ELSE since[c]]
  BY DEF RecordFailure, Bucket
<1>2. req[r] \in Login /\ req[r].step = "record" /\ req \in [Request -> Login \cup {Idle}]
  BY DEF IInv, TypeOK, RecordFailure, Idle
<1>3. PICK x : x = [req[r] EXCEPT !.step = "attempt"]
  OBVIOUS
<1>4. /\ req' = [req EXCEPT ![r] = x] /\ x \in Login /\ x.step = "attempt"
      /\ x.subject = req[r].subject /\ x.tested = req[r].tested
  BY <1>2, <1>3 DEF RecordFailure, Login
<1>5. /\ count' \in [Counter -> State] /\ since' \in [Counter -> Nat]
      /\ req' \in [Request -> Login \cup {Idle}]
  <2>1. \A c \in Counter : Failed(c) \in State
    BY FailedType
  <2>2. count \in [Counter -> State] /\ since \in [Counter -> Nat]
    BY DEF IInv, TypeOK
  <2>3. \A c \in Counter : count'[c] \in State /\ since'[c] \in Nat
    BY <1>1, <2>1, <2>2
  <2>4. QED
    BY <1>1, <1>2, <1>4, <2>3
<1>6. ASSUME NEW c \in Counter
      PROVE  Budget(c)'
  <2>1. CASE c \in buckets
    <3>1. AtRisk(req[r], c) /\ ~AtRisk(x, c)
      BY <1>2, <1>4, <2>1, Kinds DEF AtRisk
    <3>2. count'[c] = Failed(c) /\ since'[c] = since[c] + 1
      BY <1>1, <2>1
    <3>3. QED
      BY <1>4, <3>1, <3>2, RecordBudget
  <2>2. CASE c \notin buckets
    <3>1. AtRisk(x, c) => AtRisk(req[r], c)
      BY <1>2, <1>4 DEF AtRisk
    <3>2. count'[c] = count[c] /\ since'[c] = since[c]
      BY <1>1, <2>2
    <3>3. QED
      BY <1>4, <3>1, <3>2, QuietBudget
  <2>3. QED
    BY <2>1, <2>2
<1>7. \A c \in Counter : count'[c] = Failed(c) \/ count'[c] = count[c]
  BY <1>1
<1>8. QED
  BY <1>5, <1>6, <1>7, Counters

LEMMA RecordAttemptStep ==
  ASSUME IInv, NEW r \in Request, RecordAttempt(r)
  PROVE  IInv'
<1>1. PICK k : k = Credential(req[r].subject)
  OBVIOUS
<1>2. req[r] \in Login /\ req[r].step = "attempt" /\ req' = [req EXCEPT ![r] = Idle]
  BY DEF IInv, TypeOK, RecordAttempt, Idle, End
<1>3. CASE k \notin Counter
  BY <1>1, <1>3, EndStep DEF RecordAttempt
<1>4. CASE k \in Counter
  <2>1. /\ count' = [count EXCEPT ![k] = Failed(k)]
        /\ since' = [since EXCEPT ![k] = IF req[r].tested THEN @ + 1 ELSE @]
    BY <1>1, <1>4 DEF RecordAttempt
  <2>2. count \in [Counter -> State] /\ since \in [Counter -> Nat]
        /\ req \in [Request -> Login \cup {Idle}]
    BY DEF IInv, TypeOK
  <2>3. /\ count' \in [Counter -> State] /\ since' \in [Counter -> Nat]
        /\ req' \in [Request -> Login \cup {Idle}]
    BY <1>2, <1>4, <2>1, <2>2, FailedType
  <2>4. ASSUME NEW c \in Counter
        PROVE  Budget(c)'
    <3>1. ~AtRisk(Idle, c)
      BY IdleSafe
    <3>2. CASE c = k
      <4>1. count'[c] = Failed(c)
            /\ since'[c] = IF req[r].tested THEN since[c] + 1 ELSE since[c]
        BY <2>1, <2>2, <3>2
      <4>2. req[r].tested => AtRisk(req[r], c)
        BY <1>1, <1>2, <3>2 DEF AtRisk
      <4>3. QED
        BY <1>2, <3>1, <4>1, <4>2, RecordBudget
    <3>3. CASE c # k
      <4>1. count'[c] = count[c] /\ since'[c] = since[c]
        BY <2>1, <2>2, <3>3
      <4>2. QED
        BY <1>2, <3>1, <4>1, QuietBudget
    <3>4. QED
      BY <3>2, <3>3
  <2>5. \A c \in Counter : count'[c] = Failed(c) \/ count'[c] = count[c]
    BY <2>1, <2>2
  <2>6. QED
    BY <2>3, <2>4, <2>5, Counters
<1>5. QED
  BY <1>3, <1>4

\* A counter is reset, in a step of a request that goes on to x.
LEMMA ResetStep ==
  ASSUME IInv, NEW r \in Request, NEW k, Reset(k), NEW x \in Login \cup {Idle},
         req' = [req EXCEPT ![r] = x], \A c \in Counter : ~AtRisk(x, c)
  PROVE  IInv'
<1>1. count \in [Counter -> State] /\ since \in [Counter -> Nat] /\ Fresh \in State
  BY DEF IInv, TypeOK, State, Fresh
<1>2. \A c \in Counter : /\ count'[c] = IF c = k THEN Fresh ELSE count[c]
                        /\ since'[c] = IF c = k THEN 0 ELSE since[c]
  BY <1>1 DEF Reset
<1>3. /\ count' \in [Counter -> State] /\ since' \in [Counter -> Nat]
      /\ req' \in [Request -> Login \cup {Idle}]
  BY <1>1 DEF Reset, IInv, TypeOK
<1>4. ASSUME NEW c \in Counter
      PROVE  Budget(c)'
  <2>1. CASE c = k
    BY <1>1, <1>2, <2>1, NewBudget DEF Fresh
  <2>2. CASE c # k
    BY <1>2, <2>2, QuietBudget
  <2>3. QED
    BY <2>1, <2>2
<1>5. \A c \in Counter : count'[c] = Fresh \/ count'[c] = count[c]
  BY <1>2
<1>6. QED
  BY <1>3, <1>4, <1>5, Counters

LEMMA ResetAttemptsStep ==
  ASSUME IInv, NEW r \in Request, ResetAttempts(r)
  PROVE  IInv'
<1>1. req[r] \in Login /\ req \in [Request -> Login \cup {Idle}]
  BY DEF IInv, TypeOK, ResetAttempts, Idle
<1>2. PICK x : x = [req[r] EXCEPT !.step = "resetPair"]
  OBVIOUS
<1>3. x \in Login /\ x.step = "resetPair" /\ req' = [req EXCEPT ![r] = x]
  BY <1>1, <1>2 DEF ResetAttempts, Login
<1>4. \A c \in Counter : ~AtRisk(x, c)
  BY <1>3 DEF AtRisk
<1>5. QED
  BY <1>3, <1>4, ResetStep DEF ResetAttempts

\* A counter begins anew or a block ends; no request goes on.
LEMMA OutsideStep ==
  ASSUME IInv, NEW k,
         \/ Reset(k) /\ UNCHANGED req
         \/ k \in Counter /\ (BlockEnds(k) \/ WindowEnds(k))
  PROVE  IInv'
<1>1. count \in [Counter -> State] /\ since \in [Counter -> Nat] /\ Fresh \in State
  BY DEF IInv, TypeOK, State, Fresh
<1>2. UNCHANGED req
  BY DEF BlockEnds, WindowEnds
<1>3. count' \in [Counter -> State] /\ since' \in [Counter -> Nat]
  <2>1. CASE Reset(k)
    BY <1>1, <2>1 DEF Reset
  <2>2. CASE k \in Counter /\ BlockEnds(k)
    BY <1>1, <2>2 DEF BlockEnds, State
  <2>3. CASE k \in Counter /\ WindowEnds(k)
    BY <1>1, <2>3 DEF WindowEnds, State
  <2>4. QED
    BY <2>1, <2>2, <2>3
<1>4. \A c \in Counter : c # k => count'[c] = count[c] /\ since'[c] = since[c]
  BY <1>1 DEF Reset, BlockEnds, WindowEnds
<1>5. k \in Counter => /\ since'[k] = 0 /\ count'[k].block # "active"
                      /\ \/ count'[k] = Fresh
                         \/ /\ count'[k].failed = count[k].failed
                            /\ count'[k].block = "none" <=> count[k].block = "none"
  <2>1. CASE Reset(k)
    BY <1>1, <2>1 DEF Reset, Fresh
  <2>2. CASE k \in Counter /\ BlockEnds(k)
    BY <1>1, <2>2 DEF BlockEnds, State
  <2>3. CASE k \in Counter /\ WindowEnds(k)
    BY <1>1, <2>3 DEF WindowEnds, State
  <2>4. QED
    BY <2>1, <2>2, <2>3
<1>6. ASSUME NEW c \in Counter
      PROVE  Budget(c)'
  <2>1. CASE c = k
    BY <1>3, <1>5, <2>1, NewBudget
  <2>2. CASE c # k
    BY <1>2, <1>4, <2>2, SameBudget DEF IInv
  <2>3. QED
    BY <2>1, <2>2
<1>7. \A c \in Counter :
        \/ count'[c].failed = count[c].failed
           /\ (count'[c].block = "none" <=> count[c].block = "none")
        \/ count'[c] = Fresh
  BY <1>4, <1>5
<1>8. req' \in [Request -> Login \cup {Idle}]
  BY <1>2 DEF IInv, TypeOK
<1>9. QED
  BY <1>3, <1>6, <1>7, <1>8, Counters

-----------------------------------------------------------------------------
\* The inductive invariant holds at first.
LEMMA InitIInv == Init => IInv
<1>1. SUFFICES ASSUME Init PROVE IInv
  OBVIOUS
<1>2. \A c \in Counter : Limit[c.kind] \in Nat \ {0}
  BY Limits
<1>3. TypeOK
  BY <1>1, <1>2 DEF Init, TypeOK, Fresh, State
<1>4. BlockedAtLimit
  BY <1>1, <1>2 DEF Init, BlockedAtLimit, Fresh
<1>5. \A c \in Counter : Budget(c)
  BY <1>1 DEF Init, Budget, Fresh, Restarts
<1>6. QED
  BY <1>3, <1>4, <1>5 DEF IInv

\* Every step keeps the inductive invariant.
LEMMA NextIInv == IInv /\ [Next]_vars => IInv'
<1>1. SUFFICES ASSUME IInv, [Next]_vars PROVE IInv'
  OBVIOUS
<1>2. ASSUME NEW r \in Request, Start(r) PROVE IInv'
  BY <1>1, <1>2, StartStep
<1>3. ASSUME NEW r \in Request, Step(r) PROVE IInv'
  <2>1. CASE Inspect(r)
    BY <1>1, <2>1, InspectStep
  <2>2. CASE Throttle(r)
    BY <1>1, <2>2, EndStep DEF Throttle
  <2>3. CASE ReadCredential(r)
    BY <1>1, <2>3, ReadCredentialStep
  <2>4. CASE RecordFailure(r)
    BY <1>1, <2>4, RecordFailureStep
  <2>5. CASE RecordAttempt(r)
    BY <1>1, <2>5, RecordAttemptStep
  <2>6. CASE ResetAttempts(r)
    BY <1>1, <2>6, ResetAttemptsStep
  <2>7. CASE ResetPair(r)
    BY <1>1, <2>7, IdleSafe, ResetStep DEF ResetPair, End
  <2>8. QED
    BY <1>3, <2>1, <2>2, <2>3, <2>4, <2>5, <2>6, <2>7 DEF Step
<1>4. ASSUME NEW r \in Request, Abandon(r) PROVE IInv'
  BY <1>1, <1>4, EndStep DEF Abandon
<1>5. ASSUME NEW c \in Counter, BlockEnds(c) \/ WindowEnds(c) PROVE IInv'
  BY <1>1, <1>5, OutsideStep
<1>6. ASSUME NEW s \in Known, Rotated(s) PROVE IInv'
  BY <1>1, <1>6, OutsideStep DEF Rotated
<1>7. ASSUME NEW c \in Counter, Prune(c) PROVE IInv'
  BY <1>1, <1>7, OutsideStep DEF Prune
<1>8. CASE UNCHANGED vars
  BY <1>1, <1>8 DEF vars, IInv, TypeOK, BlockedAtLimit, Budget, Pending, AtRisk, Restarts
<1>9. QED
  BY <1>1, <1>2, <1>3, <1>4, <1>5, <1>6, <1>7, <1>8 DEF Next

LEMMA Invariance == Spec => []IInv
<1>1. QED
  BY InitIInv, NextIInv, PTL DEF Spec

\* The counters and requests are of their types, and no counter passes its limit.
THEOREM TypeCorrect == Spec => []TypeOK
<1>1. IInv => TypeOK
  BY DEF IInv
<1>2. QED
  BY Invariance, <1>1, PTL

\* However requests overlap, a counter blocks or has blocked exactly when full.
THEOREM FullBlocks == Spec => []BlockedAtLimit
<1>1. IInv => BlockedAtLimit
  BY DEF IInv
<1>2. QED
  BY Invariance, <1>1, PTL

\* The guesses past the limit are fewer than the requests in progress.
THEOREM OvershootBounded == Spec => []GuessesBounded
<1>1. IInv => GuessesBounded
  <2>1. SUFFICES ASSUME IInv, NEW c \in Counter
                 PROVE  since[c] <= Limit[c.kind] + Cardinality(Request) - 1
    BY DEF GuessesBounded
  <2>2. /\ Budget(c) /\ count[c] \in State /\ since[c] \in Nat
        /\ count[c].block = "none" <=> count[c].failed < Limit[c.kind]
    BY <2>1 DEF IInv, TypeOK, BlockedAtLimit
  <2>3. Limit[c.kind] \in Nat \ {0}
    BY Limits
  <2>4. /\ Cardinality(Request) \in Nat /\ Cardinality(Pending(c)) \in Nat
    BY Sizes
  <2>5. CASE count[c].block = "none"
    BY <2>2, <2>3, <2>4, <2>5 DEF Budget, State
  <2>6. CASE count[c].block = "active"
    BY <2>2, <2>3, <2>4, <2>6 DEF Budget
  <2>7. CASE count[c].block = "past"
    BY <2>2, <2>3, <2>4, <2>7 DEF Budget, Restarts
  <2>8. QED
    BY <2>2, <2>5, <2>6, <2>7 DEF State
<1>2. QED
  BY Invariance, <1>1, PTL
=============================================================================
