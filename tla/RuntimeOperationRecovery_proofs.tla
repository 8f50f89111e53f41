------------------- MODULE RuntimeOperationRecovery_proofs -------------------
(***************************************************************************)
(* Theorems about RuntimeOperationRecovery, for every set of workers and   *)
(* of requests, every lease duration and every bound.                      *)
(***************************************************************************)
EXTENDS RuntimeOperationRecovery, TLAPS

\* What a call in progress remembers.
CallOK(w) ==
  /\ call[w].at <= clock
  /\ call[w].step = "persisting" =>
       /\ call[w].seen # Null
       /\ call[w].request # Null
       /\ call[w].request.status \in AllowedTransitions[call[w].seen.state.status]
       /\ call[w].request.withLease => held[w] # Null
  /\ call[w].step = "sealing" =>
       /\ call[w].seen # Null
       /\ call[w].seen.state.status = "RECOVERING"
       /\ call[w].seen.state.lease # Null
       /\ call[w].seen.state.lease.owner = w
       /\ call[w].seen.state.lease.token \in 1..issued
  /\ call[w].step = "beating" => held[w] # Null

CallInv == \A w \in Worker : CallOK(w)

\* A token is given to one worker only.
TokenInv ==
  /\ \A w \in Worker : held[w] # Null => held[w].owner = w /\ held[w].token \in 1..issued
  /\ \A v, w \in Worker :
       /\ v # w /\ held[v] # Null /\ held[w] # Null => held[v].token # held[w].token
       /\ v # w /\ held[v] # Null /\ call[w].step = "sealing"
            => held[v].token # call[w].seen.state.lease.token
       /\ v # w /\ call[v].step = "sealing" /\ call[w].step = "sealing"
            => call[v].seen.state.lease.token # call[w].seen.state.lease.token

\* Before the row exists nothing has happened.
AbsentInv == row = Null => issued = 0 /\ \A w \in Worker : call[w].step = "idle"

\* Worker w holds the last lease acquired: the row carries it, for at least as long as
\* w was told.
Carried(w) ==
  /\ row # Null
  /\ row.state.lease # Null
  /\ row.state.lease.owner = w
  /\ row.state.lease.token = issued
  /\ held[w].expires <= row.state.lease.expires

\* What worker w holds is the last lease acquired, carried by the row, or one that
\* had expired when the last one was acquired.  A heartbeat in progress never makes
\* the row's lease shorter.
HolderOK(w) ==
  /\ held[w] # Null => IF held[w].token = issued THEN Carried(w)
                                                 ELSE held[w].expires <= latest
  /\ held[w] # Null /\ held[w].token = issued /\ call[w].step = "beating"
       => row.state.lease.expires <= call[w].at + LeaseDuration
  /\ call[w].step = "persisting" /\ call[w].request.withLease
       /\ call[w].seen.state.lease = Null => held[w].expires <= call[w].at

\* The lease of the row is the last one acquired.
RowLeaseInv ==
  row # Null =>
    /\ CallersLeaveCount => row.state.recoveries = issued
    /\ row.state.lease = Null <=> row.acquired = Null
    /\ row.state.lease # Null =>
         /\ row.state.lease.token = issued
         /\ row.acquired = latest
         /\ row.state.lease.expires <= clock + LeaseDuration

LeaseInv ==
  /\ latest <= clock
  /\ RowLeaseInv
  /\ \A w \in Worker : HolderOK(w)

\* The statuses from which a recovery lease can be taken.
Recoverable == {"INTERRUPTED", "RECOVERY_REQUIRED", "RECOVERING"}

\* The chain ends in the status of the row, or is still to learn that a row it
\* left recoverable is in recovery.
ChainInv ==
  row # Null =>
    LET last == row.chain[Len(row.chain)] IN
    /\ row.chain # << >>
    /\ row.chain[1] = "NEW"
    /\ \A i \in 1..(Len(row.chain) - 1) : Lawful(row.chain[i], row.chain[i + 1])
    /\ \/ last = row.state.status
       \/ row.state.status = "RECOVERING" /\ last \in Recoverable

IInv ==
  /\ TypeOK
  /\ CallInv
  /\ TokenInv
  /\ AbsentInv
  /\ ~stale => LeaseInv /\ EvidenceSealed /\ ChainInv

-----------------------------------------------------------------------------
\* The ways a call ends without touching the row.
Quit(w) ==
  /\ call' = [call EXCEPT ![w] = Idle]
  /\ UNCHANGED <<row, held, clock, issued, latest, stale>>

\* The ways a call reads the row and goes on.
Begin(w, request, heartbeat) ==
  /\ call[w].step \in {"idle", "interrupting"}
  /\ request \in AnyRequest
  /\ heartbeat \in Nat \cup {Null}
  /\ request.withLease => held[w] # Null
  /\ Read(w, request, heartbeat)
  /\ UNCHANGED <<row, held, clock, issued, latest, stale>>

\* The requests of the two mark functions are well typed.
LEMMA RequestTypes ==
  /\ InterruptRequest \in Request
  /\ RecoveryRequiredRequest \in Request
  /\ AnyRequest \subseteq Request
  /\ ~InterruptRequest.withLease
  /\ ~RecoveryRequiredRequest.withLease
  /\ InterruptRequest.recoveries = Null /\ RecoveryRequiredRequest.recoveries = Null
<1>1. {"INTERRUPTED", "RECOVERY_REQUIRED"} \subseteq Status \cap Checkpoint
  BY DEF Status, Checkpoint, CheckpointOrder
<1>2. InterruptRequest \in Request /\ ~InterruptRequest.withLease
  BY <1>1 DEF InterruptRequest, Request, RecoveryStatus, Reason
<1>3. RecoveryRequiredRequest \in Request /\ ~RecoveryRequiredRequest.withLease
  BY <1>1, <1>2 DEF RecoveryRequiredRequest, InterruptRequest, Request, RecoveryStatus, Reason
<1>4. InterruptRequest.recoveries = Null /\ RecoveryRequiredRequest.recoveries = Null
  BY DEF RecoveryRequiredRequest, InterruptRequest
<1>5. QED
  BY <1>2, <1>3, <1>4, RequestsAssumption DEF AnyRequest

\* Every step is one of the actions, the refusals and the reads grouped.
LEMMA StepCases ==
  ASSUME TypeOK, CallInv, Next
  PROVE  \/ \E w \in Worker :
              \/ Create(w) \/ BeginInterrupt(w)
              \/ \E r, h : Begin(w, r, h)
              \/ PersistTransition(w)
              \/ BeginAcquire(w) \/ AcquireLease(w) \/ SealLease(w)
              \/ BeginHeartbeat(w) \/ Heartbeat(w)
              \/ Release(w) \/ Quit(w) \/ Crash(w)
         \/ Tick
<1>1. ASSUME NEW w \in Worker, NEW r \in AnyRequest, BeginTransition(w, r)
      PROVE  \E h : Begin(w, r, h)
  <2> DEFINE h == IF r.beat THEN clock ELSE Null
  <2>1. h \in Nat \cup {Null}
    BY DEF TypeOK
  <2>2. Begin(w, r, h)
    BY <1>1, <2>1 DEF BeginTransition, Begin, Idle
  <2>3. QED
    BY <2>2
<1>2. ASSUME NEW w \in Worker, ContinueInterrupt(w)
      PROVE  Begin(w, InterruptRequest, call[w].heartbeat)
  BY <1>2, RequestTypes DEF ContinueInterrupt, Begin, AnyRequest, TypeOK, Call
<1>3. ASSUME NEW w \in Worker,
             \/ InterruptRefused(w) \/ PersistRefused(w) \/ AcquireRefused(w)
             \/ SealRefused(w) \/ HeartbeatRefused(w) \/ DatabaseError(w)
      PROVE  Quit(w)
  BY <1>3 DEF Quit, InterruptRefused, PersistRefused, AcquireRefused, SealRefused,
              HeartbeatRefused, DatabaseError
<1>4. QED
  BY <1>1, <1>2, <1>3 DEF Next, BeginRecoveryRequired, AnyRequest

\* The initial state and the initial row are well typed.
LEMMA InitialTypes ==
  /\ InitialState \in State
  /\ InitialRow \in Row
  /\ Idle \in Call
<1>1. "NEW" \in Status \cap Checkpoint
  BY DEF Status, Checkpoint, CheckpointOrder
<1>2. InitialState \in State
  BY <1>1 DEF InitialState, State, RecoveryStatus
<1>3. <<"NEW">> \in Seq(Status)
  BY <1>1
<1>4. InitialRow \in Row
  BY <1>2, <1>3 DEF InitialRow, Row
<1>5. QED
  BY <1>2, <1>4 DEF Idle, Call, Steps

\* The state a transition writes is well typed.
LEMMA TargetType ==
  ASSUME TypeOK, NEW w \in Worker, NEW seen \in Row, NEW request \in AnyRequest,
         NEW heartbeat \in Nat \cup {Null}
  PROVE  Target(w, seen, request, heartbeat) \in State
<1>1. request \in Request
  BY RequestTypes
<1>2. seen.state \in State
  BY DEF Row
<1>3. (IF request.withLease THEN held[w] ELSE Null) \in Lease \cup {Null}
  BY DEF TypeOK
<1>4. Default((IF request.withLease THEN held[w] ELSE Null), seen.state.lease)
        \in Lease \cup {Null}
  BY <1>2, <1>3 DEF Default, State
<1>5. Default(heartbeat, seen.state.heartbeat) \in Nat \cup {Null}
  BY <1>2 DEF Default, State
<1>6. Default(request.attempts, seen.state.attempts) \in Nat
  BY <1>1, <1>2 DEF Default, State, Request
<1>7. Default(request.recoveries, seen.state.recoveries) \in Nat
  BY <1>1, <1>2 DEF Default, State, Request
<1>8. QED
  BY <1>1, <1>2, <1>4, <1>5, <1>6, <1>7 DEF Target, NextState, State, Request

\* Nothing may follow a terminal status.
LEMMA NoneFollows ==
  ASSUME NEW s \in Status, NEW t \in AllowedTransitions[s]
  PROVE  ~Terminal(s)
BY DEF AllowedTransitions, Terminal, Status

LEMMA MarkTypes == \A s \in Status : MarkOf(s) \subseteq Marks
  BY DEF MarkOf, Marks

\* The row a transition writes is well typed.
LEMMA PersistedType ==
  ASSUME TypeOK, CallInv, NEW w \in Worker, call[w].step = "persisting", row # Null
  PROVE  /\ call[w].seen \in Row
         /\ call[w].request \in Request
         /\ Proposed(w) \in State
         /\ Persisted(w) \in Row
<1>1. call[w] \in Call
  BY DEF TypeOK
<1>2. /\ call[w].seen \in Row
      /\ call[w].request \in AnyRequest
      /\ call[w].heartbeat \in Nat \cup {Null}
      /\ call[w].at \in Nat
  BY <1>1 DEF CallInv, CallOK, Call
<1>3. call[w].request \in Request /\ call[w].request.status \in Status
  BY <1>2, RequestTypes DEF Request
<1>4. Proposed(w) \in State
  BY <1>2, TargetType DEF Proposed
<1>5. Append(call[w].seen.chain, call[w].request.status) \in Seq(Status)
  BY <1>2, <1>3 DEF Row
<1>6. row \in Row
  BY DEF TypeOK
<1>7. Default(row.acquired, call[w].at) \in Nat
  BY <1>2, <1>6 DEF Default, Row
<1>8. row.marks \cup MarkOf(call[w].request.status) \subseteq Marks
  BY <1>3, <1>6, MarkTypes DEF Row
<1>9. QED
  BY <1>2, <1>3, <1>4, <1>5, <1>7, <1>8 DEF Persisted, UpdatedRow, Row

\* The row with a fresh lease is well typed.
LEMMA AcquiredType ==
  ASSUME TypeOK, NEW w \in Worker, NEW at \in Nat, row # Null
  PROVE  /\ Recovering(w, at, row.state.recoveries + 1) \in State
         /\ Acquired(w, at) \in Row
<1>1. row \in Row /\ issued + 1 \in Nat /\ at + LeaseDuration \in Nat
  BY LeaseDurationAssumption DEF TypeOK
<1>2. [owner |-> w, token |-> issued + 1, expires |-> at + LeaseDuration] \in Lease
  BY <1>1 DEF Lease
<1>3. "RECOVERING" \in Status \cap Checkpoint /\ "LEASE_ACQUIRED" \in RecoveryStatus
  BY DEF Status, Checkpoint, CheckpointOrder, RecoveryStatus
<1>4. row.state \in State
  BY <1>1 DEF Row
<1>5. Recovering(w, at, row.state.recoveries + 1) \in State
  <2> DEFINE entered == [row.state EXCEPT !.status = "RECOVERING",
                                          !.recovery = "LEASE_ACQUIRED",
                                          !.checkpoint = "RECOVERING"]
  <2>1. entered \in State
    BY <1>3, <1>4 DEF State
  <2>2. row.state.recoveries + 1 \in Nat
    BY <1>4 DEF State
  <2>3. [entered EXCEPT !.lease = [owner |-> w, token |-> issued + 1,
                                   expires |-> at + LeaseDuration],
                        !.heartbeat = at,
                        !.recoveries = row.state.recoveries + 1] \in State
    <3> HIDE DEF entered
    <3>1. QED
      BY <1>2, <2>1, <2>2 DEF State
  <2>4. QED
    BY <2>3 DEF Recovering
<1>6. QED
  BY <1>1, <1>5 DEF Acquired, Row, Marks

\* The row and the held lease after a heartbeat are well typed.
LEMMA BeatenType ==
  ASSUME TypeOK, NEW at \in Nat, NEW until \in Nat, row # Null, row.state.lease # Null
  PROVE  Beaten(at, until) \in State
<1>1. row.state \in State
  BY DEF TypeOK, Row
<1>2. [row.state.lease EXCEPT !.expires = until] \in Lease
  BY <1>1 DEF State, Lease
<1>3. QED
  BY <1>1, <1>2 DEF Beaten, State

\* Every step keeps the types.
LEMMA TypeStep ==
  ASSUME TypeOK, CallInv, TokenInv, AbsentInv, [Next]_vars
  PROVE  TypeOK'
<1>1. CASE UNCHANGED vars
  BY <1>1 DEF vars, TypeOK
<1>2. CASE Tick
  BY <1>2 DEF Tick, TypeOK
<1>3. ASSUME NEW w \in Worker, Create(w)
      PROVE  TypeOK'
  BY <1>3, InitialTypes DEF Create, TypeOK
<1>4. ASSUME NEW w \in Worker, BeginInterrupt(w)
      PROVE  TypeOK'
  <2>1. row.state.heartbeat \in Nat \cup {Null}
    BY <1>4 DEF BeginInterrupt, TypeOK, Row, State
  <2>2. call'[w] \in Call
    BY <1>4, <2>1 DEF BeginInterrupt, TypeOK, Call, Steps
  <2>3. QED
    BY <1>4, <2>2 DEF BeginInterrupt, TypeOK
<1>5. ASSUME NEW w \in Worker, NEW r, NEW h, Begin(w, r, h)
      PROVE  TypeOK'
  <2>1. [step |-> "persisting", seen |-> row, request |-> r, at |-> clock,
         heartbeat |-> h] \in Call
    BY <1>5 DEF Begin, Read, TypeOK, Call, Steps
  <2>2. QED
    BY <1>5, <2>1 DEF Begin, Read, TypeOK
<1>6. ASSUME NEW w \in Worker, PersistTransition(w)
      PROVE  TypeOK'
  <2>1. row # Null
    BY <1>6 DEF PersistTransition, AbsentInv
  <2>2. Persisted(w) \in Row
    BY <1>6, <2>1, PersistedType DEF PersistTransition
  <2>3. QED
    BY <1>6, <2>2, InitialTypes DEF PersistTransition, TypeOK
<1>7. ASSUME NEW w \in Worker, BeginAcquire(w)
      PROVE  TypeOK'
  <2>1. call'[w] \in Call
    BY <1>7 DEF BeginAcquire, TypeOK, Call, Steps
  <2>2. QED
    BY <1>7, <2>1 DEF BeginAcquire, TypeOK
<1>8. ASSUME NEW w \in Worker, AcquireLease(w)
      PROVE  TypeOK'
  <2>1. row # Null /\ call[w].at \in Nat
    BY <1>8 DEF AcquireLease, AbsentInv, TypeOK, Call
  <2>2. row' \in Row
    BY <1>8, <2>1, AcquiredType DEF AcquireLease
  <2>3. call'[w] \in Call
    BY <1>8, <2>2 DEF AcquireLease, TypeOK, Call, Steps
  <2>4. QED
    BY <1>8, <2>1, <2>2, <2>3 DEF AcquireLease, TypeOK
<1>9. ASSUME NEW w \in Worker, SealLease(w)
      PROVE  TypeOK'
  <2>1. row \in Row /\ call[w].seen \in Row
    BY <1>9 DEF SealLease, Owns, AbsentInv, CallInv, CallOK, TypeOK, Call
  <2>2. call[w].seen.state.lease \in Lease
    BY <1>9, <2>1 DEF SealLease, CallInv, CallOK, Row, State
  <2>3. Append(call[w].seen.chain, "RECOVERING") \in Seq(Status)
    BY <2>1 DEF Row, Status
  <2>4. row' \in Row
    BY <1>9, <2>1, <2>3 DEF SealLease, Row
  <2>5. QED
    BY <1>9, <2>2, <2>4, InitialTypes DEF SealLease, TypeOK
<1>10. ASSUME NEW w \in Worker, BeginHeartbeat(w)
       PROVE  TypeOK'
  <2>1. call'[w] \in Call
    BY <1>10 DEF BeginHeartbeat, TypeOK, Call, Steps
  <2>2. QED
    BY <1>10, <2>1 DEF BeginHeartbeat, TypeOK
<1>11. ASSUME NEW w \in Worker, Heartbeat(w)
       PROVE  TypeOK'
  <2> DEFINE until == call[w].at + LeaseDuration
  <2>1. row \in Row /\ row # Null /\ held[w] \in Lease
    BY <1>11 DEF Heartbeat, CallInv, CallOK, TokenInv, AbsentInv, TypeOK
  <2>2. call[w].at \in Nat /\ until \in Nat
    BY LeaseDurationAssumption DEF TypeOK, Call
  <2>3. Beaten(call[w].at, until) \in State
    BY <1>11, <2>1, <2>2, BeatenType DEF Heartbeat, CanBeat, Owns
  <2>4. row' \in Row
    BY <1>11, <2>1, <2>3 DEF Heartbeat, Row
  <2>5. [held[w] EXCEPT !.expires = until] \in Lease
    BY <2>1, <2>2 DEF Lease
  <2>6. QED
    BY <1>11, <2>4, <2>5, InitialTypes DEF Heartbeat, TypeOK
<1>12. ASSUME NEW w \in Worker, Release(w)
       PROVE  TypeOK'
  <2>1. CASE row' = row
    BY <1>12, <2>1 DEF Release, TypeOK
  <2>2. CASE row' # row
    <3>1. row \in Row
      BY <1>12 DEF Release, TokenInv, AbsentInv, TypeOK
    <3>2. row' \in Row
      BY <1>12, <2>2, <3>1 DEF Release, Unleased, Row, State
    <3>3. QED
      BY <1>12, <3>2 DEF Release, TypeOK
  <2>3. QED
    BY <2>1, <2>2
<1>13. ASSUME NEW w \in Worker, Quit(w)
       PROVE  TypeOK'
  BY <1>13, InitialTypes DEF Quit, TypeOK
<1>14. ASSUME NEW w \in Worker, Crash(w)
       PROVE  TypeOK'
  BY <1>14, InitialTypes DEF Crash, TypeOK
<1>15. QED
  BY StepCases, <1>1, <1>2, <1>3, <1>4, <1>5, <1>6, <1>7, <1>8, <1>9, <1>10,
     <1>11, <1>12, <1>13, <1>14

-----------------------------------------------------------------------------
\* What no step undoes.
LEMMA Progress ==
  ASSUME TypeOK, TypeOK', CallInv, TokenInv, AbsentInv, [Next]_vars
  PROVE  /\ row # Null => row' # Null
         /\ issued' \in {issued, issued + 1}
         /\ clock' >= clock
<1>1. CASE UNCHANGED vars
  BY <1>1 DEF vars, TypeOK
<1>2. CASE Tick
  BY <1>2 DEF Tick, TypeOK
<1>3. ASSUME NEW w \in Worker,
             \/ Create(w) \/ BeginInterrupt(w) \/ (\E r, h : Begin(w, r, h))
             \/ BeginAcquire(w) \/ BeginHeartbeat(w) \/ Quit(w) \/ Crash(w)
      PROVE  /\ row # Null => row' = row
             /\ UNCHANGED <<issued, clock>>
  BY <1>3 DEF Create, BeginInterrupt, Begin, Read, BeginAcquire, BeginHeartbeat, Quit,
              Crash
<1>4. ASSUME NEW w \in Worker, PersistTransition(w)
      PROVE  row' # Null /\ UNCHANGED <<issued, clock>>
  <2>1. row # Null
    BY <1>4 DEF PersistTransition, AbsentInv
  <2>2. QED
    BY <1>4, <2>1, PersistedType, RowAssumption DEF PersistTransition
<1>5. ASSUME NEW w \in Worker, AcquireLease(w)
      PROVE  row' # Null /\ issued' = issued + 1 /\ clock' = clock
  <2>1. row # Null /\ call[w].at \in Nat
    BY <1>5 DEF AcquireLease, AbsentInv, TypeOK, Call
  <2>2. QED
    BY <1>5, <2>1, AcquiredType, RowAssumption DEF AcquireLease
<1>6. ASSUME NEW w \in Worker, SealLease(w) \/ Heartbeat(w) \/ Release(w)
      PROVE  row' # Null /\ UNCHANGED <<issued, clock>>
  <2>1. row # Null
    BY <1>6 DEF SealLease, Heartbeat, Release, AbsentInv, CallInv, CallOK, TokenInv
  <2>2. row \in Row
    BY <2>1 DEF TypeOK
  <2>3. CASE SealLease(w)
    <3>1. row' = [row EXCEPT !.hashed = row'.hashed, !.chain = row'.chain]
      BY <2>2, <2>3 DEF SealLease, Row
    <3>2. row'.hashed = call[w].seen.state /\ row'.chain = Append(call[w].seen.chain, "RECOVERING")
      BY <2>2, <2>3 DEF SealLease, Row
    <3>3. call[w].seen \in Row
      BY <2>3 DEF SealLease, CallInv, CallOK, TypeOK, Call
    <3>4. row'.hashed \in State /\ row'.chain \in Seq(Status)
      BY <3>2, <3>3 DEF Row, Status
    <3>5. row' \in Row
      BY <2>2, <3>1, <3>4 DEF Row
    <3>6. QED
      BY <2>3, <3>5, RowAssumption DEF SealLease
  <2>4. CASE Heartbeat(w)
    <3>1. Beaten(call[w].at, call[w].at + LeaseDuration) \in State
      BY <2>1, <2>4, BeatenType, LeaseDurationAssumption
         DEF Heartbeat, CanBeat, Owns, TypeOK, Call
    <3>2. row' \in Row
      BY <2>2, <2>4, <3>1 DEF Heartbeat, Row
    <3>3. QED
      BY <2>4, <3>2, RowAssumption DEF Heartbeat
  <2>5. CASE Release(w)
    <3>1. row' \in Row
      BY <2>2, <2>5 DEF Release, Unleased, Row, State
    <3>2. QED
      BY <2>5, <3>1, RowAssumption DEF Release
  <2>6. QED
    BY <1>6, <2>3, <2>4, <2>5
<1>7. QED
  BY StepCases, <1>1, <1>2, <1>3, <1>4, <1>5, <1>6 DEF TypeOK

\* What the calls in progress remember stays true.
LEMMA CallStep ==
  ASSUME TypeOK, TypeOK', CallInv, TokenInv, AbsentInv, [Next]_vars
  PROVE  CallInv'
<1> SUFFICES ASSUME NEW v \in Worker
             PROVE  CallOK(v)'
  BY DEF CallInv
<1>0. CallOK(v) /\ issued' >= issued /\ issued \in Nat /\ issued' \in Nat
      /\ clock \in Nat /\ clock' \in Nat /\ clock' >= clock
  BY Progress DEF CallInv, TypeOK
<1>1. CASE UNCHANGED vars
  BY <1>0, <1>1 DEF vars, CallOK
<1>2. CASE Tick
  BY <1>0, <1>2 DEF Tick, CallOK, TypeOK, Call
<1>3. ASSUME NEW w \in Worker, Create(w)
      PROVE  CallOK(v)'
  BY <1>0, <1>3 DEF Create, CallOK
<1>4. ASSUME NEW w \in Worker,
             BeginInterrupt(w) \/ BeginAcquire(w) \/ BeginHeartbeat(w) \/ Quit(w)
      PROVE  CallOK(v)'
  <2>1. /\ call'[w].step \notin {"persisting", "sealing"}
        /\ call'[w].step = "beating" => held[w] # Null
        /\ call'[w].at <= clock
    <3>1. CASE BeginInterrupt(w)
      BY <1>0, <3>1 DEF BeginInterrupt, Idle, TypeOK, Call
    <3>2. CASE BeginAcquire(w)
      BY <1>0, <3>2 DEF BeginAcquire, TypeOK, Call
    <3>3. CASE BeginHeartbeat(w)
      BY <1>0, <3>3 DEF BeginHeartbeat, TypeOK, Call
    <3>4. CASE Quit(w)
      BY <1>0, <3>4 DEF Quit, Idle, TypeOK
    <3>5. QED
      BY <1>4, <3>1, <3>2, <3>3, <3>4
  <2>2. /\ v # w => call'[v] = call[v]
        /\ UNCHANGED <<held, clock, issued>>
    BY <1>4 DEF BeginInterrupt, BeginAcquire, BeginHeartbeat, Quit, TypeOK
  <2>3. QED
    BY <1>0, <2>1, <2>2 DEF CallOK
<1>5. ASSUME NEW w \in Worker, NEW r, NEW h, Begin(w, r, h)
      PROVE  CallOK(v)'
  <2>1. r # Null
    BY <1>5, RequestTypes, RequestsAssumption DEF Begin
  <2>2. row # Null /\ r.status \in AllowedTransitions[row.state.status]
    BY <1>5 DEF Begin, Read, ValidTransition, Target, NextState
  <2>3. QED
    BY <1>0, <1>5, <2>1, <2>2 DEF Begin, Read, CallOK, TypeOK
<1>6. ASSUME NEW w \in Worker, PersistTransition(w)
      PROVE  CallOK(v)'
  BY <1>0, <1>6 DEF PersistTransition, CallOK, Idle, TypeOK
<1>7. ASSUME NEW w \in Worker, AcquireLease(w)
      PROVE  CallOK(v)'
  <2>1. CASE v # w
    BY <1>0, <1>7, <2>1 DEF AcquireLease, CallOK, TypeOK, Call, Lease
  <2>2. CASE v = w
    <3>1. row # Null /\ call[w].at \in Nat
      BY <1>7 DEF AcquireLease, AbsentInv, TypeOK, Call
    <3>2. call'[w].step = "sealing" /\ call'[w].seen = row' /\ call'[w].at = call[w].at
      BY <1>7 DEF AcquireLease, TypeOK, Call
    <3>3. row' # Null
      BY <3>1, Progress
    <3>4. row'.state = Recovering(w, call[w].at, row.state.recoveries + 1)
      BY <1>7, <3>1 DEF AcquireLease, Acquired, TypeOK, Row
    <3>5. row'.state.status = "RECOVERING"
          /\ row'.state.lease = [owner |-> w, token |-> issued + 1,
                                 expires |-> call[w].at + LeaseDuration]
      BY <3>1, <3>4 DEF Recovering, TypeOK, Row, State
    <3>6. row'.state.lease # Null
      BY <3>1, <3>5, NullAssumption, LeaseDurationAssumption DEF Lease, TypeOK
    <3>7. issued' = issued + 1
      BY <1>7 DEF AcquireLease
    <3>8. QED
      BY <1>0, <2>2, <3>2, <3>3, <3>5, <3>6, <3>7, <1>7 DEF AcquireLease, CallOK
  <2>3. QED
    BY <2>1, <2>2
<1>8. ASSUME NEW w \in Worker, SealLease(w)
      PROVE  CallOK(v)'
  BY <1>0, <1>8 DEF SealLease, CallOK, CallInv, Idle, TypeOK
<1>9. ASSUME NEW w \in Worker, Heartbeat(w)
      PROVE  CallOK(v)'
  BY <1>0, <1>9 DEF Heartbeat, CallOK, Idle, TypeOK
<1>10. ASSUME NEW w \in Worker, Release(w)
       PROVE  CallOK(v)'
  BY <1>0, <1>10 DEF Release, CallOK, Idle, TypeOK
<1>11. ASSUME NEW w \in Worker, Crash(w)
       PROVE  CallOK(v)'
  BY <1>0, <1>11 DEF Crash, CallOK, Idle, TypeOK
<1>12. QED
  BY StepCases, <1>1, <1>2, <1>3, <1>4, <1>5, <1>6, <1>7, <1>8, <1>9, <1>10, <1>11

\* The row appears once, and nothing happens before.
LEMMA AbsentStep ==
  ASSUME TypeOK, TypeOK', CallInv, TokenInv, AbsentInv, [Next]_vars
  PROVE  AbsentInv'
<1> SUFFICES ASSUME row' = Null
             PROVE  issued' = 0 /\ \A w \in Worker : call'[w].step = "idle"
  BY DEF AbsentInv
<1>1. row = Null /\ issued = 0 /\ \A w \in Worker : call[w].step = "idle"
  BY Progress DEF AbsentInv
<1>2. \A w \in Worker : held[w] = Null
  BY <1>1 DEF TokenInv
<1>3. CASE UNCHANGED vars \/ Tick
  BY <1>1, <1>3 DEF vars, Tick
<1>4. ASSUME NEW w \in Worker, Create(w)
      PROVE  FALSE
  BY <1>4, InitialTypes, RowAssumption DEF Create
<1>5. ASSUME NEW w \in Worker, Quit(w)
      PROVE  issued' = 0 /\ \A u \in Worker : call'[u].step = "idle"
  BY <1>1, <1>5 DEF Quit, Idle, TypeOK
<1>6. QED
  BY StepCases, <1>1, <1>2, <1>3, <1>4, <1>5
     DEF BeginInterrupt, Begin, Read, PersistTransition, BeginAcquire, AcquireLease,
         SealLease, BeginHeartbeat, Heartbeat, Release, Crash

\* What the first UPDATE of an acquisition does to the row and to its worker.
LEMMA AcquiredFacts ==
  ASSUME TypeOK, CallInv, AbsentInv, NEW w \in Worker, AcquireLease(w)
  PROVE  /\ row # Null /\ row \in Row /\ call[w].at \in Nat /\ call[w].at <= clock
         /\ row' = Acquired(w, call[w].at)
         /\ row'.state.status = "RECOVERING"
         /\ row'.state.recoveries = row.state.recoveries + 1
         /\ row'.state.lease = [owner |-> w, token |-> issued + 1,
                                expires |-> call[w].at + LeaseDuration]
         /\ row'.state.lease.token = issued + 1
         /\ row'.state.lease \in Lease
         /\ row'.acquired = call[w].at
         /\ call'[w] = [call[w] EXCEPT !.step = "sealing", !.seen = row']
         /\ call'[w].step = "sealing" /\ call'[w].seen = row'
<1>1. row # Null /\ row \in Row /\ call[w].at \in Nat /\ call[w].at <= clock
  BY DEF AcquireLease, AbsentInv, TypeOK, Call, CallInv, CallOK
<1>2. row' = Acquired(w, call[w].at)
  BY DEF AcquireLease
<1>3. row'.state = Recovering(w, call[w].at, row.state.recoveries + 1)
      /\ row'.acquired = call[w].at
  BY <1>1, <1>2 DEF Acquired, Row
<1>4. /\ row'.state.status = "RECOVERING"
      /\ row'.state.recoveries = row.state.recoveries + 1
      /\ row'.state.lease = [owner |-> w, token |-> issued + 1,
                             expires |-> call[w].at + LeaseDuration]
  BY <1>1, <1>3 DEF Recovering, Row, State
<1>5. row'.state.lease \in Lease
  BY <1>1, <1>4, LeaseDurationAssumption DEF Lease, TypeOK
<1>6. call'[w] = [call[w] EXCEPT !.step = "sealing", !.seen = row']
  BY DEF AcquireLease, TypeOK
<1>7. call'[w].step = "sealing" /\ call'[w].seen = row'
  BY <1>6 DEF TypeOK, Call
<1>8. row'.state.lease.token = issued + 1
  BY <1>4
<1>9. QED
  BY <1>1, <1>2, <1>3, <1>4, <1>5, <1>6, <1>7, <1>8

\* No two workers, holding or about to hold a lease, have the same token.
LEMMA TokenStep ==
  ASSUME TypeOK, TypeOK', CallInv, TokenInv, AbsentInv, [Next]_vars
  PROVE  TokenInv'
<1>1. CASE UNCHANGED vars \/ Tick
  BY <1>1 DEF vars, Tick, TokenInv
<1>2. ASSUME NEW w \in Worker,
             Create(w) \/ BeginInterrupt(w) \/ BeginAcquire(w) \/ BeginHeartbeat(w)
               \/ Quit(w) \/ PersistTransition(w) \/ (\E r, h : Begin(w, r, h))
      PROVE  TokenInv'
  <2>1. UNCHANGED <<held, issued>>
    BY <1>2 DEF Create, BeginInterrupt, BeginAcquire, BeginHeartbeat, Quit,
                PersistTransition, Begin
  <2>2. \A v \in Worker : call'[v] = call[v] \/ call'[v].step # "sealing"
    <3>1. CASE \E r, h : Begin(w, r, h)
      BY <3>1 DEF Begin, Read, TypeOK
    <3>2. CASE Create(w) \/ PersistTransition(w) \/ Quit(w)
      BY <3>2 DEF Create, PersistTransition, Quit, Idle, TypeOK
    <3>3. CASE BeginInterrupt(w) \/ BeginAcquire(w) \/ BeginHeartbeat(w)
      BY <3>3 DEF BeginInterrupt, BeginAcquire, BeginHeartbeat, TypeOK, Call
    <3>4. QED
      BY <1>2, <3>1, <3>2, <3>3
  <2>3. QED
    BY <2>1, <2>2 DEF TokenInv
<1>3. ASSUME NEW w \in Worker, AcquireLease(w)
      PROVE  TokenInv'
  <2>1. /\ call'[w].step = "sealing"
        /\ call'[w].seen.state.lease.token = issued + 1
    <3>1. row'.state.lease.token = issued + 1
      BY <1>3, AcquiredFacts
    <3>2. call'[w].step = "sealing" /\ call'[w].seen = row'
      BY <1>3, AcquiredFacts
    <3>3. QED
      BY <3>1, <3>2
  <2>2. /\ \A v \in Worker \ {w} : call'[v] = call[v]
        /\ held' = held /\ issued' = issued + 1 /\ issued \in Nat
    BY <1>3 DEF AcquireLease, TypeOK
  <2>3. \A v \in Worker : call[v].step = "sealing" => call[v].seen.state.lease.token \in 1..issued
    BY DEF CallInv, CallOK
  <2>4. \A v \in Worker : call'[v].step = "sealing" /\ v # w =>
          call'[v].seen.state.lease.token \in 1..issued
    BY <2>2, <2>3
  <2>5. QED
    BY <2>1, <2>2, <2>4 DEF TokenInv
<1>4. ASSUME NEW w \in Worker, SealLease(w)
      PROVE  TokenInv'
  <2>1. /\ held'[w] \in {held[w], call[w].seen.state.lease}
        /\ call[w].seen.state.lease.owner = w
        /\ call[w].seen.state.lease.token \in 1..issued
        /\ \A v \in Worker \ {w} : held'[v] = held[v] /\ call'[v] = call[v]
        /\ call'[w].step = "idle"
        /\ issued' = issued
    BY <1>4 DEF SealLease, CallInv, CallOK, Idle, TypeOK
  <2>2. QED
    BY <1>4, <2>1 DEF TokenInv, SealLease
<1>5. ASSUME NEW w \in Worker, Heartbeat(w)
      PROVE  TokenInv'
  <2>1. held[w] \in Lease /\ held[w] # Null
    BY <1>5 DEF Heartbeat, CallInv, CallOK, TypeOK
  <2>2. /\ held'[w].owner = held[w].owner /\ held'[w].token = held[w].token
        /\ \A v \in Worker \ {w} : held'[v] = held[v] /\ call'[v] = call[v]
        /\ call'[w].step = "idle"
        /\ issued' = issued
    BY <1>5, <2>1 DEF Heartbeat, Idle, TypeOK, Lease
  <2>3. QED
    BY <2>1, <2>2 DEF TokenInv
<1>6. ASSUME NEW w \in Worker, Release(w) \/ Crash(w)
      PROVE  TokenInv'
  <2>1. /\ held'[w] = Null
        /\ \A v \in Worker \ {w} : held'[v] = held[v] /\ call'[v] = call[v]
        /\ call'[w].step = "idle"
        /\ issued' = issued
    BY <1>6 DEF Release, Crash, Idle, TypeOK
  <2>2. QED
    BY <2>1 DEF TokenInv
<1>7. QED
  BY StepCases, <1>1, <1>2, <1>3, <1>4, <1>5, <1>6

\* stale is never reset.
LEMMA StaleStep ==
  ASSUME TypeOK, CallInv, [Next]_vars
  PROVE  stale => stale'
BY StepCases
   DEF vars, Create, BeginInterrupt, Begin, PersistTransition, BeginAcquire, AcquireLease,
       SealLease, BeginHeartbeat, Heartbeat, Release, Quit, Crash, Tick

-----------------------------------------------------------------------------
\* A transition that lands on the row it read leaves the lease as it was, or puts it
\* back to what its holder believes: its worker passes the row's own lease or none,
\* and the lease_consistency CHECK refuses one that was taken over.
LEMMA PersistKeepsLease ==
  ASSUME TypeOK, CallInv, TokenInv, AbsentInv, LeaseInv,
         NEW w \in Worker, PersistTransition(w), ~stale'
  PROVE  /\ row # Null /\ row \in Row /\ row' \in Row
         /\ \/ row'.state.lease = row.state.lease
            \/ /\ held[w] # Null /\ held[w].token = issued /\ Carried(w)
               /\ row'.state.lease = held[w]
         /\ row'.acquired = row.acquired
         /\ CallersLeaveCount => row'.state.recoveries = row.state.recoveries
         /\ row'.hashed = row'.state
         /\ row'.chain = Append(row.chain, row'.state.status)
         /\ row'.state.status \in AllowedTransitions[row.state.status]
<1> DEFINE seen == call[w].seen
           request == call[w].request
           lent == IF request.withLease THEN held[w] ELSE Null
<1>1. row # Null /\ row \in Row
  BY DEF PersistTransition, AbsentInv, TypeOK
<1>2. row = seen
  BY DEF PersistTransition
<1>3. row' = Persisted(w) /\ row' \in Row /\ request \in Request
  BY <1>1, PersistedType DEF PersistTransition
<1>4. /\ row'.state = Proposed(w)
      /\ row'.acquired = IF Proposed(w).lease = Null
                           THEN Null ELSE Default(row.acquired, call[w].at)
      /\ row'.hashed = Proposed(w)
      /\ row'.chain = Append(row.chain, request.status)
  BY <1>2, <1>3 DEF Persisted, UpdatedRow
<1>5. /\ Proposed(w).lease = Default(lent, row.state.lease)
      /\ CallersLeaveCount => Proposed(w).recoveries = row.state.recoveries
      /\ Proposed(w).status = request.status
  <2>1. /\ Proposed(w).lease = Default(lent, row.state.lease)
        /\ Proposed(w).recoveries = Default(request.recoveries, row.state.recoveries)
        /\ Proposed(w).status = request.status
    BY <1>2 DEF Proposed, Target, NextState
  <2>2. request \in AnyRequest
    BY DEF PersistTransition, CallInv, CallOK, TypeOK, Call
  <2>3. CallersLeaveCount => request.recoveries = Null
    BY <2>2, RequestTypes DEF CallersLeaveCount, AnyRequest
  <2>4. QED
    BY <2>1, <2>3 DEF Default
<1>6. request.status \in AllowedTransitions[row.state.status] /\ call[w].at \in Nat
  BY <1>2 DEF PersistTransition, CallInv, CallOK, TypeOK, Call
<1>7. DbChecks(row')
  BY <1>3 DEF PersistTransition
<1>8. \/ Proposed(w).lease = row.state.lease
      \/ /\ held[w] # Null /\ held[w].token = issued /\ Carried(w)
         /\ Proposed(w).lease = held[w]
  <2>1. CASE lent = Null
    BY <1>5, <2>1 DEF Default
  <2>2. CASE lent # Null
    <3>1. /\ request.withLease /\ held[w] # Null /\ lent = held[w]
          /\ Proposed(w).lease = held[w]
          /\ held[w] \in Lease
      BY <1>5, <2>2 DEF Default, TypeOK
    <3>2. CASE held[w].token = issued
      BY <3>1, <3>2 DEF LeaseInv, HolderOK
    <3>3. CASE held[w].token # issued
      <4>1. held[w].expires <= latest /\ latest \in Nat /\ held[w].expires \in Nat
        BY <3>1, <3>3 DEF LeaseInv, HolderOK, TypeOK, Lease
      <4>2. held[w].expires > row'.acquired
        BY <1>4, <1>7, <3>1 DEF DbChecks
      <4>3. CASE row.state.lease = Null
        <5>1. row'.acquired = call[w].at
          BY <1>1, <1>4, <3>1, <4>3 DEF Default, LeaseInv, RowLeaseInv
        <5>2. held[w].expires <= call[w].at
          BY <1>2, <3>1, <4>3 DEF LeaseInv, HolderOK, PersistTransition
        <5>3. QED
          BY <1>6, <4>1, <4>2, <5>1, <5>2
      <4>4. CASE row.state.lease # Null
        <5>1. row'.acquired = latest
          BY <1>1, <1>4, <3>1, <4>1, <4>4, NullAssumption DEF Default, LeaseInv, RowLeaseInv
        <5>2. QED
          BY <4>1, <4>2, <5>1
      <4>5. QED
        BY <4>3, <4>4
    <3>4. QED
      BY <3>2, <3>3
  <2>3. QED
    BY <2>1, <2>2
<1>9. row'.acquired = row.acquired
  BY <1>1, <1>4, <1>8 DEF LeaseInv, RowLeaseInv, Carried, Default
<1>10. QED
  BY <1>1, <1>3, <1>4, <1>5, <1>6, <1>8, <1>9

\* No two workers hold the last lease acquired.
LEMMA OneHolder ==
  ASSUME TokenInv, NEW v \in Worker, NEW w \in Worker, v # w,
         held[v] # Null, held[w] # Null, held[w].token = issued
  PROVE  held[v].token # issued
BY DEF TokenInv

\* A worker whose lease and call are as they were still holds what it held, if the
\* row's lease lasts no shorter for it and no lease was acquired.
LEMMA HolderKept ==
  ASSUME NEW v \in Worker, HolderOK(v), held'[v] = held[v],
         call'[v] = call[v] \/ call'[v].step \notin {"persisting", "beating"},
         UNCHANGED <<issued, latest>>,
         held[v] # Null /\ held[v].token = issued
           => row' # Null /\ row'.state.lease = row.state.lease
  PROVE  HolderOK(v)'
<1>1. CASE held[v] # Null /\ held[v].token = issued
  BY <1>1 DEF HolderOK, Carried
<1>2. CASE held[v] # Null /\ held[v].token # issued
  BY <1>2 DEF HolderOK
<1>3. CASE held[v] = Null
  BY <1>3 DEF HolderOK
<1>4. QED
  BY <1>1, <1>2, <1>3

\* What a heartbeat does to the row's lease and to its worker's.
LEMMA BeatenRow ==
  ASSUME TypeOK, CallInv, TokenInv, AbsentInv, LeaseInv, NEW w \in Worker, Heartbeat(w),
         [Next]_vars, TypeOK'
  PROVE  /\ held[w].token = issued
         /\ row'.state.lease # Null
         /\ row'.state.lease = [row.state.lease EXCEPT !.expires = call[w].at + LeaseDuration]
         /\ row'.state.lease.owner = w /\ row'.state.lease.token = issued
         /\ row'.state.lease.expires = call[w].at + LeaseDuration
         /\ row'.state.recoveries = row.state.recoveries
         /\ row'.acquired = row.acquired
         /\ row # Null /\ row' # Null
         /\ row.state.lease # Null
         /\ held[w] # Null
         /\ held' = held \/ held' = [held EXCEPT ![w] = row'.state.lease]
         /\ held'[w] \in {held[w], row'.state.lease}
<1> DEFINE until == call[w].at + LeaseDuration
<1>1. /\ held[w] # Null /\ held[w] \in Lease
      /\ row # Null /\ row \in Row
      /\ row.state.lease # Null
      /\ held[w].owner = row.state.lease.owner
      /\ held[w].token = row.state.lease.token
      /\ row' = [row EXCEPT !.state = Beaten(call[w].at, until)]
      /\ held' = held \/ held' = [held EXCEPT ![w] = [held[w] EXCEPT !.expires = until]]
  BY DEF Heartbeat, CanBeat, Owns, CallInv, CallOK, TokenInv, AbsentInv, TypeOK
<1>2. held[w].token = issued /\ held[w].owner = w
  BY <1>1 DEF LeaseInv, RowLeaseInv, TokenInv
<1>3. row'.state = Beaten(call[w].at, until) /\ row'.acquired = row.acquired
  BY <1>1 DEF Row
<1>4. /\ row'.state.lease = [row.state.lease EXCEPT !.expires = until]
      /\ row'.state.recoveries = row.state.recoveries
  BY <1>1, <1>3 DEF Beaten, Row, State
<1>5. until \in Nat
  BY LeaseDurationAssumption DEF TypeOK, Call
<1>6. row.state.lease \in Lease
  BY <1>1 DEF Row, State
<1>7. /\ row'.state.lease \in Lease
      /\ row'.state.lease.owner = w /\ row'.state.lease.token = issued
      /\ row'.state.lease.expires = until
  <2> HIDE DEF until
  <2>1. \A l \in Lease : /\ [l EXCEPT !.expires = until] \in Lease
                         /\ [l EXCEPT !.expires = until].owner = l.owner
                         /\ [l EXCEPT !.expires = until].token = l.token
                         /\ [l EXCEPT !.expires = until].expires = until
    BY <1>5 DEF Lease
  <2>2. QED
    BY <1>1, <1>2, <1>4, <1>6, <2>1
<1>8. [held[w] EXCEPT !.expires = until] = row'.state.lease
  BY <1>1, <1>2, <1>4, <1>6 DEF Lease
<1>9. row' # Null /\ row'.state.lease # Null
  BY <1>1, <1>7, Progress, NullAssumption
<1>10. held' = held \/ held' = [held EXCEPT ![w] = row'.state.lease]
  BY <1>1, <1>8
<1>11. held'[w] \in {held[w], row'.state.lease}
  BY <1>10 DEF TypeOK
<1>12. QED
  BY <1>1, <1>2, <1>3, <1>4, <1>7, <1>9, <1>10, <1>11

\* Without a stale write, the lease of the row stays the last one acquired.
LEMMA LeaseStep ==
  ASSUME TypeOK, TypeOK', CallInv, TokenInv, AbsentInv, LeaseInv, [Next]_vars, ~stale'
  PROVE  LeaseInv'
<1>0. /\ clock \in Nat /\ latest \in Nat /\ issued \in Nat /\ LeaseDuration \in Nat
      /\ latest <= clock /\ RowLeaseInv /\ \A v \in Worker : HolderOK(v)
  BY LeaseDurationAssumption DEF TypeOK, LeaseInv
<1>1. CASE UNCHANGED vars
  BY <1>1 DEF vars, LeaseInv, RowLeaseInv, HolderOK, Carried
<1>2. CASE Tick
  <2>1. UNCHANGED <<row, call, held, issued, latest>> /\ clock' = clock + 1
    BY <1>2 DEF Tick
  <2>2. \A v \in Worker : HolderOK(v)'
    BY <1>0, <2>1 DEF HolderOK, Carried
  <2>3. RowLeaseInv'
    <3>1. row # Null /\ row.state.lease # Null => row.state.lease.expires \in Nat
      BY DEF TypeOK, Row, State, Lease
    <3>2. QED
      BY <1>0, <2>1, <3>1 DEF RowLeaseInv
  <2>4. QED
    BY <1>0, <2>1, <2>2, <2>3 DEF LeaseInv
<1>3. ASSUME NEW w \in Worker, Create(w)
      PROVE  LeaseInv'
  <2>1. issued = 0 /\ \A v \in Worker : held[v] = Null /\ call[v].step = "idle"
    BY <1>3 DEF Create, AbsentInv, TokenInv
  <2>2. row'.state.recoveries = 0 /\ row'.state.lease = Null /\ row'.acquired = Null
    BY <1>3 DEF Create, InitialRow, InitialState
  <2>3. QED
    BY <1>0, <1>3, <2>1, <2>2 DEF Create, LeaseInv, RowLeaseInv, HolderOK
<1>4. ASSUME NEW w \in Worker, BeginInterrupt(w) \/ BeginAcquire(w) \/ Quit(w)
      PROVE  LeaseInv'
  <2>1. UNCHANGED <<row, held, clock, issued, latest>>
    BY <1>4 DEF BeginInterrupt, BeginAcquire, Quit
  <2>2. \A v \in Worker :
          call'[v] = call[v] \/ call'[v].step \notin {"persisting", "beating"}
    <3>1. CASE Quit(w)
      BY <3>1 DEF Quit, Idle, TypeOK
    <3>2. CASE BeginInterrupt(w) \/ BeginAcquire(w)
      BY <3>2 DEF BeginInterrupt, BeginAcquire, TypeOK, Call
    <3>3. QED
      BY <1>4, <3>1, <3>2
  <2>3. \A v \in Worker : HolderOK(v)'
    BY <1>0, <2>1, <2>2, HolderKept DEF HolderOK, Carried
  <2>4. QED
    BY <1>0, <2>1, <2>3 DEF LeaseInv, RowLeaseInv
<1>5. ASSUME NEW w \in Worker, BeginHeartbeat(w)
      PROVE  LeaseInv'
  <2>1. /\ UNCHANGED <<row, held, clock, issued, latest>>
        /\ call'[w].step = "beating" /\ call'[w].at = clock
        /\ \A v \in Worker \ {w} : call'[v] = call[v]
    BY <1>5 DEF BeginHeartbeat, TypeOK, Call
  <2>2. HolderOK(w)'
    BY <1>0, <2>1 DEF HolderOK, Carried, RowLeaseInv
  <2>3. \A v \in Worker : HolderOK(v)'
    BY <1>0, <2>1, <2>2 DEF HolderOK, Carried
  <2>4. QED
    BY <1>0, <2>1, <2>3 DEF LeaseInv, RowLeaseInv
<1>6. ASSUME NEW w \in Worker, NEW r, NEW h, Begin(w, r, h)
      PROVE  LeaseInv'
  <2>1. UNCHANGED <<row, held, clock, issued, latest>>
    BY <1>6 DEF Begin
  <2>2. /\ call'[w].request = r /\ call'[w].seen = row /\ call'[w].at = clock
        /\ call'[w].step = "persisting"
        /\ \A v \in Worker \ {w} : call'[v] = call[v]
        /\ r.withLease => held[w] # Null
        /\ row # Null
    BY <1>6 DEF Begin, Read, TypeOK
  <2>3. r.withLease /\ row.state.lease = Null => held[w].expires <= clock
    <3>1. SUFFICES ASSUME held[w] # Null, row.state.lease = Null
                   PROVE  held[w].expires <= clock
      BY <2>2
    <3>2. held[w].token # issued
      BY <1>0, <3>1 DEF HolderOK, Carried
    <3>3. held[w].expires <= latest /\ held[w].expires \in Nat
      BY <1>0, <3>1, <3>2 DEF HolderOK, TypeOK, Lease
    <3>4. QED
      BY <1>0, <3>3
  <2>4. \A v \in Worker : HolderOK(v)'
    BY <1>0, <2>1, <2>2, <2>3 DEF HolderOK, Carried
  <2>5. QED
    BY <1>0, <2>1, <2>4 DEF LeaseInv, RowLeaseInv
<1>7. ASSUME NEW w \in Worker, PersistTransition(w)
      PROVE  LeaseInv'
  <2>1. /\ row # Null /\ row \in Row
        /\ \/ row'.state.lease = row.state.lease
           \/ /\ held[w] # Null /\ held[w].token = issued /\ Carried(w)
              /\ row'.state.lease = held[w]
        /\ row'.acquired = row.acquired
        /\ CallersLeaveCount => row'.state.recoveries = row.state.recoveries
    BY <1>7, PersistKeepsLease
  <2>2. /\ UNCHANGED <<held, clock, issued, latest>>
        /\ \A v \in Worker \ {w} : call'[v] = call[v]
        /\ call'[w].step = "idle"
    BY <1>7 DEF PersistTransition, Idle, TypeOK
  <2>3. row' # Null
    BY <2>1, Progress
  <2>4. CASE row'.state.lease = row.state.lease
    <3>1. \A v \in Worker : HolderOK(v)'
      BY <1>0, <2>2, <2>3, <2>4, HolderKept
    <3>2. QED
      BY <1>0, <2>1, <2>2, <2>3, <2>4, <3>1 DEF LeaseInv, RowLeaseInv
  <2>5. CASE /\ held[w] # Null /\ held[w].token = issued /\ Carried(w)
             /\ row'.state.lease = held[w]
    <3>1. /\ held[w].owner = w /\ held[w] \in Lease
          /\ row.state.lease # Null /\ row.state.lease \in Lease
          /\ held[w].expires <= row.state.lease.expires
      BY <2>1, <2>5 DEF TokenInv, TypeOK, Carried, Row, State
    <3>2. held[w].expires <= clock + LeaseDuration
      BY <1>0, <2>1, <3>1 DEF RowLeaseInv, Lease
    <3>3. RowLeaseInv'
      BY <1>0, <2>1, <2>2, <2>3, <2>5, <3>1, <3>2 DEF RowLeaseInv
    <3>4. Carried(w)'
      BY <2>2, <2>3, <2>5, <3>1 DEF Carried, Lease
    <3>5. HolderOK(w)'
      BY <2>2, <2>5, <3>4 DEF HolderOK
    <3>6. \A v \in Worker : v # w => HolderOK(v)'
      BY <1>0, <2>2, <2>5, HolderKept, OneHolder
    <3>7. QED
      BY <1>0, <2>2, <3>3, <3>5, <3>6 DEF LeaseInv
  <2>6. QED
    BY <2>1, <2>4, <2>5
<1>8. ASSUME NEW w \in Worker, AcquireLease(w)
      PROVE  LeaseInv'
  <2> DEFINE at == call[w].at
  <2>1. /\ row # Null /\ row \in Row /\ at \in Nat /\ at <= clock
        /\ row'.state.recoveries = row.state.recoveries + 1
        /\ row'.state.lease \in Lease
        /\ row'.state.lease # Null
        /\ row'.acquired = at
        /\ row'.acquired # Null
    BY <1>8, AcquiredFacts, NullAssumption
  <2>2. row'.state.lease.token = issued + 1 /\ row'.state.lease.expires = at + LeaseDuration
    <3>1. row'.state.lease = [owner |-> w, token |-> issued + 1, expires |-> at + LeaseDuration]
      BY <1>8, AcquiredFacts
    <3>2. QED
      BY <3>1
  <2>3. call'[w].step = "sealing"
    BY <1>8, AcquiredFacts
  <2>4. /\ UNCHANGED <<held, clock>>
        /\ issued' = issued + 1 /\ latest' = at
        /\ at >= latest
        /\ row.state.lease # Null => row.state.lease.expires <= at
        /\ \A v \in Worker \ {w} : call'[v] = call[v]
    <3>1. ~(at < latest)
      BY <1>8 DEF AcquireLease
    <3>2. at >= latest
      BY <1>0, <2>1, <3>1
    <3>3. QED
      BY <1>8, <3>2 DEF AcquireLease, Acquirable, LeaseFree, TypeOK
  <2>5. ASSUME NEW v \in Worker, held[v] # Null
        PROVE  held[v].token # issued + 1 /\ held[v].expires <= at
    <3>1. held[v] \in Lease /\ held[v].token \in 1..issued /\ held[v].expires \in Nat
      BY <2>5 DEF TokenInv, TypeOK, Lease
    <3>2. held[v].expires <= at
      <4>1. CASE held[v].token = issued
        <5>1. row.state.lease # Null /\ held[v].expires <= row.state.lease.expires
          BY <1>0, <2>5, <4>1 DEF HolderOK, Carried
        <5>2. row.state.lease.expires \in Nat
          BY <2>1, <5>1 DEF Row, State, Lease
        <5>3. QED
          BY <2>1, <2>4, <3>1, <5>1, <5>2
      <4>2. CASE held[v].token # issued
        BY <1>0, <2>1, <2>4, <2>5, <3>1, <4>2 DEF HolderOK
      <4>3. QED
        BY <4>1, <4>2
    <3>3. QED
      BY <1>0, <3>1, <3>2
  <2>6. \A v \in Worker : HolderOK(v)'
    BY <1>0, <2>3, <2>4, <2>5 DEF HolderOK
  <2>7. RowLeaseInv'
    BY <1>0, <2>1, <2>2, <2>4 DEF RowLeaseInv, CallersLeaveCount
  <2>8. QED
    BY <2>1, <2>4, <2>6, <2>7 DEF LeaseInv
<1>9. ASSUME NEW w \in Worker, SealLease(w)
      PROVE  LeaseInv'
  <2>1. /\ row = call[w].seen /\ row # Null /\ row \in Row
        /\ row'.state = row.state /\ row'.acquired = row.acquired
        /\ row.state.lease # Null
        /\ row.state.lease.owner = w
    <3>1. row = call[w].seen
      BY <1>9 DEF SealLease
    <3>2. row # Null /\ row \in Row /\ row.state.lease # Null /\ row.state.lease.owner = w
      BY <1>9, <3>1 DEF SealLease, CallInv, CallOK, TypeOK
    <3>3. row'.state = row.state /\ row'.acquired = row.acquired
      BY <1>9, <3>2 DEF SealLease, Row
    <3>4. QED
      BY <3>1, <3>2, <3>3
  <2>2. /\ held'[w] \in {held[w], row.state.lease}
        /\ \A v \in Worker \ {w} : held'[v] = held[v] /\ call'[v] = call[v]
        /\ call'[w].step = "idle"
        /\ UNCHANGED <<clock, issued, latest>>
    BY <1>9, <2>1 DEF SealLease, Idle, TypeOK
  <2>3. row' # Null
    BY <2>1, Progress
  <2>4. \A v \in Worker : held'[v] = held[v] => HolderOK(v)'
    BY <1>0, <2>1, <2>2, <2>3, HolderKept
  <2>5. held'[w] = row.state.lease => HolderOK(w)'
    <3>1. row.state.lease.token = issued /\ row.state.lease.expires \in Nat
      BY <1>0, <2>1 DEF RowLeaseInv, Row, State, Lease
    <3>2. QED
      BY <2>1, <2>2, <2>3, <3>1 DEF HolderOK, Carried
  <2>6. \A v \in Worker : HolderOK(v)'
    BY <2>2, <2>4, <2>5
  <2>7. QED
    BY <1>0, <2>1, <2>2, <2>3, <2>6 DEF LeaseInv, RowLeaseInv
<1>10. ASSUME NEW w \in Worker, Heartbeat(w)
       PROVE  LeaseInv'
  <2> DEFINE until == call[w].at + LeaseDuration
  <2>1. /\ call[w].at \in Nat /\ call[w].at <= clock /\ until \in Nat
        /\ UNCHANGED <<clock, issued, latest>>
    BY <1>0, <1>10 DEF Heartbeat, CallInv, CallOK, TypeOK, Call
  <2>2. /\ held[w].token = issued
        /\ row'.state.lease # Null
        /\ row'.state.lease.owner = w /\ row'.state.lease.token = issued
        /\ row'.state.lease.expires = until
        /\ row'.state.recoveries = row.state.recoveries
        /\ row'.acquired = row.acquired
        /\ row # Null /\ row' # Null
        /\ row.state.lease # Null
        /\ held[w] # Null
        /\ held'[w] \in {held[w], row'.state.lease}
    BY <1>10, BeatenRow
  <2>3. /\ \A v \in Worker \ {w} : held'[v] = held[v] /\ call'[v] = call[v]
        /\ call'[w].step = "idle"
    BY <1>10 DEF Heartbeat, Idle, TypeOK
  <2>4. held[w].expires <= until
    <3>1. /\ held[w].expires <= row.state.lease.expires
          /\ row.state.lease.expires <= until
      BY <1>0, <1>10, <2>2 DEF HolderOK, Carried, Heartbeat
    <3>2. held[w].expires \in Nat /\ row.state.lease.expires \in Nat
      BY <2>2 DEF TypeOK, Row, State, Lease
    <3>3. QED
      BY <2>1, <3>1, <3>2
  <2>5. HolderOK(w)'
    BY <2>1, <2>2, <2>3, <2>4 DEF HolderOK, Carried
  <2>6. \A v \in Worker : v # w => HolderOK(v)'
    BY <1>0, <2>1, <2>2, <2>3, HolderKept, OneHolder
  <2>7. RowLeaseInv'
    BY <1>0, <2>1, <2>2 DEF RowLeaseInv, CallersLeaveCount
  <2>8. QED
    BY <1>0, <2>1, <2>5, <2>6, <2>7 DEF LeaseInv
<1>11. ASSUME NEW w \in Worker, Release(w)
       PROVE  LeaseInv'
  <2>1. /\ held[w] # Null /\ held'[w] = Null
        /\ \A v \in Worker \ {w} : held'[v] = held[v]
        /\ UNCHANGED <<call, clock, issued, latest>>
        /\ call[w].step = "idle"
    BY <1>11 DEF Release, TypeOK, Idle
  <2>2. row # Null /\ row \in Row
    BY <2>1 DEF TokenInv, AbsentInv, TypeOK
  <2>3. HolderOK(w)'
    BY <2>1 DEF HolderOK
  <2>4. CASE ~Owns(held[w])
    <3>1. row' = row
      BY <1>11, <2>4 DEF Release
    <3>2. \A v \in Worker : HolderOK(v)'
      BY <1>0, <2>1, <2>3, <3>1 DEF HolderOK, Carried
    <3>3. QED
      BY <1>0, <2>1, <3>1, <3>2 DEF LeaseInv, RowLeaseInv
  <2>5. CASE Owns(held[w])
    <3>1. row' = [row EXCEPT !.state = Unleased(row.state), !.acquired = Null]
      BY <1>11, <2>5 DEF Release
    <3>2. /\ row'.state.lease = Null /\ row'.acquired = Null
          /\ row'.state.recoveries = row.state.recoveries
      BY <2>2, <3>1 DEF Unleased, Row, State
    <3>3. held[w].token = issued
      BY <1>0, <2>2, <2>5 DEF Owns, RowLeaseInv
    <3>4. \A v \in Worker : v # w => HolderOK(v)'
      BY <1>0, <2>1, <3>3, HolderKept, OneHolder
    <3>5. RowLeaseInv'
      BY <1>0, <2>1, <2>2, <3>2 DEF RowLeaseInv, CallersLeaveCount
    <3>6. QED
      BY <1>0, <2>1, <2>3, <3>4, <3>5 DEF LeaseInv
  <2>6. QED
    BY <2>4, <2>5
<1>12. ASSUME NEW w \in Worker, Crash(w)
       PROVE  LeaseInv'
  <2>1. /\ held'[w] = Null /\ call'[w].step = "idle"
        /\ \A v \in Worker \ {w} : held'[v] = held[v] /\ call'[v] = call[v]
        /\ UNCHANGED <<row, clock, issued, latest>>
    BY <1>12 DEF Crash, Idle, TypeOK
  <2>2. \A v \in Worker : HolderOK(v)'
    BY <1>0, <2>1 DEF HolderOK, Carried
  <2>3. QED
    BY <1>0, <2>1, <2>2 DEF LeaseInv, RowLeaseInv
<1>13. QED
  BY StepCases, <1>1, <1>2, <1>3, <1>4, <1>5, <1>6, <1>7, <1>8, <1>9, <1>10, <1>11, <1>12

-----------------------------------------------------------------------------
\* What a write does to the status and the evidence of the row.
LEMMA RowStep ==
  ASSUME TypeOK, TypeOK', CallInv, TokenInv, AbsentInv, LeaseInv, [Next]_vars,
         ~stale', row # Null
  PROVE  \/ row' = row
         \/ /\ row'.state.status \in AllowedTransitions[row.state.status]
            /\ row'.hashed = row'.state
            /\ row'.chain = Append(row.chain, row'.state.status)
         \/ /\ row.state.status \in Recoverable
            /\ row'.state.status = "RECOVERING"
            /\ row'.chain \in {row.chain, Append(row.chain, "RECOVERING")}
         \/ /\ row'.state.status = row.state.status
            /\ Unleased(row'.state) = Unleased(row.state)
            /\ row'.hashed = row.hashed /\ row'.chain = row.chain
<1>0. row \in Row /\ row.state \in State
  BY DEF TypeOK, Row
<1>1. CASE UNCHANGED vars \/ Tick
  BY <1>1 DEF vars, Tick
<1>2. ASSUME NEW w \in Worker,
             Create(w) \/ BeginInterrupt(w) \/ BeginAcquire(w) \/ BeginHeartbeat(w)
               \/ Quit(w) \/ Crash(w) \/ (\E r, h : Begin(w, r, h))
      PROVE  row' = row
  BY <1>2 DEF Create, BeginInterrupt, BeginAcquire, BeginHeartbeat, Quit, Crash, Begin
<1>3. ASSUME NEW w \in Worker, PersistTransition(w)
      PROVE  /\ row'.state.status \in AllowedTransitions[row.state.status]
             /\ row'.hashed = row'.state
             /\ row'.chain = Append(row.chain, row'.state.status)
  BY <1>3, PersistKeepsLease
<1>4. ASSUME NEW w \in Worker, AcquireLease(w)
      PROVE  /\ row.state.status \in Recoverable
             /\ row'.state.status = "RECOVERING"
             /\ row'.chain = row.chain
  <2>1. row.state.status \in Recoverable
    BY <1>4 DEF AcquireLease, Acquirable, Recoverable
  <2>2. row' = Acquired(w, call[w].at) /\ row'.state.status = "RECOVERING"
    BY <1>4, AcquiredFacts
  <2>3. row'.chain = row.chain
    BY <1>0, <2>2 DEF Acquired, Row
  <2>4. QED
    BY <2>1, <2>2, <2>3
<1>5. ASSUME NEW w \in Worker, SealLease(w)
      PROVE  /\ row.state.status \in Recoverable
             /\ row'.state.status = "RECOVERING"
             /\ row'.chain = Append(row.chain, "RECOVERING")
  <2>1. row = call[w].seen
    BY <1>5 DEF SealLease
  <2>2. row.state.status = "RECOVERING"
    BY <1>5, <2>1 DEF SealLease, CallInv, CallOK
  <2>3. row'.state = row.state /\ row'.chain = Append(row.chain, "RECOVERING")
    BY <1>0, <1>5, <2>1 DEF SealLease, Row
  <2>4. QED
    BY <2>2, <2>3 DEF Recoverable
<1>6. ASSUME NEW w \in Worker, Heartbeat(w)
      PROVE  /\ row.state.status \in Recoverable
             /\ row'.state.status = "RECOVERING"
             /\ row'.chain = row.chain
  <2> DEFINE until == call[w].at + LeaseDuration
  <2>1. row.state.status = "RECOVERING"
        /\ row' = [row EXCEPT !.state = Beaten(call[w].at, until)]
    BY <1>6 DEF Heartbeat, CanBeat
  <2>2. row'.state = Beaten(call[w].at, until) /\ row'.chain = row.chain
    BY <1>0, <2>1 DEF Row
  <2>3. row'.state.status = row.state.status
    BY <1>0, <2>2 DEF Beaten, State
  <2>4. QED
    BY <2>1, <2>2, <2>3 DEF Recoverable
<1>7. ASSUME NEW w \in Worker, Release(w), row' # row
      PROVE  /\ row'.state.status = row.state.status
             /\ Unleased(row'.state) = Unleased(row.state)
             /\ row'.hashed = row.hashed /\ row'.chain = row.chain
  <2>1. row' = [row EXCEPT !.state = Unleased(row.state), !.acquired = Null]
    BY <1>7 DEF Release
  <2>2. row'.state = Unleased(row.state) /\ row'.hashed = row.hashed /\ row'.chain = row.chain
    BY <1>0, <2>1 DEF Row
  <2>3. row'.state.status = row.state.status
    BY <1>0, <2>2 DEF Unleased, State
  <2>4. Unleased(row'.state) = Unleased(row.state)
    BY <1>0, <2>2 DEF Unleased, State
  <2>5. QED
    BY <2>2, <2>3, <2>4
<1>8. QED
  BY StepCases, <1>1, <1>2, <1>3, <1>4, <1>5, <1>6, <1>7

\* Without a stale write, the evidence of the row stays sealed.
LEMMA EvidenceStep ==
  ASSUME TypeOK, TypeOK', CallInv, TokenInv, AbsentInv, LeaseInv, EvidenceSealed,
         [Next]_vars, ~stale, ~stale'
  PROVE  EvidenceSealed'
<1>1. CASE row = Null
  <2>1. CASE row' = Null
    BY <2>1 DEF EvidenceSealed
  <2>2. CASE row' # Null
    <3>1. \A w \in Worker : call[w].step = "idle" /\ held[w] = Null
      BY <1>1 DEF AbsentInv, TokenInv
    <3>2. row' = InitialRow
      BY <1>1, <2>2, <3>1, StepCases
         DEF vars, Create, BeginInterrupt, Begin, Read, PersistTransition, BeginAcquire,
             AcquireLease, SealLease, BeginHeartbeat, Heartbeat, Release, Quit, Crash, Tick
    <3>3. QED
      BY <3>2 DEF EvidenceSealed, InitialRow, InitialState
  <2>3. QED
    BY <2>1, <2>2
<1>2. CASE row # Null
  <2>1. row \in Row /\ row.chain \in Seq(Status) /\ row' # Null
    BY <1>2, Progress DEF TypeOK, Row
  <2>2. CASE row' = row
    BY <2>2 DEF EvidenceSealed
  <2>3. CASE /\ row'.hashed = row'.state
             /\ row'.chain = Append(row.chain, row'.state.status)
    <3>1. row'.state.status \in Status
      BY <2>1 DEF TypeOK, Row, State
    <3>2. row'.chain[Len(row'.chain)] = row'.state.status
      BY <2>1, <2>3, <3>1
    <3>3. QED
      BY <2>3, <3>2 DEF EvidenceSealed
  <2>4. CASE row'.state.status = "RECOVERING"
    BY <2>4 DEF EvidenceSealed
  <2>5. CASE /\ row'.state.status = row.state.status
             /\ Unleased(row'.state) = Unleased(row.state)
             /\ row'.hashed = row.hashed /\ row'.chain = row.chain
    BY <1>2, <2>5 DEF EvidenceSealed
  <2>6. QED
    BY <1>2, <2>2, <2>3, <2>4, <2>5, RowStep
<1>3. QED
  BY <1>1, <1>2

\* A lawful chain grows by a status that may follow its last one.
LEMMA LawfulAppend ==
  ASSUME NEW c \in Seq(Status), c # << >>, NEW t \in Status,
         \A i \in 1..(Len(c) - 1) : Lawful(c[i], c[i + 1]),
         Lawful(c[Len(c)], t)
  PROVE  /\ Append(c, t) # << >>
         /\ Append(c, t)[1] = c[1]
         /\ Append(c, t)[Len(Append(c, t))] = t
         /\ \A i \in 1..(Len(Append(c, t)) - 1) :
              Lawful(Append(c, t)[i], Append(c, t)[i + 1])
<1> DEFINE d == Append(c, t)
<1>1. /\ Len(c) \in Nat \ {0}
      /\ Len(d) = Len(c) + 1
      /\ d[Len(c) + 1] = t
      /\ \A i \in 1..Len(c) : d[i] = c[i]
  OBVIOUS
<1>2. d # << >> /\ d[1] = c[1] /\ d[Len(d)] = t
  BY <1>1
<1>3. ASSUME NEW i \in 1..(Len(d) - 1)
      PROVE  Lawful(d[i], d[i + 1])
  <2>1. CASE i = Len(c)
    BY <1>1, <2>1
  <2>2. CASE i # Len(c)
    <3>1. i \in 1..(Len(c) - 1) /\ d[i] = c[i] /\ d[i + 1] = c[i + 1]
      BY <1>1, <2>2
    <3>2. QED
      BY <3>1
  <2>3. QED
    BY <2>1, <2>2
<1>4. QED
  BY <1>2, <1>3

\* Without a stale write, the chain stays lawful.
LEMMA ChainStep ==
  ASSUME TypeOK, TypeOK', CallInv, TokenInv, AbsentInv, LeaseInv, ChainInv,
         [Next]_vars, ~stale'
  PROVE  ChainInv'
<1> DEFINE last == row.chain[Len(row.chain)]
<1>1. CASE row = Null
  <2>1. row' \in {Null, InitialRow}
    <3>1. \A w \in Worker : call[w].step = "idle" /\ held[w] = Null
      BY <1>1 DEF AbsentInv, TokenInv
    <3>2. QED
      BY <1>1, <3>1, StepCases
         DEF vars, Create, BeginInterrupt, Begin, Read, PersistTransition, BeginAcquire,
             AcquireLease, SealLease, BeginHeartbeat, Heartbeat, Release, Quit, Crash, Tick
  <2>2. QED
    BY <2>1 DEF ChainInv, InitialRow, InitialState
<1>2. CASE row # Null
  <2>1. /\ row \in Row /\ row.chain \in Seq(Status) /\ row' # Null
        /\ row.state.status \in Status /\ row'.state.status \in Status
    BY <1>2, Progress DEF TypeOK, Row, State
  <2>2. /\ row.chain # << >>
        /\ row.chain[1] = "NEW"
        /\ \A i \in 1..(Len(row.chain) - 1) : Lawful(row.chain[i], row.chain[i + 1])
        /\ \/ last = row.state.status
           \/ row.state.status = "RECOVERING" /\ last \in Recoverable
    BY <1>2 DEF ChainInv
  <2>3. ASSUME row'.chain = Append(row.chain, row'.state.status),
               Lawful(last, row'.state.status)
        PROVE  ChainInv'
    BY <2>1, <2>2, <2>3, LawfulAppend DEF ChainInv
  <2>4. CASE row' = row
    BY <2>4 DEF ChainInv
  <2>5. CASE /\ row'.state.status \in AllowedTransitions[row.state.status]
             /\ row'.chain = Append(row.chain, row'.state.status)
    <3>1. Lawful(last, row'.state.status)
      BY <2>2, <2>5 DEF Lawful, Recoverable
    <3>2. QED
      BY <2>3, <2>5, <3>1
  <2>6. CASE /\ row.state.status \in Recoverable
             /\ row'.state.status = "RECOVERING"
             /\ row'.chain \in {row.chain, Append(row.chain, "RECOVERING")}
    <3>1. last \in Recoverable /\ Lawful(last, row'.state.status)
      BY <2>2, <2>6 DEF Lawful, Recoverable
    <3>2. CASE row'.chain = row.chain
      BY <2>1, <2>2, <2>6, <3>1, <3>2 DEF ChainInv
    <3>3. QED
      BY <2>3, <2>6, <3>1, <3>2
  <2>7. CASE row'.state.status = row.state.status /\ row'.chain = row.chain
    BY <2>1, <2>2, <2>7 DEF ChainInv
  <2>8. QED
    BY <1>2, <2>4, <2>5, <2>6, <2>7, RowStep
<1>3. QED
  BY <1>1, <1>2

\* IInv is an inductive invariant of the specification.
THEOREM Inductive == Spec => []IInv
<1>1. Init => IInv
  <2>1. ASSUME Init
        PROVE  IInv
    <3>1. TypeOK
      BY <2>1, InitialTypes DEF Init, TypeOK
    <3>2. CallInv
      BY <2>1 DEF Init, CallInv, CallOK, Idle
    <3>3. TokenInv /\ AbsentInv
      BY <2>1 DEF Init, TokenInv, AbsentInv, Idle
    <3>4. LeaseInv /\ EvidenceSealed /\ ChainInv
      BY <2>1 DEF Init, LeaseInv, RowLeaseInv, HolderOK, EvidenceSealed, ChainInv, Idle
    <3>5. QED
      BY <3>1, <3>2, <3>3, <3>4 DEF IInv
  <2>2. QED
    BY <2>1
<1>2. IInv /\ [Next]_vars => IInv'
  <2>1. ASSUME IInv, [Next]_vars
        PROVE  IInv'
    <3>1. TypeOK /\ CallInv /\ TokenInv /\ AbsentInv
      BY <2>1 DEF IInv
    <3>2. TypeOK'
      BY <2>1, <3>1, TypeStep
    <3>3. CallInv' /\ TokenInv' /\ AbsentInv'
      BY <2>1, <3>1, <3>2, CallStep, TokenStep, AbsentStep
    <3>4. ASSUME ~stale'
          PROVE  LeaseInv' /\ EvidenceSealed' /\ ChainInv'
      <4>1. ~stale /\ LeaseInv /\ EvidenceSealed /\ ChainInv
        BY <2>1, <3>1, <3>4, StaleStep DEF IInv
      <4>2. QED
        BY <2>1, <3>1, <3>2, <3>4, <4>1, LeaseStep, EvidenceStep, ChainStep
    <3>5. QED
      BY <3>2, <3>3, <3>4 DEF IInv
  <2>2. QED
    BY <2>1
<1>3. QED
  BY <1>1, <1>2, PTL DEF Spec

\* Every reachable state of the row, of the calls in progress and of the leases
\* held is well typed.
THEOREM TypeCorrect == Spec => []TypeOK
<1>1. IInv => TypeOK
  BY DEF IInv
<1>2. QED
  BY <1>1, Inductive, PTL

\* Two workers never own the recovery at the same time, for any number of
\* workers, whatever the order of crashes, expiries, heartbeats and takeovers.
THEOREM RecoveryIsExclusive == Spec => []ExclusiveRecovery
<1>1. IInv => ExclusiveRecovery
  <2>1. SUFFICES ASSUME IInv, ~stale, NEW v \in Worker, NEW w \in Worker,
                        LeaseLive(v), LeaseLive(w)
                 PROVE  v = w
    BY DEF ExclusiveRecovery
  <2>2. ASSUME NEW u \in Worker, LeaseLive(u)
        PROVE  row.state.lease.owner = u
    <3>1. held[u] # Null /\ held[u].expires > clock /\ held[u] \in Lease
      BY <2>1, <2>2 DEF LeaseLive, IInv, TypeOK
    <3>2. latest <= clock /\ latest \in Nat /\ clock \in Nat /\ held[u].expires \in Nat
      BY <2>1, <3>1 DEF IInv, LeaseInv, TypeOK, Lease
    <3>3. ~(held[u].expires <= latest)
      BY <3>1, <3>2
    <3>4. held[u].token = issued
      BY <2>1, <3>1, <3>3 DEF IInv, LeaseInv, HolderOK
    <3>5. QED
      BY <2>1, <3>1, <3>4 DEF IInv, LeaseInv, HolderOK, Carried
  <2>3. QED
    BY <2>1, <2>2
<1>2. QED
  BY <1>1, Inductive, PTL

\* The row only ever carries the last lease acquired: the holder of an older
\* token cannot put its own back.
THEOREM TokenFences == Spec => []FencingToken
<1>1. IInv => FencingToken
  BY DEF IInv, LeaseInv, RowLeaseInv, FencingToken
<1>2. QED
  BY <1>1, Inductive, PTL

\* recovery_count is the number of leases acquired, if no caller names a count.
THEOREM RecoveriesCounted == Spec => []RecoveryCountExact
<1>1. IInv => RecoveryCountExact
  BY DEF IInv, LeaseInv, RowLeaseInv, RecoveryCountExact
<1>2. QED
  BY <1>1, Inductive, PTL

\* state_hash and chain_hash are those of the row, its lease apart, whenever the
\* row is not in recovery.
THEOREM EvidenceIsSealed == Spec => []EvidenceSealed
<1>1. IInv => EvidenceSealed
  BY DEF IInv, EvidenceSealed
<1>2. QED
  BY <1>1, Inductive, PTL

\* The chain replays a lawful life of the operation, however many workers wrote it.
THEOREM ChainStaysLawful == Spec => []ChainIsLawful
<1>1. IInv => ChainIsLawful
  BY DEF IInv, ChainInv, ChainIsLawful
<1>2. QED
  BY <1>1, Inductive, PTL

\* No step that follows no stale write leaves a terminal status.
LEMMA EvidenceActions ==
  ASSUME IInv, IInv', [Next]_vars, row # Null, ~stale'
  PROVE  Terminal(row.state.status) => row'.state.status = row.state.status
<1>1. TypeOK /\ TypeOK' /\ CallInv /\ TokenInv /\ AbsentInv
  BY DEF IInv
<1>2. LeaseInv
  BY <1>1, StaleStep DEF IInv
<1>3. row.state.status \in Status /\ "RECOVERING" \in Status
  BY <1>1 DEF TypeOK, Row, State, Status
<1>4. QED
  BY <1>1, <1>2, <1>3, RowStep, NoneFollows DEF Recoverable, Terminal

\* A completed or failed operation stays so.
THEOREM TerminalStays == Spec => TerminalIsFinal
<1>1. IInv /\ IInv' /\ [Next]_vars
        => [row # Null /\ Terminal(row.state.status) /\ ~stale'
              => row'.state.status = row.state.status]_vars
  BY EvidenceActions
<1>2. QED
  BY <1>1, Inductive, PTL DEF Spec, TerminalIsFinal

-----------------------------------------------------------------------------
\* The lease columns stay as they were.
LEMMA LeaseStutter ==
  ASSUME UNCHANGED <<held, issued, clock>>, Standing' = Standing
  PROVE  [Ownership!Next]_(Ownership!vars)
BY DEF Ownership!vars

\* Each step but a stale write is a step of the lease, or leaves it alone: a read
\* leaves it, a transition leaves it or puts it back, the first UPDATE of an
\* acquisition grants it, the seal tells it to its owner, a heartbeat extends it, a
\* release or crash drops it.
LEMMA LeaseRefines ==
  ASSUME TypeOK, TypeOK', CallInv, TokenInv, AbsentInv, LeaseInv, [Next]_vars, ~stale'
  PROVE  [Ownership!Next]_(Ownership!vars)
<1>1. CASE UNCHANGED vars
  BY <1>1, LeaseStutter DEF vars, Standing
<1>2. CASE Tick
  <2>1. Ownership!Tick
    BY <1>2 DEF Tick, Ownership!Tick, Standing
  <2>2. QED
    BY <2>1 DEF Ownership!Next
<1>3. ASSUME NEW w \in Worker, Create(w)
      PROVE  [Ownership!Next]_(Ownership!vars)
  <2>1. Standing = Null /\ Standing' = Null
    BY <1>3 DEF Create, Standing, InitialRow, InitialState
  <2>2. QED
    BY <1>3, <2>1, LeaseStutter DEF Create
<1>4. ASSUME NEW w \in Worker,
             BeginInterrupt(w) \/ BeginAcquire(w) \/ BeginHeartbeat(w) \/ Quit(w)
               \/ (\E r, h : Begin(w, r, h))
      PROVE  [Ownership!Next]_(Ownership!vars)
  <2>1. UNCHANGED <<row, held, issued, clock>>
    BY <1>4 DEF BeginInterrupt, BeginAcquire, BeginHeartbeat, Quit, Begin
  <2>2. QED
    BY <2>1, LeaseStutter DEF Standing
<1>5. ASSUME NEW w \in Worker, PersistTransition(w)
      PROVE  [Ownership!Next]_(Ownership!vars)
  <2>1. /\ row # Null /\ row' # Null
        /\ \/ row'.state.lease = row.state.lease
           \/ held[w] # Null /\ Carried(w) /\ held[w].token = issued /\ row'.state.lease = held[w]
        /\ UNCHANGED <<held, issued, clock>>
    BY <1>5, PersistKeepsLease, RowAssumption DEF PersistTransition
  <2>2. CASE row'.state.lease = row.state.lease
    BY <2>1, <2>2, LeaseStutter DEF Standing
  <2>3. CASE /\ held[w] # Null /\ Carried(w) /\ held[w].token = issued
             /\ row'.state.lease = held[w]
    <3>1. Ownership!PutBack(w)
      BY <2>1, <2>3 DEF Ownership!PutBack, Ownership!Holds, Standing, Carried
    <3>2. QED
      BY <3>1 DEF Ownership!Next
  <2>4. QED
    BY <2>1, <2>2, <2>3
<1>6. ASSUME NEW w \in Worker, AcquireLease(w)
      PROVE  Ownership!Next
  <2> DEFINE at == call[w].at
  <2>1. row # Null /\ row' # Null /\ at \in 0..clock
    <3>1. row # Null /\ at \in Nat /\ at <= clock
      BY <1>6, AcquiredFacts
    <3>2. QED
      BY <3>1, Progress DEF TypeOK
  <2>2. Standing' = [owner |-> w, token |-> issued + 1, expires |-> at + LeaseDuration]
    BY <1>6, <2>1, AcquiredFacts DEF Standing
  <2>3. Standing # Null => Standing.expires <= at
    BY <1>6, <2>1 DEF AcquireLease, Acquirable, LeaseFree, Standing
  <2>4. issued' = issued + 1 /\ UNCHANGED <<held, clock>>
    BY <1>6 DEF AcquireLease
  <2>5. Ownership!Grant(w)
    BY <2>1, <2>2, <2>3, <2>4 DEF Ownership!Grant
  <2>6. QED
    BY <2>5 DEF Ownership!Next
<1>7. ASSUME NEW w \in Worker, SealLease(w)
      PROVE  [Ownership!Next]_(Ownership!vars)
  <2>1. row = call[w].seen /\ row # Null /\ row \in Row /\ row' # Null
    BY <1>7, Progress DEF SealLease, CallInv, CallOK, TypeOK
  <2>2. row'.state = row.state
    BY <1>7, <2>1 DEF SealLease, Row
  <2>3. Standing' = Standing /\ Standing = row.state.lease
    BY <2>1, <2>2 DEF Standing
  <2>4. Standing # Null /\ Standing.owner = w
    BY <1>7, <2>1, <2>3 DEF SealLease, CallInv, CallOK
  <2>5. /\ held' = [held EXCEPT ![w] = Standing] \/ held' = held
        /\ UNCHANGED <<issued, clock>>
    BY <1>7, <2>1, <2>3 DEF SealLease
  <2>6. CASE held' = held
    BY <2>3, <2>5, <2>6, LeaseStutter
  <2>7. CASE held' = [held EXCEPT ![w] = Standing]
    <3>1. Ownership!Learn(w)
      BY <2>3, <2>4, <2>5, <2>7 DEF Ownership!Learn
    <3>2. QED
      BY <3>1 DEF Ownership!Next
  <2>8. QED
    BY <2>5, <2>6, <2>7
<1>8. ASSUME NEW w \in Worker, Heartbeat(w)
      PROVE  Ownership!Next
  <2> DEFINE at == call[w].at
  <2>1. /\ held[w].token = issued /\ held[w] # Null
        /\ row # Null /\ row' # Null /\ row.state.lease # Null
        /\ row'.state.lease = [row.state.lease EXCEPT !.expires = at + LeaseDuration]
        /\ held' = held \/ held' = [held EXCEPT ![w] = row'.state.lease]
    BY <1>8, BeatenRow
  <2>2. /\ Carried(w) /\ row.state.lease.expires <= at + LeaseDuration
        /\ row.state.lease.expires > at
        /\ UNCHANGED <<issued, clock>>
    BY <1>8, <2>1 DEF LeaseInv, HolderOK, Heartbeat, CanBeat
  <2>3. held[w].expires <= at + LeaseDuration
    <3>1. held[w].expires \in Nat /\ row.state.lease.expires \in Nat /\ at \in Nat
      BY <2>1 DEF TypeOK, Row, State, Lease, Call
    <3>2. QED
      BY <2>2, <3>1, LeaseDurationAssumption DEF Carried
  <2>4. Standing = row.state.lease /\ Standing' = row'.state.lease
    BY <2>1 DEF Standing
  <2>5. at \in 0..clock
    BY DEF CallInv, CallOK, TypeOK, Call
  <2>6. Ownership!Holds(w)
    BY <2>1, <2>2, <2>4 DEF Ownership!Holds, Carried
  <2>7. Ownership!Extend(w)
    BY <2>1, <2>2, <2>3, <2>4, <2>5, <2>6 DEF Ownership!Extend
  <2>8. QED
    BY <2>7 DEF Ownership!Next
<1>9. ASSUME NEW w \in Worker, Release(w)
      PROVE  Ownership!Next
  <2>1. /\ held[w] # Null /\ held' = [held EXCEPT ![w] = Null]
        /\ UNCHANGED <<clock, issued>>
    BY <1>9 DEF Release
  <2>2. row # Null /\ row \in Row /\ row' # Null
    BY <2>1, Progress DEF TokenInv, AbsentInv, TypeOK
  <2>3. CASE ~Owns(held[w])
    <3>1. Standing' = Standing
      BY <1>9, <2>3 DEF Release, Standing
    <3>2. QED
      BY <2>1, <3>1 DEF Ownership!Drop, Ownership!Next
  <2>4. CASE Owns(held[w])
    <3>1. row' = [row EXCEPT !.state = Unleased(row.state), !.acquired = Null]
      BY <1>9, <2>4 DEF Release
    <3>2. row'.state.lease = Null
      BY <2>2, <3>1 DEF Unleased, Row, State
    <3>3. held[w].owner = w
      BY <2>1 DEF TokenInv
    <3>4. Ownership!Holds(w) /\ Standing' = Null
      BY <2>1, <2>2, <2>4, <3>2, <3>3 DEF Owns, Ownership!Holds, Standing
    <3>5. QED
      BY <2>1, <3>4 DEF Ownership!Drop, Ownership!Next
  <2>5. QED
    BY <2>3, <2>4
<1>10. ASSUME NEW w \in Worker, Crash(w)
       PROVE  Ownership!Next
  BY <1>10 DEF Crash, Standing, Ownership!Drop, Ownership!Next
<1>11. QED
  BY StepCases, <1>1, <1>2, <1>3, <1>4, <1>5, <1>6, <1>7, <1>8, <1>9, <1>10

\* The refinement, step by step.
LEMMA OwnershipStep ==
  ASSUME IInv, IInv', [Next]_vars, ~stale'
  PROVE  [Ownership!Next]_(Ownership!vars)
<1>1. TypeOK /\ TypeOK' /\ CallInv /\ TokenInv /\ AbsentInv
  BY DEF IInv
<1>2. LeaseInv
  BY <1>1, StaleStep DEF IInv
<1>3. QED
  BY <1>1, <1>2, LeaseRefines

LEMMA OwnershipInit == Init => Ownership!Init
BY DEF Init, Ownership!Init, Standing

\* Whatever is written to the row, its lease columns implement RecoveryLease until
\* a write is stale.
THEOREM RowImplementsLease == Spec => ImplementsLease
<1>1. IInv /\ IInv' /\ [Next]_vars => [Ownership!Next \/ stale']_(Ownership!vars)
  BY OwnershipStep
<1>2. QED
  BY OwnershipInit, <1>1, Inductive, PTL DEF Spec, ImplementsLease

\* The lease again, with what is proved of it.
LeaseProved == INSTANCE RecoveryLease_proofs WITH
  Duration <- LeaseDuration, lease <- Standing, believed <- held, granted <- issued

\* Both instances are of one module under one mapping.
LEMMA SameLease ==
  /\ Ownership!Init => LeaseProved!Init
  /\ [Ownership!Next]_(Ownership!vars) => [LeaseProved!Next]_(LeaseProved!vars)
  /\ LeaseProved!LiveStands => Ownership!LiveStands
BY DEF Ownership!Init, Ownership!Next, Ownership!vars, Ownership!Grant, Ownership!Learn,
       Ownership!Extend, Ownership!PutBack, Ownership!Drop, Ownership!Tick, Ownership!Holds, Ownership!Live, Ownership!LiveStands,
       LeaseProved!Init, LeaseProved!Next, LeaseProved!vars, LeaseProved!Grant,
       LeaseProved!Learn, LeaseProved!Extend, LeaseProved!PutBack, LeaseProved!Drop,
       LeaseProved!Tick, LeaseProved!Holds,
       LeaseProved!Live, LeaseProved!LiveStands

\* Until a write is stale a worker keeps its lease as long as it lasts, as it does
\* with any implementation of RecoveryLease.
THEOREM LeaseIsKept == Spec => []LeaseStands
<1> DEFINE J == ~stale => LeaseProved!IInv
<1>1. Init => J
  BY OwnershipInit, SameLease, LeaseProved!InitIInv
<1>2. IInv /\ IInv' /\ J /\ [Next]_vars => J'
  <2>1. SUFFICES ASSUME IInv, IInv', J, [Next]_vars, ~stale'
                 PROVE  LeaseProved!IInv'
    OBVIOUS
  <2>2. ~stale
    BY <2>1, StaleStep DEF IInv
  <2>3. [LeaseProved!Next]_(LeaseProved!vars)
    BY <2>1, OwnershipStep, SameLease
  <2>4. LeaseDuration \in Nat /\ Null \notin LeaseProved!Lease
    BY LeaseDurationAssumption, NullAssumption DEF Lease, LeaseProved!Lease
  <2>5. QED
    BY <2>1, <2>2, <2>3, <2>4, LeaseProved!NextIInv
<1>3. J => LeaseStands
  BY SameLease DEF LeaseProved!IInv, LeaseStands
<1>4. QED
  BY <1>1, <1>2, <1>3, Inductive, PTL DEF Spec
=============================================================================
