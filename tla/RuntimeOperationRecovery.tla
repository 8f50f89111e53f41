----------------------- MODULE RuntimeOperationRecovery -----------------------
(***************************************************************************)
(* lib/runtime-operation-recovery.ts over the table of                     *)
(* database/migrations/010_runtime_operations.sql: one durable operation   *)
(* row, and the workers that create, advance, interrupt and recover it.    *)
(*                                                                         *)
(* A transition is a SELECT, a validation in the worker and an UPDATE that *)
(* names only the operation, so other workers may write in between.  A     *)
(* recovery lease is taken by one conditional UPDATE and sealed (its state *)
(* hash written) by a second.  Each database statement is one action.  A   *)
(* worker keeps in `call' the call it is executing and in `held' the lease *)
(* it was told it owns; a crash loses both.                                *)
(***************************************************************************)
EXTENDS RuntimeWorkflow, Sequences

CONSTANT Requests,       \* transitions that callers ask for
         LeaseDuration,  \* leaseDurationMs and extendLeaseMs
         MaxClock,       \* bound on the clock
         MaxLeases       \* bound on the leases acquired

ASSUME LeaseDurationAssumption == LeaseDuration \in Nat \ {0}

VARIABLE row,     \* the runtime_operations row, Null before it is created
         call,    \* per worker, the call in progress
         held,    \* per worker, the lease its last answer gave it, or Null
         clock,   \* the time new Date() returns
         issued,  \* how many leases were acquired: the number in the last token
         latest,  \* history: the lease_acquired_at of the last lease acquired
         stale    \* history: some write used a row or a time that was out of date

vars == <<row, call, held, clock, issued, latest, stale>>

\* stale marks the two ways a worker's inputs grow old between its reading them
\* and its UPDATE: the row was changed meanwhile, or a lease is acquired with a
\* `now' that precedes the acquisition of an earlier lease.

\* What a caller passes to transitionRuntimeOperation.  attempts and recoveries
\* (attemptCount, recoveryCount) may be left out; beat says a heartbeat of the
\* moment is passed, withLease that the caller passes the lease it holds.
Request == [status: Status, recovery: RecoveryStatus, checkpoint: Checkpoint,
            attempts: Nat \cup {Null}, recoveries: Nat \cup {Null},
            refs: SUBSET Reference, reasons: SUBSET Reason, beat: BOOLEAN, withLease: BOOLEAN]

\* The arguments of markRuntimeOperationInterrupted and of
\* markRuntimeOperationRecoveryRequired.  The null lease arguments they pass
\* fall back to the row's lease (input.leaseOwner ?? record.leaseOwner), so
\* they are no lease argument at all.
InterruptRequest ==
  [status |-> "INTERRUPTED", recovery |-> "REQUIRED", checkpoint |-> "INTERRUPTED",
   attempts |-> Null, recoveries |-> Null, refs |-> {}, reasons |-> {"interruption"},
   beat |-> FALSE, withLease |-> FALSE]

RecoveryRequiredRequest ==
  [InterruptRequest EXCEPT !.status = "RECOVERY_REQUIRED",
                           !.checkpoint = "RECOVERY_REQUIRED"]

AnyRequest == Requests \cup {InterruptRequest, RecoveryRequiredRequest}

ASSUME RequestsAssumption == Requests \subseteq Request /\ Null \notin Request

-----------------------------------------------------------------------------
\* The row: its canonical columns, lease_acquired_at, the *_at columns that are
\* set, the state whose hash state_hash is, and the statuses chained in
\* chain_hash.  A hash is modelled by what it is a hash of.
Marks == {"started", "interrupted", "recovery_started", "completed", "failed"}

Row == [state: State, acquired: Nat \cup {Null}, marks: SUBSET Marks,
        hashed: State, chain: Seq(Status)]

ASSUME RowAssumption == Null \notin Row

InitialRow ==
  [state |-> InitialState, acquired |-> Null, marks |-> {},
   hashed |-> InitialState, chain |-> <<"NEW">>]

\* Mutant of DbChecks: lease_consistency without expires_at > acquired_at.
DbChecksNoLeaseOrder(r) ==
  /\ r.state.attempts <= MaxAttempts
  /\ (r.state.lease = Null) = (r.acquired = Null)
  /\ r.state.status = "COMPLETED" => "completed" \in r.marks
  /\ r.state.status = "FAILED" => "failed" \in r.marks

\* The CHECK constraints of the table.
DbChecks(r) ==
  /\ r.state.attempts <= MaxAttempts
  /\ \/ r.state.lease = Null /\ r.acquired = Null
     \/ /\ r.state.lease # Null /\ r.acquired # Null
        /\ r.state.lease.expires > r.acquired
  /\ r.state.status = "COMPLETED" => "completed" \in r.marks
  /\ r.state.status = "FAILED" => "failed" \in r.marks
  /\ r.state.status \in {"INTERRUPTED", "RECOVERY_REQUIRED"} => "interrupted" \in r.marks

\* The row of a call that has read nothing yet.
Idle == [step |-> "idle", seen |-> Null, request |-> Null, at |-> 0, heartbeat |-> Null]

Steps == {"idle", "interrupting", "persisting", "acquiring", "sealing", "beating"}

Call == [step: Steps, seen: Row \cup {Null}, request: AnyRequest \cup {Null},
         at: Nat, heartbeat: Nat \cup {Null}]

\* input.x ?? record.x
Default(x, old) == IF x = Null THEN old ELSE x

-----------------------------------------------------------------------------
Init ==
  /\ row = Null
  /\ call = [w \in Worker |-> Idle]
  /\ held = [w \in Worker |-> Null]
  /\ clock = 0
  /\ issued = 0
  /\ latest = 0
  /\ stale = FALSE

\* createRuntimeOperation inserts the row; with the key already taken it only
\* returns the existing record, which changes nothing.
Create(w) ==
  /\ call[w] = Idle
  /\ row = Null
  /\ row' = InitialRow
  /\ UNCHANGED <<call, held, clock, issued, latest, stale>>

\* buildTransitionInput and the canonicalState of transitionRuntimeWorkflow:
\* every optional argument falls back to the record's column.
NextState(s, request, lease, heartbeat) ==
  [status     |-> request.status,
   recovery   |-> request.recovery,
   checkpoint |-> request.checkpoint,
   attempts   |-> Default(request.attempts, s.attempts),
   recoveries |-> Default(request.recoveries, s.recoveries),
   lease      |-> Default(lease, s.lease),
   heartbeat  |-> Default(heartbeat, s.heartbeat),
   refs       |-> s.refs \cup request.refs,
   reasons    |-> s.reasons \cup request.reasons]

\* The state that worker w's call computes from the row it has seen.
Target(w, seen, request, heartbeat) ==
  NextState(seen.state, request, IF request.withLease THEN held[w] ELSE Null, heartbeat)

\* transitionRuntimeOperation up to the UPDATE: read the row, validate.
\* A transition that is not valid returns an error and changes nothing.
Read(w, request, heartbeat) ==
  /\ row # Null
  /\ ValidTransition(row.state, Target(w, row, request, heartbeat))
  /\ call' = [call EXCEPT ![w] = [step |-> "persisting", seen |-> row,
                                  request |-> request, at |-> clock,
                                  heartbeat |-> heartbeat]]

BeginTransition(w, request) ==
  /\ call[w] = Idle
  /\ request.withLease => held[w] # Null
  /\ Read(w, request, IF request.beat THEN clock ELSE Null)
  /\ UNCHANGED <<row, held, clock, issued, latest, stale>>

\* markRuntimeOperationInterrupted reads the row for its heartbeat, then calls
\* transitionRuntimeOperation, which reads it again.
BeginInterrupt(w) ==
  /\ call[w] = Idle
  /\ row # Null
  /\ call' = [call EXCEPT ![w] = [@ EXCEPT !.step = "interrupting",
                                         !.heartbeat = row.state.heartbeat]]
  /\ UNCHANGED <<row, held, clock, issued, latest, stale>>

ContinueInterrupt(w) ==
  /\ call[w].step = "interrupting"
  /\ Read(w, InterruptRequest, call[w].heartbeat)
  /\ UNCHANGED <<row, held, clock, issued, latest, stale>>

\* The second read finds a row that may not be interrupted.
InterruptRefused(w) ==
  /\ call[w].step = "interrupting"
  /\ ~ValidTransition(row.state, Target(w, row, InterruptRequest, call[w].heartbeat))
  /\ call' = [call EXCEPT ![w] = Idle]
  /\ UNCHANGED <<row, held, clock, issued, latest, stale>>

BeginRecoveryRequired(w) == BeginTransition(w, RecoveryRequiredRequest)

\* Mutant of MarkOf: the status itself is written.
MarkOfStatus(s) == {s}

\* The *_at column that transitionRuntimeOperation sets with a status.
MarkOf(s) ==
  CASE s = "RUNNING" -> {"started"}
    [] s \in {"INTERRUPTED", "RECOVERY_REQUIRED"} -> {"interrupted"}
    [] s = "RECOVERING" -> {"recovery_started"}
    [] s = "COMPLETED" -> {"completed"}
    [] s = "FAILED" -> {"failed"}
    [] OTHER -> {}

\* The state that worker w's call writes: validated against the row it saw.
Proposed(w) == Target(w, call[w].seen, call[w].request, call[w].heartbeat)

\* The row after persistTransition's UPDATE, given its two hash columns.  COALESCE
\* keeps the lease_acquired_at and the *_at columns that the present row has.
UpdatedRow(w, hashed, chain) ==
  [state    |-> Proposed(w),
   acquired |-> IF Proposed(w).lease = Null THEN Null
                                            ELSE Default(row.acquired, call[w].at),
   marks    |-> row.marks \cup MarkOf(call[w].request.status),
   hashed   |-> hashed,
   chain    |-> chain]

\* Mutants of Persisted: state_hash is not rewritten; the lease is cleared with
\* every status.
PersistedOldHash(w) ==
  UpdatedRow(w, call[w].seen.hashed, Append(call[w].seen.chain, call[w].request.status))
PersistedUnleased(w) ==
  [UpdatedRow(w, Proposed(w), Append(call[w].seen.chain, call[w].request.status))
     EXCEPT !.state.lease = Null, !.state.heartbeat = Null, !.acquired = Null]

Persisted(w) ==
  UpdatedRow(w, Proposed(w), Append(call[w].seen.chain, call[w].request.status))

\* persistTransition: WHERE operation_id = $1, whatever the row holds by now.
PersistTransition(w) ==
  /\ call[w].step = "persisting"
  /\ DbChecks(Persisted(w))
  /\ row' = Persisted(w)
  /\ stale' = (stale \/ row # call[w].seen)
  /\ call' = [call EXCEPT ![w] = Idle]
  /\ UNCHANGED <<held, clock, issued, latest>>

\* A CHECK of the table refuses the UPDATE; the call returns the error.
PersistRefused(w) ==
  /\ call[w].step = "persisting"
  /\ ~DbChecks(Persisted(w))
  /\ call' = [call EXCEPT ![w] = Idle]
  /\ UNCHANGED <<row, held, clock, issued, latest, stale>>

-----------------------------------------------------------------------------
\* acquireRuntimeOperationRecoveryLease: `now' is taken before the UPDATE runs.
BeginAcquire(w) ==
  /\ call[w] = Idle
  /\ row # Null
  /\ issued < MaxLeases
  /\ call' = [call EXCEPT ![w] = [@ EXCEPT !.step = "acquiring", !.at = clock]]
  /\ UNCHANGED <<row, held, clock, issued, latest, stale>>

\* Mutant of LeaseFree: the lease is not looked at.
LeaseFreeAlways(at) == TRUE

\* No lease, or one that had expired at time `at'.
LeaseFree(at) == row.state.lease # Null => row.state.lease.expires <= at

\* Mutant of Acquirable: any status will do.
AcquirableAnyStatus(at) == LeaseFree(at) /\ row.state.attempts < MaxAttempts

Acquirable(at) ==
  /\ row.state.status \in {"INTERRUPTED", "RECOVERY_REQUIRED", "RECOVERING"}
  /\ LeaseFree(at)
  /\ row.state.attempts < MaxAttempts

\* The state in recovery under a fresh lease, after `recoveries' recoveries.
Recovering(w, at, recoveries) ==
  [row.state EXCEPT !.status = "RECOVERING",
                    !.recovery = "LEASE_ACQUIRED",
                    !.checkpoint = "RECOVERING",
                    !.lease = [owner |-> w, token |-> issued + 1,
                               expires |-> at + LeaseDuration],
                    !.heartbeat = at,
                    !.recoveries = recoveries]

\* Mutant of Acquired: recovery_count is not incremented.
AcquiredUncounted(w, at) ==
  [row EXCEPT !.state = Recovering(w, at, row.state.recoveries),
              !.acquired = at, !.marks = @ \cup {"recovery_started"}]

\* The row after the UPDATE that takes the lease.
Acquired(w, at) ==
  [row EXCEPT !.state = Recovering(w, at, row.state.recoveries + 1),
              !.acquired = at, !.marks = @ \cup {"recovery_started"}]

AcquireLease(w) ==
  /\ call[w].step = "acquiring"
  /\ Acquirable(call[w].at)
  /\ row' = Acquired(w, call[w].at)
  /\ issued < MaxLeases
  /\ issued' = issued + 1
  /\ latest' = call[w].at
  /\ stale' = (stale \/ call[w].at < latest)
  /\ call' = [call EXCEPT ![w] = [@ EXCEPT !.step = "sealing", !.seen = row']]
  /\ UNCHANGED <<held, clock>>

\* RECOVERY_LEASE_NOT_ACQUIRED
AcquireRefused(w) ==
  /\ call[w].step = "acquiring"
  /\ ~Acquirable(call[w].at)
  /\ call' = [call EXCEPT ![w] = Idle]
  /\ UNCHANGED <<row, held, clock, issued, latest, stale>>

\* The row still carries lease l: the WHERE of the statements of a lease owner.
Owns(l) ==
  /\ row.state.lease # Null
  /\ row.state.lease.owner = l.owner
  /\ row.state.lease.token = l.token

\* The second UPDATE writes the hashes of the row as the first one returned it
\* (that state always validates: its lease is LeaseDuration ahead of its
\* heartbeat), and the worker is told it owns the lease, unless the UPDATE's
\* answer is lost and it is told of an error.
SealLease(w) ==
  LET seen == call[w].seen IN
  /\ call[w].step = "sealing"
  /\ Owns(seen.state.lease)
  /\ row' = [row EXCEPT !.hashed = seen.state,
                        !.chain = Append(seen.chain, "RECOVERING")]
  /\ \/ held' = [held EXCEPT ![w] = seen.state.lease]
     \/ UNCHANGED held
  /\ stale' = (stale \/ row # seen)
  /\ call' = [call EXCEPT ![w] = Idle]
  /\ UNCHANGED <<clock, issued, latest>>

\* RECOVERY_LEASE_STATE_HASH_PERSIST_FAILED: the lease is gone by now.
SealRefused(w) ==
  /\ call[w].step = "sealing"
  /\ ~Owns(call[w].seen.state.lease)
  /\ call' = [call EXCEPT ![w] = Idle]
  /\ UNCHANGED <<row, held, clock, issued, latest, stale>>

\* heartbeatRuntimeOperation: one conditional UPDATE, `now' taken before it.
BeginHeartbeat(w) ==
  /\ call[w] = Idle
  /\ held[w] # Null
  /\ call' = [call EXCEPT ![w] = [@ EXCEPT !.step = "beating", !.at = clock]]
  /\ UNCHANGED <<row, held, clock, issued, latest, stale>>

CanBeat(w, at) ==
  /\ Owns(held[w])
  /\ row.state.lease.expires > at
  /\ row.state.status = "RECOVERING"

\* The state after a heartbeat.
Beaten(at, until) ==
  [row.state EXCEPT !.heartbeat = at, !.lease = [row.state.lease EXCEPT !.expires = until]]

\* The UPDATE extends the row's lease.  When its answer is lost the call returns an
\* error, and the worker knows of no extension.
Heartbeat(w) ==
  LET at == call[w].at
      until == at + LeaseDuration
  IN /\ call[w].step = "beating"
     /\ CanBeat(w, at)
     /\ row' = [row EXCEPT !.state = Beaten(at, until)]
     /\ \/ held' = [held EXCEPT ![w] = [held[w] EXCEPT !.expires = until]]
        \/ UNCHANGED held
     /\ call' = [call EXCEPT ![w] = Idle]
     /\ UNCHANGED <<clock, issued, latest, stale>>

\* HEARTBEAT_REJECTED_LEASE_NOT_OWNED_OR_EXPIRED
HeartbeatRefused(w) ==
  /\ call[w].step = "beating"
  /\ ~CanBeat(w, call[w].at)
  /\ call' = [call EXCEPT ![w] = Idle]
  /\ UNCHANGED <<row, held, clock, issued, latest, stale>>

\* A state without its lease and heartbeat.
Unleased(s) == [s EXCEPT !.lease = Null, !.heartbeat = Null]

\* releaseRuntimeOperationRecoveryLease, whatever the status; a lease that is no
\* longer the worker's is left alone (RECOVERY_LEASE_RELEASE_REJECTED).  Having
\* asked for the release the worker acts on the lease no more, whatever it is told.
Release(w) ==
  /\ call[w] = Idle
  /\ held[w] # Null
  /\ row' = IF Owns(held[w])
              THEN [row EXCEPT !.state = Unleased(row.state), !.acquired = Null]
              ELSE row
  /\ held' = [held EXCEPT ![w] = Null]
  /\ UNCHANGED <<call, clock, issued, latest, stale>>

\* A statement of the call in progress fails, or did its work and its answer is lost
\* (after Create, the first UPDATE of an acquisition or PersistTransition, which tell
\* their worker nothing it acts on); the call returns the error.
DatabaseError(w) ==
  /\ call[w] # Idle
  /\ call' = [call EXCEPT ![w] = Idle]
  /\ UNCHANGED <<row, held, clock, issued, latest, stale>>

\* The worker's process dies, between any two statements.
Crash(w) ==
  /\ held[w] # Null
  /\ call' = [call EXCEPT ![w] = Idle]
  /\ held' = [held EXCEPT ![w] = Null]
  /\ UNCHANGED <<row, clock, issued, latest, stale>>

Tick ==
  /\ clock < MaxClock
  /\ clock' = clock + 1
  /\ UNCHANGED <<row, call, held, issued, latest, stale>>

Next ==
  \/ \E w \in Worker :
       \/ Create(w)
       \/ \E r \in Requests : BeginTransition(w, r)
       \/ BeginInterrupt(w) \/ ContinueInterrupt(w) \/ InterruptRefused(w)
       \/ BeginRecoveryRequired(w)
       \/ PersistTransition(w) \/ PersistRefused(w)
       \/ BeginAcquire(w) \/ AcquireLease(w) \/ AcquireRefused(w)
       \/ SealLease(w) \/ SealRefused(w)
       \/ BeginHeartbeat(w) \/ Heartbeat(w) \/ HeartbeatRefused(w)
       \/ Release(w) \/ DatabaseError(w) \/ Crash(w)
  \/ Tick

Spec == Init /\ [][Next]_vars

-----------------------------------------------------------------------------
\* Type correctness of the row, the calls in progress and the leases held.
TypeOK ==
  /\ row \in Row \cup {Null}
  /\ call \in [Worker -> Call]
  /\ held \in [Worker -> Lease \cup {Null}]
  /\ clock \in Nat
  /\ issued \in Nat
  /\ latest \in Nat
  /\ stale \in BOOLEAN

\* By its own clock, worker w still owns the recovery.
LeaseLive(w) == held[w] # Null /\ held[w].expires > clock

\* Recovery ownership is exclusive: as long as no UPDATE landed on a row changed
\* since it was read, no two workers believe they hold an unexpired lease
\* (acquireRuntimeOperationRecoveryLease against crashes, expiry, heartbeats and
\* clocks read before a delayed UPDATE).
ExclusiveRecovery ==
  ~stale => \A v, w \in Worker : LeaseLive(v) /\ LeaseLive(w) => v = w

\* The token fences: a worker whose lease was taken over after it expired can't
\* write its own lease back with a transition.  The code never compares tokens
\* there; what stops it is the lease_consistency CHECK, since the new lease was
\* acquired no earlier than the old one expired.
FencingToken ==
  ~stale /\ row # Null => row.state.lease = Null \/ row.state.lease.token = issued

\* No caller passes a recoveryCount of its own, and none in the repository does.
CallersLeaveCount == \A r \in Requests : r.recoveries = Null

\* recovery_count counts the leases acquired, no more and no less, although every
\* transition writes back the count it read: as long as the callers leave the count
\* to the row.  transitionRuntimeOperation writes any count it is given.
RecoveryCountExact ==
  CallersLeaveCount /\ ~stale /\ row # Null => row.state.recoveries = issued

\* state_hash and chain_hash are those of the row, its lease and heartbeat apart,
\* unless the row is in recovery (a worker may die before it seals its lease):
\* a terminal row always carries the evidence of its own terminal state.
EvidenceSealed ==
  ~stale /\ row # Null /\ row.state.status # "RECOVERING" =>
    /\ Unleased(row.hashed) = Unleased(row.state)
    /\ row.chain[Len(row.chain)] = row.state.status

\* What may follow s in the chain: a status that ALLOWED_TRANSITIONS lists, or,
\* where a recovery lease could be taken, RECOVERING and what that may enter: a
\* worker that died before it sealed its lease has left RECOVERING unchained.
Lawful(s, t) ==
  \/ t \in AllowedTransitions[s]
  \/ /\ s \in {"INTERRUPTED", "RECOVERY_REQUIRED", "RECOVERING"}
     /\ t \in {"RECOVERING"} \cup AllowedTransitions["RECOVERING"]

\* The chain replays a lawful life of the operation from NEW on: no link is out of
\* order, follows a terminal status or skips a state the machine demands (but for an
\* unsealed RECOVERING), though the links are written by transitions and by seals
\* of different workers, each from the row it had read.
ChainIsLawful ==
  ~stale /\ row # Null =>
    /\ row.chain[1] = "NEW"
    /\ \A i \in 1..(Len(row.chain) - 1) : Lawful(row.chain[i], row.chain[i + 1])

\* A completed or failed operation never changes status again, whatever lease it
\* still carries and whoever is recovering it.
TerminalIsFinal ==
  [][row # Null /\ Terminal(row.state.status) /\ ~stale'
       => row'.state.status = row.state.status]_vars

\* The lease that the row carries.
Standing == IF row = Null THEN Null ELSE row.state.lease

Ownership == INSTANCE RecoveryLease WITH
  Duration <- LeaseDuration, lease <- Standing, believed <- held, granted <- issued

\* Until a write is stale, the lease columns implement a lease of their own, though
\* every transition rewrites them: none grants, takes over or drops a lease, no worker
\* is told of a lease it was not granted, nor moves one it has lost, and one that was
\* not told of an extension at most puts its lease back to what it was told.
ImplementsLease == Ownership!Init /\ [][Ownership!Next \/ stale']_(Ownership!vars)

\* Whatever others write to the row, a worker whose lease has not expired finds it
\* on the row, under the last token issued and for at least as long as it believes,
\* until it gives it up itself, though the answers to its heartbeats may be lost.
LeaseStands == ~stale => Ownership!LiveStands

-----------------------------------------------------------------------------
\* What the repository says, and TLC finds violated.

\* "Opaque token required for exclusive recovery ownership"
\* (010_runtime_operations.sql): never two workers with an unexpired lease.
ExclusiveOwnership ==
  \A v, w \in Worker : LeaseLive(v) /\ LeaseLive(w) => v = w

\* "Hash of the current canonical operation state" (010_runtime_operations.sql),
\* whenever no worker is between taking a lease and sealing it.
HashCurrent ==
  row # Null /\ (\A w \in Worker : call[w].step # "sealing") => row.hashed = row.state
=============================================================================
