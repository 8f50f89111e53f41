--------------------------- MODULE RuntimeWorkflow ---------------------------
(***************************************************************************)
(* The pure state machine of a durable Level 8 operation:                  *)
(* lib/runtime-workflow-state-machine.ts.  A canonical state is the record *)
(* that transitionRuntimeWorkflow hashes; optional columns are Null when   *)
(* the database holds NULL.  Reason texts and reference identifiers are    *)
(* kept as the sets of those that are present, which is all the machine    *)
(* looks at.                                                               *)
(***************************************************************************)
EXTENDS Integers

CONSTANT Null,         \* SQL NULL
         Worker,       \* processes that call the recovery library
         MaxAttempts   \* max_attempts of the operation

ASSUME MaxAttemptsAssumption == MaxAttempts \in Nat \ {0}

Status == {"NEW", "AUTHORIZED", "RUNNING", "MODEL_COMPLETED", "LEDGER_PENDING",
           "LEDGER_COMMITTED", "INTERRUPTED", "RECOVERY_REQUIRED", "RECOVERING",
           "COMPENSATED", "COMPLETED", "FAILED"}

RecoveryStatus == {"NOT_REQUIRED", "REQUIRED", "LEASE_PENDING", "LEASE_ACQUIRED",
                   "RECOVERING", "RECOVERED", "COMPENSATION_REQUIRED",
                   "COMPENSATED", "FAILED"}

Reference == {"memory", "evt", "opc", "audit", "usage"}
Reason == {"interruption", "failure", "completion"}

\* CHECKPOINT_ORDER; its domain is the set of checkpoints.
CheckpointOrder ==
  [c \in (Status \ {"RUNNING"}) \cup
         {"MODEL_CALL_STARTED", "MEMORY_PERSISTED", "EVT_PERSISTED",
          "OPC_PERSISTED", "AUDIT_PERSISTED", "MODEL_USAGE_PERSISTED"} |->
     CASE c = "NEW" -> 0
       [] c = "AUTHORIZED" -> 10
       [] c = "MODEL_CALL_STARTED" -> 20
       [] c = "MODEL_COMPLETED" -> 30
       [] c = "LEDGER_PENDING" -> 40
       [] c = "MEMORY_PERSISTED" -> 50
       [] c = "EVT_PERSISTED" -> 60
       [] c = "OPC_PERSISTED" -> 70
       [] c = "AUDIT_PERSISTED" -> 80
       [] c = "MODEL_USAGE_PERSISTED" -> 90
       [] c = "LEDGER_COMMITTED" -> 100
       [] c = "COMPLETED" -> 110
       [] c = "INTERRUPTED" -> 1000
       [] c = "RECOVERY_REQUIRED" -> 1010
       [] c = "RECOVERING" -> 1020
       [] c = "COMPENSATED" -> 1030
       [] c = "FAILED" -> 1040]

Checkpoint == DOMAIN CheckpointOrder

\* lease_owner, lease_token and lease_expires_at: the table's lease_consistency
\* CHECK keeps the three NULL together.
Lease == [owner: Worker, token: Nat, expires: Nat]

ASSUME NullAssumption == Null \notin Nat /\ Null \notin Lease

State == [status: Status, recovery: RecoveryStatus, checkpoint: Checkpoint,
          attempts: Nat, recoveries: Nat,
          lease: Lease \cup {Null}, heartbeat: Nat \cup {Null},
          refs: SUBSET Reference, reasons: SUBSET Reason]

InitialState ==
  [status |-> "NEW", recovery |-> "NOT_REQUIRED", checkpoint |-> "NEW",
   attempts |-> 0, recoveries |-> 0, lease |-> Null, heartbeat |-> Null,
   refs |-> {}, reasons |-> {}]

-----------------------------------------------------------------------------
\* ALLOWED_TRANSITIONS
AllowedTransitions ==
  [s \in Status |->
     CASE s = "NEW" -> {"AUTHORIZED", "FAILED"}
       [] s = "AUTHORIZED" -> {"RUNNING", "INTERRUPTED", "FAILED"}
       [] s = "RUNNING" -> {"MODEL_COMPLETED", "INTERRUPTED", "FAILED"}
       [] s = "MODEL_COMPLETED" -> {"LEDGER_PENDING", "INTERRUPTED", "FAILED"}
       [] s = "LEDGER_PENDING" -> {"LEDGER_COMMITTED", "INTERRUPTED", "FAILED"}
       [] s = "LEDGER_COMMITTED" -> {"COMPLETED", "INTERRUPTED", "FAILED"}
       [] s = "INTERRUPTED" -> {"RECOVERY_REQUIRED", "FAILED"}
       [] s = "RECOVERY_REQUIRED" -> {"RECOVERING", "FAILED"}
       [] s = "RECOVERING" -> {"RUNNING", "MODEL_COMPLETED", "LEDGER_PENDING",
                               "LEDGER_COMMITTED", "COMPLETED", "COMPENSATED",
                               "FAILED"}
       [] s = "COMPENSATED" -> {"FAILED", "COMPLETED"}
       [] OTHER -> {}]

Terminal(s) == s \in {"COMPLETED", "FAILED"}

\* isRecoveryStatus: the targets that may move the checkpoint backwards.
RecoveryTarget(s) ==
  s \in {"INTERRUPTED", "RECOVERY_REQUIRED", "RECOVERING", "COMPENSATED"}

\* The reason text a target status demands.
DemandedReason(s) ==
  CASE s = "COMPLETED" -> {"completion"}
    [] s = "FAILED" -> {"failure"}
    [] s \in {"INTERRUPTED", "RECOVERY_REQUIRED"} -> {"interruption"}
    [] OTHER -> {}

\* validateLease: a recovering operation has a lease that outlives its heartbeat.
LeaseValid(t) ==
  t.status = "RECOVERING" \/ t.recovery \in {"LEASE_ACQUIRED", "RECOVERING"}
    => /\ t.lease # Null
       /\ t.heartbeat # Null
       /\ t.lease.expires > t.heartbeat

\* No checkpoint goes back, except into recovery or to the last two checkpoints.
CheckpointValid(s, t) ==
  \/ RecoveryTarget(t.status)
  \/ t.checkpoint \in {"FAILED", "COMPLETED"}
  \/ CheckpointOrder[t.checkpoint] >= CheckpointOrder[s.checkpoint]

\* validateTransition: may the operation in canonical state s enter state t?
ValidTransition(s, t) ==
  /\ ~Terminal(s.status)
  /\ t.status \in AllowedTransitions[s.status]
  /\ t.attempts <= MaxAttempts
  /\ t.status = "RECOVERING" => t.recoveries > 0
  /\ DemandedReason(t.status) \subseteq t.reasons
  /\ LeaseValid(t)
  /\ CheckpointValid(s, t)
  /\ t.status = "LEDGER_COMMITTED" => t.refs = Reference
=============================================================================
