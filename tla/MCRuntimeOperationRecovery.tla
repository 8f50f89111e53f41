---------------------- MODULE MCRuntimeOperationRecovery ----------------------
(***************************************************************************)
(* Small instances of RuntimeOperationRecovery for TLC.                    *)
(***************************************************************************)
EXTENDS RuntimeOperationRecovery, TLC

Plain == [status |-> "NEW", recovery |-> "NOT_REQUIRED", checkpoint |-> "NEW",
          attempts |-> Null, recoveries |-> Null, refs |-> {}, reasons |-> {},
          beat |-> FALSE, withLease |-> FALSE]

\* The requests of the Level 8 self test: the way forward, the completion by the
\* recovering worker, and a failure that any worker may report.
To(s, c) == [Plain EXCEPT !.status = s, !.checkpoint = c]

Authorize == To("AUTHORIZED", "AUTHORIZED")
Run == [To("RUNNING", "MODEL_CALL_STARTED") EXCEPT !.attempts = 1, !.beat = TRUE]
ModelDone == To("MODEL_COMPLETED", "MODEL_COMPLETED")
LedgerPending == To("LEDGER_PENDING", "LEDGER_PENDING")
LedgerCommit == [To("LEDGER_COMMITTED", "LEDGER_COMMITTED") EXCEPT !.refs = Reference]
Complete == [To("COMPLETED", "COMPLETED") EXCEPT !.reasons = {"completion"}]
Recover == [Complete EXCEPT !.recovery = "RECOVERED", !.attempts = 2,
                            !.withLease = TRUE]
Compensate == [To("COMPENSATED", "COMPENSATED") EXCEPT !.recovery = "COMPENSATED",
                                                       !.withLease = TRUE]
\* Back to work under the lease: the checkpoint of recovery precedes nothing, so it is
\* the one the caller keeps.
Resume == [To("RUNNING", "RECOVERING") EXCEPT !.recovery = "RECOVERED",
                                              !.withLease = TRUE]
\* A caller that names the recovery count.
Recount == [Complete EXCEPT !.recoveries = 0]
Fail == [To("FAILED", "FAILED") EXCEPT !.reasons = {"failure"}]

AllRequests == {Authorize, Run, ModelDone, LedgerPending, LedgerCommit, Complete,
                Recover, Compensate, Resume, Recount, Fail}

\* A race needs no long way forward: AUTHORIZED and RUNNING can be interrupted.
\* Complete passes no lease: transitionRuntimeOperation asks for none.  A compensation
\* is one more status between recovery and its end.
RecoveryRequests == {Authorize, Run, Complete, Recover, Fail}

\* Every property of the run holds vacuously after a stale write.
NoStaleWrite == ~stale

WorkerSymmetry == Permutations(Worker)
=============================================================================
