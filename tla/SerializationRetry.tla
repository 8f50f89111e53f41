-------------------------- MODULE SerializationRetry --------------------------
(***************************************************************************)
(* The Level 7 run of app/api/v1/runtime/serialization-retry: two workers  *)
(* read one row in SERIALIZABLE transactions of                            *)
(* lib/ipr-database-transaction.ts, meet at a barrier, and both write; the *)
(* one PostgreSQL rejects is retried.  Then one idempotent insert is sent  *)
(* several times at once, and the rows of the run are deleted.             *)
(*                                                                         *)
(* The handler is one process (pc), each worker and each insert another:   *)
(* Promise.all starts them together and rejects at the first rejection,    *)
(* leaving the others in flight.  queryHbceDatabase answers ok = false     *)
(* where a query fails, so a failed delete goes unnoticed.                 *)
(***************************************************************************)
EXTENDS Naturals, FiniteSets

CONSTANT Null,    \* no row
         Worker,  \* the workers that meet at the barrier
         Replay,  \* the requests that repeat one operation key
         Faults   \* the calls that may fail in this instance

Fault == {"seed", "begin", "read", "update", "commit", "insert", "query"}
ASSUME FaultsAssumption == Faults \subseteq Fault
ASSUME WorkerAssumption == IsFiniteSet(Worker)
ASSUME NullAssumption == Null \notin [version: Nat, attempt: Nat] /\ Null \notin Nat

VARIABLE pc,             \* where the handler is
         row,            \* the contended row, or Null
         idem,           \* the idempotency record exists
         tx,             \* per worker, its current transaction
         arrived,        \* the workers that reached the barrier
         insert,         \* per request, how its insert stands
         seedCreated,    \* the handler's flags and the count it read last
         recordMayExist,
         remaining,
         passed,         \* the checks with status PASS
         applied         \* history: the <<worker, attempt>> whose update is committed

vars == <<pc, row, idem, tx, arrived, insert, seedCreated, recordMayExist,
          remaining, passed, applied>>
workerVars == <<tx, arrived, applied>>
handlerVars == <<pc, seedCreated, recordMayExist, remaining, passed>>

Settled == {"committed", "conflict", "failed"}
Check == {"CONFLICT", "RETRY", "FINAL", "REPLAY", "VERIFY", "CLEANUP"}

TypeOK ==
  /\ pc \in {"seed", "contend", "retry", "final", "replay", "verify", "deleteRecord",
             "deleteSeed", "countSeed", "countRecord", "done"}
  /\ row \in [version: Nat, attempt: Nat] \cup {Null}
  /\ idem \in BOOLEAN
  /\ tx \in [Worker -> [at: {"idle", "start", "begun", "read", "updated"} \cup Settled,
                        version: Nat, attempt: Nat]]
  /\ arrived \subseteq Worker
  /\ insert \in [Replay -> {"unsent", "sent", "inserted", "duplicate", "failed"}]
  /\ {seedCreated, recordMayExist} \subseteq BOOLEAN
  /\ remaining \in BOOLEAN
  /\ passed \subseteq Check
  /\ applied \subseteq Worker \X (1..2)

Init ==
  /\ pc = "seed"
  /\ row = Null /\ idem = FALSE
  /\ tx = [w \in Worker |-> [at |-> "idle", version |-> 0, attempt |-> 1]]
  /\ arrived = {}
  /\ insert = [r \in Replay |-> "unsent"]
  /\ seedCreated = FALSE /\ recordMayExist = FALSE
  /\ remaining = FALSE
  /\ passed = {} /\ applied = {}

Passes(check, holds) == IF holds THEN passed \cup {check} ELSE passed

-----------------------------------------------------------------------------
(* The transaction of a worker: BEGIN, SELECT, barrier, UPDATE, COMMIT.  An  *)
(* error in any of them is answered by a ROLLBACK and the outcome ok=false.  *)

Move(w, at) == tx' = [tx EXCEPT ![w].at = at]

Begin(w) ==
  /\ tx[w].at = "start"
  /\ Move(w, "begun")
  /\ UNCHANGED <<row, arrived, applied>>

\* Only the first attempt is given the barrier; it arrives in the same turn of
\* the event loop in which the answer of its SELECT is read.
Read(w) ==
  /\ tx[w].at = "begun"
  /\ tx' = [tx EXCEPT ![w].at = "read", ![w].version = row.version]
  /\ arrived' = IF tx[w].attempt = 1 THEN arrived \cup {w} ELSE arrived
  /\ UNCHANGED <<row, applied>>

\* Mutant: the first arrival releases the barrier.
ReleasedByFirst(w) == tx[w].attempt = 1 => arrived # {}

Released(w) == tx[w].attempt = 1 => arrived = Worker

\* Mutant: READ COMMITTED, the update takes whatever version the row has.
UnchangedReadCommitted(w) == row # Null

\* The UPDATE waits for the row lock of another transaction.  PostgreSQL refuses
\* it with SQLSTATE 40001 when the row was changed after the snapshot.
Unchanged(w) == row.version = tx[w].version

Update(w) ==
  /\ tx[w].at = "read" /\ Released(w)
  /\ \A v \in Worker : tx[v].at # "updated"
  /\ Move(w, IF Unchanged(w) THEN "updated" ELSE "conflict")
  /\ UNCHANGED <<row, arrived, applied>>

\* The outcome of a COMMIT that took effect is "failed" when its answer is lost.
Commit(w) ==
  /\ tx[w].at = "updated"
  /\ row' = [version |-> tx[w].version + 1, attempt |-> tx[w].attempt]
  /\ applied' = applied \cup {<<w, tx[w].attempt>>}
  /\ \/ Move(w, "committed")
     \/ "commit" \in Faults /\ Move(w, "failed")
  /\ UNCHANGED arrived

\* No exception reaches a worker that awaits the barrier: a connection lost
\* there is noticed by the next query.
Abort(w) ==
  /\ \/ tx[w].at = "start" /\ "begin" \in Faults
     \/ tx[w].at = "begun" /\ "read" \in Faults
     \/ tx[w].at = "read" /\ Released(w) /\ "update" \in Faults
     \/ tx[w].at = "updated" /\ "commit" \in Faults
  /\ Move(w, "failed")
  /\ UNCHANGED <<row, arrived, applied>>

WorkerStep(w) ==
  /\ Begin(w) \/ Read(w) \/ Update(w) \/ Commit(w) \/ Abort(w)
  /\ UNCHANGED <<idem, insert, handlerVars>>

-----------------------------------------------------------------------------
(* One INSERT ... ON CONFLICT (memory_id) DO NOTHING of the replay.          *)

\* Mutant: no ON CONFLICT clause and no unique memory_id.
InsertAnsweredTwice(r) ==
  /\ idem' = TRUE
  /\ insert' = [insert EXCEPT ![r] = "inserted"]

InsertAnswered(r) ==
  /\ idem' = TRUE
  /\ insert' = [insert EXCEPT ![r] = IF idem THEN "duplicate" ELSE "inserted"]

InsertFails(r) ==
  /\ "insert" \in Faults
  /\ idem' \in {idem, TRUE}
  /\ insert' = [insert EXCEPT ![r] = "failed"]

InsertStep(r) ==
  /\ insert[r] = "sent"
  /\ InsertAnswered(r) \/ InsertFails(r)
  /\ UNCHANGED <<row, workerVars, handlerVars>>

-----------------------------------------------------------------------------
(* The handler.                                                              *)

\* Mutant: the attempt is counted again where it starts.
StartCountedTwice(W, attempt) ==
  tx' = [w \in Worker |-> IF w \in W
           THEN [at |-> "start", version |-> 0, attempt |-> attempt + 1] ELSE tx[w]]

Start(W, attempt) ==
  tx' = [w \in Worker |-> IF w \in W
           THEN [at |-> "start", version |-> 0, attempt |-> attempt] ELSE tx[w]]

SeedInserted ==
  /\ pc = "seed"
  /\ row' = [version |-> 0, attempt |-> 0]
  /\ seedCreated' = TRUE
  /\ Start(Worker, 1)
  /\ pc' = "contend"
  /\ UNCHANGED <<idem, arrived, insert, recordMayExist, remaining, passed, applied>>

SeedFails ==
  /\ pc = "seed" /\ "seed" \in Faults
  /\ row' \in {row, [version |-> 0, attempt |-> 0]}
  /\ pc' = "deleteRecord"
  /\ UNCHANGED <<idem, insert, seedCreated, recordMayExist, remaining, passed, workerVars>>

\* Mutant: a transaction that failed for another reason is still waited for.
AllSettledButFailed == \A w \in Worker : tx[w].at \in {"committed", "conflict"}

AllSettled == \A w \in Worker : tx[w].at \in Settled

\* Mutant of Outcome: an attempt whose outcome is not known is retried too.
OutcomeUnknown(at) == {w \in Worker : tx[w].at \in {at, "failed"}}

Outcome(at) == {w \in Worker : tx[w].at = at}

\* Both first attempts are over.
Contended ==
  /\ pc = "contend" /\ AllSettled
  /\ passed' = Passes("CONFLICT", /\ Outcome("failed") = {}
                                  /\ Cardinality(Outcome("committed")) = 1
                                  /\ Cardinality(Outcome("conflict")) = 1)
  /\ IF Outcome("conflict") # {}
       THEN pc' = "retry" /\ \E loser \in Outcome("conflict") : Start({loser}, 2)
       ELSE pc' = "final" /\ UNCHANGED tx
  /\ UNCHANGED <<row, idem, arrived, insert, seedCreated, recordMayExist, remaining,
                 applied>>

Retrier == {w \in Worker : tx[w].attempt = 2}

Retried ==
  /\ pc = "retry" /\ AllSettled
  /\ passed' = Passes("RETRY", \A w \in Retrier : /\ tx[w].at = "committed"
                                                  /\ tx[w].version = 1)
  /\ pc' = "final"
  /\ UNCHANGED <<row, idem, insert, seedCreated, recordMayExist, remaining, workerVars>>

\* The final state is read and judged; the replays are sent.
FinalState ==
  /\ pc = "final"
  /\ \/ passed' = Passes("FINAL", /\ row = [version |-> 2, attempt |-> 2]
                                  /\ \E w \in Retrier : tx[w].at = "committed")
     \/ "query" \in Faults /\ UNCHANGED passed
  /\ insert' = [r \in Replay |-> "sent"]
  /\ pc' = "replay"
  /\ UNCHANGED <<row, idem, seedCreated, recordMayExist, remaining, workerVars>>

Answered == {"inserted", "duplicate"}

Replayed ==
  /\ pc = "replay" /\ \A r \in Replay : insert[r] \in Answered
  /\ recordMayExist' = TRUE
  /\ passed' = Passes("REPLAY", Cardinality({r \in Replay : insert[r] = "inserted"}) = 1)
  /\ pc' = "verify"
  /\ UNCHANGED <<row, idem, insert, seedCreated, remaining, workerVars>>

\* Promise.all rejects; the inserts still in flight are not waited for.
ReplayRejected ==
  /\ pc = "replay" /\ \E r \in Replay : insert[r] = "failed"
  /\ pc' = "deleteRecord"
  /\ UNCHANGED <<row, idem, insert, seedCreated, recordMayExist, remaining, passed,
                 workerVars>>

VerifyRecord ==
  /\ pc = "verify"
  /\ \/ passed' = Passes("VERIFY", idem)
     \/ "query" \in Faults /\ UNCHANGED passed
  /\ pc' = "deleteRecord"
  /\ UNCHANGED <<row, idem, insert, seedCreated, recordMayExist, remaining, workerVars>>

DeleteRecord ==
  /\ pc = "deleteRecord"
  /\ \/ idem' = (idem /\ ~recordMayExist)
     \/ "query" \in Faults /\ UNCHANGED idem
  /\ pc' = "deleteSeed"
  /\ UNCHANGED <<row, insert, seedCreated, recordMayExist, remaining, passed, workerVars>>

DeleteSeed ==
  /\ pc = "deleteSeed"
  /\ \/ row' = IF seedCreated THEN Null ELSE row
     \/ "query" \in Faults /\ UNCHANGED row
  /\ pc' = "countSeed"
  /\ UNCHANGED <<idem, insert, seedCreated, recordMayExist, remaining, passed, workerVars>>

\* Mutant: a failed count is zero.
CountSeedZero ==
  /\ pc = "countSeed"
  /\ \/ remaining' = (row # Null)
     \/ "query" \in Faults /\ remaining' = FALSE
  /\ pc' = "countRecord"
  /\ UNCHANGED <<row, idem, insert, seedCreated, recordMayExist, passed, workerVars>>

\* A failed count is -1: something other than zero rows remains.
CountSeed ==
  /\ pc = "countSeed"
  /\ \/ remaining' = (row # Null)
     \/ "query" \in Faults /\ remaining' = TRUE
  /\ pc' = "countRecord"
  /\ UNCHANGED <<row, idem, insert, seedCreated, recordMayExist, passed, workerVars>>

\* Mutant: the check looks at the contended row only.
CountRecordSeedOnly ==
  /\ pc = "countRecord"
  /\ passed' = Passes("CLEANUP", ~remaining)
  /\ pc' = "done"
  /\ UNCHANGED <<row, idem, insert, seedCreated, recordMayExist, remaining, workerVars>>

CountRecord ==
  /\ pc = "countRecord"
  /\ \/ passed' = Passes("CLEANUP", ~remaining /\ ~idem)
     \/ "query" \in Faults /\ UNCHANGED passed
  /\ pc' = "done"
  /\ UNCHANGED <<row, idem, insert, seedCreated, recordMayExist, remaining, workerVars>>

Handler ==
  \/ SeedInserted \/ SeedFails \/ Contended \/ Retried \/ FinalState \/ Replayed
  \/ ReplayRejected \/ VerifyRecord \/ DeleteRecord \/ DeleteSeed \/ CountSeed
  \/ CountRecord

Next ==
  \/ Handler
  \/ \E w \in Worker : WorkerStep(w)
  \/ \E r \in Replay : InsertStep(r)

\* Every call is answered or times out (connectionTimeoutMillis, statement and
\* lock timeouts), and the event loop runs each continuation.
Fairness ==
  /\ WF_vars(Handler)
  /\ \A w \in Worker : WF_vars(WorkerStep(w))
  /\ \A r \in Replay : WF_vars(InsertStep(r))

Spec == Init /\ [][Next]_vars /\ Fairness

-----------------------------------------------------------------------------
(* Properties.                                                               *)

\* Every committed update raised the version of the row by one: none was made
\* from a version another transaction had already replaced.
NoLostUpdate == row # Null => row.version = Cardinality(applied)

\* To one who looks only at committed rows the transactions, the barrier, the
\* rejections and the retry are atomic increments, each worker's at most once: a
\* loser is not retried when its update took effect, nor from the version it read
\* first.
Serial == INSTANCE SerialUpdates WITH
            value  <- IF row = Null THEN Null ELSE row.version,
            served <- {w \in Worker : applied \cap ({w} \X (1..2)) # {}}

ImplementsSerial == Serial!Spec

\* The barrier does what the route needs of it: no first attempt writes before
\* every first attempt has read, so all of them read the same version.
ReadBeforeWrite ==
  \A w \in Worker : tx[w].attempt = 1 /\ tx[w].at \in {"updated", "committed", "conflict"}
                      => arrived = Worker

\* A replayed operation key is inserted once: whatever fails or comes late, no
\* two requests are told that they created the record.
SingleCanonicalRecord ==
  \A r, s \in Replay : insert[r] = "inserted" /\ insert[s] = "inserted" => r = s

\* When every check passed, both workers' updates took effect, each once, and
\* the run left nothing behind.
PassIsTruthful ==
  pc = "done" /\ passed = Check =>
    /\ row = Null /\ ~idem
    /\ \A w \in Worker : \E n \in 1..2 : applied \cap ({w} \X (1..2)) = {<<w, n>>}

\* The cleanup check can be wrong only about an insert that was abandoned when
\* another one failed.
CleanupCheckMeansClean ==
  /\ pc = "done" /\ "CLEANUP" \in passed
  /\ \A r \in Replay : insert[r] # "failed"
  => row = Null /\ ~idem

\* Once both workers are at the barrier, the run ends with a response whatever
\* fails: the waits for the row lock, for the transactions and for the inserts end.
RespondsOnceMet == (arrived = Worker) ~> (pc = "done")

\* "Temporary records are removed after verification."
TemporaryRecordsRemoved == seedCreated ~> (row = Null)
=============================================================================
