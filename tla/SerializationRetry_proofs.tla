----------------------- MODULE SerializationRetry_proofs -----------------------
(***************************************************************************)
(* Theorems about SerializationRetry, for any workers and replays and any  *)
(* set of calls that may fail.  The barrier and the retry are argued about *)
(* the transactions, the single record about the inserts, the truth of the *)
(* response about the checks.                                              *)
(***************************************************************************)
EXTENDS SerializationRetry, FiniteSetTheorems, TLAPS

Active == {"start", "begun", "read", "updated"}

\* The transactions: when they run, who holds the row lock, what is applied.
Transactions ==
  /\ pc \notin {"contend", "retry"} => \A w \in Worker : tx[w].at \notin Active
  /\ pc \in {"contend", "retry"} => row # Null
  /\ \A w \in Worker : tx[w].attempt \in 1..2
  /\ pc \in {"seed", "contend"} => \A w \in Worker : tx[w].attempt = 1
  /\ pc = "seed" => row = Null /\ applied = {} /\ \A w \in Worker : tx[w].at = "idle"
  /\ \A v, w \in Worker : tx[v].at = "updated" /\ tx[w].at = "updated" => v = w
  /\ \A w \in Worker : tx[w].at = "updated" => row.version = tx[w].version

\* What is applied, against where each worker stands.
Applied ==
  /\ IsFiniteSet(applied)
  /\ \A w \in Worker : \A a \in 1..2 : <<w, a>> \in applied =>
       /\ a <= tx[w].attempt
       /\ a = tx[w].attempt => tx[w].at \in {"committed", "failed"}
  /\ \A w \in Worker : tx[w].at = "committed" => <<w, tx[w].attempt>> \in applied
  /\ \A w \in Worker : tx[w].attempt = 2 => <<w, 1>> \notin applied

\* The idempotency record and the inserts that may still create it.
Records ==
  /\ pc \in {"seed", "contend", "retry", "final"} =>
       ~idem /\ \A r \in Replay : insert[r] = "unsent"
  /\ pc \in {"seed", "contend", "retry", "final", "replay"} => ~recordMayExist
  /\ recordMayExist => \A r \in Replay : insert[r] \in Answered
  /\ \A r \in Replay : insert[r] = "inserted" => idem \/ recordMayExist
  /\ pc \notin {"seed", "contend", "retry", "final", "replay"} =>
       \/ \E r \in Replay : insert[r] = "failed"
       \/ \A r \in Replay : insert[r] # "sent"
  /\ SingleCanonicalRecord

\* What a check that passed says, from then on.
Verdicts ==
  /\ "CONFLICT" \in passed =>
       /\ pc \notin {"seed", "contend"}
       /\ \A w \in Worker : tx[w].attempt = 2 \/ tx[w].at = "committed"
  /\ "RETRY" \in passed =>
       /\ pc \notin {"seed", "contend", "retry"}
       /\ \A w \in Worker : tx[w].attempt = 2 => tx[w].at = "committed"
  /\ "REPLAY" \in passed =>
       /\ pc \notin {"seed", "contend", "retry", "final", "replay"}
       /\ \A r \in Replay : insert[r] \in Answered
  /\ pc = "countRecord" /\ ~remaining => row = Null
  /\ "CLEANUP" \in passed =>
       /\ pc = "done" /\ row = Null
       /\ idem => \E r \in Replay : insert[r] = "failed"

IInv == TypeOK /\ Transactions /\ Applied /\ NoLostUpdate /\ ReadBeforeWrite
        /\ Records /\ Verdicts

-----------------------------------------------------------------------------
\* A row is not Null.
LEMMA RowIsNotNull ==
  ASSUME NEW n \in Nat, NEW a \in Nat
  PROVE  [version |-> n, attempt |-> a] # Null
<1>1. [version |-> n, attempt |-> a] \in [version: Nat, attempt: Nat]
  OBVIOUS
<1>2. QED
  BY <1>1, NullAssumption

\* A transaction record with its fields.
LEMMA Fields ==
  ASSUME TypeOK, NEW w \in Worker
  PROVE  /\ tx[w].at \in Active \cup Settled \cup {"idle"}
         /\ tx[w].version \in Nat /\ tx[w].attempt \in Nat
         /\ row # Null => row.version \in Nat /\ row.attempt \in Nat
BY DEF TypeOK, Active

\* The invariant holds initially.
LEMMA InitIInv == Init => IInv
<1> SUFFICES ASSUME Init PROVE IInv
  OBVIOUS
<1> USE DEF Init
<1>1. TypeOK
  BY DEF TypeOK, Settled
<1>2. Applied
  BY FS_EmptySet DEF Applied
<1>3. Transactions /\ NoLostUpdate /\ ReadBeforeWrite
  BY DEF Transactions, Active, NoLostUpdate, ReadBeforeWrite
<1>4. Records /\ Verdicts
  BY DEF Records, SingleCanonicalRecord, Verdicts
<1>5. QED
  BY <1>1, <1>2, <1>3, <1>4 DEF IInv

\* Every step keeps the types.
LEMMA StepTypes ==
  ASSUME IInv, [Next]_vars
  PROVE  TypeOK'
<1> USE DEF IInv, TypeOK, Transactions, Active, Settled, Check
<1>1. CASE UNCHANGED vars
  BY <1>1 DEF vars
<1>2. CASE SeedInserted
  BY <1>2 DEF SeedInserted, Start, workerVars, handlerVars
<1>3. CASE SeedFails
  BY <1>3 DEF SeedFails, workerVars, handlerVars
<1>4. CASE Contended
  BY <1>4 DEF Contended, Start, AllSettled, Outcome, Passes, workerVars, handlerVars
<1>5. CASE Retried
  BY <1>5 DEF Retried, Retrier, AllSettled, Passes, workerVars, handlerVars
<1>6. CASE FinalState
  BY <1>6 DEF FinalState, Retrier, Passes, workerVars, handlerVars
<1>7. CASE Replayed
  BY <1>7 DEF Replayed, Answered, Passes, workerVars, handlerVars
<1>8. CASE ReplayRejected
  BY <1>8 DEF ReplayRejected, workerVars, handlerVars
<1>9. CASE VerifyRecord
  BY <1>9 DEF VerifyRecord, Passes, workerVars, handlerVars
<1>10. CASE DeleteRecord
  BY <1>10 DEF DeleteRecord, workerVars, handlerVars
<1>11. CASE DeleteSeed
  BY <1>11 DEF DeleteSeed, workerVars, handlerVars
<1>12. CASE CountSeed
  BY <1>12 DEF CountSeed, workerVars, handlerVars
<1>13. CASE CountRecord
  BY <1>13 DEF CountRecord, Passes, workerVars, handlerVars
<1>14. ASSUME NEW w \in Worker, Begin(w), WorkerStep(w) PROVE TypeOK'
  BY <1>14 DEF WorkerStep, Begin, Move, workerVars, handlerVars
<1>15. ASSUME NEW w \in Worker, Read(w), WorkerStep(w) PROVE TypeOK'
  <2>1. row.version \in Nat
    BY <1>15, Fields DEF WorkerStep, Read, Transactions, Active
  <2>2. tx' \in [Worker -> [at: {"idle", "start", "begun", "read", "updated"} \cup Settled,
                           version: Nat, attempt: Nat]]
    <3> DEFINE read == [tx[w] EXCEPT !.at = "read", !.version = row.version]
    <3>1. read \in [at: {"idle", "start", "begun", "read", "updated"} \cup Settled,
                    version: Nat, attempt: Nat]
      BY <2>1
    <3>2. tx' = [tx EXCEPT ![w] = read]
      BY <1>15 DEF Read
    <3>3. QED
      BY <3>1, <3>2
  <2>3. QED
    BY <1>15, <2>2 DEF WorkerStep, Read, handlerVars
<1>16. ASSUME NEW w \in Worker, Update(w), WorkerStep(w) PROVE TypeOK'
  BY <1>16 DEF WorkerStep, Update, Move, Unchanged, Released, workerVars, handlerVars
<1>17. ASSUME NEW w \in Worker, Commit(w), WorkerStep(w) PROVE TypeOK'
  <2>1. tx[w].version + 1 \in Nat /\ tx[w].attempt \in Nat /\ tx[w].attempt \in 1..2
    BY <1>17, Fields DEF Commit, Transactions
  <2>2. row' \in [version: Nat, attempt: Nat]
    BY <1>17, <2>1 DEF Commit
  <2>3. tx' \in [Worker -> [at: {"idle", "start", "begun", "read", "updated"} \cup Settled,
                           version: Nat, attempt: Nat]]
    BY <1>17 DEF Commit, Move, Settled
  <2>4. QED
    BY <1>17, <2>1, <2>2, <2>3 DEF WorkerStep, Commit, handlerVars
<1>18. ASSUME NEW w \in Worker, Abort(w), WorkerStep(w) PROVE TypeOK'
  BY <1>18 DEF WorkerStep, Abort, Move, Released, workerVars, handlerVars
<1>19. ASSUME NEW r \in Replay, InsertStep(r) PROVE TypeOK'
  BY <1>19 DEF InsertStep, InsertAnswered, InsertFails, workerVars, handlerVars
<1>20. QED
  BY <1>1, <1>2, <1>3, <1>4, <1>5, <1>6, <1>7, <1>8, <1>9, <1>10, <1>11, <1>12, <1>13, <1>14, <1>15, <1>16, <1>17, <1>18, <1>19 DEF Next, Handler, WorkerStep

\* Every step keeps the transactions in order.
LEMMA StepTransactions ==
  ASSUME IInv, [Next]_vars
  PROVE  Transactions'
<1> USE DEF IInv, TypeOK, Transactions, Active, Settled
<1>1. CASE UNCHANGED vars
  BY <1>1 DEF vars
<1>2. CASE SeedInserted
  BY <1>2, RowIsNotNull DEF SeedInserted, Start
<1>3. CASE SeedFails
  BY <1>3 DEF SeedFails, workerVars, handlerVars
<1>4. CASE Contended
  BY <1>4 DEF Contended, Start, AllSettled, Outcome, Passes, workerVars, handlerVars
<1>5. CASE Retried
  BY <1>5 DEF Retried, Retrier, AllSettled, Passes, workerVars, handlerVars
<1>6. CASE FinalState
  BY <1>6 DEF FinalState, Retrier, Passes, workerVars, handlerVars
<1>7. CASE Replayed
  BY <1>7 DEF Replayed, Answered, Passes, workerVars, handlerVars
<1>8. CASE ReplayRejected
  BY <1>8 DEF ReplayRejected, workerVars, handlerVars
<1>9. CASE VerifyRecord
  BY <1>9 DEF VerifyRecord, Passes, workerVars, handlerVars
<1>10. CASE DeleteRecord
  BY <1>10 DEF DeleteRecord, workerVars, handlerVars
<1>11. CASE DeleteSeed
  BY <1>11 DEF DeleteSeed, workerVars, handlerVars
<1>12. CASE CountSeed
  BY <1>12 DEF CountSeed, workerVars, handlerVars
<1>13. CASE CountRecord
  BY <1>13 DEF CountRecord, Passes, workerVars, handlerVars
<1>14. ASSUME NEW w \in Worker, Begin(w), WorkerStep(w) PROVE Transactions'
  BY <1>14 DEF WorkerStep, Begin, Move, workerVars, handlerVars
<1>15. ASSUME NEW w \in Worker, Read(w), WorkerStep(w) PROVE Transactions'
  BY <1>15 DEF WorkerStep, Read, workerVars, handlerVars
<1>16. ASSUME NEW w \in Worker, Update(w), WorkerStep(w) PROVE Transactions'
  BY <1>16 DEF WorkerStep, Update, Move, Unchanged, Released, workerVars, handlerVars
<1>17. ASSUME NEW w \in Worker, Commit(w), WorkerStep(w) PROVE Transactions'
  <2>1. row' # Null
    BY <1>17, RowIsNotNull, Fields DEF Commit
  <2>2. pc' = pc /\ pc \in {"contend", "retry"}
    BY <1>17 DEF WorkerStep, Commit, handlerVars
  <2>3. \A v \in Worker : tx'[v].at # "updated" /\ tx'[v].attempt = tx[v].attempt
    BY <1>17 DEF Commit, Move
  <2>4. QED
    BY <2>1, <2>2, <2>3
<1>18. ASSUME NEW w \in Worker, Abort(w), WorkerStep(w) PROVE Transactions'
  BY <1>18 DEF WorkerStep, Abort, Move, Released, workerVars, handlerVars
<1>19. ASSUME NEW r \in Replay, InsertStep(r) PROVE Transactions'
  BY <1>19 DEF InsertStep, InsertAnswered, InsertFails, workerVars, handlerVars
<1>20. QED
  BY <1>1, <1>2, <1>3, <1>4, <1>5, <1>6, <1>7, <1>8, <1>9, <1>10, <1>11, <1>12, <1>13, <1>14, <1>15, <1>16, <1>17, <1>18, <1>19 DEF Next, Handler, WorkerStep

\* Every step keeps what is applied, and its count.
LEMMA StepApplied ==
  ASSUME IInv, [Next]_vars
  PROVE  (Applied /\ NoLostUpdate)'
<1> USE DEF IInv, TypeOK, Transactions, Applied, NoLostUpdate, Active, Settled
<1>1. CASE UNCHANGED vars
  BY <1>1 DEF vars
<1>2. CASE SeedInserted
  BY <1>2, FS_EmptySet DEF SeedInserted, Start, workerVars, handlerVars
<1>3. CASE SeedFails
  BY <1>3, FS_EmptySet DEF SeedFails, workerVars, handlerVars
<1>4. CASE Contended
  <2>1. CASE Outcome("conflict") = {}
    BY <1>4, <2>1 DEF Contended, AllSettled, Outcome, Passes, workerVars, handlerVars
  <2>2. ASSUME NEW loser \in Outcome("conflict"), Start({loser}, 2)
        PROVE  (Applied /\ NoLostUpdate)'
    <3>1. /\ tx[loser].at = "conflict" /\ tx[loser].attempt = 1
          /\ <<loser, 1>> \notin applied /\ <<loser, 2>> \notin applied
      BY <1>4, <2>2 DEF Contended, Outcome
    <3>2. /\ tx'[loser].at = "start" /\ tx'[loser].attempt = 2
          /\ \A w \in Worker : w # loser => tx'[w] = tx[w]
      BY <2>2 DEF Start, Outcome
    <3>3. applied' = applied /\ row' = row
      BY <1>4 DEF Contended
    <3>4. NoLostUpdate'
      BY <3>3
    <3>5. ASSUME NEW w \in Worker
          PROVE  /\ \A a \in 1..2 : <<w, a>> \in applied =>
                      /\ a <= tx'[w].attempt
                      /\ a = tx'[w].attempt => tx'[w].at \in {"committed", "failed"}
                 /\ tx'[w].at = "committed" => <<w, tx'[w].attempt>> \in applied
                 /\ tx'[w].attempt = 2 => <<w, 1>> \notin applied
      BY <3>1, <3>2
    <3>6. Applied'
      BY <3>3, <3>5
    <3>7. QED
      BY <3>4, <3>6
  <2>3. QED
    BY <1>4, <2>1, <2>2 DEF Contended
<1>5. CASE Retried
  BY <1>5 DEF Retried, Retrier, AllSettled, Passes, workerVars, handlerVars
<1>6. CASE FinalState
  BY <1>6 DEF FinalState, Retrier, Passes, workerVars, handlerVars
<1>7. CASE Replayed
  BY <1>7 DEF Replayed, Answered, Passes, workerVars, handlerVars
<1>8. CASE ReplayRejected
  BY <1>8 DEF ReplayRejected, workerVars, handlerVars
<1>9. CASE VerifyRecord
  BY <1>9 DEF VerifyRecord, Passes, workerVars, handlerVars
<1>10. CASE DeleteRecord
  BY <1>10 DEF DeleteRecord, workerVars, handlerVars
<1>11. CASE DeleteSeed
  BY <1>11 DEF DeleteSeed, workerVars, handlerVars
<1>12. CASE CountSeed
  BY <1>12 DEF CountSeed, workerVars, handlerVars
<1>13. CASE CountRecord
  BY <1>13 DEF CountRecord, Passes, workerVars, handlerVars
<1>14. ASSUME NEW w \in Worker, Begin(w), WorkerStep(w) PROVE (Applied /\ NoLostUpdate)'
  BY <1>14 DEF WorkerStep, Begin, Move, workerVars, handlerVars
<1>15. ASSUME NEW w \in Worker, Read(w), WorkerStep(w) PROVE (Applied /\ NoLostUpdate)'
  BY <1>15 DEF WorkerStep, Read, workerVars, handlerVars
<1>16. ASSUME NEW w \in Worker, Update(w), WorkerStep(w) PROVE (Applied /\ NoLostUpdate)'
  BY <1>16 DEF WorkerStep, Update, Move, Unchanged, Released, workerVars, handlerVars
<1>17. ASSUME NEW w \in Worker, Commit(w), WorkerStep(w) PROVE (Applied /\ NoLostUpdate)'
  <2> DEFINE one == <<w, tx[w].attempt>>
  <2>1. tx[w].attempt \in 1..2
    BY <1>17, Fields DEF Commit
  <2>2. one \notin applied
    BY <1>17, <2>1 DEF Commit
  <2>3. applied' = applied \cup {one} /\ IsFiniteSet(applied)
    BY <1>17 DEF Commit
  <2>4. IsFiniteSet(applied') /\ Cardinality(applied') = Cardinality(applied) + 1
    BY <2>2, <2>3, FS_AddElement
  <2>5. row # Null /\ row.version = tx[w].version /\ row'.version = tx[w].version + 1
    BY <1>17 DEF Commit
  <2>6. NoLostUpdate'
    BY <2>4, <2>5
  <2>7. Applied'
    BY <1>17, <2>1, <2>3, <2>4 DEF Commit, Move
  <2>8. QED
    BY <2>6, <2>7
<1>18. ASSUME NEW w \in Worker, Abort(w), WorkerStep(w) PROVE (Applied /\ NoLostUpdate)'
  BY <1>18 DEF WorkerStep, Abort, Move, Released, workerVars, handlerVars
<1>19. ASSUME NEW r \in Replay, InsertStep(r) PROVE (Applied /\ NoLostUpdate)'
  BY <1>19 DEF InsertStep, InsertAnswered, InsertFails, workerVars, handlerVars
<1>20. QED
  BY <1>1, <1>2, <1>3, <1>4, <1>5, <1>6, <1>7, <1>8, <1>9, <1>10, <1>11, <1>12, <1>13, <1>14, <1>15, <1>16, <1>17, <1>18, <1>19 DEF Next, Handler, WorkerStep

\* Every step keeps the barrier.
LEMMA StepBarrier ==
  ASSUME IInv, [Next]_vars
  PROVE  ReadBeforeWrite'
<1> USE DEF IInv, TypeOK, Transactions, ReadBeforeWrite, Settled, Active
<1>1. CASE UNCHANGED vars
  BY <1>1 DEF vars
<1>2. CASE SeedInserted
  BY <1>2 DEF SeedInserted, Start, workerVars, handlerVars
<1>3. CASE SeedFails
  BY <1>3 DEF SeedFails, workerVars, handlerVars
<1>4. CASE Contended
  BY <1>4 DEF Contended, Start, AllSettled, Outcome, Passes, workerVars, handlerVars
<1>5. CASE Retried
  BY <1>5 DEF Retried, Retrier, AllSettled, Passes, workerVars, handlerVars
<1>6. CASE FinalState
  BY <1>6 DEF FinalState, Retrier, Passes, workerVars, handlerVars
<1>7. CASE Replayed
  BY <1>7 DEF Replayed, Answered, Passes, workerVars, handlerVars
<1>8. CASE ReplayRejected
  BY <1>8 DEF ReplayRejected, workerVars, handlerVars
<1>9. CASE VerifyRecord
  BY <1>9 DEF VerifyRecord, Passes, workerVars, handlerVars
<1>10. CASE DeleteRecord
  BY <1>10 DEF DeleteRecord, workerVars, handlerVars
<1>11. CASE DeleteSeed
  BY <1>11 DEF DeleteSeed, workerVars, handlerVars
<1>12. CASE CountSeed
  BY <1>12 DEF CountSeed, workerVars, handlerVars
<1>13. CASE CountRecord
  BY <1>13 DEF CountRecord, Passes, workerVars, handlerVars
<1>14. ASSUME NEW w \in Worker, Begin(w), WorkerStep(w) PROVE ReadBeforeWrite'
  BY <1>14 DEF WorkerStep, Begin, Move, workerVars, handlerVars
<1>15. ASSUME NEW w \in Worker, Read(w), WorkerStep(w) PROVE ReadBeforeWrite'
  BY <1>15 DEF WorkerStep, Read, workerVars, handlerVars
<1>16. ASSUME NEW w \in Worker, Update(w), WorkerStep(w) PROVE ReadBeforeWrite'
  BY <1>16 DEF WorkerStep, Update, Move, Unchanged, Released, workerVars, handlerVars
<1>17. ASSUME NEW w \in Worker, Commit(w), WorkerStep(w) PROVE ReadBeforeWrite'
  BY <1>17 DEF WorkerStep, Commit, Move, workerVars, handlerVars
<1>18. ASSUME NEW w \in Worker, Abort(w), WorkerStep(w) PROVE ReadBeforeWrite'
  BY <1>18 DEF WorkerStep, Abort, Move, Released, workerVars, handlerVars
<1>19. ASSUME NEW r \in Replay, InsertStep(r) PROVE ReadBeforeWrite'
  BY <1>19 DEF InsertStep, InsertAnswered, InsertFails, workerVars, handlerVars
<1>20. QED
  BY <1>1, <1>2, <1>3, <1>4, <1>5, <1>6, <1>7, <1>8, <1>9, <1>10, <1>11, <1>12, <1>13, <1>14, <1>15, <1>16, <1>17, <1>18, <1>19 DEF Next, Handler, WorkerStep

\* Every step keeps the single record.
LEMMA StepRecords ==
  ASSUME IInv, [Next]_vars
  PROVE  Records'
<1> USE DEF IInv, TypeOK, Records, SingleCanonicalRecord, Answered
<1>1. CASE UNCHANGED vars
  BY <1>1 DEF vars
<1>2. CASE SeedInserted
  BY <1>2 DEF SeedInserted, Start, workerVars, handlerVars
<1>3. CASE SeedFails
  BY <1>3 DEF SeedFails, workerVars, handlerVars
<1>4. CASE Contended
  BY <1>4 DEF Contended, Start, AllSettled, Outcome, Passes, workerVars, handlerVars
<1>5. CASE Retried
  BY <1>5 DEF Retried, Retrier, AllSettled, Passes, workerVars, handlerVars
<1>6. CASE FinalState
  BY <1>6 DEF FinalState, Retrier, Passes, workerVars, handlerVars
<1>7. CASE Replayed
  BY <1>7 DEF Replayed, Answered, Passes, workerVars, handlerVars
<1>8. CASE ReplayRejected
  BY <1>8 DEF ReplayRejected, workerVars, handlerVars
<1>9. CASE VerifyRecord
  BY <1>9 DEF VerifyRecord, Passes, workerVars, handlerVars
<1>10. CASE DeleteRecord
  BY <1>10 DEF DeleteRecord, workerVars, handlerVars
<1>11. CASE DeleteSeed
  BY <1>11 DEF DeleteSeed, workerVars, handlerVars
<1>12. CASE CountSeed
  BY <1>12 DEF CountSeed, workerVars, handlerVars
<1>13. CASE CountRecord
  BY <1>13 DEF CountRecord, Passes, workerVars, handlerVars
<1>14. ASSUME NEW w \in Worker, Begin(w), WorkerStep(w) PROVE Records'
  BY <1>14 DEF WorkerStep, Begin, Move, workerVars, handlerVars
<1>15. ASSUME NEW w \in Worker, Read(w), WorkerStep(w) PROVE Records'
  BY <1>15 DEF WorkerStep, Read, workerVars, handlerVars
<1>16. ASSUME NEW w \in Worker, Update(w), WorkerStep(w) PROVE Records'
  BY <1>16 DEF WorkerStep, Update, Move, Unchanged, Released, workerVars, handlerVars
<1>17. ASSUME NEW w \in Worker, Commit(w), WorkerStep(w) PROVE Records'
  BY <1>17 DEF WorkerStep, Commit, Move, workerVars, handlerVars
<1>18. ASSUME NEW w \in Worker, Abort(w), WorkerStep(w) PROVE Records'
  BY <1>18 DEF WorkerStep, Abort, Move, Released, workerVars, handlerVars
<1>19. ASSUME NEW r \in Replay, InsertStep(r) PROVE Records'
  BY <1>19 DEF InsertStep, InsertAnswered, InsertFails, workerVars, handlerVars
<1>20. QED
  BY <1>1, <1>2, <1>3, <1>4, <1>5, <1>6, <1>7, <1>8, <1>9, <1>10, <1>11, <1>12, <1>13, <1>14, <1>15, <1>16, <1>17, <1>18, <1>19 DEF Next, Handler, WorkerStep

\* Every step keeps what the checks that passed say.
LEMMA StepVerdicts ==
  ASSUME IInv, [Next]_vars
  PROVE  Verdicts'
<1> USE DEF IInv, TypeOK, Transactions, Records, Verdicts, Settled, Active, Answered
<1>1. CASE UNCHANGED vars
  BY <1>1 DEF vars
<1>2. CASE SeedInserted
  BY <1>2 DEF SeedInserted, Start, workerVars, handlerVars
<1>3. CASE SeedFails
  BY <1>3 DEF SeedFails, workerVars, handlerVars
<1>4. CASE Contended
  <2> DEFINE C == Outcome("conflict")
  <2>1. CASE C = {}
    <3>1. "CONFLICT" \notin passed'
      <4>1. Cardinality(C) # 1
        <5> HIDE DEF C
        <5>1. QED
          BY <2>1, FS_EmptySet
      <4>2. QED
        BY <1>4, <4>1 DEF Contended, Passes
    <3>2. QED
      BY <1>4, <2>1, <3>1 DEF Contended, AllSettled, Passes, handlerVars
  <2>2. ASSUME NEW loser \in C, Start({loser}, 2), pc' = "retry"
        PROVE  Verdicts'
    <3>1. "CONFLICT" \in passed' => Outcome("failed") = {} /\ Cardinality(C) = 1
      BY <1>4 DEF Contended, Passes
    <3>2. Cardinality(C) = 1 => \A w \in C : w = loser
      <4>1. IsFiniteSet(C)
        BY FS_Subset, WorkerAssumption DEF Outcome
      <4> HIDE DEF C
      <4>2. QED
        BY <4>1, <2>2, FS_Singleton
    <3>3. QED
      BY <1>4, <2>2, <3>1, <3>2 DEF Contended, Start, AllSettled, Outcome, Passes, handlerVars
  <2>3. QED
    BY <1>4, <2>1, <2>2 DEF Contended
<1>5. CASE Retried
  BY <1>5 DEF Retried, Retrier, AllSettled, Passes, workerVars, handlerVars
<1>6. CASE FinalState
  BY <1>6 DEF FinalState, Retrier, Passes, workerVars, handlerVars
<1>7. CASE Replayed
  BY <1>7 DEF Replayed, Answered, Passes, workerVars, handlerVars
<1>8. CASE ReplayRejected
  BY <1>8 DEF ReplayRejected, workerVars, handlerVars
<1>9. CASE VerifyRecord
  BY <1>9 DEF VerifyRecord, Passes, workerVars, handlerVars
<1>10. CASE DeleteRecord
  BY <1>10 DEF DeleteRecord, workerVars, handlerVars
<1>11. CASE DeleteSeed
  BY <1>11 DEF DeleteSeed, workerVars, handlerVars
<1>12. CASE CountSeed
  BY <1>12 DEF CountSeed, workerVars, handlerVars
<1>13. CASE CountRecord
  BY <1>13 DEF CountRecord, Passes, workerVars, handlerVars
<1>14. ASSUME NEW w \in Worker, Begin(w), WorkerStep(w) PROVE Verdicts'
  BY <1>14 DEF WorkerStep, Begin, Move, workerVars, handlerVars
<1>15. ASSUME NEW w \in Worker, Read(w), WorkerStep(w) PROVE Verdicts'
  BY <1>15 DEF WorkerStep, Read, workerVars, handlerVars
<1>16. ASSUME NEW w \in Worker, Update(w), WorkerStep(w) PROVE Verdicts'
  BY <1>16 DEF WorkerStep, Update, Move, Unchanged, Released, workerVars, handlerVars
<1>17. ASSUME NEW w \in Worker, Commit(w), WorkerStep(w) PROVE Verdicts'
  BY <1>17 DEF WorkerStep, Commit, Move, workerVars, handlerVars
<1>18. ASSUME NEW w \in Worker, Abort(w), WorkerStep(w) PROVE Verdicts'
  BY <1>18 DEF WorkerStep, Abort, Move, Released, workerVars, handlerVars
<1>19. ASSUME NEW r \in Replay, InsertStep(r) PROVE Verdicts'
  BY <1>19 DEF InsertStep, InsertAnswered, InsertFails, workerVars, handlerVars
<1>20. QED
  BY <1>1, <1>2, <1>3, <1>4, <1>5, <1>6, <1>7, <1>8, <1>9, <1>10, <1>11, <1>12, <1>13, <1>14, <1>15, <1>16, <1>17, <1>18, <1>19 DEF Next, Handler, WorkerStep

\* The inductive invariant: who holds the row lock and from which version, what
\* each worker has applied, which inserts may still create the record, and what
\* every check that passed says.
THEOREM Inductive == Spec => []IInv
<1>1. IInv /\ [Next]_vars => IInv'
  BY StepTypes, StepTransactions, StepApplied, StepBarrier, StepRecords, StepVerdicts DEF IInv
<1>2. QED
  BY InitIInv, <1>1, PTL DEF Spec

\* Rows, transactions, inserts and checks have their types.
THEOREM TypeCorrect == Spec => []TypeOK
<1>1. IInv => TypeOK
  BY DEF IInv
<1>2. QED
  BY <1>1, Inductive, PTL

\* No committed update of the contended row replaces one it has not read,
\* whatever fails.
THEOREM NoUpdateIsLost == Spec => []NoLostUpdate
<1>1. IInv => NoLostUpdate
  BY DEF IInv
<1>2. QED
  BY <1>1, Inductive, PTL

\* No first attempt writes before every first attempt has read.
THEOREM BarrierHolds == Spec => []ReadBeforeWrite
<1>1. IInv => ReadBeforeWrite
  BY DEF IInv
<1>2. QED
  BY <1>1, Inductive, PTL

\* However many requests repeat an operation key, one creates the record.
THEOREM RecordIsSingle == Spec => []SingleCanonicalRecord
<1>1. IInv => SingleCanonicalRecord
  BY DEF IInv, Records
<1>2. QED
  BY <1>1, Inductive, PTL

\* A run whose checks all passed applied every worker's update once and left
\* nothing behind.
THEOREM PassIsTrue == Spec => []PassIsTruthful
<1>1. IInv => PassIsTruthful
  <2> SUFFICES ASSUME IInv, pc = "done", passed = Check
               PROVE  /\ row = Null /\ ~idem
                      /\ \A w \in Worker :
                           \E n \in 1..2 : applied \cap ({w} \X (1..2)) = {<<w, n>>}
    BY DEF PassIsTruthful
  <2>1. row = Null /\ ~idem
    BY DEF IInv, Verdicts, Check, Answered
  <2>2. ASSUME NEW w \in Worker
        PROVE  \E n \in 1..2 : applied \cap ({w} \X (1..2)) = {<<w, n>>}
    <3>1. tx[w].at = "committed"
      BY DEF IInv, Verdicts, Check
    <3>2. <<w, tx[w].attempt>> \in applied /\ tx[w].attempt \in 1..2
      BY <3>1 DEF IInv, Applied, TypeOK
    <3>3. ASSUME NEW a \in 1..2, <<w, a>> \in applied PROVE a = tx[w].attempt
      BY <3>2, <3>3 DEF IInv, Applied
    <3>4. applied \cap ({w} \X (1..2)) = {<<w, tx[w].attempt>>}
      BY <3>2, <3>3
    <3>5. QED
      BY <3>2, <3>4
  <2>3. QED
    BY <2>1, <2>2
<1>2. QED
  BY <1>1, Inductive, PTL

\* A cleanup check that passed is true, unless an insert was abandoned.
THEOREM CleanupIsClean == Spec => []CleanupCheckMeansClean
<1>1. IInv => CleanupCheckMeansClean
  BY DEF IInv, Verdicts, CleanupCheckMeansClean
<1>2. QED
  BY <1>1, Inductive, PTL

-----------------------------------------------------------------------------
\* What is seen of the committed rows.
Version == IF row = Null THEN Null ELSE row.version

Served == {w \in Worker : applied \cap ({w} \X (1..2)) # {}}

LEMMA Seen ==
  /\ Serial!Init <=> (Version = Null /\ Served = {})
  /\ Serial!Create <=> (Version = Null /\ Served = {} /\ Version' = 0 /\ Served' = Served)
  /\ Serial!Remove <=> (Version # Null /\ Version' = Null /\ Served' = Served)
  /\ \A w : Serial!Increment(w) <=>
       /\ Version # Null /\ w \notin Served
       /\ Version' = Version + 1 /\ Served' = Served \cup {w}
BY DEF Serial!Init, Serial!Create, Serial!Remove, Serial!Increment,
       Version, Served

LEMMA ServedIs ==
  /\ Served = {w \in Worker : \E a \in 1..2 : <<w, a>> \in applied}
  /\ Served' = {w \in Worker : \E a \in 1..2 : <<w, a>> \in applied'}
BY DEF Served

\* A commit serves its worker for the first time, and counts from the version
\* that is there.
LEMMA CommitIncrements ==
  ASSUME IInv, NEW w \in Worker, Commit(w)
  PROVE  Serial!Increment(w)
<1> DEFINE n == tx[w].attempt
<1>1. /\ tx[w].at = "updated" /\ n \in 1..2
      /\ row # Null /\ row.version = tx[w].version /\ row.version \in Nat
  BY Fields DEF Commit, IInv, Transactions, Active
<1>2. /\ row' = [version |-> row.version + 1, attempt |-> n]
      /\ applied' = applied \cup {<<w, n>>}
  BY <1>1 DEF Commit
<1>3. Version # Null /\ Version' = Version + 1
  BY <1>1, <1>2, RowIsNotNull, NullAssumption DEF Version
<1>4. w \notin Served
  <2>1. SUFFICES ASSUME NEW a \in 1..2, <<w, a>> \in applied
                 PROVE  FALSE
    BY DEF Served
  <2>2. a <= n /\ (a = n => tx[w].at \in {"committed", "failed"})
    BY <2>1 DEF IInv, Applied
  <2>3. a # n
    BY <1>1, <2>2
  <2>4. a = 1 /\ n = 2
    BY <1>1, <2>2, <2>3
  <2>5. QED
    BY <2>1, <2>4 DEF IInv, Applied
<1>5. Served' = Served \cup {w}
  BY <1>1, <1>2, ServedIs
<1>6. QED
  BY <1>3, <1>4, <1>5, Seen

\* Every step creates, increments or removes the value, or leaves it alone.
LEMMA StepSerial ==
  ASSUME IInv, [Next]_vars
  PROVE  [Serial!Next]_(Serial!vars)
<1>1. CASE row' = row /\ applied' = applied
  BY <1>1 DEF Serial!vars
<1>2. CASE SeedInserted \/ SeedFails
  <2>1. row = Null /\ applied = {} /\ applied' = applied
    BY <1>2 DEF SeedInserted, SeedFails, workerVars, IInv, Transactions
  <2>2. CASE row' = [version |-> 0, attempt |-> 0]
    <3>1. Version = Null /\ Version' = 0
      BY <2>1, <2>2, RowIsNotNull DEF Version
    <3>2. Served = {} /\ Served' = {}
      BY <2>1 DEF Served
    <3>3. QED
      BY <3>1, <3>2, Seen DEF Serial!Next
  <2>3. QED
    BY <1>1, <1>2, <2>1, <2>2 DEF SeedInserted, SeedFails
<1>3. CASE DeleteSeed
  <2>1. applied' = applied /\ row' \in {row, Null}
    BY <1>3 DEF DeleteSeed, workerVars
  <2>2. CASE row # Null /\ row' = Null
    <3>1. Version # Null /\ Version' = Null
      BY <2>2, NullAssumption DEF Version, IInv, TypeOK
    <3>2. Served' = Served
      BY <2>1 DEF Served
    <3>3. QED
      BY <3>1, <3>2, Seen DEF Serial!Next
  <2>3. QED
    BY <1>1, <2>1, <2>2
<1>4. ASSUME NEW w \in Worker, Commit(w)
      PROVE  Serial!Next
  BY <1>4, CommitIncrements DEF Serial!Next
<1>5. ASSUME NEW w \in Worker, WorkerStep(w), ~Commit(w)
      PROVE  row' = row /\ applied' = applied
  BY <1>5 DEF WorkerStep, Begin, Read, Update, Abort
<1>6. ASSUME \/ UNCHANGED vars \/ \E r \in Replay : InsertStep(r)
             \/ Contended \/ Retried \/ FinalState \/ Replayed \/ ReplayRejected
             \/ VerifyRecord \/ DeleteRecord \/ CountSeed \/ CountRecord
      PROVE  row' = row /\ applied' = applied
  BY <1>6 DEF vars, InsertStep, Contended, Retried, FinalState, Replayed, ReplayRejected,
              VerifyRecord, DeleteRecord, CountSeed, CountRecord, workerVars
<1>7. QED
  BY <1>1, <1>2, <1>3, <1>4, <1>5, <1>6 DEF Next, Handler

\* The transactions with their rejections and the retry implement one atomic
\* increment for each worker at most.
THEOREM RunImplementsSerial == Spec => ImplementsSerial
<1>1. Init => Serial!Init
  BY Seen DEF Init, Version, Served
<1>2. QED
  BY <1>1, StepSerial, Inductive, PTL DEF Spec, ImplementsSerial, Serial!Spec
=============================================================================
