----------------------- MODULE RuntimeOperationsLedger -----------------------
(***************************************************************************)
(* The persistent runtime operations ledger: the append service            *)
(* (runtime-operations-persistent-append.service.ts) over the repository   *)
(* (runtime-operations-ledger-repository.ts) over the table and triggers   *)
(* of db/migrations/20260808_runtime_operations_ledger*.sql.               *)
(*                                                                         *)
(* Every SELECT and INSERT of a call is one action, since other calls run  *)
(* between them; reads of rows that can no longer change are taken         *)
(* together with the read before them.  An INSERT is one action because    *)
(* its trigger holds an advisory lock until the row is committed.          *)
(* A hash is modelled by what it is a hash of: entry_sha256 covers the     *)
(* source of the entry and the hash of the previous entry, hence all the   *)
(* sources up to it.                                                       *)
(***************************************************************************)
EXTENDS Integers, Sequences

CONSTANT Null,           \* SQL NULL
         Worker,         \* calls that run concurrently
         Operation,      \* values of operation_id_sha256
         Source,         \* source inputs: records with a revision, and the rest
         Requests,       \* the [operation, source] that callers ask for
         Direct,         \* sources that routes append without the service
         PageSize,       \* verification.pageSize
         MaximumEntries  \* verification.maximumEntries

ASSUME PageSizeAssumption == PageSize \in Nat \ {0} /\ MaximumEntries \in Nat
ASSUME RequestAssumption ==
  /\ Requests \subseteq [operation: Operation \cup {Null}, source: Source]
  /\ Direct \subseteq Source
  /\ Null \notin Operation \cup Source

VARIABLE ledger,  \* the rows of the table, in the order they were committed
         call     \* per worker, the call in progress or the last one

vars == <<ledger, call>>

Hash == Seq(Source)

Row == [sequence: Nat \ {0}, operation: Operation \cup {Null}, source: Source,
        previous: Hash \cup {Null}, hash: Hash]

Rows == {ledger[i] : i \in DOMAIN ledger}

\* The errors, some of them merged, and the answer of a call that passes.  The two
\* errors CHAIN_LIMIT_EXCEEDED, of the tip and of the rows read, are told apart.
Broken == {"CURRENT_TIP_INVALID", "POST_INSERT_VERIFICATION_FAILED", "REREAD_MISMATCH",
           "TIP_REGRESSION", "READ_LIMIT_EXCEEDED", "FULL_CHAIN_VERIFICATION_FAILED"}
Refused == {"SOURCE_REVISION_CONFLICT", "GENESIS_REQUIRED", "EXPECTED_TIP_MISMATCH",
            "OPERATION_IDEMPOTENCY_CONFLICT", "SEQUENCE_DISCONTINUITY", "UNIQUE_VIOLATION"}
Result == Broken \cup Refused \cup {"DATABASE_FAILURE", "CHAIN_LIMIT_EXCEEDED", "PASS"}

Step == {"idle", "preflight", "tip", "gate", "latest", "inserting", "resolving",
         "persisted", "after", "pages", "done"}

Request == [operation: Operation \cup {Null}, source: Source]

\* tip is what the repository read, row what it inserts or resolved to, upto
\* and read the full chain being read; attempted and confirmed are
\* persistenceAttempted and persistenceConfirmed, and once the call is done what
\* its answer or its error reports of them.  fate is history, of what the
\* properties compare them with: whether an INSERT of this call committed, or the
\* append of the repository returned its row, inserted or replayed.
Call == [step: Step, request: Request \cup {Null}, direct: BOOLEAN,
         expected: Hash \cup {Null}, tip: Row \cup {Null}, row: Row \cup {Null},
         upto: Nat, read: Seq(Row), attempted: BOOLEAN, confirmed: BOOLEAN,
         fate: {"none", "inserted", "returned"}, result: Result \cup {Null}]

ASSUME NullAssumption ==
  Null \notin Hash /\ Null \notin Row /\ Null \notin Request /\ Null \notin Result

Idle == [step |-> "idle", request |-> Null, direct |-> FALSE, expected |-> Null,
         tip |-> Null, row |-> Null, upto |-> 0, read |-> << >>,
         attempted |-> FALSE, confirmed |-> FALSE, fate |-> "none", result |-> Null]

Init ==
  /\ ledger = << >>
  /\ call = [w \in Worker |-> Idle]

-----------------------------------------------------------------------------
\* ORDER BY sequence DESC LIMIT 1
Tip == IF ledger = << >> THEN Null
       ELSE CHOOSE r \in Rows : \A q \in Rows : q.sequence <= r.sequence

\* WHERE operation_id_sha256 = o, which no NULL matches.
ByOperation(o) == {r \in Rows : o # Null /\ r.operation = o}

\* Mutant of EntryHash: the previous hash is not covered.
EntryHashAlone(previous, source) == <<source>>

\* calculateEntrySha256
EntryHash(previous, source) ==
  IF previous = Null THEN <<source>> ELSE Append(previous, source)

HashOf(r) == IF r = Null THEN Null ELSE r.hash

\* verifyRuntimeOperationsLedgerEntry
EntryVerified(r, previous) ==
  /\ r.previous = HashOf(previous)
  /\ r.hash = EntryHash(r.previous, r.source)

\* getRuntimeOperationsLedgerEntryBySequence(sequence - 1), Null for the first.
Previous(r) == IF \E p \in Rows : p.sequence + 1 = r.sequence
                 THEN CHOOSE p \in Rows : p.sequence + 1 = r.sequence
                 ELSE Null

\* Mutant of Candidate: sequences start at 0.
CandidateFromZero(tip, request) ==
  [sequence |-> IF tip = Null THEN 0 ELSE tip.sequence + 1,
   operation |-> request.operation, source |-> request.source,
   previous |-> HashOf(tip), hash |-> EntryHash(HashOf(tip), request.source)]

\* buildRuntimeOperationsLedgerEntry
Candidate(tip, request) ==
  [sequence |-> IF tip = Null THEN 1 ELSE tip.sequence + 1,
   operation |-> request.operation, source |-> request.source,
   previous |-> HashOf(tip), hash |-> EntryHash(HashOf(tip), request.source)]

\* hbce_runtime_operations_ledger_validate_append, with the lock held.
TriggerAccepts(r) ==
  IF Tip = Null THEN r.sequence = 1 /\ r.previous = Null
                ELSE r.sequence = Tip.sequence + 1 /\ r.previous = Tip.hash

\* Mutant of Conflicts: the index on operation_id_sha256 is missing.
ConflictsNoOperation(r) ==
  {c \in {"sequence", "hash", "source"} : \E q \in Rows : q[c] = r[c]}

\* The unique indexes that row r violates.  evidence_sha256 and envelope_sha256
\* both are hashes of the source; the index on operation_id_sha256 is partial.
Conflicts(r) ==
  {c \in {"sequence", "hash", "source", "operation"} :
     \E q \in Rows : q[c] = r[c] /\ q[c] # Null}

\* Mutant of PayloadMatches: the repository compares nothing.
PayloadMatchesAlways(r, request) == TRUE

\* assertIdempotentReplayMatchesEnvelope
PayloadMatches(r, request) == r.source = request.source

-----------------------------------------------------------------------------
\* Call c ends, with the flags as they are; what it read is forgotten.
Ended(c, result) ==
  [c EXCEPT !.step = "done", !.result = result, !.expected = Null, !.tip = Null,
            !.upto = 0, !.read = << >>]

Done(w, result) == call' = [call EXCEPT ![w] = Ended(@, result)]

\* fail() was called without the flags, and reports both as false.
Denied(w, result) ==
  call' = [call EXCEPT ![w] = [Ended(@, result) EXCEPT !.attempted = FALSE,
                                                       !.confirmed = FALSE]]

GoTo(w, step) == call' = [call EXCEPT ![w] = [@ EXCEPT !.step = step]]

\* The repository returned row r, inserted or replayed.  The routes that append
\* without the service have their answer.
Persisted(c, r) ==
  [c EXCEPT !.row = r, !.confirmed = TRUE, !.fate = "returned",
            !.expected = Null, !.tip = Null,
            !.step = IF c.direct THEN "done" ELSE "persisted",
            !.result = IF c.direct THEN "PASS" ELSE Null]

Persist(w, r) == call' = [call EXCEPT ![w] = Persisted(@, r)]

\* appendRuntimeOperationsPersistentEvidence is called with valid arguments; a
\* caller that gives an expectedTip has just read the tip.
Begin(w, request) ==
  /\ call[w].step \in {"idle", "done"}
  /\ \E expected \in {Null, HashOf(Tip)} :
       call' = [call EXCEPT ![w] = [Idle EXCEPT !.step = "preflight",
                                                !.request = request,
                                                !.expected = expected]]
  /\ UNCHANGED ledger

\* appendVerifiedRuntimeOperationsLedgerEntry called by a route, without an
\* operation: so the Genesis entry is made.  The routes keep the same two flags.
BeginDirect(w, source) ==
  /\ call[w].step \in {"idle", "done"}
  /\ call' = [call EXCEPT ![w] = [Idle EXCEPT !.step = "gate", !.direct = TRUE,
                                    !.attempted = TRUE,
                                    !.request = [operation |-> Null, source |-> source]]]
  /\ UNCHANGED ledger

\* Idempotency preflight of the service.  The errors it raises report the row it
\* found as confirmed, a row in another source revision too; persistenceConfirmed
\* itself stays false, and is what is reported if a later statement fails.
Preflight(w) ==
  LET request == call[w].request IN
  /\ call[w].step = "preflight"
  /\ \/ /\ ByOperation(request.operation) = {}
        /\ GoTo(w, "tip")
     \/ \E r \in ByOperation(request.operation) :
          LET found == [call[w] EXCEPT !.row = r]
              Refusal(result) == [Ended(found, result) EXCEPT !.confirmed = TRUE]
          IN call' = [call EXCEPT ![w] =
                        IF r.source.revision # request.source.revision
                          THEN Refusal("SOURCE_REVISION_CONFLICT")
                        ELSE IF ~EntryVerified(r, Previous(r))
                          THEN Refusal("CURRENT_TIP_INVALID")
                        ELSE [found EXCEPT !.step = "after"]]
  /\ UNCHANGED ledger

\* Mutant of ReadTip: persistenceAttempted is not set before the repository is called.
ReadTipUnattempted(w) ==
  /\ call[w].step = "tip"
  /\ IF Tip = Null THEN Done(w, "GENESIS_REQUIRED")
     ELSE IF call[w].expected \notin {Null, Tip.hash} THEN Done(w, "EXPECTED_TIP_MISMATCH")
     ELSE IF ~EntryVerified(Tip, Previous(Tip)) THEN Done(w, "CURRENT_TIP_INVALID")
     ELSE GoTo(w, "gate")
  /\ UNCHANGED ledger

\* The tip is read, compared with the expected one and verified; the repository
\* is called next, and from here on persistence was attempted.
ReadTip(w) ==
  /\ call[w].step = "tip"
  /\ IF Tip = Null THEN Done(w, "GENESIS_REQUIRED")
     ELSE IF call[w].expected \notin {Null, Tip.hash} THEN Done(w, "EXPECTED_TIP_MISMATCH")
     ELSE IF ~EntryVerified(Tip, Previous(Tip)) THEN Done(w, "CURRENT_TIP_INVALID")
     ELSE call' = [call EXCEPT ![w] = [@ EXCEPT !.step = "gate", !.attempted = TRUE]]
  /\ UNCHANGED ledger

\* A row of the operation exists: it is replayed if it has the same payload.
Replay(w, r) ==
  IF PayloadMatches(r, call[w].request)
    THEN Persist(w, r)
    ELSE Done(w, "OPERATION_IDEMPOTENCY_CONFLICT")

\* First idempotency gate of the repository.
Gate(w) ==
  /\ call[w].step = "gate"
  /\ \/ /\ ByOperation(call[w].request.operation) = {}
        /\ GoTo(w, "latest")
     \/ \E r \in ByOperation(call[w].request.operation) : Replay(w, r)
  /\ UNCHANGED ledger

\* The repository reads the tip again and builds the entry that follows it.
ReadLatest(w) ==
  /\ call[w].step = "latest"
  /\ call' = [call EXCEPT ![w] = [@ EXCEPT !.step = "inserting", !.tip = Tip,
                                           !.row = Candidate(Tip, call[w].request)]]
  /\ UNCHANGED ledger

\* The INSERT of call w committed, and the repository fails all the same.
Inserted(w, result) ==
  call' = [call EXCEPT ![w] = [Ended(@, result) EXCEPT !.fate = "inserted"]]

\* The INSERT commits, and its row is verified against the tip that was read.
Insert(w) ==
  LET r == call[w].row IN
  /\ call[w].step = "inserting"
  /\ TriggerAccepts(r)
  /\ Conflicts(r) = {}
  /\ ledger' = Append(ledger, r)
  /\ IF EntryVerified(r, call[w].tip) THEN Persist(w, r)
                                      ELSE Inserted(w, "POST_INSERT_VERIFICATION_FAILED")

\* The INSERT commits and its answer is lost.
InsertUnanswered(w) ==
  /\ call[w].step = "inserting"
  /\ TriggerAccepts(call[w].row)
  /\ Conflicts(call[w].row) = {}
  /\ ledger' = Append(ledger, call[w].row)
  /\ Inserted(w, "DATABASE_FAILURE")

\* The trigger, which runs before the indexes are looked at, raises 23514.
InsertDiscontinuous(w) ==
  /\ call[w].step = "inserting"
  /\ ~TriggerAccepts(call[w].row)
  /\ Done(w, "SEQUENCE_DISCONTINUITY")
  /\ UNCHANGED ledger

\* An index raises 23505.  With several violated, which one is reported depends
\* on the order in which the migrations created them; only the index on the
\* operation leads to the second idempotency gate.
InsertDuplicate(w) ==
  /\ call[w].step = "inserting"
  /\ TriggerAccepts(call[w].row)
  /\ \E c \in Conflicts(call[w].row) :
       IF c = "operation" THEN GoTo(w, "resolving") ELSE Done(w, "UNIQUE_VIOLATION")
  /\ UNCHANGED ledger

\* Second idempotency gate: the loser rereads the winner.
Resolve(w) ==
  /\ call[w].step = "resolving"
  /\ \E r \in ByOperation(call[w].request.operation) : Replay(w, r)
  /\ UNCHANGED ledger

\* The service rereads the row it was given, by sequence.
Reread(w) ==
  /\ call[w].step = "persisted"
  /\ \E r \in {q \in Rows : q.sequence = call[w].row.sequence} :
       IF /\ r.hash = call[w].row.hash
          /\ r.source = call[w].request.source
          /\ EntryVerified(r, Previous(r))
         THEN GoTo(w, "after")
         ELSE Done(w, "REREAD_MISMATCH")
  /\ UNCHANGED ledger

\* The tip after the append bounds the chain that is read.  A replay of the
\* preflight, which attempted nothing, is not compared with the tip.
ReadAfter(w) ==
  /\ call[w].step = "after"
  /\ IF call[w].attempted /\ Tip.sequence < call[w].row.sequence
       THEN Done(w, "TIP_REGRESSION")
     ELSE IF Tip.sequence > MaximumEntries THEN Denied(w, "CHAIN_LIMIT_EXCEEDED")
     ELSE call' = [call EXCEPT ![w] = [@ EXCEPT !.step = "pages", !.upto = Tip.sequence]]
  /\ UNCHANGED ledger

\* Mutant of Limit: the last page is not cut at the tip that was read.
LimitPageSize(remaining) == PageSize

\* Math.min(pageSize, remaining)
Limit(remaining) == IF PageSize < remaining THEN PageSize ELSE remaining

AfterSequence(read) == IF read = << >> THEN 0 ELSE read[Len(read)].sequence

\* The position of the first row beyond sequence number `after': rows were
\* committed in ascending order of sequence.
Beyond(after) ==
  CHOOSE i \in 1..(Len(ledger) + 1) :
    /\ \A j \in 1..(i - 1) : ledger[j].sequence <= after
    /\ i <= Len(ledger) => ledger[i].sequence > after

\* WHERE sequence > after ORDER BY sequence ASC LIMIT limit
Page(after, limit) ==
  LET rest == Len(ledger) + 1 - Beyond(after)
  IN SubSeq(ledger, Beyond(after), Beyond(after) + (IF limit < rest THEN limit ELSE rest) - 1)

NextPage(w) ==
  LET after == AfterSequence(call[w].read)
  IN Page(after, Limit(call[w].upto - after))

\* The loop goes on until the tip is reached or a page is empty.
Reading(w) == AfterSequence(call[w].read) < call[w].upto /\ NextPage(w) # << >>

ReadPage(w) ==
  LET read == call[w].read \o NextPage(w) IN
  /\ call[w].step = "pages"
  /\ Reading(w)
  /\ IF Len(read) > MaximumEntries
       THEN Denied(w, "READ_LIMIT_EXCEEDED")
       ELSE call' = [call EXCEPT ![w] = [@ EXCEPT !.read = read]]
  /\ UNCHANGED ledger

\* verifyRuntimeOperationsPersistentChain
ChainVerified(read, upto) ==
  /\ read # << >>
  /\ \A i \in 1..Len(read) :
       /\ read[i].sequence = i
       /\ EntryVerified(read[i], IF i = 1 THEN Null ELSE read[i - 1])
  /\ Len(read) = upto

\* Whether the chain verifies or not, the row is reported as confirmed.
FinishChain(w) ==
  LET result == IF ChainVerified(call[w].read, call[w].upto)
                  THEN "PASS" ELSE "FULL_CHAIN_VERIFICATION_FAILED" IN
  /\ call[w].step = "pages"
  /\ ~Reading(w)
  /\ call' = [call EXCEPT ![w] = [Ended(@, result) EXCEPT !.confirmed = TRUE]]
  /\ UNCHANGED ledger

\* A statement fails or its answer is lost, before or after the row is persisted.
DatabaseFailure(w) ==
  /\ call[w].step \notin {"idle", "done"}
  /\ Done(w, "DATABASE_FAILURE")
  /\ UNCHANGED ledger

Next ==
  \E w \in Worker :
    \/ \E request \in Requests : Begin(w, request)
    \/ \E source \in Direct : BeginDirect(w, source)
    \/ Preflight(w) \/ ReadTip(w) \/ Gate(w) \/ ReadLatest(w)
    \/ Insert(w) \/ InsertUnanswered(w) \/ InsertDiscontinuous(w) \/ InsertDuplicate(w)
    \/ Resolve(w) \/ Reread(w) \/ ReadAfter(w) \/ ReadPage(w) \/ FinishChain(w)
    \/ DatabaseFailure(w)

Spec == Init /\ [][Next]_vars

-----------------------------------------------------------------------------
\* Type correctness of the rows and of the calls.
TypeOK ==
  /\ ledger \in Seq(Row)
  /\ call \in [Worker -> Call]

\* However the calls interleave, the rows are numbered from 1 without a gap, and
\* each entry_sha256 commits to the source of every entry up to its own: nothing
\* read at one tip was chained to another.
ChainCommits ==
  \A i \in DOMAIN ledger :
    /\ ledger[i].sequence = i
    /\ ledger[i].hash = [j \in 1..i |-> ledger[j].source]
    /\ ledger[i].previous = IF i = 1 THEN Null ELSE ledger[i - 1].hash

\* A call that reports persistenceConfirmed, whatever it then ends with, names a
\* row of its operation that is in the ledger, in the revision of its source unless
\* that is what the call is refused for.
ConfirmedIsPersisted ==
  \A w \in Worker : call[w].confirmed =>
    \E r \in Rows : /\ r = call[w].row
                    /\ r.operation = call[w].request.operation
                    /\ \/ r.source.revision = call[w].request.source.revision
                       \/ call[w].result = "SOURCE_REVISION_CONFLICT"

\* And the other way round: a call that put a row in the ledger, though its answer
\* was lost, reports that it attempted to, and a call that was given its row, though
\* a later step fails, reports it as confirmed.  (But for the errors of the limit,
\* see PersistenceMayHaveOccurred.)
PersistedIsReported ==
  \A w \in Worker : call[w].result \notin {"CHAIN_LIMIT_EXCEEDED", "READ_LIMIT_EXCEEDED"} =>
    /\ call[w].fate = "inserted" => call[w].attempted
    /\ call[w].fate = "returned" => call[w].confirmed

\* Entries appended by others meanwhile never make a verification of a call
\* fail: not of the tip, of the reread row, or of the chain read page by page.
NoFalseAlarm == \A w \in Worker : call[w].result \notin Broken

\* The ledger implements the append-only log with at most one entry per operation
\* and truthful answers, through crashes, lost answers and races.
Log == INSTANCE AppendOnlyLedger WITH
         Client <- Worker,
         log <- [i \in DOMAIN ledger |-> [operation |-> ledger[i].operation,
                                          source |-> ledger[i].source]],
         asked <- [w \in Worker |-> call[w].request],
         told <- [w \in Worker |->
                    IF call[w].result = "PASS" THEN call[w].row.sequence ELSE 0]

ImplementsLog == Log!Spec

\* All calls for one operation that report PASS report one sequence number, whether
\* they inserted the row, lost the race to another call, retried after an answer
\* was lost, or replay it for a source that was rebuilt meanwhile.
OneAnswer == Log!AnswersAgree

-----------------------------------------------------------------------------
\* What the repository says, and TLC finds violated.

\* "All concurrent callers resolve successfully" and "Remaining concurrent callers
\* resolve as replay" (TEST D of the idempotency self test): of several callers
\* that submit one operation with one source, none is turned down because another
\* one's append came first.
ConcurrentCallersResolve ==
  \A v, w \in Worker :
    /\ call[v].request = call[w].request
    /\ call[v].result = "PASS" /\ ~call[v].direct
    => call[w].result \notin {"EXPECTED_TIP_MISMATCH", "SEQUENCE_DISCONTINUITY",
                              "UNIQUE_VIOLATION"}

\* "persistenceMayHaveOccurred: persistenceAttempted && !persistenceConfirmed" (the
\* failures of the append self test): of a row that was persisted, the flags of a
\* finished call say that it was or that it may have been.
PersistenceMayHaveOccurred ==
  \A w \in Worker : call[w].step = "done" /\ call[w].fate # "none" =>
    call[w].attempted \/ call[w].confirmed
=============================================================================
