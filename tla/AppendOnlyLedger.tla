--------------------------- MODULE AppendOnlyLedger ---------------------------
(***************************************************************************)
(* What the runtime operations ledger promises its clients: one log that   *)
(* is only appended to, in which an operation and a source document appear *)
(* at most once, and acknowledgements that name an entry of the log for    *)
(* the operation that was asked for.                                       *)
(***************************************************************************)
EXTENDS Naturals, Sequences

CONSTANT Null,       \* no operation
         Client,     \* callers of the append service
         Operation,  \* hashes of logical operation identifiers
         Source      \* source documents; each has a revision

VARIABLE log,    \* the entries, in order
         asked,  \* per client, the entry it asked for
         told    \* per client, the sequence it was told, 0 if none

vars == <<log, asked, told>>

Entry == [operation: Operation \cup {Null}, source: Source]

Init ==
  /\ log = << >>
  /\ asked = [c \in Client |-> Null]
  /\ told = [c \in Client |-> 0]

\* A client makes its next request.
Ask(c) ==
  /\ \E e \in Entry : asked' = [asked EXCEPT ![c] = e]
  /\ told' = [told EXCEPT ![c] = 0]
  /\ UNCHANGED log

\* Entry e answers a request: it is of the operation asked for, in a compatible
\* revision.  A request without an operation is answered by its own source.
Answers(e, request) ==
  /\ e.operation = request.operation
  /\ e.source.revision = request.source.revision
  /\ request.operation = Null => e.source = request.source

Waiting(c) == asked[c] # Null /\ told[c] = 0

\* An operation and a source that are not in the log are logged, for whichever
\* client asked; that client may be told at once.
Extend(e) ==
  /\ \A i \in DOMAIN log : /\ log[i].source # e.source
                           /\ log[i].operation = e.operation => e.operation = Null
  /\ log' = Append(log, e)
  /\ \/ UNCHANGED told
     \/ \E c \in Client : /\ Waiting(c)
                          /\ Answers(e, asked[c])
                          /\ told' = [told EXCEPT ![c] = Len(log) + 1]
  /\ UNCHANGED asked

\* A client is told an entry of the log that answers its request.
Tell(c) ==
  /\ Waiting(c)
  /\ \E i \in DOMAIN log : /\ Answers(log[i], asked[c])
                           /\ told' = [told EXCEPT ![c] = i]
  /\ UNCHANGED <<log, asked>>

Next ==
  \/ \E c \in Client : Ask(c) \/ Tell(c)
  \/ \E e \in Entry : Extend(e)

Spec == Init /\ [][Next]_vars

-----------------------------------------------------------------------------
\* Clients that asked for the same operation are told the same entry, however
\* often and by whomever it was asked: the ledger is idempotent per operation.
AnswersAgree ==
  \A c, d \in Client :
    /\ told[c] # 0 /\ told[d] # 0
    /\ asked[c].operation = asked[d].operation
    /\ asked[c].operation # Null
    => told[c] = told[d]
=============================================================================
