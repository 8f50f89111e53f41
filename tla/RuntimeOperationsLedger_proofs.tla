-------------------- MODULE RuntimeOperationsLedger_proofs --------------------
(***************************************************************************)
(* Theorems about RuntimeOperationsLedger, for every set of workers,       *)
(* operations, sources and requests, every page size and every limit.      *)
(***************************************************************************)
EXTENDS RuntimeOperationsLedger, TLAPS

\* Facts about a ledger l, so that they can be stated of the next ledger too.
In(r, l) == \E i \in DOMAIN l : r = l[i]

Chained(l) ==
  \A i \in DOMAIN l :
    /\ l[i].sequence = i
    /\ l[i].hash = [j \in 1..i |-> l[j].source]
    /\ l[i].previous = IF i = 1 THEN Null ELSE l[i - 1].hash

\* The row that call c is inserting.
Built(c) ==
  /\ c.row # Null
  /\ c.row.operation = c.request.operation
  /\ c.row.source = c.request.source
  /\ c.row.previous = HashOf(c.tip)
  /\ c.row.hash = EntryHash(c.row.previous, c.row.source)

\* The row of call c is the one that it asked for, or is refused for.
Confirmed(c, l) ==
  /\ c.row # Null
  /\ In(c.row, l)
  /\ c.row.operation = c.request.operation
  /\ c.row.source.revision = c.request.source.revision \/ c.result = "SOURCE_REVISION_CONFLICT"
  /\ c.request.operation = Null => c.row.source = c.request.source

LimitErrors == {"CHAIN_LIMIT_EXCEEDED", "READ_LIMIT_EXCEEDED"}

\* The flags of call c tell what became of its append.
Reported(c) ==
  c.result \notin LimitErrors =>
    /\ c.fate = "inserted" => c.attempted
    /\ c.fate = "returned" => c.confirmed

\* What call c remembers agrees with ledger l.
CallOK(c, l) ==
  /\ c.step # "idle" => c.request # Null
  /\ c.step # "done" => c.result = Null
  /\ c.result \notin Broken
  /\ c.step = "inserting" => Built(c)
  /\ c.step = "persisted" => c.row.source = c.request.source
  /\ c.step \in {"persisted", "after", "pages"} => Confirmed(c, l)
  /\ c.result = "PASS" => c.confirmed
  /\ c.confirmed => c.step \in {"persisted", "after", "pages", "done"} /\ Confirmed(c, l)
  /\ c.step \in {"gate", "latest", "inserting", "resolving"} => c.attempted
  /\ Reported(c)
  /\ c.step # "pages" => c.read = << >>
  /\ c.step = "pages" => /\ c.upto \in 1..Len(l)
                         /\ c.upto <= MaximumEntries
                         /\ Len(c.read) <= c.upto
                         /\ c.read = SubSeq(l, 1, Len(c.read))

IInv ==
  /\ TypeOK
  /\ Chained(ledger)
  /\ \A w \in Worker : CallOK(call[w], ledger)

-----------------------------------------------------------------------------
\* Positions of a chained ledger are the sequence numbers.
LEMMA Numbered ==
  ASSUME NEW l \in Seq(Row), Chained(l), NEW i \in DOMAIN l
  PROVE  i \in Nat /\ i >= 1 /\ i <= Len(l) /\ l[i] \in Row /\ l[i].sequence = i
<1>1. i \in 1..Len(l) /\ Len(l) \in Nat /\ l[i] \in Row
  OBVIOUS
<1>2. l[i].sequence = i
  BY DEF Chained
<1>3. QED
  BY <1>1, <1>2

\* The tip of a chained ledger is its last row.
LEMMA TipIsLast ==
  ASSUME ledger \in Seq(Row), Chained(ledger)
  PROVE  /\ ledger = << >> => Tip = Null
         /\ ledger # << >> => /\ Len(ledger) \in DOMAIN ledger
                              /\ Tip = ledger[Len(ledger)]
                              /\ Tip.sequence = Len(ledger)
                              /\ Tip \in Row /\ Tip # Null
<1>1. CASE ledger = << >>
  BY <1>1 DEF Tip
<1>2. CASE ledger # << >>
  <2> DEFINE n == Len(ledger)
  <2>1. n \in DOMAIN ledger /\ ledger[n] \in Row
    BY <1>2
  <2>2. \A r \in Rows : (\A q \in Rows : q.sequence <= r.sequence) => r = ledger[n]
    <3> SUFFICES ASSUME NEW i \in DOMAIN ledger,
                        \A q \in Rows : q.sequence <= ledger[i].sequence
                 PROVE  ledger[i] = ledger[n]
      BY DEF Rows
    <3>1. ledger[n].sequence <= ledger[i].sequence
      BY <2>1 DEF Rows
    <3>2. ledger[n].sequence = n /\ ledger[i].sequence = i
      BY <2>1 DEF Chained
    <3>3. QED
      BY <3>1, <3>2, <2>1
  <2>3. ledger[n] \in Rows /\ \A q \in Rows : q.sequence <= ledger[n].sequence
    <3> SUFFICES ASSUME NEW i \in DOMAIN ledger
                 PROVE  ledger[i].sequence <= ledger[n].sequence
      BY <2>1 DEF Rows
    <3>1. QED
      BY <2>1, Numbered
  <2>4. Tip = ledger[n]
    BY <1>2, <2>2, <2>3 DEF Tip
  <2>5. QED
    BY <1>2, <2>1, <2>4, NullAssumption DEF Chained
<1>3. QED
  BY <1>1, <1>2

\* The row before a row, by its sequence.
LEMMA PreviousIsBefore ==
  ASSUME ledger \in Seq(Row), Chained(ledger), NEW i \in DOMAIN ledger
  PROVE  Previous(ledger[i]) = IF i = 1 THEN Null ELSE ledger[i - 1]
<1>1. ledger[i].sequence = i /\ i \in Nat /\ i >= 1
  BY Numbered
<1>2. \A j \in DOMAIN ledger : ledger[j].sequence = j /\ j \in Nat /\ j >= 1
  BY Numbered
<1>3. CASE i = 1
  <2>1. ~ \E p \in Rows : p.sequence + 1 = ledger[i].sequence
    BY <1>1, <1>2, <1>3 DEF Rows
  <2>2. QED
    BY <1>3, <2>1 DEF Previous
<1>4. CASE i # 1
  <2>1. i - 1 \in DOMAIN ledger
    BY <1>1, <1>4
  <2>2. ledger[i - 1] \in Rows /\ ledger[i - 1].sequence + 1 = ledger[i].sequence
    BY <1>1, <1>2, <2>1 DEF Rows
  <2>3. \A p \in Rows : p.sequence + 1 = ledger[i].sequence => p = ledger[i - 1]
    <3> SUFFICES ASSUME NEW j \in DOMAIN ledger, ledger[j].sequence + 1 = ledger[i].sequence
                 PROVE  ledger[j] = ledger[i - 1]
      BY DEF Rows
    <3>1. j = i - 1
      BY <1>1, <1>2
    <3>2. QED
      BY <3>1
  <2>4. QED
    BY <1>4, <2>2, <2>3 DEF Previous
<1>5. QED
  BY <1>3, <1>4

\* Every row of a chained ledger verifies against the one before.
LEMMA RowsVerify ==
  ASSUME ledger \in Seq(Row), Chained(ledger), NEW i \in DOMAIN ledger
  PROVE  EntryVerified(ledger[i], IF i = 1 THEN Null ELSE ledger[i - 1])
<1>1. i \in Nat /\ i >= 1 /\ ledger[i] \in Row
  OBVIOUS
<1>2. ledger[i].hash = [j \in 1..i |-> ledger[j].source]
  BY DEF Chained
<1>3. CASE i = 1
  <2>1. ledger[i].previous = Null
    BY <1>3 DEF Chained
  <2>2. ledger[i].hash = <<ledger[i].source>>
    BY <1>2, <1>3
  <2>3. QED
    BY <1>3, <2>1, <2>2 DEF EntryVerified, HashOf, EntryHash
<1>4. CASE i # 1
  <2>1. i - 1 \in DOMAIN ledger /\ ledger[i - 1] \in Row
    BY <1>1, <1>4
  <2>2. /\ ledger[i].previous = ledger[i - 1].hash
        /\ ledger[i - 1].hash = [j \in 1..(i - 1) |-> ledger[j].source]
    BY <1>4, <2>1 DEF Chained
  <2>3. ledger[i - 1] # Null /\ ledger[i - 1].hash # Null
    BY <2>1, NullAssumption DEF Row
  <2>4. ledger[i - 1].hash \in Seq(Source)
    BY <2>1 DEF Row, Hash
  <2>5. Append(ledger[i - 1].hash, ledger[i].source) = [j \in 1..i |-> ledger[j].source]
    BY <1>1, <1>4, <2>2, <2>4
  <2>6. QED
    BY <1>2, <1>4, <2>2, <2>3, <2>5 DEF EntryVerified, HashOf, EntryHash
<1>5. QED
  BY <1>3, <1>4

\* A row that the trigger accepts, and whose hash is computed, extends the chain.
LEMMA AppendChains ==
  ASSUME ledger \in Seq(Row), Chained(ledger), NEW r \in Row, TriggerAccepts(r),
         r.hash = EntryHash(r.previous, r.source)
  PROVE  Append(ledger, r) \in Seq(Row) /\ Chained(Append(ledger, r))
<1> DEFINE n == Len(ledger)
           l == Append(ledger, r)
<1>1. /\ n \in Nat /\ DOMAIN ledger = 1..n
      /\ l \in Seq(Row) /\ Len(l) = n + 1 /\ DOMAIN l = 1..(n + 1)
      /\ l[n + 1] = r
      /\ \A i \in 1..n : l[i] = ledger[i]
  OBVIOUS
<1> HIDE DEF n, l
<1>2. ASSUME NEW i \in 1..n
      PROVE  /\ l[i].sequence = i
             /\ l[i].hash = [j \in 1..i |-> l[j].source]
             /\ l[i].previous = IF i = 1 THEN Null ELSE l[i - 1].hash
  <2>1. l[i].sequence = i /\ l[i].hash = [j \in 1..i |-> ledger[j].source]
    BY <1>1 DEF Chained
  <2>2. [j \in 1..i |-> ledger[j].source] = [j \in 1..i |-> l[j].source]
    BY <1>1
  <2>3. l[i].previous = IF i = 1 THEN Null ELSE ledger[i - 1].hash
    BY <1>1 DEF Chained
  <2>4. i # 1 => l[i - 1] = ledger[i - 1]
    BY <1>1
  <2>5. QED
    BY <2>1, <2>2, <2>3, <2>4
<1>3. /\ r.sequence = n + 1
      /\ r.previous = IF n + 1 = 1 THEN Null ELSE l[n].hash
      /\ r.hash = [j \in 1..(n + 1) |-> l[j].source]
  <2>1. CASE ledger = << >>
    <3>1. r.sequence = 1 /\ r.previous = Null
      BY <2>1, TipIsLast DEF TriggerAccepts
    <3>2. r.hash = <<r.source>>
      BY <3>1 DEF EntryHash
    <3>3. n = 0 /\ l[1] = r
      BY <1>1, <2>1 DEF n
    <3>4. [j \in 1..1 |-> l[j].source] = <<r.source>>
      BY <3>3
    <3>5. n + 1 = 1
      BY <3>3
    <3>6. QED
      BY <3>1, <3>2, <3>4, <3>5, Zenon
  <2>2. CASE ledger # << >>
    <3>1. /\ Tip # Null /\ Tip = ledger[n] /\ Tip.sequence = n
          /\ n \in DOMAIN ledger /\ ledger[n] \in Row
      BY <2>2, TipIsLast DEF n
    <3>2. r.sequence = n + 1 /\ r.previous = ledger[n].hash
      BY <3>1 DEF TriggerAccepts
    <3>3. ledger[n].hash = [j \in 1..n |-> ledger[j].source]
      BY <3>1 DEF Chained
    <3>4. ledger[n].hash \in Seq(Source) /\ ledger[n].hash # Null
      BY <3>1, NullAssumption DEF Row, Hash
    <3>5. r.hash = Append(ledger[n].hash, r.source)
      BY <3>2, <3>4 DEF EntryHash
    <3>6. Append(ledger[n].hash, r.source) = [j \in 1..(n + 1) |-> l[j].source]
      BY <1>1, <3>1, <3>3, <3>4
    <3>7. n # 0 /\ l[n] = ledger[n]
      BY <1>1, <3>1
    <3>8. n + 1 # 1
      BY <1>1, <3>7
    <3>9. QED
      BY <3>2, <3>5, <3>6, <3>7, <3>8
  <2>3. QED
    BY <2>1, <2>2
<1>4. \A i \in DOMAIN l : i \in 1..n \/ i = n + 1
  BY <1>1
<1>5. n + 1 - 1 = n
  BY <1>1
<1>6. ASSUME NEW i \in DOMAIN l
      PROVE  /\ l[i].sequence = i
             /\ l[i].hash = [j \in 1..i |-> l[j].source]
             /\ l[i].previous = IF i = 1 THEN Null ELSE l[i - 1].hash
  <2>1. CASE i \in 1..n
    BY <1>2, <2>1
  <2>2. CASE i = n + 1
    BY <1>1, <1>3, <1>5, <2>2
  <2>3. QED
    BY <1>4, <2>1, <2>2
<1>7. Chained(l)
  BY <1>6 DEF Chained
<1>8. QED
  BY <1>1, <1>7 DEF l

\* A page is the part of the ledger that follows the sequence it starts after.
LEMMA PageIsPart ==
  ASSUME ledger \in Seq(Row), Chained(ledger),
         NEW after \in 0..Len(ledger), NEW limit \in Nat
  PROVE  LET rest == Len(ledger) - after IN
         Page(after, limit)
           = SubSeq(ledger, after + 1, after + (IF limit < rest THEN limit ELSE rest))
<1> DEFINE n == Len(ledger)
           Start(i) == /\ \A j \in 1..(i - 1) : ledger[j].sequence <= after
                       /\ i <= n => ledger[i].sequence > after
<1>1. n \in Nat /\ DOMAIN ledger = 1..n /\ after \in Nat /\ after <= n
  OBVIOUS
<1>2. \A j \in 1..n : ledger[j].sequence = j
  BY <1>1, Numbered
<1>3. after + 1 \in 1..(n + 1) /\ Start(after + 1)
  BY <1>1, <1>2
<1>4. ASSUME NEW i \in 1..(n + 1), Start(i)
      PROVE  i = after + 1
  <2>1. ~(i <= after)
    BY <1>1, <1>2, <1>4
  <2>2. ~(i > after + 1)
    <3>1. SUFFICES ASSUME i > after + 1
                   PROVE  FALSE
      OBVIOUS
    <3>2. after + 1 \in 1..(i - 1) /\ after + 1 \in 1..n
      BY <1>1, <3>1
    <3>3. QED
      BY <1>1, <1>2, <1>4, <3>2
  <2>3. QED
    BY <1>1, <2>1, <2>2
<1>5. Beyond(after) = after + 1
  BY <1>3, <1>4 DEF Beyond
<1>6. \A m, a \in Int : m + 1 - (a + 1) = m - a
  OBVIOUS
<1>7. \A a, k \in Int : (a + 1) + k - 1 = a + k
  OBVIOUS
<1>8. n - after \in Int /\ n \in Int /\ after \in Int /\ limit \in Int
  BY <1>1
<1>9. n + 1 - Beyond(after) = n - after
  BY <1>5, <1>6, <1>8
<1>10. QED
  BY <1>5, <1>7, <1>8, <1>9 DEF Page

-----------------------------------------------------------------------------
\* What a call remembers stays right when a row is appended.
LEMMA AppendPreserves ==
  ASSUME NEW l \in Seq(Row), NEW r \in Row, NEW c \in Call, CallOK(c, l)
  PROVE  CallOK(c, Append(l, r))
<1> DEFINE m == Append(l, r)
<1>1. /\ Len(l) \in Nat /\ m \in Seq(Row) /\ Len(m) = Len(l) + 1
      /\ \A i \in DOMAIN l : i \in DOMAIN m /\ m[i] = l[i]
  OBVIOUS
<1>2. In(c.row, l) => In(c.row, m)
  BY <1>1 DEF In
<1>3. Confirmed(c, l) => Confirmed(c, m)
  BY <1>2 DEF Confirmed
<1>4. ASSUME c.step = "pages"
      PROVE  /\ c.upto \in 1..Len(m)
             /\ c.upto <= MaximumEntries
             /\ Len(c.read) <= c.upto
             /\ c.read = SubSeq(m, 1, Len(c.read))
  <2>1. /\ c.upto \in 1..Len(l)
        /\ c.upto <= MaximumEntries
        /\ Len(c.read) <= c.upto
        /\ c.read = SubSeq(l, 1, Len(c.read))
    BY <1>4 DEF CallOK
  <2>2. Len(c.read) \in Nat /\ Len(c.read) <= Len(l)
    BY <2>1, <1>1 DEF Call
  <2>3. SubSeq(m, 1, Len(c.read)) = SubSeq(l, 1, Len(c.read))
    BY <1>1, <2>2
  <2>4. QED
    BY <1>1, <2>1, <2>3
<1>5. QED
  BY <1>3, <1>4 DEF CallOK

\* A call ends with any result that is not broken, if its flags are right.
LEMMA Ends ==
  ASSUME IInv, NEW w \in Worker, NEW e,
         call[w].request # Null, call[w].result = Null,
         e.step = "done", e.request = call[w].request, e.read = << >>,
         e.result \in Result \ Broken, e.result = "PASS" => e.confirmed,
         e.row = call[w].row,
         e.confirmed => Confirmed(call[w], ledger),
         Reported(e)
  PROVE  CallOK(e, ledger)
<1>1. e.confirmed => Confirmed(e, ledger)
  BY NullAssumption DEF Confirmed, Result, Refused
<1>2. QED
  BY <1>1 DEF CallOK

\* The four ways a step changes what a client can see.
Asks(w, c) == ledger' = ledger /\ c.request # Null /\ c.result = Null

Goes(w, c) ==
  /\ ledger' = ledger /\ c.request = call[w].request
  /\ call[w].result = Null /\ c.result # "PASS"

Tells(w, c) ==
  /\ ledger' = ledger /\ c.request = call[w].request
  /\ call[w].result = Null /\ c.result = "PASS"

Appends(w, c) ==
  /\ call[w].row \in Row /\ Built(call[w])
  /\ TriggerAccepts(call[w].row) /\ Conflicts(call[w].row) = {}
  /\ ledger' = Append(ledger, call[w].row) /\ c.request = call[w].request
  /\ call[w].request # Null /\ call[w].result = Null
  /\ c.result = "PASS" => c.row = call[w].row

StepsTo(w, c) ==
  /\ c \in Call
  /\ call' = [call EXCEPT ![w] = c]
  /\ CallOK(c, ledger')
  /\ Asks(w, c) \/ Goes(w, c) \/ Tells(w, c) \/ Appends(w, c)

\* A call that ends without inserting a row.
LEMMA EndSteps ==
  ASSUME IInv, NEW w \in Worker, call[w].step \notin {"idle", "done"},
         NEW e \in Call, e.step = "done", e.request = call[w].request, e.read = << >>,
         e.result \in Result \ Broken, e.result = "PASS" => e.confirmed,
         e.row = call[w].row, e.fate = call[w].fate,
         e.confirmed => Confirmed(call[w], ledger),
         Reported(e),
         call' = [call EXCEPT ![w] = e], ledger' = ledger
  PROVE  StepsTo(w, e)
<1>1. call[w].result = Null /\ call[w].request # Null
  BY DEF IInv, CallOK
<1>2. CallOK(e, ledger)
  BY <1>1, Ends
<1>3. Goes(w, e) \/ Tells(w, e)
  BY <1>1 DEF Goes, Tells
<1>4. QED
  BY <1>2, <1>3 DEF StepsTo

\* What Ended leaves of a call.
LEMMA EndedIs ==
  ASSUME NEW c \in Call, NEW x \in Result
  PROVE  LET e == Ended(c, x) IN
         /\ e \in Call /\ e.step = "done" /\ e.result = x
         /\ e.request = c.request /\ e.read = << >> /\ e.row = c.row
         /\ e.attempted = c.attempted /\ e.confirmed = c.confirmed /\ e.fate = c.fate
<1>1. << >> \in Seq(Row) /\ "done" \in Step /\ 0 \in Nat
  BY DEF Step
<1>2. QED
  BY <1>1 DEF Ended, Call

\* It ends with its flags as they are.
LEMMA DoneSteps ==
  ASSUME IInv, NEW w \in Worker, call[w].step \notin {"idle", "done"},
         NEW x \in Result \ Broken, x # "PASS",
         Done(w, x), ledger' = ledger
  PROVE  \E c : StepsTo(w, c)
<1>1. call[w] \in Call /\ CallOK(call[w], ledger)
  BY DEF IInv, TypeOK
<1>2. PICK e \in Call :
        /\ e = Ended(call[w], x) /\ e.step = "done" /\ e.result = x
        /\ e.request = call[w].request /\ e.read = << >> /\ e.row = call[w].row
        /\ e.attempted = call[w].attempted /\ e.confirmed = call[w].confirmed
        /\ e.fate = call[w].fate
  BY <1>1, EndedIs
<1>3. call' = [call EXCEPT ![w] = e]
  BY <1>2 DEF Done
<1>4. e.confirmed => Confirmed(call[w], ledger)
  BY <1>1, <1>2 DEF CallOK
<1>5. Reported(e)
  BY <1>1, <1>2, NullAssumption DEF CallOK, Reported, LimitErrors, Result, Broken
<1>6. StepsTo(w, e)
  BY <1>2, <1>3, <1>4, <1>5, EndSteps
<1>7. QED
  BY <1>6

\* A call goes on to a step at which it remembers nothing more.
LEMMA GoToSteps ==
  ASSUME IInv, NEW w \in Worker, call[w].step \notin {"idle", "pages", "done"},
         NEW s \in {"tip", "gate", "latest", "resolving", "after"},
         s = "after" => Confirmed(call[w], ledger),
         call[w].confirmed => s = "after",
         s \in {"gate", "latest", "resolving"} => call[w].attempted,
         GoTo(w, s), ledger' = ledger
  PROVE  \E c : StepsTo(w, c)
<1> DEFINE c == call[w]
           e == [c EXCEPT !.step = s]
<1>1. c \in Call /\ CallOK(c, ledger)
  BY DEF IInv, TypeOK
<1>2. /\ e.step = s /\ e.result = c.result /\ e.request = c.request
      /\ e.row = c.row /\ e.confirmed = c.confirmed /\ e.read = c.read
      /\ e.attempted = c.attempted /\ e.fate = c.fate
  BY <1>1 DEF Call
<1>3. e \in Call
  BY <1>1 DEF Call, Step
<1>4. c.request # Null /\ c.result = Null /\ (c.confirmed => Confirmed(c, ledger))
  BY <1>1 DEF CallOK
<1>5. s = "after" => Confirmed(e, ledger)
  BY <1>2 DEF Confirmed
<1>6. CallOK(e, ledger)
  <2>1. Reported(e)
    BY <1>1, <1>2 DEF CallOK, Reported
  <2>2. QED
    BY <1>1, <1>2, <1>4, <1>5, <2>1, NullAssumption DEF CallOK, Result
<1>7. Goes(w, e)
  BY <1>2, <1>4, NullAssumption DEF Goes, Result
<1>8. call' = [call EXCEPT ![w] = e]
  BY DEF GoTo
<1>9. StepsTo(w, e)
  BY <1>3, <1>6, <1>7, <1>8 DEF StepsTo
<1>10. QED
  BY <1>9

\* A call is given a row that has what it asked for.
LEMMA PersistOK ==
  ASSUME IInv, NEW w \in Worker, call[w].request # Null, call[w].step # "pages",
         NEW r \in Row, NEW l \in Seq(Row), In(r, l),
         r.operation = call[w].request.operation, r.source = call[w].request.source
  PROVE  LET e == Persisted(call[w], r) IN
         /\ e \in Call
         /\ CallOK(e, l)
         /\ e.request = call[w].request
         /\ e.row = r
<1> DEFINE c == call[w]
           e == Persisted(c, r)
<1>1. c \in Call /\ c.read = << >>
  BY DEF IInv, TypeOK, CallOK
<1>2. /\ e.step = IF c.direct THEN "done" ELSE "persisted"
      /\ e.result = IF c.direct THEN "PASS" ELSE Null
      /\ e.request = c.request /\ e.row = r /\ e.confirmed = TRUE
      /\ e.read = << >> /\ e.fate = "returned"
  BY <1>1 DEF Persisted, Call
<1>3. e \in Call
  <2>1. (IF c.direct THEN "done" ELSE "persisted") \in Step
    BY DEF Step
  <2>2. (IF c.direct THEN "PASS" ELSE Null) \in Result \cup {Null}
    BY DEF Result
  <2>3. QED
    BY <1>1, <2>1, <2>2 DEF Persisted, Call
<1>4. r # Null
  BY NullAssumption
<1>5. Confirmed(e, l)
  BY <1>2, <1>4 DEF Confirmed
<1>6. "PASS" \notin Broken /\ Null \notin Broken
  BY NullAssumption DEF Broken, Result
<1>7. Reported(e)
  BY <1>2 DEF Reported
<1>8. CallOK(e, l)
  BY <1>2, <1>5, <1>6, <1>7 DEF CallOK
<1>9. QED
  BY <1>2, <1>3, <1>8

\* Rows of the ledger are its positions.
LEMMA RowsAreIn ==
  ASSUME ledger \in Seq(Row), NEW r \in Rows
  PROVE  r \in Row /\ In(r, ledger)
  BY DEF Rows, In

\* Replaying a row of the operation asked for.
LEMMA ReplaySteps ==
  ASSUME IInv, NEW w \in Worker, call[w].step \notin {"idle", "pages", "done"},
         NEW r \in ByOperation(call[w].request.operation),
         Replay(w, r), ledger' = ledger
  PROVE  \E c : StepsTo(w, c)
<1>1. r \in Row /\ In(r, ledger) /\ r.operation = call[w].request.operation
  BY RowsAreIn DEF ByOperation, IInv, TypeOK
<1>2. call[w].request # Null /\ call[w].result = Null
  BY DEF IInv, CallOK
<1>3. CASE PayloadMatches(r, call[w].request)
  <2> DEFINE e == Persisted(call[w], r)
  <2>1. call' = [call EXCEPT ![w] = e]
    BY <1>3 DEF Replay, Persist
  <2>2. r.source = call[w].request.source
    BY <1>3 DEF PayloadMatches
  <2>3. e \in Call /\ CallOK(e, ledger) /\ e.request = call[w].request
    BY <1>1, <1>2, <2>2, PersistOK DEF IInv, TypeOK
  <2>4. Goes(w, e) \/ Tells(w, e)
    BY <1>2, <2>3 DEF Goes, Tells
  <2>5. QED
    BY <2>1, <2>3, <2>4 DEF StepsTo
<1>4. CASE ~PayloadMatches(r, call[w].request)
  <2>1. Done(w, "OPERATION_IDEMPOTENCY_CONFLICT")
    BY <1>4 DEF Replay
  <2>2. QED
    BY <2>1, DoneSteps DEF Result, Refused, Broken
<1>5. QED
  BY <1>3, <1>4

-----------------------------------------------------------------------------
LEMMA IdleType == Idle \in Call
<1>1. << >> \in Seq(Row) /\ 0 \in Nat
  OBVIOUS
<1>2. QED
  BY <1>1 DEF Idle, Call, Step

\* The actions.
LEMMA BeginSteps ==
  ASSUME IInv, NEW w \in Worker, NEW request \in Requests, Begin(w, request)
  PROVE  \E c : StepsTo(w, c)
<1>1. PICK expected \in {Null, HashOf(Tip)} :
        call' = [call EXCEPT ![w] = [Idle EXCEPT !.step = "preflight",
                                                 !.request = request,
                                                 !.expected = expected]]
  BY DEF Begin
<1> DEFINE c == [Idle EXCEPT !.step = "preflight", !.request = request, !.expected = expected]
<1>2. HashOf(Tip) \in Hash \cup {Null}
  <2>1. Tip = Null \/ (Tip \in Row /\ Tip # Null)
    BY TipIsLast DEF IInv, TypeOK
  <2>2. QED
    BY <2>1 DEF HashOf, Row
<1>3. request \in Request /\ request # Null
  BY RequestAssumption, NullAssumption DEF Request
<1>4. /\ c.step = "preflight" /\ c.result = Null /\ c.request = request
      /\ c.confirmed = FALSE /\ c.read = << >> /\ c.fate = "none"
  BY DEF Idle
<1>5. c \in Call
  <2>1. "preflight" \in Step
    BY DEF Step
  <2>2. QED
    BY <1>2, <1>3, <2>1, IdleType DEF Call
<1>6. CallOK(c, ledger) /\ ledger' = ledger
  BY <1>3, <1>4, NullAssumption DEF CallOK, Begin, Broken, Result, Reported
<1>7. StepsTo(w, c)
  BY <1>1, <1>3, <1>4, <1>5, <1>6 DEF StepsTo, Asks
<1>8. QED
  BY <1>7

LEMMA BeginDirectSteps ==
  ASSUME IInv, NEW w \in Worker, NEW source \in Direct, BeginDirect(w, source)
  PROVE  \E c : StepsTo(w, c)
<1> DEFINE request == [operation |-> Null, source |-> source]
           c == [Idle EXCEPT !.step = "gate", !.direct = TRUE, !.attempted = TRUE,
                             !.request = request]
<1>1. call' = [call EXCEPT ![w] = c]
  BY DEF BeginDirect
<1>2. request \in Request /\ request # Null
  BY RequestAssumption, NullAssumption DEF Request
<1>3. /\ c.step = "gate" /\ c.result = Null /\ c.request = request
      /\ c.confirmed = FALSE /\ c.read = << >> /\ c.fate = "none" /\ c.attempted = TRUE
  BY DEF Idle
<1> HIDE DEF request
<1>4. c \in Call
  <2>1. "gate" \in Step
    BY DEF Step
  <2>2. QED
    BY <1>2, <2>1, IdleType DEF Call
<1>5. CallOK(c, ledger) /\ ledger' = ledger
  BY <1>2, <1>3, NullAssumption DEF CallOK, BeginDirect, Broken, Result, Reported
<1>6. StepsTo(w, c)
  BY <1>1, <1>2, <1>3, <1>4, <1>5 DEF StepsTo, Asks
<1>7. QED
  BY <1>6

\* A row found by operation verifies, so the preflight replays or refuses it.
LEMMA PreflightSteps ==
  ASSUME IInv, NEW w \in Worker, Preflight(w)
  PROVE  \E c : StepsTo(w, c)
<1> DEFINE request == call[w].request
<1>1. /\ call[w].step = "preflight" /\ ledger' = ledger /\ call[w] \in Call
      /\ CallOK(call[w], ledger)
  BY DEF Preflight, IInv, TypeOK
<1>2. /\ ~call[w].confirmed /\ call[w].result = Null /\ request # Null
      /\ call[w].read = << >>
  BY <1>1 DEF CallOK, Call
<1>3. CASE GoTo(w, "tip")
  BY <1>1, <1>2, <1>3, GoToSteps
<1>4. ASSUME NEW r \in ByOperation(request.operation),
             LET found == [call[w] EXCEPT !.row = r]
                 Refusal(x) == [Ended(found, x) EXCEPT !.confirmed = TRUE] IN
             call' = [call EXCEPT ![w] =
                        IF r.source.revision # request.source.revision
                          THEN Refusal("SOURCE_REVISION_CONFLICT")
                        ELSE IF ~EntryVerified(r, Previous(r))
                          THEN Refusal("CURRENT_TIP_INVALID")
                        ELSE [found EXCEPT !.step = "after"]]
      PROVE  \E c : StepsTo(w, c)
  <2> DEFINE found == [call[w] EXCEPT !.row = r]
  <2>1. /\ r \in Row /\ In(r, ledger) /\ r # Null
        /\ r.operation = request.operation /\ request.operation # Null
    BY RowsAreIn, NullAssumption DEF ByOperation, IInv, TypeOK
  <2>2. EntryVerified(r, Previous(r))
    BY <2>1, PreviousIsBefore, RowsVerify DEF In, IInv, TypeOK
  <2>3. CASE r.source.revision # request.source.revision
    <3> DEFINE c == [Ended(found, "SOURCE_REVISION_CONFLICT") EXCEPT !.confirmed = TRUE]
    <3>1. call' = [call EXCEPT ![w] = c]
      BY <1>4, <2>3
    <3>2. /\ c.step = "done" /\ c.result = "SOURCE_REVISION_CONFLICT"
          /\ c.request = request /\ c.row = r /\ c.confirmed = TRUE /\ c.read = << >>
          /\ c.fate = call[w].fate /\ c.attempted = call[w].attempted
      BY <1>1 DEF Ended, Call
    <3>3. c \in Call
      <4>1. /\ << >> \in Seq(Row) /\ "done" \in Step /\ 0 \in Nat
            /\ "SOURCE_REVISION_CONFLICT" \in Result
        BY DEF Step, Result, Refused
      <4>2. QED
        BY <1>1, <2>1, <4>1 DEF Ended, Call
    <3>4. CallOK(c, ledger)
      <4>1. Reported(c)
        BY <1>1, <1>2, <3>2, NullAssumption
        DEF CallOK, Reported, LimitErrors, Result, Broken
      <4>2. QED
        BY <1>2, <2>1, <3>2, <4>1 DEF CallOK, Confirmed, Broken
    <3>5. Goes(w, c)
      BY <1>1, <1>2, <3>2 DEF Goes
    <3>6. StepsTo(w, c)
      BY <1>1, <3>1, <3>3, <3>4, <3>5 DEF StepsTo
    <3>7. QED
      BY <3>6
  <2>4. CASE r.source.revision = request.source.revision
    <3> DEFINE c == [found EXCEPT !.step = "after"]
    <3>1. call' = [call EXCEPT ![w] = c]
      BY <1>4, <2>2, <2>4
    <3>2. /\ c.step = "after" /\ c.result = Null
          /\ c.request = request /\ c.row = r /\ c.confirmed = FALSE /\ c.read = << >>
          /\ c.fate = call[w].fate /\ c.attempted = call[w].attempted
      BY <1>1, <1>2 DEF Call
    <3>3. c \in Call
      BY <1>1, <2>1 DEF Call, Step
    <3>4. CallOK(c, ledger)
      <4>1. Reported(c)
        BY <1>1, <1>2, <3>2 DEF CallOK, Reported
      <4>2. QED
        BY <1>2, <2>1, <2>4, <3>2, <4>1, NullAssumption
        DEF CallOK, Confirmed, Broken, Result
    <3>5. Goes(w, c)
      BY <1>1, <1>2, <3>2, NullAssumption DEF Goes, Result
    <3>6. StepsTo(w, c)
      BY <1>1, <3>1, <3>3, <3>4, <3>5 DEF StepsTo
    <3>7. QED
      BY <3>6
  <2>5. QED
    BY <2>3, <2>4
<1>5. QED
  BY <1>3, <1>4 DEF Preflight

LEMMA ReadTipSteps ==
  ASSUME IInv, NEW w \in Worker, ReadTip(w)
  PROVE  \E c : StepsTo(w, c)
<1>1. /\ call[w].step = "tip" /\ ledger' = ledger /\ call[w] \in Call
      /\ CallOK(call[w], ledger) /\ ~call[w].confirmed
  BY DEF ReadTip, IInv, TypeOK, CallOK, Call
<1>2. Tip # Null => EntryVerified(Tip, Previous(Tip))
  BY TipIsLast, PreviousIsBefore, RowsVerify DEF IInv, TypeOK
<1>3. {"GENESIS_REQUIRED", "EXPECTED_TIP_MISMATCH"} \subseteq Result \ Broken
  BY DEF Result, Refused, Broken
<1>4. CASE Done(w, "GENESIS_REQUIRED")
  BY <1>1, <1>3, <1>4, DoneSteps
<1>5. CASE Done(w, "EXPECTED_TIP_MISMATCH")
  BY <1>1, <1>3, <1>5, DoneSteps
<1>6. CASE call' = [call EXCEPT ![w] = [@ EXCEPT !.step = "gate", !.attempted = TRUE]]
  <2> DEFINE c == [call[w] EXCEPT !.step = "gate", !.attempted = TRUE]
  <2>1. /\ c.step = "gate" /\ c.result = Null /\ c.request = call[w].request
        /\ c.row = call[w].row /\ c.confirmed = FALSE /\ c.read = << >>
        /\ c.attempted = TRUE /\ c.fate = call[w].fate /\ call[w].result = Null
        /\ c.request # Null
    BY <1>1 DEF CallOK, Call
  <2>2. c \in Call
    BY <1>1 DEF Call, Step
  <2>3. Reported(c)
    BY <1>1, <2>1 DEF CallOK, Reported
  <2>4. CallOK(c, ledger)
    BY <2>1, <2>3, NullAssumption DEF CallOK, Broken, Result
  <2>5. Goes(w, c)
    BY <1>1, <2>1, NullAssumption DEF Goes, Result
  <2>6. StepsTo(w, c)
    BY <1>1, <1>6, <2>2, <2>4, <2>5 DEF StepsTo
  <2>7. QED
    BY <2>6
<1>7. QED
  BY <1>2, <1>4, <1>5, <1>6 DEF ReadTip

LEMMA GateSteps ==
  ASSUME IInv, NEW w \in Worker, Gate(w) \/ Resolve(w)
  PROVE  \E c : StepsTo(w, c)
<1>1. /\ call[w].step \in {"gate", "resolving"} /\ ledger' = ledger
      /\ ~call[w].confirmed /\ call[w].attempted
  BY DEF Gate, Resolve, IInv, TypeOK, CallOK, Call
<1>2. CASE GoTo(w, "latest")
  BY <1>1, <1>2, GoToSteps
<1>3. CASE \E r \in ByOperation(call[w].request.operation) : Replay(w, r)
  BY <1>1, <1>3, ReplaySteps
<1>4. QED
  BY <1>2, <1>3 DEF Gate, Resolve

\* The entry that follows the tip is well typed.
LEMMA CandidateType ==
  ASSUME TypeOK, Chained(ledger), NEW request \in Request
  PROVE  Candidate(Tip, request) \in Row
<1>1. \/ Tip = Null
      \/ /\ Tip \in Row /\ Tip # Null /\ Tip.sequence \in Nat
         /\ Tip.hash \in Hash /\ Tip.hash # Null
  BY TipIsLast, NullAssumption DEF TypeOK, Row
<1>2. HashOf(Tip) \in Hash \cup {Null}
  BY <1>1 DEF HashOf
<1>3. (IF Tip = Null THEN 1 ELSE Tip.sequence + 1) \in Nat \ {0}
  BY <1>1
<1>4. EntryHash(HashOf(Tip), request.source) \in Hash
  <2>1. request.source \in Source
    BY DEF Request
  <2>2. \A h \in Hash : Append(h, request.source) \in Hash
    BY <2>1 DEF Hash
  <2>3. <<request.source>> \in Hash
    BY <2>1 DEF Hash
  <2>4. QED
    BY <1>2, <2>2, <2>3 DEF EntryHash
<1>5. QED
  BY <1>2, <1>3, <1>4 DEF Candidate, Row, Request

LEMMA ReadLatestSteps ==
  ASSUME IInv, NEW w \in Worker, ReadLatest(w)
  PROVE  \E c : StepsTo(w, c)
<1> DEFINE request == call[w].request
           r == Candidate(Tip, request)
           c == [call[w] EXCEPT !.step = "inserting", !.tip = Tip, !.row = r]
<1>1. /\ call[w].step = "latest" /\ ledger' = ledger /\ call[w] \in Call
      /\ CallOK(call[w], ledger) /\ call' = [call EXCEPT ![w] = c]
  BY DEF ReadLatest, IInv, TypeOK
<1>2. /\ ~call[w].confirmed /\ call[w].result = Null /\ request # Null
      /\ request \in Request /\ call[w].read = << >>
  BY <1>1 DEF CallOK, Call
<1>3. r \in Row /\ r # Null
  BY <1>2, CandidateType, NullAssumption DEF IInv
<1>4. Tip \in Row \cup {Null}
  BY TipIsLast DEF IInv, TypeOK
<1>5. /\ r.operation = request.operation /\ r.source = request.source
      /\ r.previous = HashOf(Tip) /\ r.hash = EntryHash(r.previous, r.source)
  BY DEF Candidate
<1> HIDE DEF r
<1>6. /\ c.step = "inserting" /\ c.result = Null /\ c.request = request
      /\ c.row = r /\ c.tip = Tip /\ c.confirmed = FALSE /\ c.read = << >>
      /\ c.attempted = call[w].attempted /\ c.fate = call[w].fate
  BY <1>1, <1>2 DEF Call
<1>7. c \in Call
  BY <1>1, <1>3, <1>4 DEF Call, Step
<1>8. Built(c)
  BY <1>3, <1>5, <1>6 DEF Built
<1>9. CallOK(c, ledger)
  <2>1. Reported(c) /\ c.attempted
    BY <1>1, <1>2, <1>6 DEF CallOK, Reported
  <2>2. QED
    BY <1>2, <1>6, <1>8, <2>1, NullAssumption DEF CallOK, Broken, Result
<1>10. Goes(w, c)
  BY <1>1, <1>2, <1>6, NullAssumption DEF Goes, Result
<1>11. StepsTo(w, c)
  BY <1>1, <1>7, <1>9, <1>10 DEF StepsTo
<1>12. QED
  BY <1>11

\* An INSERT that commits, answered or not, appends a row that verifies.
LEMMA InsertSteps ==
  ASSUME IInv, NEW w \in Worker, Insert(w) \/ InsertUnanswered(w)
  PROVE  \E c : StepsTo(w, c)
<1> DEFINE r == call[w].row
           l == Append(ledger, r)
<1>1. /\ call[w].step = "inserting" /\ call[w] \in Call /\ CallOK(call[w], ledger)
      /\ TriggerAccepts(r) /\ Conflicts(r) = {} /\ ledger' = l
  BY DEF Insert, InsertUnanswered, IInv, TypeOK
<1>2. /\ Built(call[w]) /\ call[w].result = Null /\ call[w].request # Null
      /\ ~call[w].confirmed /\ call[w].attempted
  BY <1>1 DEF CallOK, Call
<1>3. r \in Row
  BY <1>1, <1>2 DEF Built, Call
<1>4. l \in Seq(Row) /\ In(r, l)
  <2>1. /\ ledger \in Seq(Row) /\ l \in Seq(Row) /\ Len(ledger) \in Nat
        /\ DOMAIN l = 1..(Len(ledger) + 1) /\ l[Len(ledger) + 1] = r
    BY <1>3 DEF IInv, TypeOK
  <2>2. QED
    BY <2>1 DEF In
<1>5. EntryVerified(r, call[w].tip)
  BY <1>2 DEF Built, EntryVerified
<1>6. CASE Persist(w, r)
  <2> DEFINE c == Persisted(call[w], r)
  <2>1. call' = [call EXCEPT ![w] = c]
    BY <1>6 DEF Persist
  <2>2. /\ c \in Call /\ CallOK(c, l) /\ c.request = call[w].request /\ c.row = r
    BY <1>1, <1>2, <1>3, <1>4, PersistOK DEF Built
  <2> HIDE DEF c
  <2>3. Appends(w, c)
    BY <1>1, <1>2, <1>3, <2>2 DEF Appends
  <2>4. QED
    BY <1>1, <2>1, <2>2, <2>3 DEF StepsTo
<1>7. CASE Inserted(w, "DATABASE_FAILURE")
  <2> DEFINE e == Ended(call[w], "DATABASE_FAILURE")
             c == [e EXCEPT !.fate = "inserted"]
  <2>0. "DATABASE_FAILURE" \in Result \ Broken
    BY DEF Result, Broken
  <2>1. call' = [call EXCEPT ![w] = c]
    BY <1>7 DEF Inserted
  <2>2. /\ c \in Call /\ CallOK(c, ledger) /\ c.request = call[w].request
        /\ c.result = "DATABASE_FAILURE"
    <3>1. /\ e \in Call /\ e.step = "done" /\ e.result = "DATABASE_FAILURE"
          /\ e.request = call[w].request /\ e.read = << >> /\ e.row = call[w].row
          /\ e.attempted = call[w].attempted /\ e.confirmed = call[w].confirmed
      BY <1>1, <2>0, EndedIs
    <3> HIDE DEF e
    <3>2. /\ c \in Call /\ c.step = "done" /\ c.result = "DATABASE_FAILURE"
          /\ c.request = call[w].request /\ c.read = << >> /\ c.row = call[w].row
          /\ c.attempted = call[w].attempted /\ c.confirmed = call[w].confirmed
          /\ c.fate = "inserted"
      BY <3>1 DEF Call
    <3> HIDE DEF c
    <3>3. Reported(c)
      BY <1>2, <3>2 DEF Reported
    <3>4. CallOK(c, ledger)
      BY <1>2, <2>0, <3>2, <3>3, Ends
    <3>5. QED
      BY <3>2, <3>4
  <2> HIDE DEF c
  <2>3. CallOK(c, l)
    BY <1>3, <2>2, AppendPreserves DEF IInv, TypeOK
  <2>4. Appends(w, c)
    BY <1>1, <1>2, <1>3, <2>2 DEF Appends
  <2>5. QED
    BY <1>1, <2>1, <2>2, <2>3, <2>4 DEF StepsTo
<1>8. QED
  BY <1>5, <1>6, <1>7 DEF Insert, InsertUnanswered

LEMMA InsertRefusedSteps ==
  ASSUME IInv, NEW w \in Worker, InsertDiscontinuous(w) \/ InsertDuplicate(w)
  PROVE  \E c : StepsTo(w, c)
<1>1. /\ call[w].step = "inserting" /\ ledger' = ledger /\ ~call[w].confirmed
      /\ call[w].attempted
  BY DEF InsertDiscontinuous, InsertDuplicate, IInv, TypeOK, CallOK, Call
<1>2. {"SEQUENCE_DISCONTINUITY", "UNIQUE_VIOLATION"} \subseteq Result \ Broken
  BY DEF Result, Refused, Broken
<1>3. CASE GoTo(w, "resolving")
  BY <1>1, <1>3, GoToSteps
<1>4. CASE Done(w, "SEQUENCE_DISCONTINUITY")
  BY <1>1, <1>2, <1>4, DoneSteps
<1>5. CASE Done(w, "UNIQUE_VIOLATION")
  BY <1>1, <1>2, <1>5, DoneSteps
<1>6. QED
  BY <1>3, <1>4, <1>5 DEF InsertDiscontinuous, InsertDuplicate

\* The reread finds the row itself.
LEMMA RereadSteps ==
  ASSUME IInv, NEW w \in Worker, Reread(w)
  PROVE  \E c : StepsTo(w, c)
<1>1. /\ call[w].step = "persisted" /\ ledger' = ledger /\ CallOK(call[w], ledger)
      /\ ledger \in Seq(Row) /\ Chained(ledger)
  BY DEF Reread, IInv, TypeOK
<1>2. /\ Confirmed(call[w], ledger) /\ In(call[w].row, ledger)
      /\ call[w].row.source = call[w].request.source
  BY <1>1 DEF CallOK, Confirmed
<1>3. ASSUME NEW r \in Rows, r.sequence = call[w].row.sequence
      PROVE  r = call[w].row /\ EntryVerified(r, Previous(r))
  <2>1. PICK i \in DOMAIN ledger : r = ledger[i]
    BY DEF Rows
  <2>2. PICK j \in DOMAIN ledger : call[w].row = ledger[j]
    BY <1>2 DEF In
  <2>3. i = j
    BY <1>1, <1>3, <2>1, <2>2, Numbered
  <2>4. QED
    BY <1>1, <2>1, <2>2, <2>3, PreviousIsBefore, RowsVerify
<1>4. GoTo(w, "after")
  BY <1>2, <1>3 DEF Reread
<1>5. QED
  BY <1>1, <1>2, <1>4, GoToSteps

LEMMA ReadAfterSteps ==
  ASSUME IInv, NEW w \in Worker, ReadAfter(w)
  PROVE  \E c : StepsTo(w, c)
<1>1. /\ call[w].step = "after" /\ ledger' = ledger /\ CallOK(call[w], ledger)
      /\ ledger \in Seq(Row) /\ Chained(ledger) /\ call[w] \in Call
  BY DEF ReadAfter, IInv, TypeOK
<1>2. /\ Confirmed(call[w], ledger) /\ call[w].request # Null
      /\ call[w].result = Null /\ call[w].read = << >> /\ Reported(call[w])
  BY <1>1 DEF CallOK
<1>3. PICK i \in DOMAIN ledger : call[w].row = ledger[i]
  BY <1>2 DEF Confirmed, In
<1>4. /\ Tip.sequence = Len(ledger) /\ Len(ledger) \in Nat /\ Len(ledger) >= 1
      /\ call[w].row.sequence <= Len(ledger) /\ call[w].row.sequence \in Nat
  <2>1. i \in Nat /\ i >= 1 /\ i <= Len(ledger) /\ ledger[i].sequence = i
    BY <1>1, Numbered
  <2>2. ledger # << >>
    BY <2>1
  <2>3. QED
    BY <1>1, <1>3, <2>1, <2>2, TipIsLast
<1>5. CASE Denied(w, "CHAIN_LIMIT_EXCEEDED")
  <2> DEFINE e == Ended(call[w], "CHAIN_LIMIT_EXCEEDED")
             c == [e EXCEPT !.attempted = FALSE, !.confirmed = FALSE]
  <2>1. "CHAIN_LIMIT_EXCEEDED" \in Result \ Broken
    BY DEF Result, Broken
  <2>2. /\ e \in Call /\ e.step = "done" /\ e.result = "CHAIN_LIMIT_EXCEEDED"
        /\ e.request = call[w].request /\ e.read = << >> /\ e.row = call[w].row
        /\ e.fate = call[w].fate
    BY <1>1, <2>1, EndedIs
  <2>3. call' = [call EXCEPT ![w] = c]
    BY <1>5 DEF Denied
  <2> HIDE DEF e
  <2>4. /\ c \in Call /\ c.step = "done" /\ c.result = "CHAIN_LIMIT_EXCEEDED"
        /\ c.request = call[w].request /\ c.read = << >> /\ c.row = call[w].row
        /\ c.fate = call[w].fate /\ ~c.confirmed
    BY <2>2 DEF Call
  <2> HIDE DEF c
  <2>5. Reported(c)
    BY <2>4 DEF Reported, LimitErrors
  <2>6. StepsTo(w, c)
    BY <1>1, <2>1, <2>3, <2>4, <2>5, EndSteps
  <2>7. QED
    BY <2>6
<1>6. CASE /\ ~(Tip.sequence > MaximumEntries)
           /\ call' = [call EXCEPT ![w] = [@ EXCEPT !.step = "pages", !.upto = Tip.sequence]]
  <2> DEFINE c == [call[w] EXCEPT !.step = "pages", !.upto = Tip.sequence]
  <2>1. /\ c.step = "pages" /\ c.upto = Len(ledger) /\ c.read = << >>
        /\ c.result = Null /\ c.request = call[w].request /\ c.row = call[w].row
        /\ c.confirmed = call[w].confirmed /\ c.attempted = call[w].attempted
        /\ c.fate = call[w].fate
    BY <1>1, <1>2, <1>4 DEF Call
  <2>2. c \in Call
    BY <1>1, <1>4 DEF Call, Step
  <2>3. Confirmed(c, ledger)
    BY <1>2, <2>1 DEF Confirmed
  <2>4. /\ c.upto \in 1..Len(ledger) /\ c.upto <= MaximumEntries
        /\ Len(c.read) <= c.upto /\ c.read = SubSeq(ledger, 1, Len(c.read))
    <3>1. Len(c.read) = 0 /\ c.read = SubSeq(ledger, 1, 0)
      <4> HIDE DEF c
      <4>1. SubSeq(ledger, 1, 0) = << >>
        BY <1>1
      <4>2. QED
        BY <2>1, <4>1
    <3>2. Len(ledger) <= MaximumEntries
      BY <1>4, <1>6, PageSizeAssumption
    <3>3. QED
      BY <1>4, <2>1, <3>1, <3>2
  <2>5. CallOK(c, ledger)
    <3>1. Reported(c)
      BY <1>2, <2>1 DEF Reported
    <3>2. QED
      BY <1>2, <2>1, <2>3, <2>4, <3>1, NullAssumption DEF CallOK, Broken, Result
  <2>6. Goes(w, c)
    BY <1>1, <1>2, <2>1, NullAssumption DEF Goes, Result
  <2>7. StepsTo(w, c)
    BY <1>1, <1>6, <2>2, <2>5, <2>6 DEF StepsTo
  <2>8. QED
    BY <2>7
<1>7. QED
  BY <1>4, <1>5, <1>6 DEF ReadAfter

LEMMA Concatenation ==
  ASSUME NEW s \in Seq(Row), NEW t \in Seq(Row)
  PROVE  /\ s \o t \in Seq(Row) /\ Len(s \o t) = Len(s) + Len(t)
         /\ \A i \in 1..(Len(s) + Len(t)) :
              (s \o t)[i] = IF i <= Len(s) THEN s[i] ELSE t[i - Len(s)]
  OBVIOUS

LEMMA Positions ==
  \A m, k \in Nat : \A i \in (m + 1)..(m + k) : i - m \in 1..k /\ m + (i - m) = i
  OBVIOUS

\* The part of the chain a call has read, and the page it reads next.
LEMMA Pages ==
  ASSUME IInv, NEW w \in Worker, call[w].step = "pages"
  PROVE  LET read == call[w].read IN
         /\ AfterSequence(read) = Len(read)
         /\ Len(read) < call[w].upto =>
              /\ NextPage(w) # << >>
              /\ \E k \in Nat : /\ k <= call[w].upto
                               /\ read \o NextPage(w) = SubSeq(ledger, 1, k)
                               /\ Len(read \o NextPage(w)) = k
                               /\ read \o NextPage(w) \in Seq(Row)
<1> DEFINE read == call[w].read
           n == Len(ledger)
           a == Len(read)
           upto == call[w].upto
<1>1. /\ ledger \in Seq(Row) /\ Chained(ledger) /\ call[w] \in Call
      /\ CallOK(call[w], ledger) /\ n \in Nat
  BY DEF IInv, TypeOK
<1>2. /\ upto \in 1..n /\ a <= upto /\ read = SubSeq(ledger, 1, a)
      /\ read \in Seq(Row) /\ a \in Nat
  BY <1>1 DEF CallOK, Call
<1>3. AfterSequence(read) = a
  <2>1. CASE read = << >>
    BY <2>1 DEF AfterSequence
  <2>2. CASE read # << >>
    <3>1. a \in DOMAIN ledger /\ read[a] = ledger[a]
      BY <1>1, <1>2, <2>2
    <3>2. ledger[a].sequence = a
      BY <1>1, <3>1, Numbered
    <3>3. QED
      BY <2>2, <3>1, <3>2 DEF AfterSequence
  <2>3. QED
    BY <2>1, <2>2
<1>4. ASSUME a < upto
      PROVE  /\ NextPage(w) # << >>
             /\ \E k \in Nat : /\ k <= upto
                              /\ read \o NextPage(w) = SubSeq(ledger, 1, k)
                              /\ Len(read \o NextPage(w)) = k
                              /\ read \o NextPage(w) \in Seq(Row)
  <2> DEFINE limit == Limit(upto - a)
  <2>1. limit \in Nat /\ limit >= 1 /\ limit <= upto - a
    BY <1>2, <1>4, PageSizeAssumption DEF Limit
  <2>2. limit <= n - a /\ a \in 0..n
    BY <1>1, <1>2, <2>1
  <2>3. NextPage(w) = Page(a, limit)
    BY <1>3 DEF NextPage
  <2> HIDE DEF limit
  <2>4. NextPage(w) = SubSeq(ledger, a + 1, a + (IF limit < n - a THEN limit ELSE n - a))
    BY <1>1, <2>1, <2>2, <2>3, PageIsPart
  <2>5. (IF limit < n - a THEN limit ELSE n - a) = limit
    BY <1>1, <1>2, <2>1, <2>2
  <2>6. NextPage(w) = SubSeq(ledger, a + 1, a + limit)
    BY <2>4, <2>5
  <2>7. /\ NextPage(w) \in Seq(Row) /\ Len(NextPage(w)) = limit
        /\ \A i \in 1..limit : NextPage(w)[i] = ledger[a + i]
    BY <1>1, <1>2, <2>1, <2>2, <2>6
  <2> DEFINE all == read \o NextPage(w)
  <2>8. /\ all \in Seq(Row) /\ Len(all) = a + limit
        /\ \A i \in 1..(a + limit) : all[i] = IF i <= a THEN read[i] ELSE NextPage(w)[i - a]
    BY <1>2, <2>7, Concatenation
  <2>9. \A i \in 1..(a + limit) : all[i] = ledger[i]
    <3>1. \A i \in 1..a : read[i] = ledger[i]
      BY <1>1, <1>2
    <3>2. \A i \in (a + 1)..(a + limit) : i - a \in 1..limit /\ a + (i - a) = i
      BY <1>2, <2>1, Positions
    <3>3. QED
      BY <1>2, <2>1, <2>7, <2>8, <3>1, <3>2
  <2>10. all = SubSeq(ledger, 1, a + limit)
    <3>1. /\ SubSeq(ledger, 1, a + limit) \in Seq(Row)
          /\ Len(SubSeq(ledger, 1, a + limit)) = a + limit
          /\ \A i \in 1..(a + limit) : SubSeq(ledger, 1, a + limit)[i] = ledger[i]
      BY <1>1, <1>2, <2>1, <2>2
    <3>2. QED
      BY <2>8, <2>9, <3>1
  <2>11. NextPage(w) # << >>
    BY <2>1, <2>7
  <2>12. a + limit \in Nat /\ a + limit <= upto
    BY <1>2, <2>1
  <2>13. QED
    BY <2>8, <2>10, <2>11, <2>12
<1>5. QED
  BY <1>3, <1>4

LEMMA ReadPageSteps ==
  ASSUME IInv, NEW w \in Worker, ReadPage(w)
  PROVE  \E c : StepsTo(w, c)
<1> DEFINE read == call[w].read \o NextPage(w)
           c == [call[w] EXCEPT !.read = read]
<1>1. /\ call[w].step = "pages" /\ ledger' = ledger /\ CallOK(call[w], ledger)
      /\ call[w] \in Call /\ ledger \in Seq(Row)
  BY DEF ReadPage, IInv, TypeOK
<1>2. /\ Confirmed(call[w], ledger) /\ call[w].request # Null /\ Reported(call[w])
      /\ call[w].result = Null /\ call[w].upto \in 1..Len(ledger)
      /\ call[w].upto <= MaximumEntries
  BY <1>1 DEF CallOK
<1>3. Len(call[w].read) < call[w].upto
  BY <1>1, Pages DEF ReadPage, Reading
<1>4. PICK k \in Nat : /\ k <= call[w].upto /\ read = SubSeq(ledger, 1, k)
                       /\ Len(read) = k /\ read \in Seq(Row)
  BY <1>1, <1>3, Pages
<1> HIDE DEF read
<1>5. ~(Len(read) > MaximumEntries)
  BY <1>1, <1>2, <1>4, PageSizeAssumption
<1>6. call' = [call EXCEPT ![w] = c]
  BY <1>5 DEF ReadPage, read
<1>7. /\ c.step = "pages" /\ c.upto = call[w].upto /\ c.read = read
      /\ c.result = Null /\ c.request = call[w].request /\ c.row = call[w].row
      /\ c.confirmed = call[w].confirmed /\ c.attempted = call[w].attempted
      /\ c.fate = call[w].fate
  BY <1>1, <1>2 DEF Call
<1>8. c \in Call
  BY <1>1, <1>4 DEF Call
<1>9. Confirmed(c, ledger)
  BY <1>2, <1>7 DEF Confirmed
<1>10. CallOK(c, ledger)
  <2>1. Reported(c)
    BY <1>2, <1>7 DEF Reported
  <2>2. QED
    BY <1>2, <1>4, <1>7, <1>9, <2>1, NullAssumption DEF CallOK, Broken, Result
<1>11. Goes(w, c)
  BY <1>1, <1>2, <1>7, NullAssumption DEF Goes, Result
<1>12. StepsTo(w, c)
  BY <1>1, <1>6, <1>8, <1>10, <1>11 DEF StepsTo
<1>13. QED
  BY <1>12

\* The chain that was read, up to the tip, verifies.
LEMMA FinishChainSteps ==
  ASSUME IInv, NEW w \in Worker, FinishChain(w)
  PROVE  \E c : StepsTo(w, c)
<1> DEFINE read == call[w].read
           upto == call[w].upto
<1>1. /\ call[w].step = "pages" /\ ledger' = ledger /\ CallOK(call[w], ledger)
      /\ call[w] \in Call /\ ledger \in Seq(Row) /\ Chained(ledger)
  BY DEF FinishChain, IInv, TypeOK
<1>2. /\ Confirmed(call[w], ledger) /\ upto \in 1..Len(ledger)
      /\ Len(read) <= upto /\ read = SubSeq(ledger, 1, Len(read))
      /\ Len(read) \in Nat
  BY <1>1 DEF CallOK, Call
<1>3. Len(read) = upto
  BY <1>1, <1>2, Pages DEF FinishChain, Reading
<1>4. \A i \in 1..upto : read[i] = ledger[i] /\ i \in DOMAIN ledger
  BY <1>1, <1>2, <1>3
<1>5. ASSUME NEW i \in 1..Len(read)
      PROVE  /\ read[i].sequence = i
             /\ EntryVerified(read[i], IF i = 1 THEN Null ELSE read[i - 1])
  <2>1. read[i] = ledger[i] /\ i \in DOMAIN ledger
    BY <1>3, <1>4
  <2>2. i # 1 => read[i - 1] = ledger[i - 1]
    BY <1>2, <1>3, <1>4
  <2>3. (IF i = 1 THEN Null ELSE read[i - 1]) = (IF i = 1 THEN Null ELSE ledger[i - 1])
    BY <2>2
  <2>4. QED
    BY <1>1, <2>1, <2>3, Numbered, RowsVerify
<1>6. read # << >>
  BY <1>2, <1>3
<1>7. ChainVerified(read, upto)
  BY <1>3, <1>5, <1>6 DEF ChainVerified
<1> DEFINE e == Ended(call[w], "PASS")
           c == [e EXCEPT !.confirmed = TRUE]
<1>8. call' = [call EXCEPT ![w] = c]
  BY <1>7 DEF FinishChain
<1>9. "PASS" \in Result \ Broken
  BY DEF Result, Broken
<1>10. /\ e \in Call /\ e.step = "done" /\ e.result = "PASS"
       /\ e.request = call[w].request /\ e.read = << >> /\ e.row = call[w].row
       /\ e.attempted = call[w].attempted /\ e.fate = call[w].fate
  BY <1>1, <1>9, EndedIs
<1> HIDE DEF e
<1>11. /\ c \in Call /\ c.step = "done" /\ c.result = "PASS"
       /\ c.request = call[w].request /\ c.read = << >> /\ c.row = call[w].row
       /\ c.attempted = call[w].attempted /\ c.fate = call[w].fate /\ c.confirmed = TRUE
  BY <1>10 DEF Call
<1> HIDE DEF c
<1>12. Reported(c)
  BY <1>1, <1>11, NullAssumption DEF CallOK, Reported, LimitErrors, Result, Broken
<1>13. StepsTo(w, c)
  BY <1>1, <1>2, <1>8, <1>9, <1>11, <1>12, EndSteps
<1>14. QED
  BY <1>13

\* Every step changes one call in one of the four ways.
LEMMA NextSteps ==
  ASSUME IInv, Next
  PROVE  \E w \in Worker, c \in Call : StepsTo(w, c)
<1>1. ASSUME NEW w \in Worker, DatabaseFailure(w)
      PROVE  \E c : StepsTo(w, c)
  BY <1>1, DoneSteps DEF DatabaseFailure, Result, Broken
<1>2. PICK w \in Worker :
        \/ \E request \in Requests : Begin(w, request)
        \/ \E source \in Direct : BeginDirect(w, source)
        \/ Preflight(w) \/ ReadTip(w) \/ Gate(w) \/ ReadLatest(w)
        \/ Insert(w) \/ InsertUnanswered(w) \/ InsertDiscontinuous(w) \/ InsertDuplicate(w)
        \/ Resolve(w) \/ Reread(w) \/ ReadAfter(w) \/ ReadPage(w) \/ FinishChain(w)
        \/ DatabaseFailure(w)
  BY DEF Next
<1>3. \E c : StepsTo(w, c)
  BY <1>1, <1>2, BeginSteps, BeginDirectSteps, PreflightSteps, ReadTipSteps, GateSteps,
     ReadLatestSteps, InsertSteps, InsertRefusedSteps, RereadSteps, ReadAfterSteps,
     ReadPageSteps, FinishChainSteps
<1>4. QED
  BY <1>3 DEF StepsTo

\* The initial state satisfies the invariant.
LEMMA InitInv == Init => IInv
<1> SUFFICES ASSUME Init PROVE IInv
  OBVIOUS
<1>1. /\ ledger \in Seq(Row) /\ Chained(ledger)
      /\ \A w \in Worker : call[w] = Idle
  BY DEF Init, Chained
<1>2. CallOK(Idle, ledger)
  BY NullAssumption DEF CallOK, Reported, Idle, Broken, Result
<1>3. QED
  BY <1>1, <1>2, IdleType DEF Init, IInv, TypeOK

\* A step preserves the invariant: a row that is appended extends the chain, and
\* what the other calls remember stays right.
LEMMA StepInv == IInv /\ [Next]_vars => IInv'
<1> SUFFICES ASSUME IInv, [Next]_vars PROVE IInv'
  OBVIOUS
<1>1. CASE Next
  <2>1. PICK w \in Worker, c \in Call : StepsTo(w, c)
    BY <1>1, NextSteps
  <2>2. call' = [call EXCEPT ![w] = c] /\ CallOK(c, ledger')
    BY <2>1 DEF StepsTo
  <2>3. ledger' = ledger \/ Appends(w, c)
    BY <2>1 DEF StepsTo, Asks, Goes, Tells
  <2>4. ledger' \in Seq(Row) /\ Chained(ledger')
    BY <2>3, AppendChains DEF IInv, TypeOK, Appends, Built
  <2>5. ASSUME NEW v \in Worker
        PROVE  CallOK(call[v], ledger')
    BY <2>3, AppendPreserves DEF IInv, TypeOK, Appends
  <2>6. call' \in [Worker -> Call]
    BY <2>2 DEF IInv, TypeOK
  <2>7. \A v \in Worker : CallOK(call'[v], ledger')
    BY <2>2, <2>5 DEF IInv, TypeOK
  <2>8. QED
    BY <2>4, <2>6, <2>7 DEF IInv, TypeOK
<1>2. CASE UNCHANGED vars
  BY <1>2 DEF vars, IInv, TypeOK
<1>3. QED
  BY <1>1, <1>2

\* The inductive invariant: the ledger is a chain, and what every call remembers
\* of it is still so.
THEOREM Inductive == Spec => []IInv
  BY InitInv, StepInv, PTL DEF Spec

\* Rows and calls are well typed.
THEOREM TypeCorrect == Spec => []TypeOK
<1>1. IInv => TypeOK
  BY DEF IInv
<1>2. QED
  BY <1>1, Inductive, PTL

\* However appends interleave, sequences have no gap and each entry_sha256 commits
\* to all the entries before it.
THEOREM HashesCommit == Spec => []ChainCommits
<1>1. IInv => ChainCommits
  BY DEF IInv, Chained, ChainCommits
<1>2. QED
  BY <1>1, Inductive, PTL

\* persistenceConfirmed is true only of a row that is in the ledger and is of the
\* operation that was asked for.
THEOREM ConfirmationsHold == Spec => []ConfirmedIsPersisted
<1>1. IInv => ConfirmedIsPersisted
  BY DEF IInv, CallOK, Confirmed, In, Rows, ConfirmedIsPersisted
<1>2. QED
  BY <1>1, Inductive, PTL

\* A call that put a row in the ledger says that it may have, and one that was given
\* its row says so, whatever fails after that, except when the chain is too long.
THEOREM PersistenceIsReported == Spec => []PersistedIsReported
<1>1. IInv => PersistedIsReported
  BY DEF IInv, CallOK, Reported, LimitErrors, PersistedIsReported
<1>2. QED
  BY <1>1, Inductive, PTL

\* No verification fails because of what other calls append meanwhile.
THEOREM AlarmsAreTrue == Spec => []NoFalseAlarm
<1>1. IInv => NoFalseAlarm
  BY DEF IInv, CallOK, NoFalseAlarm
<1>2. QED
  BY <1>1, Inductive, PTL

-----------------------------------------------------------------------------
\* What clients see of ledger l and calls k.
EntryOf(r) == [operation |-> r.operation, source |-> r.source]

LogOf(l) == [i \in DOMAIN l |-> EntryOf(l[i])]

AskedOf(k) == [w \in Worker |-> k[w].request]

ToldBy(c) == IF c.result = "PASS" THEN c.row.sequence ELSE 0

ToldOf(k) == [w \in Worker |-> ToldBy(k[w])]

\* Reading the log off a ledger commutes with appending to it.
LEMMA LogOfAppend ==
  ASSUME NEW l \in Seq(Row), NEW r \in Row
  PROVE  /\ LogOf(l) \in Seq(Request) /\ Len(LogOf(l)) = Len(l)
         /\ DOMAIN LogOf(l) = DOMAIN l
         /\ LogOf(Append(l, r)) = Append(LogOf(l), EntryOf(r))
<1>1. \A q \in Row : EntryOf(q) \in Request
  BY DEF Row, Request, EntryOf
<1>2. /\ Len(l) \in Nat /\ DOMAIN l = 1..Len(l)
      /\ \A i \in DOMAIN l : l[i] \in Row
  OBVIOUS
<1>3. LogOf(l) = [i \in 1..Len(l) |-> EntryOf(l[i])]
  BY <1>2 DEF LogOf
<1>4. LogOf(l) \in Seq(Request) /\ Len(LogOf(l)) = Len(l) /\ DOMAIN LogOf(l) = 1..Len(l)
  BY <1>1, <1>2, <1>3
<1> DEFINE m == Append(l, r)
           a == Append(LogOf(l), EntryOf(r))
<1>5. /\ DOMAIN m = 1..(Len(l) + 1) /\ m[Len(l) + 1] = r
      /\ \A i \in 1..Len(l) : m[i] = l[i]
  BY <1>2
<1>6. /\ a \in Seq(Request) /\ Len(a) = Len(l) + 1 /\ DOMAIN a = 1..(Len(l) + 1)
      /\ a[Len(l) + 1] = EntryOf(r)
      /\ \A i \in 1..Len(l) : a[i] = LogOf(l)[i]
  <2>1. EntryOf(r) \in Request
    BY <1>1
  <2> HIDE DEF LogOf, EntryOf
  <2>2. QED
    BY <1>2, <1>4, <2>1
<1>7. a = [i \in 1..(Len(l) + 1) |-> a[i]]
  <2> HIDE DEF a
  <2>1. \A s \in Seq(Request) : s = [i \in 1..Len(s) |-> s[i]]
    OBVIOUS
  <2>2. QED
    BY <1>6, <2>1
<1>8. \A i \in 1..(Len(l) + 1) : a[i] = EntryOf(m[i])
  <2> SUFFICES ASSUME NEW i \in 1..(Len(l) + 1)
               PROVE  a[i] = EntryOf(m[i])
    OBVIOUS
  <2>1. i \in 1..Len(l) \/ i = Len(l) + 1
    BY <1>2
  <2>2. CASE i \in 1..Len(l)
    BY <1>3, <1>5, <1>6, <2>2
  <2>3. CASE i = Len(l) + 1
    BY <1>5, <1>6, <2>3
  <2>4. QED
    BY <2>1, <2>2, <2>3
<1>9. LogOf(m) = a
  BY <1>5, <1>7, <1>8 DEF LogOf
<1>10. QED
  BY <1>2, <1>4, <1>9

\* A client whose request is unanswered may be told its confirmed row.
LEMMA RowAnswers ==
  ASSUME NEW l \in Seq(Row), Chained(l), NEW c, Confirmed(c, l), c.result = "PASS"
  PROVE  \E i \in DOMAIN l : /\ ToldBy(c) = i
                             /\ Log!Answers(EntryOf(l[i]), c.request)
<1>1. PICK i \in DOMAIN l : c.row = l[i]
  BY DEF Confirmed, In
<1>2. ToldBy(c) = i
  BY <1>1, Numbered DEF ToldBy
<1>3. Log!Answers(EntryOf(l[i]), c.request)
  BY <1>1 DEF Confirmed, EntryOf, Log!Answers
<1>4. QED
  BY <1>2, <1>3

\* Steps of the abstract log, in terms of what clients see.
LEMMA StutterIs ==
  ASSUME LogOf(ledger)' = LogOf(ledger), AskedOf(call)' = AskedOf(call),
         ToldOf(call)' = ToldOf(call)
  PROVE  Log!vars' = Log!vars
  BY DEF Log!vars, LogOf, EntryOf, AskedOf, ToldOf, ToldBy

LEMMA AskIs ==
  ASSUME NEW w \in Worker, NEW e \in Request,
         AskedOf(call)' = [AskedOf(call) EXCEPT ![w] = e],
         ToldOf(call)' = [ToldOf(call) EXCEPT ![w] = 0],
         LogOf(ledger)' = LogOf(ledger)
  PROVE  Log!Ask(w)
  BY DEF Log!Ask, Log!Entry, Request, LogOf, EntryOf, AskedOf, ToldOf, ToldBy

LEMMA TellIs ==
  ASSUME NEW w \in Worker, AskedOf(call)[w] # Null, ToldOf(call)[w] = 0,
         NEW i \in DOMAIN LogOf(ledger),
         Log!Answers(LogOf(ledger)[i], AskedOf(call)[w]),
         ToldOf(call)' = [ToldOf(call) EXCEPT ![w] = i],
         LogOf(ledger)' = LogOf(ledger), AskedOf(call)' = AskedOf(call)
  PROVE  Log!Tell(w)
  BY DEF Log!Tell, Log!Waiting, LogOf, EntryOf, AskedOf, ToldOf, ToldBy

LEMMA ExtendIs ==
  ASSUME NEW e \in Request,
         \A i \in DOMAIN LogOf(ledger) :
           /\ LogOf(ledger)[i].source # e.source
           /\ LogOf(ledger)[i].operation = e.operation => e.operation = Null,
         LogOf(ledger)' = Append(LogOf(ledger), e),
         \/ ToldOf(call)' = ToldOf(call)
         \/ \E w \in Worker :
              /\ AskedOf(call)[w] # Null /\ ToldOf(call)[w] = 0
              /\ Log!Answers(e, AskedOf(call)[w])
              /\ ToldOf(call)' = [ToldOf(call) EXCEPT ![w] = Len(LogOf(ledger)) + 1],
         AskedOf(call)' = AskedOf(call)
  PROVE  Log!Extend(e)
  BY DEF Log!Extend, Log!Waiting, LogOf, EntryOf, AskedOf, ToldOf, ToldBy

\* Every step is one of the abstract log, or changes nothing that clients see.
LEMMA StepRefines == IInv /\ [Next]_vars => [Log!Next]_(Log!vars)
<1> SUFFICES ASSUME IInv, Next PROVE Log!Next \/ Log!vars' = Log!vars
  <2>1. ASSUME UNCHANGED vars
        PROVE  Log!vars' = Log!vars
    <3>1. /\ LogOf(ledger)' = LogOf(ledger) /\ AskedOf(call)' = AskedOf(call)
          /\ ToldOf(call)' = ToldOf(call)
      BY <2>1 DEF vars, LogOf, EntryOf, AskedOf, ToldOf, ToldBy
    <3>2. QED
      BY <3>1, StutterIs
  <2>2. QED
    BY <2>1
<1>1. PICK w \in Worker, c \in Call : StepsTo(w, c)
  BY NextSteps
<1>2. /\ AskedOf(call)' = [AskedOf(call) EXCEPT ![w] = c.request]
      /\ ToldOf(call)' = [ToldOf(call) EXCEPT ![w] = ToldBy(c)]
  <2>1. PICK k \in [Worker -> Call] : k = call
    BY DEF IInv, TypeOK
  <2>2. PICK n \in [Worker -> Call] : n = call' /\ n = [k EXCEPT ![w] = c]
    BY <1>1, <2>1 DEF StepsTo
  <2>3. /\ AskedOf(call) = AskedOf(k) /\ ToldOf(call) = ToldOf(k)
        /\ AskedOf(call)' = AskedOf(n) /\ ToldOf(call)' = ToldOf(n)
    BY <2>1, <2>2 DEF AskedOf, ToldOf, ToldBy
  <2>4. \A v \in Worker : n[v] = IF v = w THEN c ELSE k[v]
    BY <2>2
  <2>5. AskedOf(n) = [AskedOf(k) EXCEPT ![w] = c.request]
    BY <2>4 DEF AskedOf
  <2>6. ToldOf(n) = [ToldOf(k) EXCEPT ![w] = ToldBy(c)]
    <3> HIDE DEF ToldBy
    <3>1. QED
      BY <2>4 DEF ToldOf
  <2>7. QED
    BY <2>3, <2>5, <2>6
<1>3. /\ AskedOf(call) = [AskedOf(call) EXCEPT ![w] = call[w].request]
      /\ AskedOf(call)[w] = call[w].request
      /\ ToldOf(call) = [ToldOf(call) EXCEPT ![w] = ToldBy(call[w])]
      /\ ToldOf(call)[w] = ToldBy(call[w])
  BY DEF AskedOf, ToldOf
<1>4. call[w].result = Null => ToldBy(call[w]) = 0
  BY NullAssumption DEF ToldBy, Result
<1>5. CallOK(c, ledger') /\ ledger \in Seq(Row) /\ Chained(ledger)
  BY <1>1 DEF StepsTo, IInv, TypeOK
<1>6. ledger' = ledger => LogOf(ledger)' = LogOf(ledger)
  BY DEF LogOf, EntryOf
<1>7. CASE Asks(w, c)
  <2>1. c.request \in Request /\ ToldBy(c) = 0
    BY <1>7, NullAssumption DEF Asks, Call, ToldBy, Result
  <2>2. Log!Ask(w)
    BY <1>2, <1>6, <1>7, <2>1, AskIs DEF Asks
  <2>3. QED
    BY <2>2 DEF Log!Next
<1>8. CASE Goes(w, c)
  <2>1. ToldBy(c) = 0 /\ ToldBy(call[w]) = 0
    BY <1>4, <1>8 DEF Goes, ToldBy
  <2>2. /\ LogOf(ledger)' = LogOf(ledger) /\ AskedOf(call)' = AskedOf(call)
        /\ ToldOf(call)' = ToldOf(call)
    BY <1>2, <1>3, <1>6, <1>8, <2>1 DEF Goes
  <2>3. QED
    BY <2>2, StutterIs
<1>9. CASE Tells(w, c)
  <2>1. c.request # Null /\ Confirmed(c, ledger)
    BY <1>5, <1>9, NullAssumption DEF Tells, CallOK
  <2>2. PICK i \in DOMAIN ledger : ToldBy(c) = i /\ Log!Answers(EntryOf(ledger[i]), c.request)
    BY <1>5, <1>9, <2>1, RowAnswers DEF Tells
  <2>3. i \in DOMAIN LogOf(ledger) /\ LogOf(ledger)[i] = EntryOf(ledger[i])
    BY <2>2 DEF LogOf
  <2>4. /\ AskedOf(call)[w] = c.request /\ ToldOf(call)[w] = 0
        /\ AskedOf(call)' = AskedOf(call) /\ LogOf(ledger)' = LogOf(ledger)
        /\ ToldOf(call)' = [ToldOf(call) EXCEPT ![w] = i]
    BY <1>2, <1>3, <1>4, <1>6, <1>9, <2>2 DEF Tells
  <2>5. Log!Tell(w)
    BY <2>1, <2>2, <2>3, <2>4, TellIs
  <2>6. QED
    BY <2>5 DEF Log!Next
<1>10. CASE Appends(w, c)
  <2>0. PICK r \in Row : r = call[w].row
    BY <1>10 DEF Appends
  <2>1. /\ ledger' = Append(ledger, r) /\ Conflicts(r) = {}
        /\ TriggerAccepts(r) /\ c.request = call[w].request /\ c.request # Null
        /\ r.operation = c.request.operation /\ r.source = c.request.source
    BY <1>10, <2>0 DEF Appends, Built
  <2>2. PICK e \in Request : e = EntryOf(r) /\ e.operation = r.operation /\ e.source = r.source
    <3>1. /\ EntryOf(r) \in Request
          /\ EntryOf(r).operation = r.operation /\ EntryOf(r).source = r.source
      BY DEF Row, Request, EntryOf
    <3> HIDE DEF EntryOf
    <3>2. QED
      BY <3>1
  <2>3. ASSUME NEW i \in DOMAIN LogOf(ledger)
        PROVE  /\ LogOf(ledger)[i].source # e.source
               /\ LogOf(ledger)[i].operation = e.operation => e.operation = Null
    <3>1. i \in DOMAIN ledger /\ LogOf(ledger)[i] = EntryOf(ledger[i])
      BY DEF LogOf
    <3>2. ledger[i] \in Rows /\ ledger[i] \in Row
      BY <1>5, <3>1 DEF Rows
    <3>3. ledger[i]["source"] # r["source"] \/ ledger[i]["source"] = Null
      BY <2>1, <3>2 DEF Conflicts
    <3>4. ledger[i]["operation"] # r["operation"] \/ ledger[i]["operation"] = Null
      BY <2>1, <3>2 DEF Conflicts
    <3>5. ledger[i].source # Null
      BY <3>2, RequestAssumption DEF Row
    <3>6. QED
      BY <2>2, <3>1, <3>3, <3>4, <3>5 DEF EntryOf
  <2>4. LogOf(ledger)' = Append(LogOf(ledger), e) /\ Len(LogOf(ledger)) = Len(ledger)
    <3>1. LogOf(ledger)' = LogOf(ledger')
      BY DEF LogOf, EntryOf
    <3>2. QED
      BY <1>5, <2>1, <2>2, <3>1, LogOfAppend
  <2>5. AskedOf(call)' = AskedOf(call)
    BY <1>2, <1>3, <2>1
  <2>6. ToldOf(call)[w] = 0
    BY <1>3, <1>4, <1>10 DEF Appends
  <2>7. CASE c.result # "PASS"
    <3>1. ToldOf(call)' = ToldOf(call)
      BY <1>2, <1>3, <2>6, <2>7 DEF ToldBy
    <3>2. QED
      BY <2>2, <2>3, <2>4, <2>5, <3>1, ExtendIs DEF Log!Next, Log!Entry, Request
  <2>8. CASE c.result = "PASS"
    <3>1. ToldBy(c) = Len(ledger) + 1
      <4>1. ToldBy(c) = r.sequence
        BY <1>10, <2>0, <2>8 DEF Appends, ToldBy
      <4>2. r.sequence = Len(ledger) + 1
        BY <1>5, <2>1, TipIsLast DEF TriggerAccepts
      <4>3. QED
        BY <4>1, <4>2
    <3>2. Log!Answers(e, AskedOf(call)[w])
      BY <1>3, <2>1, <2>2 DEF Log!Answers
    <3>3. ToldOf(call)' = [ToldOf(call) EXCEPT ![w] = Len(LogOf(ledger)) + 1]
      BY <1>2, <2>4, <3>1
    <3>4. AskedOf(call)[w] # Null
      BY <1>3, <2>1
    <3>5. Log!Extend(e)
      BY <2>2, <2>3, <2>4, <2>5, <2>6, <3>2, <3>3, <3>4, ExtendIs
    <3>6. QED
      BY <2>2, <3>5 DEF Log!Next, Log!Entry, Request
  <2>9. QED
    BY <2>7, <2>8
<1>11. QED
  BY <1>1, <1>7, <1>8, <1>9, <1>10 DEF StepsTo

\* To its clients the ledger is one append-only log with an operation and a source
\* at most once, and every acknowledgement names an entry that answers the request.
THEOREM LedgerImplementsLog == Spec => ImplementsLog
<1>1. Init => Log!Init
  BY NullAssumption DEF Init, Idle, Log!Init, Result
<1>2. QED
  BY <1>1, StepRefines, Inductive, PTL DEF Spec, ImplementsLog, Log!Spec

\* The abstract log again, with what is proved of it.
LogProved == INSTANCE AppendOnlyLedger_proofs WITH
  Client <- Worker,
  log <- [i \in DOMAIN ledger |-> [operation |-> ledger[i].operation,
                                   source |-> ledger[i].source]],
  asked <- [w \in Worker |-> call[w].request],
  told <- [w \in Worker |->
             IF call[w].result = "PASS" THEN call[w].row.sequence ELSE 0]

\* Both instances are of one module under one mapping.
LEMMA SameLog ==
  /\ Log!Init => LogProved!Init
  /\ [Log!Next]_(Log!vars) => [LogProved!Next]_(LogProved!vars)
  /\ LogProved!AnswersAgree => Log!AnswersAgree
BY DEF Log!Init, Log!Next, Log!vars, Log!Ask, Log!Tell, Log!Extend, Log!Entry,
       Log!Waiting, Log!Answers, Log!AnswersAgree,
       LogProved!Init, LogProved!Next, LogProved!vars, LogProved!Ask, LogProved!Tell,
       LogProved!Extend, LogProved!Entry, LogProved!Waiting, LogProved!Answers,
       LogProved!AnswersAgree

\* The append service is idempotent per operation, as any implementation of the
\* abstract log is.
THEOREM OneAnswerPerOperation == Spec => []OneAnswer
<1>1. LogProved!Spec => []LogProved!AnswersAgree
  BY LogProved!AgreementOnAnswers
<1>2. Log!Spec => LogProved!Spec
  BY SameLog, PTL DEF Log!Spec, LogProved!Spec
<1>3. QED
  BY <1>1, <1>2, SameLog, LedgerImplementsLog, PTL DEF ImplementsLog, OneAnswer
=============================================================================
