------------------------- MODULE RateLimitQuota_proofs -------------------------
(***************************************************************************)
(* Theorems about RateLimitQuota, for any number of requests in progress,  *)
(* any profile and any calendar.  The bound on the excess follows from who *)
(* can still add a row to a window: once the window is full, no request    *)
(* joins those that have read it while it was not.                         *)
(***************************************************************************)
EXTENDS RateLimitQuota, FiniteSetTheorems, TLAPS

\* The steps before the row of window w is written.
Before(w) == IF w \in {"minute", "hour"} THEN {"event"} ELSE {"event", "ledger"}

\* Request s found room in window w, and may still add a row to the one that
\* starts at t.
May(s, w, t) ==
  /\ req[s].informed /\ ~req[s].exceeded /\ w \notin req[s].unread
  /\ \/ req[s].step = "counting" /\ StartOf[w][req[s].now] <= t
     \/ req[s].step \in Before(w) /\ StartOf[w][req[s].at] = t

Pending(w, t) == {s \in Slot : May(s, w, t)}

\* A full window, its rows, and those that may still come.
Bounded(w, t) ==
  Profile.limit[w] > 0 /\ Cardinality(Within(w, t)) >= Profile.limit[w] =>
    Cardinality(Within(w, t)) + Cardinality(Pending(w, t))
      <= Profile.limit[w] + Cardinality(Slot) - 1

\* What a request knows of itself.
Known(s) ==
  /\ req[s].informed => req[s].profile = Profile
  /\ req[s].now <= clock
  /\ req[s].step = "profile" => req[s].unread = Window /\ ~req[s].exceeded
  /\ req[s].step \in {"event", "ledger"} =>
       /\ req[s].unread = {} /\ ~req[s].exceeded
       /\ req[s].now <= req[s].at
  /\ req[s].step = "ledger" /\ "insert" \notin Faults =>
       \E y \in events : req[s].key = y.key /\ req[s].at = y.at

\* A request that found a window full.
Due(s) ==
  req[s].step = "counting" /\ req[s].exceeded =>
    \E w \in Window : \E t \in Time :
      /\ req[s].now = t /\ req[s].profile.limit[w] > 0
      /\ req[s].profile.limit[w] <= Cardinality(Since(w, t))

IInv ==
  /\ TypeOK
  /\ IsFiniteSet(events) /\ IsFiniteSet(ledger)
  /\ \A s \in Slot : Known(s) /\ Due(s)
  /\ \A w \in Window : \A t \in Time : Bounded(w, t)
  /\ LedgerWithinEvents

-----------------------------------------------------------------------------
\* Time is a set of numbers.
LEMMA Times == Time \subseteq Nat /\ Horizon \in Nat
BY QuotaAssumption DEF Time

\* A request with its fields.
LEMMA Fields ==
  ASSUME TypeOK, NEW s \in Slot
  PROVE  req[s] \in Request
BY DEF TypeOK

\* An idle slot and a new request are of their type.
LEMMA NewType ==
  ASSUME NEW step \in {"idle", "profile", "granted", "limited", "disabled"},
         NEW key \in Key, NEW now \in Time, NEW informed \in BOOLEAN
  PROVE  New(step, key, now, informed) \in Request
<1>1. 0 \in Time
  BY Times DEF Time
<1>2. QED
  BY <1>1 DEF New, Request

\* What the reading of a profile or of a count changes.
LEMMA ProfileStep ==
  ASSUME TypeOK, NEW s \in Slot, ReadProfile(s)
  PROVE  /\ \A r \in Slot : r # s => req'[r] = req[r]
         /\ req'[s].step = "counting" /\ req'[s].unread = req[s].unread
         /\ req'[s].now = req[s].now /\ req'[s].exceeded = req[s].exceeded
         /\ req'[s].informed => req[s].informed /\ req'[s].profile = req[s].profile
<1>1. req[s] \in Request
  BY Fields
<1>2. CASE req' = [req EXCEPT ![s] = [req[s] EXCEPT !.step = "counting"]]
  BY <1>1, <1>2 DEF TypeOK, Request
<1>3. CASE req' = [req EXCEPT ![s] = [req[s] EXCEPT !.step = "counting",
                                        !.profile = DefaultProfile, !.informed = FALSE]]
  <2>1. req'[s] = [req[s] EXCEPT !.step = "counting", !.profile = DefaultProfile,
                                 !.informed = FALSE]
    BY <1>3 DEF TypeOK
  <2>2. req'[s].step = "counting" /\ req'[s].unread = req[s].unread
    BY <1>1, <2>1 DEF Request
  <2>3. req'[s].now = req[s].now /\ req'[s].exceeded = req[s].exceeded
    BY <1>1, <2>1 DEF Request
  <2>4. ~req'[s].informed
    BY <1>1, <2>1 DEF Request
  <2>5. \A r \in Slot : r # s => req'[r] = req[r]
    BY <1>3 DEF TypeOK
  <2>6. QED
    BY <2>2, <2>3, <2>4, <2>5
<1>4. QED
  BY <1>2, <1>3 DEF ReadProfile

LEMMA CountStep ==
  ASSUME TypeOK, NEW s \in Slot, ReadCount(s)
  PROVE  /\ \A r \in Slot : r # s => req'[r] = req[r]
         /\ req[s].step = "counting" /\ req'[s].step = "counting"
         /\ req'[s].now = req[s].now /\ req'[s].profile = req[s].profile
         /\ \E w \in req[s].unread, counted \in BOOLEAN :
              /\ req'[s].unread = req[s].unread \ {w}
              /\ req'[s].informed = (req[s].informed /\ counted)
              /\ req'[s].exceeded =
                   (req[s].exceeded \/
                      Exceeds(req[s].profile.limit[w],
                              (IF counted THEN Cardinality(Since(w, req[s].now)) ELSE 0) + 1))
<1>1. req[s] \in Request /\ req \in [Slot -> Request]
  BY Fields DEF TypeOK
<1>2. PICK w \in req[s].unread, counted \in BOOLEAN :
        req' = [req EXCEPT
                 ![s].unread = @ \ {w},
                 ![s].exceeded = @ \/ Exceeds(req[s].profile.limit[w],
                   (IF counted THEN Cardinality(Since(w, req[s].now)) ELSE 0) + 1),
                 ![s].informed = @ /\ counted]
  BY DEF ReadCount
<1> DEFINE e == Exceeds(req[s].profile.limit[w],
                        (IF counted THEN Cardinality(Since(w, req[s].now)) ELSE 0) + 1)
<1>3. req' = [req EXCEPT ![s] = [req[s] EXCEPT !.unread = @ \ {w}, !.exceeded = @ \/ e,
                                               !.informed = @ /\ counted]]
  BY <1>2
<1>4. /\ \A r \in Slot : r # s => req'[r] = req[r]
      /\ req'[s] = [req[s] EXCEPT !.unread = @ \ {w}, !.exceeded = @ \/ e,
                                  !.informed = @ /\ counted]
  <2> HIDE DEF e
  <2>1. QED
    BY <1>1, <1>3
<1>5. /\ req'[s].step = req[s].step /\ req'[s].now = req[s].now
      /\ req'[s].profile = req[s].profile /\ req'[s].unread = req[s].unread \ {w}
      /\ req'[s].informed = (req[s].informed /\ counted)
      /\ req'[s].exceeded = (req[s].exceeded \/ e)
  <2> HIDE DEF e
  <2>1. QED
    BY <1>1, <1>4 DEF Request
<1>6. req[s].step = "counting"
  BY DEF ReadCount
<1>7. QED
  BY <1>4, <1>5, <1>6

\* Every step keeps the types.
LEMMA StepTypes ==
  ASSUME TypeOK, [Next]_vars
  PROVE  TypeOK'
<1>0. 0 \in Time
  BY Times DEF Time
<1>1. ASSUME NEW s \in Slot, Begin(s) PROVE TypeOK'
  BY <1>1, NewType DEF TypeOK, Begin
<1>2. ASSUME NEW s \in Slot, ReadProfile(s) PROVE TypeOK'
  <2>1. req[s] \in Request
    BY Fields
  <2> DEFINE lost == [req[s] EXCEPT !.step = "counting", !.profile = DefaultProfile,
                                    !.informed = FALSE]
  <2>2. [req[s] EXCEPT !.step = "counting"] \in Request /\ lost \in Request
    BY <2>1 DEF Request
  <2>3. req' = [req EXCEPT ![s] = [req[s] EXCEPT !.step = "counting"]]
        \/ req' = [req EXCEPT ![s] = lost]
    BY <1>2 DEF ReadProfile
  <2>4. QED
    BY <1>2, <2>2, <2>3 DEF TypeOK, ReadProfile
<1>3. ASSUME NEW s \in Slot, ReadCount(s) PROVE TypeOK'
  <2>1. req[s] \in Request
    BY Fields
  <2>a. PICK w \in req[s].unread, counted \in BOOLEAN : \E n :
          req' = [req EXCEPT ![s].unread = @ \ {w},
                             ![s].exceeded = @ \/ Exceeds(req[s].profile.limit[w], n + 1),
                             ![s].informed = @ /\ counted]
    BY <1>3 DEF ReadCount
  <2>2. PICK n :
          req' = [req EXCEPT ![s].unread = @ \ {w},
                             ![s].exceeded = @ \/ Exceeds(req[s].profile.limit[w], n + 1),
                             ![s].informed = @ /\ counted]
    BY <2>a
  <2> DEFINE read == [req[s] EXCEPT
                        !.unread = @ \ {w},
                        !.exceeded = @ \/ Exceeds(req[s].profile.limit[w], n + 1),
                        !.informed = @ /\ counted]
  <2>3. read \in Request
    BY <2>1 DEF Request, Exceeds
  <2>4. req' = [req EXCEPT ![s] = read]
    BY <2>2
  <2>5. QED
    BY <1>3, <2>3, <2>4 DEF TypeOK, ReadCount
<1>4. ASSUME NEW s \in Slot, Refuse(s) PROVE TypeOK'
  BY <1>4, <1>0, NewType, Fields DEF TypeOK, Refuse, End, Request
<1>5. ASSUME NEW s \in Slot, Admit(s) PROVE TypeOK'
  <2>1. req[s] \in Request /\ clock \in Time
    BY Fields DEF TypeOK
  <2> DEFINE stamped == [req[s] EXCEPT !.step = "event", !.at = clock]
  <2>2. stamped \in Request
    BY <2>1 DEF Request
  <2>3. req' = [req EXCEPT ![s] = stamped]
    BY <1>5 DEF Admit
  <2>4. QED
    BY <1>5, <2>2, <2>3 DEF TypeOK, Admit
<1>6. ASSUME NEW s \in Slot PROVE Inserted(events, s) \subseteq Row /\ Inserted(ledger, s) \subseteq Row
  BY Fields DEF Inserted, Row, Request, TypeOK
<1>7. ASSUME NEW s \in Slot, InsertEvent(s) PROVE TypeOK'
  BY <1>6, <1>7 DEF TypeOK, InsertEvent, Request
<1>8. ASSUME NEW s \in Slot, InsertLedger(s) PROVE TypeOK'
  BY <1>6, <1>8, <1>0, NewType, Fields DEF TypeOK, InsertLedger, End, Request
<1>9. ASSUME NEW s \in Slot, Crash(s) PROVE TypeOK'
  BY <1>9, <1>0, NewType, Fields DEF TypeOK, Crash, End, Request
<1>10. CASE Tick
  BY <1>10, Times DEF TypeOK, Tick, Time
<1>11. CASE UNCHANGED vars
  BY <1>11 DEF TypeOK, vars
<1>12. QED
  BY <1>1, <1>2, <1>3, <1>4, <1>5, <1>7, <1>8, <1>9, <1>10, <1>11 DEF Next

\* Every step keeps what a request knows, and the order of the two tables.
LEMMA StepKnown ==
  ASSUME IInv, [Next]_vars
  PROVE  (\A s \in Slot : Known(s))' /\ LedgerWithinEvents'
<1>0. TypeOK /\ 0 \in Time /\ Time \subseteq Nat
  BY Times DEF Time, IInv
<1>k. (\A r \in Slot : Known(r)) /\ LedgerWithinEvents
  BY DEF IInv
<1>1. ASSUME NEW s \in Slot, Begin(s)
      PROVE  (\A r \in Slot : Known(r))' /\ LedgerWithinEvents'
  BY <1>0, <1>k, <1>1 DEF TypeOK, Begin, New, Known, LedgerWithinEvents
<1>2. ASSUME NEW s \in Slot, ReadProfile(s)
      PROVE  (\A r \in Slot : Known(r))' /\ LedgerWithinEvents'
  <2>1. /\ req'[s].step = "counting" /\ req'[s].now = req[s].now
        /\ (req'[s].informed => req[s].informed /\ req'[s].profile = req[s].profile)
        /\ \A r \in Slot : r # s => req'[r] = req[r]
    BY <1>0, <1>2, ProfileStep
  <2>2. QED
    BY <1>2, <1>k, <2>1 DEF ReadProfile, Known, LedgerWithinEvents
<1>3. ASSUME NEW s \in Slot, ReadCount(s)
      PROVE  (\A r \in Slot : Known(r))' /\ LedgerWithinEvents'
  <2>1. /\ req'[s].step = "counting" /\ req'[s].profile = req[s].profile
        /\ req'[s].now = req[s].now /\ (req'[s].informed => req[s].informed)
        /\ \A r \in Slot : r # s => req'[r] = req[r]
    BY <1>0, <1>3, CountStep
  <2>2. QED
    <3>1. UNCHANGED <<clock, events, ledger>>
      BY <1>3 DEF ReadCount
    <3>2. QED
      BY <1>k, <2>1, <3>1 DEF Known, LedgerWithinEvents
<1>4. ASSUME NEW s \in Slot, Refuse(s)
      PROVE  (\A r \in Slot : Known(r))' /\ LedgerWithinEvents'
  BY <1>0, <1>k, <1>4 DEF TypeOK, Refuse, End, New, Known, LedgerWithinEvents
<1>5. ASSUME NEW s \in Slot, Admit(s)
      PROVE  (\A r \in Slot : Known(r))' /\ LedgerWithinEvents'
  BY <1>0, <1>k, <1>5 DEF TypeOK, Admit, Counted, Known, LedgerWithinEvents
<1>6. ASSUME NEW s \in Slot, InsertEvent(s)
      PROVE  (\A r \in Slot : Known(r))' /\ LedgerWithinEvents'
  <2>1. events \subseteq events'
    BY <1>6 DEF InsertEvent, Inserted
  <2>2. "insert" \notin Faults => \E y \in events' : req[s].key = y.key /\ req[s].at = y.at
    <3>1. \E y \in Inserted(events, s) : req[s].key = y.key /\ req[s].at = y.at
      <4>1. CASE \E x \in events : x.key = req[s].key /\ x.at = req[s].at
        BY <4>1 DEF Inserted
      <4>2. CASE ~\E x \in events : x.key = req[s].key /\ x.at = req[s].at
        <5> DEFINE y == [key |-> req[s].key, at |-> req[s].at, informed |-> req[s].informed]
        <5>1. y \in Inserted(events, s)
          BY <4>2 DEF Inserted
        <5>2. y.key = req[s].key /\ y.at = req[s].at
          OBVIOUS
        <5> HIDE DEF y
        <5>3. QED
          BY <5>1, <5>2
      <4>3. QED
        BY <4>1, <4>2
    <3>2. QED
      BY <1>6, <3>1 DEF InsertEvent
  <2>3. QED
    BY <1>0, <1>k, <1>6, <2>1, <2>2 DEF TypeOK, InsertEvent, Known, LedgerWithinEvents
<1>7. ASSUME NEW s \in Slot, InsertLedger(s)
      PROVE  (\A r \in Slot : Known(r))' /\ LedgerWithinEvents'
  <2>1. "insert" \notin Faults =>
          \A x \in ledger' : x \in ledger \/ (x.key = req[s].key /\ x.at = req[s].at)
    BY <1>7 DEF InsertLedger, Inserted
  <2>2. QED
    BY <1>0, <1>k, <1>7, <2>1 DEF TypeOK, InsertLedger, End, New, Known, LedgerWithinEvents
<1>8. ASSUME NEW s \in Slot, Crash(s)
      PROVE  (\A r \in Slot : Known(r))' /\ LedgerWithinEvents'
  BY <1>0, <1>k, <1>8 DEF TypeOK, Crash, End, New, Known, LedgerWithinEvents
<1>9. CASE Tick
  <2>1. \A r \in Slot : req[r].now \in Nat
    BY <1>0, Fields DEF Request
  <2>2. QED
    BY <1>0, <1>k, <1>9, <2>1 DEF TypeOK, Tick, Known, LedgerWithinEvents
<1>10. CASE UNCHANGED vars
  BY <1>k, <1>10 DEF vars, Known, LedgerWithinEvents
<1>11. QED
  BY <1>1, <1>2, <1>3, <1>4, <1>5, <1>6, <1>7, <1>8, <1>9, <1>10 DEF Next

\* Every step keeps the tables finite.
LEMMA StepFinite ==
  ASSUME IInv, [Next]_vars
  PROVE  IsFiniteSet(events)' /\ IsFiniteSet(ledger)'
<1>1. ASSUME NEW s \in Slot
      PROVE  IsFiniteSet(Inserted(events, s)) /\ IsFiniteSet(Inserted(ledger, s))
  BY FS_AddElement DEF IInv, Inserted
<1>2. QED
  BY <1>1 DEF IInv, Next, Begin, ReadProfile, ReadCount, Refuse, Admit, InsertEvent,
              InsertLedger, Crash, Tick, vars

\* Rows are never removed, so what filled a window still does.
LEMMA SinceGrows ==
  ASSUME IInv, [Next]_vars, NEW w \in Window, NEW t \in Time
  PROVE  /\ Cardinality(Since(w, t)) \in Nat /\ Cardinality(Since(w, t)') \in Nat
         /\ Cardinality(Since(w, t)) <= Cardinality(Since(w, t)')
<1>1. events \subseteq events' /\ ledger \subseteq ledger'
  BY DEF Next, Begin, ReadProfile, ReadCount, Refuse, Admit, InsertEvent, InsertLedger,
         Inserted, Crash, Tick, vars
<1>2. IsFiniteSet(events') /\ IsFiniteSet(ledger') /\ IsFiniteSet(events) /\ IsFiniteSet(ledger)
  BY StepFinite DEF IInv
<1>3. /\ Since(w, t) \subseteq Table(w) /\ Since(w, t)' \subseteq Table(w)'
      /\ Since(w, t) \subseteq Since(w, t)'
  BY <1>1 DEF Since, Table
<1>4. IsFiniteSet(Table(w)) /\ IsFiniteSet(Table(w)')
  BY <1>2 DEF Table
<1>5. IsFiniteSet(Since(w, t)) /\ IsFiniteSet(Since(w, t)')
  BY <1>3, <1>4, FS_Subset
<1>6. QED
  BY <1>3, <1>5, FS_Subset, FS_CardinalityType

\* What filled a window for a request that stays as it is still does.
LEMMA DueStays ==
  ASSUME IInv, [Next]_vars, NEW s \in Slot,
         req[s].step = "counting" => req[s].exceeded = req'[s].exceeded,
         req'[s].step = "counting" => req[s].step = "counting",
         req'[s].profile = req[s].profile, req'[s].now = req[s].now
  PROVE  Due(s)'
<1>0. CASE ~(req'[s].step = "counting" /\ req'[s].exceeded)
  BY <1>0 DEF Due
<1>1. CASE req'[s].step = "counting" /\ req'[s].exceeded
  <2>1. PICK w \in Window, t \in Time :
          /\ req[s].now = t /\ req[s].profile.limit[w] > 0
          /\ req[s].profile.limit[w] <= Cardinality(Since(w, t))
    BY <1>1 DEF IInv, Due
  <2>2. req[s].profile.limit[w] \in Nat
    <3>1. req[s].profile \in {Profile, DefaultProfile}
      BY Fields DEF IInv, Request
    <3>2. QED
      BY <3>1, QuotaAssumption DEF QuotaProfile
  <2>3. req[s].profile.limit[w] <= Cardinality(Since(w, t)')
    BY <2>1, <2>2, SinceGrows
  <2>4. QED
    BY <2>1, <2>3 DEF Due
<1>2. QED
  BY <1>0, <1>1

\* Every step keeps the reason of a refusal.
LEMMA StepDue ==
  ASSUME IInv, [Next]_vars
  PROVE  (\A s \in Slot : Due(s))'
<1> SUFFICES ASSUME NEW r \in Slot PROVE Due(r)'
  OBVIOUS
<1>0. TypeOK /\ Known(r)
  BY DEF IInv
<1>1. CASE req'[r] = req[r]
  BY <1>1, DueStays
<1>2. CASE req'[r] # req[r]
  <2>1. CASE ReadCount(r)
    <3>1. /\ req[r].step = "counting" /\ req'[r].now = req[r].now
          /\ req'[r].profile = req[r].profile
      BY <1>0, <2>1, CountStep
    <3>2. PICK v \in req[r].unread, counted \in BOOLEAN :
            req'[r].exceeded =
              (req[r].exceeded \/
                 Exceeds(req[r].profile.limit[v],
                         (IF counted THEN Cardinality(Since(v, req[r].now)) ELSE 0) + 1))
      BY <1>0, <2>1, CountStep
    <3>3. CASE req'[r].exceeded = req[r].exceeded
      BY <3>1, <3>3, DueStays
    <3>4. CASE req'[r].exceeded # req[r].exceeded
      <4>0. PICK t \in Time : t = req[r].now
        BY <1>0, Fields DEF Request
      <4>1. v \in Window /\ req[r].profile.limit[v] \in Nat
        <5>1. req[r].profile \in {Profile, DefaultProfile} /\ v \in Window
          BY <1>0, Fields DEF Request
        <5>2. QED
          BY <5>1, QuotaAssumption DEF QuotaProfile
      <4>2. Exceeds(req[r].profile.limit[v],
                    (IF counted THEN Cardinality(Since(v, t)) ELSE 0) + 1)
        <5>1. req[r].exceeded \in BOOLEAN
          BY <1>0, Fields DEF Request
        <5>2. QED
          BY <3>2, <3>4, <4>0, <5>1
      <4>3. req[r].profile.limit[v] > 0 /\ req[r].profile.limit[v] <= Cardinality(Since(v, t))
        BY <4>1, <4>2, SinceGrows DEF Exceeds
      <4>4. req[r].profile.limit[v] <= Cardinality(Since(v, t)')
        BY <4>1, <4>3, SinceGrows
      <4>5. QED
        BY <3>1, <4>0, <4>1, <4>3, <4>4 DEF Due
    <3>5. QED
      BY <3>3, <3>4
  <2>2. CASE ReadProfile(r)
    <3>1. ~req'[r].exceeded
      BY <1>0, <2>2, ProfileStep DEF Known, ReadProfile
    <3>2. QED
      BY <3>1 DEF Due
  <2>3. CASE Begin(r) \/ Refuse(r) \/ Admit(r) \/ InsertEvent(r) \/ InsertLedger(r) \/ Crash(r)
    <3>1. req'[r].step # "counting"
      <4>1. CASE Begin(r) \/ Refuse(r) \/ InsertLedger(r) \/ Crash(r)
        BY <1>0, <4>1 DEF TypeOK, Begin, Refuse, InsertLedger, Crash, End, New
      <4>2. CASE Admit(r)
        BY <1>0, <4>2, Fields DEF TypeOK, Admit, Request
      <4>3. CASE InsertEvent(r)
        BY <1>0, <4>3, Fields DEF TypeOK, InsertEvent, Request
      <4>4. QED
        BY <2>3, <4>1, <4>2, <4>3
    <3>2. QED
      BY <3>1 DEF Due
  <2>4. ASSUME NEW s \in Slot, s # r,
               \/ Begin(s) \/ ReadProfile(s) \/ ReadCount(s) \/ Refuse(s) \/ Admit(s)
               \/ InsertEvent(s) \/ InsertLedger(s) \/ Crash(s)
        PROVE  FALSE
    <3>1. req'[r] = req[r]
      BY <1>0, <2>4, ProfileStep, CountStep
         DEF TypeOK, Begin, Refuse, Admit, InsertEvent, InsertLedger, Crash, End
    <3>2. QED
      BY <1>2, <3>1
  <2>5. ~Tick /\ ~UNCHANGED vars
    BY <1>2 DEF Tick, vars
  <2>6. QED
    BY <2>1, <2>2, <2>3, <2>4, <2>5 DEF Next
<1>3. QED
  BY <1>1, <1>2

-----------------------------------------------------------------------------
\* The rows of a window, and those who may add one, are finitely many.
LEMMA Finite ==
  ASSUME IInv, NEW w \in Window, NEW t \in Time
  PROVE  /\ IsFiniteSet(Within(w, t)) /\ Cardinality(Within(w, t)) \in Nat
         /\ IsFiniteSet(Pending(w, t)) /\ Cardinality(Pending(w, t)) \in Nat
         /\ IsFiniteSet(Slot) /\ Cardinality(Slot) \in Nat
         /\ Profile.limit[w] \in Nat
<1>1. Within(w, t) \subseteq Table(w) /\ IsFiniteSet(Table(w))
  BY DEF Within, Table, IInv
<1>2. Pending(w, t) \subseteq Slot /\ IsFiniteSet(Slot)
  BY QuotaAssumption DEF Pending
<1>3. Profile.limit[w] \in Nat
  BY QuotaAssumption DEF QuotaProfile
<1>4. QED
  BY <1>1, <1>2, <1>3, FS_Subset, FS_CardinalityType

\* What a step can do to a window: nobody joins those who may add a row to it,
\* or one of them adds its row, or the window is not full.
Joins(w, t) == ~(Pending(w, t)' \subseteq Pending(w, t))
Adds(w, t) ==
  \E s \in Pending(w, t) : \E x :
    Within(w, t)' = Within(w, t) \cup {x} /\ Pending(w, t)' \subseteq Pending(w, t) \ {s}
Quiet(w, t) == Within(w, t)' = Within(w, t) /\ Pending(w, t)' \subseteq Pending(w, t)
NotFull(w, t) == Within(w, t)' = Within(w, t) /\ Cardinality(Within(w, t)) < Profile.limit[w]

\* Each of them keeps the bound.
LEMMA BoundKept ==
  ASSUME IInv, NEW w \in Window, NEW t \in Time,
         Adds(w, t) \/ Quiet(w, t) \/ NotFull(w, t)
  PROVE  Bounded(w, t)'
<1> DEFINE W == Within(w, t)
           P == Pending(w, t)
           K == Cardinality(Slot)
           L == Profile.limit[w]
<1>1. /\ IsFiniteSet(W) /\ Cardinality(W) \in Nat /\ IsFiniteSet(P) /\ Cardinality(P) \in Nat
      /\ IsFiniteSet(Slot) /\ K \in Nat /\ L \in Nat /\ P \subseteq Slot
  BY Finite DEF Pending
<1>2. L > 0 /\ Cardinality(W) >= L => Cardinality(W) + Cardinality(P) <= L + K - 1
  BY DEF IInv, Bounded
<1>3. SUFFICES (L > 0 /\ Cardinality(W') >= L) => Cardinality(W') + Cardinality(P') <= L + K - 1
  BY DEF Bounded
<1>4. CASE Quiet(w, t)
  <2>1. W' = W /\ P' \subseteq P
    BY <1>4 DEF Quiet
  <2> HIDE DEF W, P, K, L
  <2>2. Cardinality(P') <= Cardinality(P) /\ Cardinality(P') \in Nat
    BY <1>1, <2>1, FS_Subset, FS_CardinalityType
  <2>3. QED
    BY <1>1, <1>2, <2>1, <2>2
<1>5. CASE NotFull(w, t)
  <2>1. W' = W /\ Cardinality(W) < L
    BY <1>5 DEF NotFull
  <2> HIDE DEF W, P, K, L
  <2>2. QED
    BY <1>1, <2>1
<1>6. CASE Adds(w, t)
  <2>a. PICK s \in P : \E x : W' = W \cup {x} /\ P' \subseteq P \ {s}
    BY <1>6 DEF Adds
  <2>1. PICK x : W' = W \cup {x} /\ P' \subseteq P \ {s}
    BY <2>a
  <2> HIDE DEF W, P, L
  <2>2. Cardinality(W') \in Nat /\ Cardinality(W') <= Cardinality(W) + 1
    <3>1. IsFiniteSet(W \cup {x}) /\ Cardinality(W \cup {x}) <= Cardinality(W) + 1
      <4>1. /\ IsFiniteSet(W \cup {x})
            /\ Cardinality(W \cup {x}) = IF x \in W THEN Cardinality(W) ELSE Cardinality(W) + 1
        BY <1>1, FS_AddElement
      <4>2. CASE x \in W
        BY <1>1, <4>1, <4>2
      <4>3. CASE x \notin W
        BY <1>1, <4>1, <4>3
      <4>4. QED
        BY <4>2, <4>3
    <3>2. QED
      BY <2>1, <3>1, FS_CardinalityType
  <2>3. IsFiniteSet(P \ {s}) /\ Cardinality(P \ {s}) = Cardinality(P) - 1
    BY <1>1, FS_RemoveElement
  <2>4. Cardinality(P') \in Nat /\ Cardinality(P') <= Cardinality(P) - 1
    BY <1>1, <2>1, <2>3, FS_Subset, FS_CardinalityType
  <2>5. Cardinality(P) <= K
    BY <1>1, FS_Subset
  <2>6. QED
    BY <1>1, <1>2, <2>2, <2>4, <2>5
<1>7. QED
  BY <1>4, <1>5, <1>6
-----------------------------------------------------------------------------
\* A step of slot s leaves the other requests where they are.
LEMMA OthersStay ==
  ASSUME NEW s \in Slot, \A r \in Slot : r # s => req'[r] = req[r],
         NEW w \in Window, NEW t \in Time,
         May(s, w, t)' => May(s, w, t)
  PROVE  Pending(w, t)' \subseteq Pending(w, t)
BY DEF Pending, May

\* A new request has read nothing, one that ended adds nothing.
LEMMA NewMayNot ==
  ASSUME TypeOK, NEW s \in Slot, NEW step \in {"idle", "profile", "granted", "limited", "disabled"},
         NEW key, NEW now, NEW informed, req' = [req EXCEPT ![s] = New(step, key, now, informed)],
         NEW w \in Window, NEW t \in Time
  PROVE  ~May(s, w, t)' /\ \A r \in Slot : r # s => req'[r] = req[r]
BY DEF TypeOK, New, May, Before

\* The steps that write no row.
LEMMA NoRow ==
  ASSUME IInv, NEW w \in Window, NEW t \in Time, Profile.limit[w] > 0,
         NEW s \in Slot,
         Begin(s) \/ ReadProfile(s) \/ ReadCount(s) \/ Refuse(s) \/ Admit(s) \/ Crash(s)
  PROVE  Quiet(w, t) \/ NotFull(w, t)
<1>0. TypeOK /\ Known(s) /\ req[s] \in Request
  BY Fields DEF IInv
<1>1. UNCHANGED <<clock, events, ledger>>
  BY DEF Begin, ReadProfile, ReadCount, Refuse, Admit, Crash
<1>2. Within(w, t)' = Within(w, t)
  BY <1>1 DEF Within, Table
<1>3. CASE Begin(s) \/ Refuse(s) \/ Crash(s)
  <2>a. PICK step \in {"idle", "profile", "granted", "limited", "disabled"} :
          \E key, now, informed : req' = [req EXCEPT ![s] = New(step, key, now, informed)]
    BY <1>3 DEF Begin, Refuse, Crash, End
  <2>1. PICK key, now, informed : req' = [req EXCEPT ![s] = New(step, key, now, informed)]
    BY <2>a
  <2>2. ~May(s, w, t)' /\ \A r \in Slot : r # s => req'[r] = req[r]
    BY <1>0, <2>1, NewMayNot
  <2>3. QED
    BY <1>2, <2>2, OthersStay DEF Quiet
<1>4. CASE ReadProfile(s)
  <2>1. May(s, w, t)' => FALSE
    <3>1. req'[s].step = "counting" /\ req'[s].unread = req[s].unread
      BY <1>0, <1>4, ProfileStep
    <3>2. req[s].unread = Window
      BY <1>0, <1>4 DEF ReadProfile, Known
    <3>3. QED
      BY <3>1, <3>2 DEF May
  <2>2. QED
    BY <1>0, <1>2, <1>4, <2>1, ProfileStep, OthersStay DEF Quiet
<1>5. CASE ReadCount(s)
  <2>1. /\ \A r \in Slot : r # s => req'[r] = req[r]
        /\ req[s].step = "counting" /\ req'[s].step = "counting"
        /\ req'[s].now = req[s].now /\ req'[s].profile = req[s].profile
    BY <1>0, <1>5, CountStep
  <2>2. PICK v \in req[s].unread, counted \in BOOLEAN :
          /\ req'[s].unread = req[s].unread \ {v}
          /\ req'[s].informed = (req[s].informed /\ counted)
          /\ req'[s].exceeded =
               (req[s].exceeded \/
                  Exceeds(req[s].profile.limit[v],
                          (IF counted THEN Cardinality(Since(v, req[s].now)) ELSE 0) + 1))
    BY <1>0, <1>5, CountStep
  <2>3. CASE ~May(s, w, t)' \/ May(s, w, t)
    BY <1>2, <2>1, <2>3, OthersStay DEF Quiet
  <2>4. CASE May(s, w, t)' /\ ~May(s, w, t)
    <3>1. req[s].informed /\ counted /\ ~req'[s].exceeded /\ ~req[s].exceeded
      BY <2>2, <2>4 DEF May
    <3>2. v = w
      BY <2>1, <2>2, <2>4, <3>1 DEF May, Before
    <3>3. req[s].profile = Profile
      BY <1>0, <3>1 DEF Known
    <3>4. StartOf[w][req[s].now] <= t
      BY <2>1, <2>4 DEF May, Before
    <3>5. ~Exceeds(Profile.limit[w], Cardinality(Since(w, req[s].now)) + 1)
      BY <2>2, <3>1, <3>2, <3>3
    <3>6. Within(w, t) \subseteq Since(w, req[s].now)
      <4>1. ASSUME NEW x \in Within(w, t) PROVE x \in Since(w, req[s].now)
        <5>1. x \in Table(w) /\ x \in Row /\ StartOf[w][x.at] = t /\ x.at \in Time
          BY <1>0, <4>1 DEF Within, Table, TypeOK, Row
        <5>2. t <= x.at
          BY <5>1, WindowAssumption
        <5>3. StartOf[w][req[s].now] \in Nat /\ x.at \in Nat /\ t \in Nat
          BY <1>0, <5>1, Times, WindowAssumption DEF Request
        <5>4. QED
          BY <3>4, <5>1, <5>2, <5>3 DEF Since
      <4>2. QED
        BY <4>1
    <3>7. IsFiniteSet(Since(w, req[s].now))
      <4>1. Since(w, req[s].now) \subseteq Table(w) /\ IsFiniteSet(Table(w))
        BY DEF Since, Table, IInv
      <4>2. QED
        BY <4>1, FS_Subset
    <3>8. Cardinality(Within(w, t)) <= Cardinality(Since(w, req[s].now))
      BY <3>6, <3>7, FS_Subset
    <3>9. Cardinality(Since(w, req[s].now)) < Profile.limit[w]
      BY <3>5, <3>7, FS_CardinalityType, Finite DEF Exceeds
    <3>10. QED
      BY <1>2, <3>7, <3>8, <3>9, FS_CardinalityType, Finite DEF NotFull
  <2>5. QED
    BY <2>3, <2>4
<1>6. CASE Admit(s)
  <2>1. /\ req[s].step = "counting" /\ req[s].unread = {} /\ ~req[s].exceeded
        /\ req' = [req EXCEPT ![s] = [req[s] EXCEPT !.step = "event", !.at = clock]]
    BY <1>6 DEF Admit, Counted
  <2>2. /\ req'[s] = [req[s] EXCEPT !.step = "event", !.at = clock]
        /\ \A r \in Slot : r # s => req'[r] = req[r]
    BY <1>0, <2>1 DEF TypeOK
  <2>3. req'[s].at = clock /\ req'[s].step = "event" /\ req'[s].informed = req[s].informed
    BY <1>0, <2>2 DEF Request
  <2>4. StartOf[w][req[s].now] <= StartOf[w][clock]
    BY <1>0, WindowAssumption DEF Known, Request, TypeOK
  <2>5. May(s, w, t)' => May(s, w, t)
    BY <2>1, <2>3, <2>4 DEF May
  <2>6. QED
    BY <1>2, <2>2, <2>5, OthersStay DEF Quiet
<1>7. QED
  BY <1>3, <1>4, <1>5, <1>6
\* Writing a row: the request is one that may add it, or the window is not touched.
LEMMA RowWritten ==
  ASSUME IInv, NEW w \in Window, NEW t \in Time, NEW s \in Slot,
         NEW table, NEW next,
         next = table \/ next = Inserted(table, s),
         Within(w, t) = {x \in table : x.informed /\ StartOf[w][x.at] = t},
         Within(w, t)' = {x \in next : x.informed /\ StartOf[w][x.at] = t},
         \A r \in Slot : r # s => req'[r] = req[r],
         ~May(s, w, t)',
         req[s].step \in Before(w)
  PROVE  Adds(w, t) \/ Quiet(w, t)
<1> DEFINE new == [key |-> req[s].key, at |-> req[s].at, informed |-> req[s].informed]
<1>0. Known(s) /\ req[s].step \in {"event", "ledger"}
  BY DEF IInv, Before
<1>1. Pending(w, t)' \subseteq Pending(w, t) \ {s}
  BY DEF Pending, May
<1>2. CASE next = table
  BY <1>1, <1>2 DEF Quiet
<1>3. CASE next = table \cup {new}
  <2>1. new.informed = req[s].informed /\ new.at = req[s].at
    OBVIOUS
  <2> HIDE DEF new
  <2>2. CASE req[s].informed /\ StartOf[w][req[s].at] = t
    <3>1. Within(w, t)' = Within(w, t) \cup {new}
      BY <1>3, <2>1, <2>2
    <3>2. s \in Pending(w, t)
      BY <1>0, <2>2 DEF Pending, May, Known
    <3>3. QED
      BY <1>1, <3>1, <3>2 DEF Adds
  <2>3. CASE ~(req[s].informed /\ StartOf[w][req[s].at] = t)
    <3>1. Within(w, t)' = Within(w, t)
      BY <1>3, <2>1, <2>3
    <3>2. QED
      BY <1>1, <3>1 DEF Quiet
  <2>4. QED
    BY <2>2, <2>3
<1>4. QED
  BY <1>2, <1>3 DEF Inserted

\* Every step keeps the bound of every window.
LEMMA StepBounded ==
  ASSUME IInv, [Next]_vars
  PROVE  (\A w \in Window : \A t \in Time : Bounded(w, t))'
<1> SUFFICES ASSUME NEW w \in Window, NEW t \in Time PROVE Bounded(w, t)'
  OBVIOUS
<1>0. CASE ~(Profile.limit[w] > 0)
  BY <1>0 DEF Bounded
<1>1. CASE Profile.limit[w] > 0
  <2>0. TypeOK
    BY DEF IInv
  <2>1. ASSUME NEW s \in Slot,
               Begin(s) \/ ReadProfile(s) \/ ReadCount(s) \/ Refuse(s) \/ Admit(s) \/ Crash(s)
        PROVE  Bounded(w, t)'
    BY <1>1, <2>1, NoRow, BoundKept
  <2>2. ASSUME NEW s \in Slot, InsertEvent(s) PROVE Bounded(w, t)'
    <3>1. /\ req[s].step = "event" /\ UNCHANGED <<clock, ledger>>
          /\ events' = events \/ events' = Inserted(events, s)
          /\ req' = [req EXCEPT ![s].step = "ledger"]
      BY <2>2 DEF InsertEvent
    <3>2. /\ req'[s].step = "ledger" /\ req'[s].unread = req[s].unread
          /\ req'[s].informed = req[s].informed /\ req'[s].exceeded = req[s].exceeded
          /\ req'[s].at = req[s].at
          /\ \A r \in Slot : r # s => req'[r] = req[r]
      BY <2>0, <3>1, Fields DEF TypeOK, Request
    <3>3. CASE w \in {"minute", "hour"}
      <4>1. ~May(s, w, t)'
        BY <3>2, <3>3 DEF May, Before
      <4>2. /\ Within(w, t) = {x \in events : x.informed /\ StartOf[w][x.at] = t}
            /\ Within(w, t)' = {x \in events' : x.informed /\ StartOf[w][x.at] = t}
        BY <3>3 DEF Within, Table
      <4>3. PICK next : next = events'
        OBVIOUS
      <4>4. Adds(w, t) \/ Quiet(w, t)
        BY <3>1, <3>2, <3>3, <4>1, <4>2, <4>3, RowWritten DEF Before
      <4>5. QED
        BY <4>4, BoundKept
    <3>4. CASE w \notin {"minute", "hour"}
      <4>1. Within(w, t)' = Within(w, t)
        BY <3>1, <3>4 DEF Within, Table
      <4>2. May(s, w, t)' => May(s, w, t)
        BY <3>1, <3>2, <3>4 DEF May, Before
      <4>3. QED
        BY <3>2, <4>1, <4>2, OthersStay, BoundKept DEF Quiet
    <3>5. QED
      BY <3>3, <3>4
  <2>3. ASSUME NEW s \in Slot, InsertLedger(s) PROVE Bounded(w, t)'
    <3>1. /\ req[s].step = "ledger" /\ UNCHANGED <<clock, events>>
          /\ ledger' = ledger \/ ledger' = Inserted(ledger, s)
          /\ req' = [req EXCEPT ![s] = New("granted", req[s].key, 0, req[s].informed)]
      BY <2>3 DEF InsertLedger, End
    <3>2. ~May(s, w, t)' /\ \A r \in Slot : r # s => req'[r] = req[r]
      BY <2>0, <3>1, NewMayNot
    <3>3. CASE w \in {"minute", "hour"}
      <4>1. Within(w, t)' = Within(w, t)
        BY <3>1, <3>3 DEF Within, Table
      <4>2. QED
        BY <3>2, <4>1, OthersStay, BoundKept DEF Quiet
    <3>4. CASE w \notin {"minute", "hour"}
      <4>1. /\ Within(w, t) = {x \in ledger : x.informed /\ StartOf[w][x.at] = t}
            /\ Within(w, t)' = {x \in ledger' : x.informed /\ StartOf[w][x.at] = t}
        BY <3>4 DEF Within, Table
      <4>2. PICK next : next = ledger'
        OBVIOUS
      <4>3. Adds(w, t) \/ Quiet(w, t)
        BY <3>1, <3>2, <3>4, <4>1, <4>2, RowWritten DEF Before
      <4>4. QED
        BY <4>3, BoundKept
    <3>5. QED
      BY <3>3, <3>4
  <2>4. CASE Tick \/ UNCHANGED vars
    <3>1. Within(w, t)' = Within(w, t) /\ Pending(w, t)' = Pending(w, t)
      BY <2>4 DEF Within, Table, Pending, May, Tick, vars
    <3>2. QED
      BY <3>1, BoundKept DEF Quiet
  <2>5. QED
    BY <2>1, <2>2, <2>3, <2>4 DEF Next
<1>2. QED
  BY <1>0, <1>1

-----------------------------------------------------------------------------
\* The inductive invariant: what each request knows, and for each window that is
\* full, its rows together with those that may still come.
THEOREM Inductive == Spec => []IInv
<1>1. Init => IInv
  <2> SUFFICES ASSUME Init PROVE IInv
    OBVIOUS
  <2>0. 0 \in Time
    BY Times DEF Time
  <2>1. PICK k \in Key : req = [s \in Slot |-> New("idle", k, 0, TRUE)]
    BY DEF Init
  <2>2. TypeOK
    BY <2>0, <2>1, NewType DEF Init, TypeOK
  <2>3. IsFiniteSet(events) /\ IsFiniteSet(ledger) /\ LedgerWithinEvents
    BY FS_EmptySet DEF Init, LedgerWithinEvents
  <2>4. \A s \in Slot : Known(s)
    BY <2>0, <2>1, Times DEF Init, Known, New
  <2>5. \A w \in Window : \A t \in Time : Cardinality(Within(w, t)) = 0 /\ Profile.limit[w] \in Nat
    BY FS_EmptySet, QuotaAssumption DEF Init, Within, Table, QuotaProfile
  <2>6. \A s \in Slot : Due(s)
    BY <2>1 DEF Due, New
  <2>7. QED
    BY <2>2, <2>3, <2>4, <2>5, <2>6 DEF IInv, Bounded
<1>2. IInv /\ [Next]_vars => IInv'
  <2> SUFFICES ASSUME IInv, [Next]_vars PROVE IInv'
    OBVIOUS
  <2>1. TypeOK'
    BY StepTypes DEF IInv
  <2>2. QED
    BY <2>1, StepFinite, StepKnown, StepDue, StepBounded DEF IInv
<1>3. QED
  BY <1>1, <1>2, PTL DEF Spec

\* Rows and requests have their types.
THEOREM TypeCorrect == Spec => []TypeOK
<1>1. IInv => TypeOK
  BY DEF IInv
<1>2. QED
  BY <1>1, Inductive, PTL

\* Any number of concurrent requests, whatever they crash in the middle of,
\* exceed a limit by less than the number that is in progress at once.
THEOREM ExcessIsBounded == Spec => []BoundedExcess
<1>1. IInv => BoundedExcess
  <2> SUFFICES ASSUME IInv, NEW w \in Window, NEW t \in Time, Profile.limit[w] > 0
               PROVE  Cardinality(Within(w, t)) <= Profile.limit[w] + Cardinality(Slot) - 1
    BY DEF BoundedExcess
  <2>1. /\ Cardinality(Within(w, t)) \in Nat /\ Cardinality(Pending(w, t)) \in Nat
        /\ Cardinality(Slot) \in Nat /\ Profile.limit[w] \in Nat
    BY Finite
  <2>2. Bounded(w, t)
    BY DEF IInv
  <2>3. QED
    BY <2>1, <2>2 DEF Bounded
<1>2. QED
  BY <1>1, Inductive, PTL

\* As long as no statement fails, what is charged for the day is charged for the
\* minute, wherever requests die.
THEOREM LedgerFollowsEvents == Spec => []LedgerWithinEvents
<1>1. IInv => LedgerWithinEvents
  BY DEF IInv
<1>2. QED
  BY <1>1, Inductive, PTL

\* A refusal is due to rows that fill a window.
THEOREM RefusalsAreDue == Spec => RefusedForRows
<1> DEFINE A == \A s \in Slot : req[s].step = "counting" /\ req'[s].step = "limited" =>
                  \E w \in Window :
                    /\ req[s].profile.limit[w] > 0
                    /\ req[s].profile.limit[w] <=
                         Cardinality({x \in Table(w) : x.at >= StartOf[w][req[s].now]})
<1>1. IInv /\ [Next]_vars => [A]_vars
  <2> SUFFICES ASSUME IInv, Next, NEW s \in Slot,
                      req[s].step = "counting", req'[s].step = "limited"
               PROVE  \E w \in Window :
                        /\ req[s].profile.limit[w] > 0
                        /\ req[s].profile.limit[w] <=
                             Cardinality({x \in Table(w) : x.at >= StartOf[w][req[s].now]})
    OBVIOUS
  <2>0. TypeOK /\ req[s] \in Request
    BY Fields DEF IInv
  <2>1. req[s].exceeded
    <3>1. CASE Refuse(s)
      BY <2>0, <3>1 DEF TypeOK, Refuse, End, New
    <3>2. ~ReadProfile(s) /\ ~ReadCount(s)
      BY <2>0, ProfileStep, CountStep
    <3>3. ~(Begin(s) \/ Admit(s) \/ InsertEvent(s) \/ InsertLedger(s) \/ Crash(s))
      <4>1. ~(Begin(s) \/ InsertLedger(s) \/ Crash(s))
        BY <2>0 DEF TypeOK, Begin, InsertLedger, Crash, End, New
      <4>2. ~Admit(s)
        BY <2>0 DEF TypeOK, Admit, Request
      <4>3. ~InsertEvent(s)
        BY <2>0 DEF TypeOK, InsertEvent, Request
      <4>4. QED
        BY <4>1, <4>2, <4>3
    <3>4. ASSUME NEW r \in Slot, s # r,
                 \/ Begin(r) \/ ReadProfile(r) \/ ReadCount(r) \/ Refuse(r) \/ Admit(r)
                 \/ InsertEvent(r) \/ InsertLedger(r) \/ Crash(r)
          PROVE  FALSE
      BY <2>0, <3>4, ProfileStep, CountStep
         DEF TypeOK, Begin, Refuse, Admit, InsertEvent, InsertLedger, Crash, End
    <3>5. ~Tick
      BY DEF Tick
    <3>6. QED
      BY <3>1, <3>2, <3>3, <3>4, <3>5 DEF Next
  <2>2. QED
    BY <2>1 DEF IInv, Due, Since
<1>2. QED
  BY <1>1, Inductive, PTL DEF Spec, RefusedForRows
=============================================================================
