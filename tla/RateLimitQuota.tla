---------------------------- MODULE RateLimitQuota ----------------------------
(***************************************************************************)
(* lib/rate-limit-quota.ts: the API requests of one credential, several at *)
(* a time, are counted in two tables and admitted while every window of    *)
(* the quota profile has room.  The counts are read first and the request  *)
(* is recorded later, in two statements, with no transaction around them.  *)
(*                                                                         *)
(* The only caller is POST /api/v1/chat: each request is a CHAT_REQUEST of *)
(* one cost unit, so the daily limit stands for the smaller of requests    *)
(* and chat requests per day.  queryHbceDatabase answers ok = false and no *)
(* rows where a statement fails: its callers do not look at ok.            *)
(***************************************************************************)
EXTENDS Integers, FiniteSets

CONSTANT Slot,            \* the requests that may be in progress at once
         Key,             \* their idempotency keys or sessions
         Window,          \* the windows of this instance, of the four there are
         StartOf,         \* where the window that holds a given time starts
         Horizon,         \* bound: the last moment looked at
         Profile,         \* the quota profile of the credential
         DefaultProfile,  \* getDefaultB2gPilotQuotaProfile
         Faults           \* the calls that may fail in this instance

Time == 0..Horizon
\* requestsPerMinute, requestsPerHour, requestsPerDay, maxCostUnitsPerMonth.
QuotaProfile == [enabled: BOOLEAN, limit: [Window -> Nat]]

ASSUME QuotaAssumption ==
  /\ IsFiniteSet(Slot) /\ IsFiniteSet(Key)
  /\ Horizon \in Nat
  /\ Window \subseteq {"minute", "hour", "day", "month"}
  /\ {Profile, DefaultProfile} \subseteq QuotaProfile
  /\ Faults \subseteq {"profile", "count", "insert", "crash"}
ASSUME WindowAssumption ==
  /\ StartOf \in [Window -> [Time -> Time]]
  /\ \A w \in Window : \A t \in Time : StartOf[w][t] <= t
  /\ \A w \in Window : \A t, u \in Time : t <= u => StartOf[w][t] <= StartOf[w][u]

VARIABLE clock,
         events,  \* hbce_rate_limit_events
         ledger,  \* hbce_quota_ledger
         req      \* per slot, the request in progress

vars == <<clock, events, ledger, req>>

\* A row, and whether its request was judged by what the database says: the
\* credential's own profile and all four counts.
Row == [key: Key, at: Time, informed: BOOLEAN]

\* Of a count only whether it exceeds the limit is kept.
Request ==
  [step: {"idle", "profile", "counting", "event", "ledger", "granted", "limited", "disabled"},
   key: Key, now: Time, at: Time,
   profile: {Profile, DefaultProfile},
   unread: SUBSET Window, exceeded: BOOLEAN,
   informed: BOOLEAN]

TypeOK ==
  /\ clock \in Time
  /\ events \subseteq Row /\ ledger \subseteq Row
  /\ req \in [Slot -> Request]

New(step, key, now, informed) ==
  [step |-> step, key |-> key, now |-> now, at |-> 0, profile |-> Profile,
   unread |-> Window, exceeded |-> FALSE, informed |-> informed]

\* A slot without a request forgets all but its answer.
End(s, step) == req' = [req EXCEPT ![s] = New(step, req[s].key, 0, req[s].informed)]

Init ==
  /\ clock = 0
  /\ events = {} /\ ledger = {}
  /\ \E k \in Key : req = [s \in Slot |-> New("idle", k, 0, TRUE)]

-----------------------------------------------------------------------------

Over == {"idle", "granted", "limited", "disabled"}

\* validateHbceRateLimitQuota is called: the windows are those of this moment.
Begin(s) ==
  /\ req[s].step \in Over
  /\ \E k \in Key : req' = [req EXCEPT ![s] = New("profile", k, clock, TRUE)]
  /\ UNCHANGED <<clock, events, ledger>>

\* Without an answer the default profile is used.
ReadProfile(s) ==
  /\ req[s].step = "profile"
  /\ \/ req' = [req EXCEPT ![s].step = "counting"]
     \/ /\ "profile" \in Faults
        /\ req' = [req EXCEPT ![s].step = "counting", ![s].profile = DefaultProfile,
                              ![s].informed = FALSE]
  /\ UNCHANGED <<clock, events, ledger>>

Table(w) == IF w \in {"minute", "hour"} THEN events ELSE ledger

\* Mutant: every row counts, of whatever window.
SinceEver(w, t) == Table(w)

\* Rows since the start of the window; one written in a later window counts.
Since(w, t) == {x \in Table(w) : x.at >= StartOf[w][t]}

ExceedsByTwo(limit, actual) == limit > 0 /\ actual > limit + 1  \* mutant: off by one

\* A limit of zero does not limit.
Exceeds(limit, actual) == limit > 0 /\ actual > limit

\* The four counts are read in any order.  Without an answer a count is zero.
ReadCount(s) ==
  /\ req[s].step = "counting"
  /\ \E w \in req[s].unread : \E counted \in BOOLEAN :
       LET n == IF counted THEN Cardinality(Since(w, req[s].now)) ELSE 0
       IN  /\ counted \/ "count" \in Faults
           /\ req' = [req EXCEPT
                ![s].unread = @ \ {w},
                ![s].exceeded = @ \/ Exceeds(req[s].profile.limit[w], n + 1),
                ![s].informed = @ /\ counted]
  /\ UNCHANGED <<clock, events, ledger>>

Counted(s) == req[s].step = "counting" /\ req[s].unread = {}

Refuse(s) ==
  /\ Counted(s) /\ (~req[s].profile.enabled \/ req[s].exceeded)
  /\ End(s, IF req[s].profile.enabled THEN "limited" ELSE "disabled")
  /\ UNCHANGED <<clock, events, ledger>>

\* Mutant: the stamp is the moment at which the next window opens.
AdmitStampedAhead(s) ==
  /\ Counted(s) /\ req[s].profile.enabled /\ ~req[s].exceeded
  /\ req' = [req EXCEPT ![s].step = "event", ![s].at = clock + 1]
  /\ UNCHANGED <<clock, events, ledger>>

\* An admitted request is stamped with a second reading of the clock.
Admit(s) ==
  /\ Counted(s) /\ req[s].profile.enabled /\ ~req[s].exceeded
  /\ req' = [req EXCEPT ![s].step = "event", ![s].at = clock]
  /\ UNCHANGED <<clock, events, ledger>>

\* The identifier is derived from the key and the stamp (in milliseconds):
\* ON CONFLICT DO NOTHING drops a second row of the same key and moment.
Inserted(table, s) ==
  IF \E x \in table : x.key = req[s].key /\ x.at = req[s].at
    THEN table
    ELSE table \cup {[key |-> req[s].key, at |-> req[s].at, informed |-> req[s].informed]}

\* Mutant: the two statements in the other order.
InsertEventLast(s) ==
  /\ req[s].step = "event"
  /\ ledger' = Inserted(ledger, s)
  /\ req' = [req EXCEPT ![s].step = "ledger"]
  /\ UNCHANGED <<clock, events>>

InsertEvent(s) ==
  /\ req[s].step = "event"
  /\ \E done \in BOOLEAN :
       /\ done \/ "insert" \in Faults
       /\ events' = IF done THEN Inserted(events, s) ELSE events
  /\ req' = [req EXCEPT ![s].step = "ledger"]
  /\ UNCHANGED <<clock, ledger>>

InsertLedger(s) ==
  /\ req[s].step = "ledger"
  /\ \E done \in BOOLEAN :
       /\ done \/ "insert" \in Faults
       /\ ledger' = IF done THEN Inserted(ledger, s) ELSE ledger
  /\ End(s, "granted")
  /\ UNCHANGED <<clock, events>>

\* The function that runs the request is terminated.
Crash(s) ==
  /\ "crash" \in Faults
  /\ req[s].step \notin Over
  /\ End(s, "idle")
  /\ UNCHANGED <<clock, events, ledger>>

Tick ==
  /\ clock < Horizon
  /\ clock' = clock + 1
  /\ UNCHANGED <<events, ledger, req>>

Next ==
  \/ \E s \in Slot :
       \/ Begin(s) \/ ReadProfile(s) \/ ReadCount(s) \/ Refuse(s) \/ Admit(s)
       \/ InsertEvent(s) \/ InsertLedger(s) \/ Crash(s)
  \/ Tick

Spec == Init /\ [][Next]_vars

-----------------------------------------------------------------------------
(* Properties.                                                               *)

Within(w, t) == {x \in Table(w) : x.informed /\ StartOf[w][x.at] = t}

\* However requests overlap, and across the turn of a window, the rows of those
\* judged by what the database says exceed a limit by less than the requests in
\* progress.  (A request whose INSERT failed is granted and leaves no row.)
BoundedExcess ==
  \A w \in Window : \A t \in Time :
    Profile.limit[w] > 0 =>
      Cardinality(Within(w, t)) <= Profile.limit[w] + Cardinality(Slot) - 1

\* A request is only refused where the rows of a window fill the limit of the
\* profile that was read for it, or of the default one if that failed: no failed
\* count, and no request that was not recorded, refuses another.
RefusedForRows ==
  [][\A s \in Slot : req[s].step = "counting" /\ req'[s].step = "limited" =>
       \E w \in Window :
         /\ req[s].profile.limit[w] > 0
         /\ req[s].profile.limit[w] <=
              Cardinality({x \in Table(w) : x.at >= StartOf[w][req[s].now]})]_vars

\* Whenever a request dies, a use counted for the day and the month is counted
\* for the minute and the hour too, unless a statement failed.
LedgerWithinEvents ==
  "insert" \notin Faults =>
    \A x \in ledger : \E y \in events : x.key = y.key /\ x.at = y.at

\* "Rate-limit or quota store is unavailable. Request rejected fail-closed."
FailClosed == \A s \in Slot : req[s].step = "granted" => req[s].informed
=============================================================================
