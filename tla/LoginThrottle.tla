---------------------------- MODULE LoginThrottle ----------------------------
(***************************************************************************)
(* How POST /api/auth/ipr-login (app/api/auth/ipr-login/route.ts) limits   *)
(* wrong passwords: two failure buckets of lib/ipr-auth-rate-limit-store,  *)
(* one per client address and one per address and subject, which are       *)
(* inspected before a request and written after it, and the counter and    *)
(* lock of the credential in lib/ipr-session-store.                        *)
(*                                                                         *)
(* No clock: the end of a window, a block or a lock is a step.  A row that *)
(* is read while blocked and judged when the block is over was as good as  *)
(* read then.  Two upserts in one transaction, in a fixed order of locks,  *)
(* are one step.                                                           *)
(***************************************************************************)
EXTENDS Integers, FiniteSets

CONSTANT Request,  \* the requests that may be in progress at once
         Ip,       \* client addresses
         Subject,  \* Human IPRs that requests name
         Known,    \* those that have a credential
         Limit,    \* maxFailedAttempts of each kind of counter
         Null      \* no address, no subject

Kind == {"IP", "IPR_IP", "CREDENTIAL"}

ASSUME SubjectAssumption == Known \subseteq Subject /\ Null \notin Ip \cup Subject
ASSUME RequestAssumption == IsFiniteSet(Request)
ASSUME LimitAssumption == Limit \in [Kind -> Nat \ {0}]

VARIABLE count,  \* ipr_auth_rate_limit_buckets, failed_attempts and locked_until
         req,    \* per slot, the request in progress
         since   \* history: the guesses recorded in a counter since it began anew

vars == <<count, req, since>>

IpBucket(i) == [kind |-> "IP", ip |-> i, subject |-> Null]
PairBucket(i, s) == [kind |-> "IPR_IP", ip |-> i, subject |-> s]
Credential(s) == [kind |-> "CREDENTIAL", ip |-> Null, subject |-> s]

Counter == {IpBucket(i) : i \in Ip} \cup {PairBucket(i, s) : i \in Ip, s \in Subject}
             \cup {Credential(s) : s \in Known}

\* blocked_until or locked_until: NULL, in the future, in the past.  `elapsed':
\* the window of a bucket that is not blocked is over.
State == [failed: Nat, block: {"none", "active", "past"}, elapsed: BOOLEAN]
Fresh == [failed |-> 0, block |-> "none", elapsed |-> FALSE]

\* `tested': the answer depends on the password that was supplied.
Idle ==
  [step |-> "over", ip |-> Null, subject |-> Null, correct |-> FALSE,
   unread |-> {}, blocked |-> FALSE, tested |-> FALSE]
Login ==
  [step: {"inspect", "record", "attempt", "reset", "resetPair"},
   ip: Ip, subject: Subject, correct: BOOLEAN,
   unread: SUBSET {"IP", "IPR_IP"}, blocked: BOOLEAN, tested: BOOLEAN]

TypeOK ==
  /\ count \in [Counter -> State]
  /\ \A c \in Counter : count[c].failed <= Limit[c.kind]
  /\ req \in [Request -> Login \cup {Idle}]
  /\ since \in [Counter -> Nat]

End(r) == req' = [req EXCEPT ![r] = Idle]

Init ==
  /\ count = [c \in Counter |-> Fresh]
  /\ since = [c \in Counter |-> 0]
  /\ req = [r \in Request |-> Idle]

-----------------------------------------------------------------------------
(* The counters.                                                             *)

Restarts(b) == b.block = "past" \/ b.elapsed

\* Mutant: a block that is over does not restart the count.
FailuresGoOn(b) == b.failed + 1

Failures(b) == IF Restarts(b) THEN 1 ELSE b.failed + 1

\* Mutant: one attempt more than the limit.
ReachesLate(n, max) == n > max

Reaches(n, max) == n >= max

\* One more failure; a counter that blocks is left as it is.
Failed(c) ==
  LET b == count[c]
  IN  IF b.block = "active" THEN b
      ELSE [failed |-> Failures(b),
            block |-> IF Reaches(Failures(b), Limit[c.kind]) THEN "active" ELSE "none",
            elapsed |-> FALSE]

BlockEnds(c) ==
  /\ count[c].block = "active"
  /\ count' = [count EXCEPT ![c].block = "past"]
  /\ since' = [since EXCEPT ![c] = 0]
  /\ UNCHANGED req

\* The credential's counter has no window.
WindowEnds(c) ==
  /\ c.kind # "CREDENTIAL" /\ count[c].block = "none"
  /\ count[c].failed > 0 /\ ~count[c].elapsed
  /\ count' = [count EXCEPT ![c].elapsed = TRUE]
  /\ since' = [since EXCEPT ![c] = 0]
  /\ UNCHANGED req

Reset(c) ==
  /\ count' = [count EXCEPT ![c] = Fresh]
  /\ since' = [since EXCEPT ![c] = 0]

\* The retention run deletes the row of a bucket that was not written for longer
\* than its window and does not block.
Prune(c) ==
  /\ c.kind # "CREDENTIAL" /\ Restarts(count[c])
  /\ count[c].block # "active"
  /\ Reset(c)
  /\ UNCHANGED req

\* A recovery clears the credential's counter and lock with the rotation.
Rotated(s) == Reset(Credential(s)) /\ UNCHANGED req

-----------------------------------------------------------------------------
(* A request.                                                                *)

Start(r) ==
  /\ req[r].step = "over"
  /\ \E i \in Ip, s \in Subject, correct \in BOOLEAN :
       /\ correct => s \in Known
       /\ req' = [req EXCEPT ![r] =
                    [Idle EXCEPT !.step = "inspect", !.ip = i, !.subject = s,
                                 !.correct = correct, !.unread = {"IP", "IPR_IP"}]]
  /\ UNCHANGED <<count, since>>

Bucket(r, kind) ==
  IF kind = "IP" THEN IpBucket(req[r].ip) ELSE PairBucket(req[r].ip, req[r].subject)

\* Mutant: only the bucket of the pair is inspected.
BlocksPair(r, kind) == kind = "IPR_IP" /\ count[Bucket(r, kind)].block = "active"

\* Mutant: blocked_until is not compared with the time.
BlocksEver(r, kind) == count[Bucket(r, kind)].block # "none"

Blocks(r, kind) == count[Bucket(r, kind)].block = "active"

\* The two reads are sent together and answered in any order.
Inspect(r) ==
  /\ req[r].step = "inspect"
  /\ \E kind \in req[r].unread :
       req' = [req EXCEPT ![r].unread = @ \ {kind},
                          ![r].blocked = @ \/ Blocks(r, kind)]
  /\ UNCHANGED <<count, since>>

Throttle(r) ==
  /\ req[r].step = "inspect" /\ req[r].unread = {} /\ req[r].blocked
  /\ End(r)
  /\ UNCHANGED <<count, since>>

\* The password is verified against the row that was read, its lock looked at.
\* A query that fails answers as if there were no credential.
ReadCredential(r) ==
  /\ req[r].step = "inspect" /\ req[r].unread = {} /\ ~req[r].blocked
  /\ \E found \in BOOLEAN :
       LET s == req[r].subject
           open == found /\ s \in Known /\ count[Credential(s)].block # "active"
       IN  req' = [req EXCEPT ![r].step = IF open /\ req[r].correct THEN "reset" ELSE "record",
                              ![r].tested = open]
  /\ UNCHANGED <<count, since>>

\* One transaction writes both buckets.
RecordFailure(r) ==
  /\ req[r].step = "record"
  /\ LET buckets == {Bucket(r, "IP"), Bucket(r, "IPR_IP")}
     IN  /\ count' = [c \in Counter |-> IF c \in buckets THEN Failed(c) ELSE count[c]]
         /\ since' = [c \in Counter |-> IF c \in buckets THEN since[c] + 1 ELSE since[c]]
  /\ req' = [req EXCEPT ![r].step = "attempt"]

\* The UPDATE finds no row of an unknown subject.
RecordAttempt(r) ==
  /\ req[r].step = "attempt"
  /\ LET c == Credential(req[r].subject)
     IN  IF c \in Counter
           THEN /\ count' = [count EXCEPT ![c] = Failed(c)]
                /\ since' = [since EXCEPT ![c] = IF req[r].tested THEN @ + 1 ELSE @]
           ELSE UNCHANGED <<count, since>>
  /\ End(r)

\* The right password: the credential's counter and lock are cleared, whatever
\* they are by now.
ResetAttempts(r) ==
  /\ req[r].step = "reset"
  /\ Reset(Credential(req[r].subject))
  /\ req' = [req EXCEPT ![r].step = "resetPair"]

\* The bucket of the address keeps what it has counted.
ResetPair(r) ==
  /\ req[r].step = "resetPair"
  /\ Reset(Bucket(r, "IPR_IP"))
  /\ End(r)

\* A call fails (503) or the function dies; where its answer was lost, the step
\* was taken.
Abandon(r) ==
  /\ req[r].step # "over"
  /\ End(r)
  /\ UNCHANGED <<count, since>>

Step(r) ==
  \/ Inspect(r) \/ Throttle(r) \/ ReadCredential(r)
  \/ RecordFailure(r) \/ RecordAttempt(r) \/ ResetAttempts(r) \/ ResetPair(r)

Next ==
  \/ \E r \in Request : Start(r) \/ Step(r) \/ Abandon(r)
  \/ \E c \in Counter : BlockEnds(c) \/ WindowEnds(c) \/ Prune(c)
  \/ \E s \in Known : Rotated(s)

\* Every query has a timeout, so a request goes on; and time passes.
Fairness ==
  /\ \A r \in Request : WF_vars(Step(r))
  /\ \A c \in Counter : WF_vars(BlockEnds(c))

Spec == Init /\ [][Next]_vars /\ Fairness

-----------------------------------------------------------------------------
(* Properties.                                                               *)

\* A counter blocks, or has blocked, once it has counted its limit and not
\* before: also where it is full when overlapping requests, which inspected it
\* in time, record their failures, and after a block that has ended.
BlockedAtLimit ==
  \A c \in Counter : count[c].block = "none" <=> count[c].failed < Limit[c.kind]

\* The inspection and the record are apart, so requests that overlap guess past
\* the limit; of guesses recorded since a counter began anew, those past it
\* are fewer than the requests in progress.
GuessesBounded ==
  \A c \in Counter : since[c] <= Limit[c.kind] + Cardinality(Request) - 1

\* What keeps the owner of s, at address i, out: a wrong guess for s or from i
\* (a credential read that fails counts as one), an attempt of the owner
\* before the last one was answered, a request that died.
Disturbs(i, s) ==
  \E r \in Request :
    \/ /\ req[r].step = "inspect" /\ req'[r].step = "record"
       /\ req[r].ip = i \/ req[r].subject = s
       /\ ~(req[r].correct /\ req[r].subject = s /\ count[Credential(s)].block = "active")
    \/ /\ req[r].step = "over" /\ req'[r].subject = s
       /\ \E q \in Request : req[q].subject = s
    \/ Abandon(r) /\ ~Step(r)

Tries(r, i, s) ==
  Start(r) /\ req'[r].ip = i /\ req'[r].subject = s /\ req'[r].correct
Succeeds(r, i, s) == ResetPair(r) /\ req[r].ip = i /\ req[r].subject = s

\* Nobody is locked out for good: an owner who keeps trying, one request after
\* the other, gets in once the others stop, although attempts with the right
\* password count as failures while the credential is locked.
\* (To get in is here to pass the password and reset the pair; the profile and the
\* session that the route reads and creates next are not in this module.)
OwnerGetsIn ==
  \A i \in Ip, s \in Known :
    /\ <>[][~Disturbs(i, s)]_vars
    /\ []<><<\E r \in Request : Tries(r, i, s)>>_vars
    => []<><<\E r \in Request : Succeeds(r, i, s)>>_vars
=============================================================================
