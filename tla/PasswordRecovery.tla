--------------------------- MODULE PasswordRecovery ---------------------------
(***************************************************************************)
(* The recovery of a lost password (lib/ipr-password-recovery-transaction, *)
(* lib/ipr-password-recovery-store) beside the logins of the same Human    *)
(* IPR (app/api/auth/ipr-login/route.ts) and the requests that use, expire *)
(* or revoke its sessions (lib/ipr-session-store, app/api/auth/logout).    *)
(*                                                                         *)
(* A recovery is a SERIALIZABLE transaction that is not retried: it writes *)
(* what its snapshot shows, and fails (SQLSTATE 40001) where one of these  *)
(* rows was written since.  Who writes a row that it has locked waits for  *)
(* its end, so its statements are one step at the COMMIT.  The others are  *)
(* statements of their own, under READ COMMITTED.                          *)
(***************************************************************************)
EXTENDS Integers, FiniteSets

CONSTANT Grant,     \* the recovery grants of the subject
         Session,   \* its sessions; each login makes one
         Recovery,  \* the recoveries that may be in progress at once
         Verifier   \* the requests with a session token that may be

ASSUME GrantAssumption == IsFiniteSet(Grant)

VARIABLE rotation,  \* how often ipr_auth_credentials was given a new password
         grant,     \* ipr_password_recovery_grants
         told,      \* the grants of which somebody has the token
         login,     \* per session, the request that makes it
         session,   \* ipr_sessions
         rec,       \* the recovery transactions
         ver        \* the requests that verify a token

vars == <<rotation, grant, told, login, session, rec, ver>>

\* `over': expires_at is past.
GrantRow == [status: {"none", "ISSUED", "CONSUMED", "REVOKED"}, over: BOOLEAN]

\* `revoked': revoked_at is set.  History: the rotations at the INSERT, and
\* whether a recovery was in progress then.
SessionRow ==
  [status: {"none", "ACTIVE", "EXPIRED", "REVOKED"}, revoked: BOOLEAN, over: BOOLEAN,
   born: Nat, during: BOOLEAN]

\* `proven': the password that the login knew.
Login == [step: {"idle", "verified", "reset", "over"}, proven: Nat]

\* `seen': the sessions to revoke; `stale': a row of the snapshot was written.
Transaction ==
  [open: BOOLEAN, grant: SUBSET Grant, seen: SUBSET Session, stale: BOOLEAN]
None == [open |-> FALSE, grant |-> {}, seen |-> {}, stale |-> FALSE]

Idle == [step |-> "idle", session |-> {}]
Verification == [step: {"idle", "touch", "mark", "revoke"}, session: SUBSET Session]

Consumed == {g \in Grant : grant[g].status = "CONSUMED"}

TypeOK ==
  /\ rotation \in 0..Cardinality(Grant)
  /\ grant \in [Grant -> GrantRow]
  /\ told \subseteq Grant
  /\ login \in [Session -> Login]
  /\ session \in [Session -> SessionRow]
  /\ rec \in [Recovery -> Transaction]
  /\ ver \in [Verifier -> Verification]

Init ==
  /\ rotation = 0
  /\ grant = [g \in Grant |-> [status |-> "none", over |-> FALSE]]
  /\ told = {}
  /\ login = [x \in Session |-> [step |-> "idle", proven |-> 0]]
  /\ session = [x \in Session |->
       [status |-> "none", revoked |-> FALSE, over |-> FALSE, born |-> 0, during |-> FALSE]]
  /\ rec = [a \in Recovery |-> None]
  /\ ver = [v \in Verifier |-> Idle]

\* verifySessionTokenAsync authenticates it.
Usable(x) == session[x].status = "ACTIVE" /\ ~session[x].revoked /\ ~session[x].over

-----------------------------------------------------------------------------
(* Other writers fail the transactions in whose snapshot the row is.         *)

CredentialWritten == rec' = [a \in Recovery |-> [rec[a] EXCEPT !.stale = rec[a].open]]

GrantsWritten(G) ==
  rec' = [a \in Recovery |-> [rec[a] EXCEPT !.stale = @ \/ rec[a].grant \cap G # {}]]

SessionsWritten(X) ==
  rec' = [a \in Recovery |-> [rec[a] EXCEPT !.stale = @ \/ rec[a].seen \cap X # {}]]

-----------------------------------------------------------------------------
(* Grants.                                                                   *)

Issued == {g \in Grant : grant[g].status = "ISSUED"}

\* Mutant: the grants are revoked without regard to a recovery that has one.
IssueBeside(g, known) ==
  /\ grant[g].status = "none"
  /\ grant' = [h \in Grant |->
       IF h = g THEN [status |-> "ISSUED", over |-> FALSE]
       ELSE IF h \in Issued THEN [grant[h] EXCEPT !.status = "REVOKED"] ELSE grant[h]]
  /\ told' = IF known THEN told \cup {g} ELSE told
  /\ UNCHANGED <<rotation, login, session, rec, ver>>

\* Mutant: the grants issued before remain valid.
IssueAnother(g, known) ==
  /\ grant[g].status = "none"
  /\ grant' = [grant EXCEPT ![g] = [status |-> "ISSUED", over |-> FALSE]]
  /\ told' = IF known THEN told \cup {g} ELSE told
  /\ GrantsWritten(Issued)
  /\ UNCHANGED <<rotation, login, session, ver>>

\* A SERIALIZABLE transaction: the grants issued before are revoked.  Where the
\* answer to its COMMIT is lost nobody learns the token.
Issue(g, known) ==
  /\ grant[g].status = "none"
  /\ grant' = [h \in Grant |->
       IF h = g THEN [status |-> "ISSUED", over |-> FALSE]
       ELSE IF h \in Issued THEN [grant[h] EXCEPT !.status = "REVOKED"] ELSE grant[h]]
  /\ told' = IF known THEN told \cup {g} ELSE told
  /\ GrantsWritten(Issued)
  /\ UNCHANGED <<rotation, login, session, ver>>

GrantExpires(g) ==
  /\ grant[g].status = "ISSUED" /\ ~grant[g].over
  /\ grant' = [grant EXCEPT ![g].over = TRUE]
  /\ UNCHANGED <<rotation, told, login, session, rec, ver>>

-----------------------------------------------------------------------------
(* Recoveries.                                                               *)

ActiveRows == {x \in Session : session[x].status = "ACTIVE" /\ ~session[x].revoked}

\* The snapshot is taken and the grant is found valid; another grant is refused.
Begin(a, g) ==
  /\ ~rec[a].open
  /\ g \in told /\ grant[g].status = "ISSUED" /\ ~grant[g].over
  /\ rec' = [rec EXCEPT ![a] =
               [open |-> TRUE, grant |-> {g}, seen |-> ActiveRows, stale |-> FALSE]]
  /\ UNCHANGED <<rotation, grant, told, login, session, ver>>

Rotate(a) ==
  /\ rotation' = rotation + 1
  /\ grant' = [g \in Grant |->
       IF g \in rec[a].grant THEN [grant[g] EXCEPT !.status = "CONSUMED"] ELSE grant[g]]
  /\ session' = [x \in Session |->
       IF x \in rec[a].seen
         THEN [session[x] EXCEPT !.status = "REVOKED", !.revoked = TRUE]
         ELSE session[x]]
  /\ rec' = [b \in Recovery |->
       IF b = a THEN None ELSE [rec[b] EXCEPT !.stale = rec[b].open]]
  /\ UNCHANGED <<told, login, ver>>

\* Mutant: READ COMMITTED, and the grant is not locked.
CommitUnserialized(a) == rec[a].open /\ Rotate(a)

\* Grant, credential and sessions are written.  Where the answer is lost the
\* caller is told 401, and may send the token again.  expires_at is compared
\* with the time at the beginning of the transaction.
Commit(a) == rec[a].open /\ ~rec[a].stale /\ Rotate(a)

\* A stale transaction, or one that a timeout, a failing statement or a crash ends.
Abort(a) ==
  /\ rec[a].open
  /\ rec' = [rec EXCEPT ![a] = None]
  /\ UNCHANGED <<rotation, grant, told, login, session, ver>>

-----------------------------------------------------------------------------
(* Logins.                                                                   *)

\* The credential is read, and the password is the one it has.
VerifyPassword(x) ==
  /\ login[x].step = "idle"
  /\ login' = [login EXCEPT ![x] = [step |-> "verified", proven |-> rotation]]
  /\ UNCHANGED <<rotation, grant, told, session, rec, ver>>

\* A wrong password: the failure is counted in the credential.
RefusePassword ==
  /\ \E a \in Recovery : rec[a].open
  /\ CredentialWritten
  /\ UNCHANGED <<rotation, grant, told, login, session, ver>>

\* The counter is reset by human_ipr, whatever the password is by now.
ResetAttempts(x) ==
  /\ login[x].step = "verified"
  /\ login' = [login EXCEPT ![x].step = "reset"]
  /\ CredentialWritten
  /\ UNCHANGED <<rotation, grant, told, session, ver>>

CreateSession(x) ==
  /\ login[x].step = "reset"
  /\ login' = [login EXCEPT ![x].step = "over"]
  /\ session' = [session EXCEPT ![x] =
       [status |-> "ACTIVE", revoked |-> FALSE, over |-> FALSE, born |-> rotation,
        during |-> \E a \in Recovery : rec[a].open]]
  /\ UNCHANGED <<rotation, grant, told, rec, ver>>

LoginFails(x) ==
  /\ login[x].step \in {"verified", "reset"}
  /\ login' = [login EXCEPT ![x].step = "over"]
  /\ UNCHANGED <<rotation, grant, told, session, rec, ver>>

-----------------------------------------------------------------------------
(* Requests with the token of a session.                                     *)

SessionExpires(x) ==
  /\ session[x].status # "none" /\ ~session[x].over
  /\ session' = [session EXCEPT ![x].over = TRUE]
  /\ UNCHANGED <<rotation, grant, told, login, rec, ver>>

\* The row is read; the answer is settled here, whatever happens next.
Select(v, x) ==
  /\ ver[v].step = "idle"
  /\ session[x].status # "none" /\ session[x].status # "REVOKED" /\ ~session[x].revoked
  /\ ver' = [ver EXCEPT ![v] = [step |-> IF Usable(x) THEN "touch" ELSE "mark",
                                session |-> {x}]]
  /\ UNCHANGED <<rotation, grant, told, login, session, rec>>

\* An UPDATE by session_id, of one column or two; the row is as it is by now.
MarkExpired(v) ==
  /\ ver[v].step = "mark"
  /\ session' = [x \in Session |->
       IF x \in ver[v].session THEN [session[x] EXCEPT !.status = "EXPIRED"] ELSE session[x]]
  /\ SessionsWritten(ver[v].session)
  /\ ver' = [ver EXCEPT ![v] = Idle]
  /\ UNCHANGED <<rotation, grant, told, login>>

\* Mutant: the row that was read is written back.
TouchBack(v, logout) ==
  /\ ver[v].step = "touch"
  /\ session' = [x \in Session |->
       IF x \in ver[v].session
         THEN [session[x] EXCEPT !.status = "ACTIVE", !.revoked = FALSE] ELSE session[x]]
  /\ SessionsWritten(ver[v].session)
  /\ ver' = [ver EXCEPT ![v] = IF logout THEN [@ EXCEPT !.step = "revoke"] ELSE Idle]
  /\ UNCHANGED <<rotation, grant, told, login>>

\* last_seen_at is written; a logout goes on.
Touch(v, logout) ==
  /\ ver[v].step = "touch"
  /\ SessionsWritten(ver[v].session)
  /\ ver' = [ver EXCEPT ![v] = IF logout THEN [@ EXCEPT !.step = "revoke"] ELSE Idle]
  /\ UNCHANGED <<rotation, grant, told, login, session>>

RevokeSession(v) ==
  /\ ver[v].step = "revoke"
  /\ session' = [x \in Session |->
       IF x \in ver[v].session
         THEN [session[x] EXCEPT !.status = "REVOKED", !.revoked = TRUE] ELSE session[x]]
  /\ SessionsWritten(ver[v].session)
  /\ ver' = [ver EXCEPT ![v] = Idle]
  /\ UNCHANGED <<rotation, grant, told, login>>

\* An UPDATE fails or the request dies: a request whose touch fails is
\* authenticated all the same, a failed logout leaves the session as it was.
WriteFails(v, logout) ==
  /\ ver[v].step # "idle"
  /\ logout => ver[v].step = "touch"
  /\ ver' = [ver EXCEPT ![v] = IF logout THEN [@ EXCEPT !.step = "revoke"] ELSE Idle]
  /\ UNCHANGED <<rotation, grant, told, login, session, rec>>

Next ==
  \/ \E g \in Grant : GrantExpires(g) \/ \E known \in BOOLEAN : Issue(g, known)
  \/ \E a \in Recovery : Commit(a) \/ Abort(a) \/ \E g \in Grant : Begin(a, g)
  \/ RefusePassword
  \/ \E x \in Session :
       \/ VerifyPassword(x) \/ ResetAttempts(x) \/ CreateSession(x) \/ LoginFails(x)
       \/ SessionExpires(x)
  \/ \E v \in Verifier :
       \/ MarkExpired(v) \/ RevokeSession(v)
       \/ \E x \in Session : Select(v, x)
       \/ \E logout \in BOOLEAN : Touch(v, logout) \/ WriteFails(v, logout)

Spec == Init /\ [][Next]_vars

-----------------------------------------------------------------------------
(* Properties.                                                               *)

\* A token that is sent twice, at once or after an answer was lost, rotates the
\* password once; and nothing rotates it without a grant.
OneRotationPerGrant == rotation = Cardinality(Consumed)

\* A grant that was consumed, or was revoked by a later one, is so for ever: the
\* recovery in progress that had found it valid does not use it.
GrantsEndOnce ==
  [][\A g \in Grant : grant[g].status \in {"CONSUMED", "REVOKED"} =>
       grant'[g].status = grant[g].status]_vars

\* The sessions of a lost password.  One that is usable belongs to a login that
\* overlapped a recovery: it was inserted while one was in progress, or after
\* the rotation, by a login that had read the credential before.
OnlyOverlappingLoginsSurvive ==
  \A x \in Session :
    Usable(x) /\ login[x].proven < rotation =>
      session[x].during \/ login[x].proven < session[x].born

\* No session that was revoked or has expired is authenticated again, whatever
\* the requests that read it before write to it.
SessionsEndForGood ==
  [][\A x \in Session : session[x].status # "none" /\ ~Usable(x) => ~Usable(x)']_vars

-----------------------------------------------------------------------------
(* What the subject sees: the recovery as one step.                          *)

Spent == {g \in Grant : grant[g].status \in {"CONSUMED", "REVOKED"}}
Made == {x \in Session : session[x].status # "none"}
MadeBeside == {x \in Made : session[x].during}
Live == {x \in Session : Usable(x)}

Atomic == INSTANCE AtomicRecovery WITH
  password <- rotation,
  valid <- Issued,
  spent <- Spent,
  made <- Made,
  beside <- MadeBeside,
  live <- Live

\* Interleaved with logins, logouts, token checks, new grants and each other, the
\* recoveries change password, grants and sessions as if each were one step: with
\* the one grant that is valid at that moment, and so that of the sessions of that
\* moment only those survive that were inserted while a recovery was in progress.
ImplementsAtomic == Atomic!Spec
=============================================================================
