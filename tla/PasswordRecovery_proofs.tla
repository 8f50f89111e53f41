------------------------ MODULE PasswordRecovery_proofs ------------------------
(***************************************************************************)
(* Theorems about PasswordRecovery, for any number of grants, sessions,    *)
(* recoveries and requests.  A recovery whose snapshot still holds has a   *)
(* grant that is issued, and has seen every session but those that were    *)
(* inserted beside it: both say what its COMMIT may rely on.               *)
(***************************************************************************)
EXTENDS PasswordRecovery, FiniteSetTheorems, TLAPS

Types ==
  /\ rotation \in Nat
  /\ grant \in [Grant -> GrantRow]
  /\ told \subseteq Grant
  /\ login \in [Session -> Login]
  /\ session \in [Session -> SessionRow]
  /\ rec \in [Recovery -> Transaction]
  /\ ver \in [Verifier -> Verification]

Fresh(a) == rec[a].open /\ ~rec[a].stale
Active(x) == session[x].status = "ACTIVE" /\ ~session[x].revoked

\* A recovery has one grant, which is issued unless the transaction is stale.
GrantHeld ==
  \A a \in Recovery :
    rec[a].open => \E g \in Grant : /\ rec[a].grant = {g}
                                    /\ ~rec[a].stale => grant[g].status = "ISSUED"

\* What it has not seen was inserted beside it.
AllSeen ==
  \A a \in Recovery, x \in Session :
    Fresh(a) /\ Active(x) => x \in rec[a].seen \/ session[x].during

\* What was not inserted beside a recovery is of the present password.
Present == \A x \in Session : Active(x) /\ ~session[x].during => session[x].born = rotation

\* Who works on a row has found one, and a login inserts its row at its end.
RowsExist ==
  \A x \in Session :
    /\ login[x].step # "over" => session[x].status = "none"
    /\ session[x].status = "none" =>
         /\ \A v \in Verifier : x \notin ver[v].session
         /\ \A a \in Recovery : x \notin rec[a].seen

IInv ==
  /\ Types
  /\ OneRotationPerGrant
  /\ GrantHeld /\ AllSeen /\ Present /\ RowsExist

-----------------------------------------------------------------------------
\* The grants that were consumed are finitely many.
LEMMA ConsumedFinite ==
  /\ IsFiniteSet(Consumed) /\ Cardinality(Consumed) \in Nat
  /\ Cardinality(Consumed) <= Cardinality(Grant) /\ Cardinality(Grant) \in Nat
<1>1. Consumed \subseteq Grant /\ IsFiniteSet(Grant)
  BY GrantAssumption DEF Consumed
<1>2. QED
  <2> HIDE DEF Consumed
  <2>1. QED
    BY <1>1, FS_Subset, FS_CardinalityType

\* A write makes transactions stale, and changes nothing else of them.
OnlyStales ==
  \A a \in Recovery :
    /\ rec'[a].open = rec[a].open /\ rec'[a].grant = rec[a].grant
    /\ rec'[a].seen = rec[a].seen
    /\ rec[a].stale /\ rec[a].open => rec'[a].stale

LEMMA Stales ==
  ASSUME Types, NEW G, NEW X, CredentialWritten \/ GrantsWritten(G) \/ SessionsWritten(X)
  PROVE  OnlyStales /\ rec' \in [Recovery -> Transaction]
<1>1. CASE CredentialWritten
  BY <1>1 DEF Types, Transaction, CredentialWritten, OnlyStales
<1>2. CASE GrantsWritten(G)
  BY <1>2 DEF Types, Transaction, GrantsWritten, OnlyStales
<1>3. CASE SessionsWritten(X)
  BY <1>3 DEF Types, Transaction, SessionsWritten, OnlyStales
<1>4. QED
  BY <1>1, <1>2, <1>3

\* The steps that change no grant, and of a session at most that it ends.
SessionsEnd ==
  \A x \in Session :
    /\ session'[x].during = session[x].during /\ session'[x].born = session[x].born
    /\ (session'[x].status = "none") <=> (session[x].status = "none")
    /\ session'[x].status = "ACTIVE" => session[x].status = "ACTIVE"
    /\ ~session'[x].revoked => ~session[x].revoked

LEMMA QuietStep ==
  ASSUME IInv, Types', UNCHANGED <<rotation, grant>>, SessionsEnd, OnlyStales,
         \A x \in Session : login'[x].step # "over" => login[x].step # "over",
         \A v \in Verifier : \A x \in ver'[v].session : session[x].status # "none"
  PROVE  IInv'
<1>1. OneRotationPerGrant'
  BY DEF IInv, OneRotationPerGrant, Consumed
<1>2. GrantHeld'
  BY DEF IInv, GrantHeld, OnlyStales
<1>3. \A x \in Session : Active(x)' => Active(x)
  BY DEF SessionsEnd, Active
<1>4. AllSeen'
  BY <1>3 DEF IInv, AllSeen, OnlyStales, SessionsEnd, Fresh
<1>5. Present'
  BY <1>3 DEF IInv, Present, SessionsEnd
<1>6. RowsExist'
  BY DEF IInv, RowsExist, OnlyStales, SessionsEnd
<1>7. QED
  BY <1>1, <1>2, <1>4, <1>5, <1>6 DEF IInv

\* Rows and transactions that are left alone.
LEMMA Same ==
  /\ UNCHANGED session => SessionsEnd
  /\ UNCHANGED rec => OnlyStales
  /\ UNCHANGED login => \A x \in Session : login'[x].step # "over" => login[x].step # "over"
BY DEF SessionsEnd, OnlyStales

LEMMA SameVer ==
  ASSUME IInv, \A v \in Verifier : ver'[v].session \subseteq ver[v].session
  PROVE  \A v \in Verifier : \A x \in ver'[v].session : session[x].status # "none"
BY DEF IInv, RowsExist, Types, Verification

-----------------------------------------------------------------------------
LEMMA IssueStep ==
  ASSUME IInv, NEW g \in Grant, NEW known \in BOOLEAN, Issue(g, known)
  PROVE  IInv'
<1>1. Types /\ GrantsWritten(Issued) /\ UNCHANGED <<rotation, login, session, ver>>
  BY DEF IInv, Issue
<1>2. OnlyStales /\ rec' \in [Recovery -> Transaction]
  BY <1>1, Stales
<1>3. Types'
  BY <1>1, <1>2 DEF Issue, Types, GrantRow
<1>4. \A h \in Grant : grant'[h].status = "CONSUMED" <=> grant[h].status = "CONSUMED"
  BY <1>1 DEF Issue, Types, GrantRow, Issued
<1>5. OneRotationPerGrant'
  <2>1. Consumed' = Consumed
    BY <1>4 DEF Consumed
  <2>2. QED
    BY <1>1, <2>1 DEF IInv, OneRotationPerGrant
<1>6. GrantHeld'
  <2>1. SUFFICES ASSUME NEW a \in Recovery, rec'[a].open
                 PROVE  \E h \in Grant : rec'[a].grant = {h} /\ rec'[a].stale
    BY DEF GrantHeld
  <2>2. PICK h \in Grant : /\ rec[a].grant = {h}
                           /\ ~rec[a].stale => grant[h].status = "ISSUED"
    BY <1>2, <2>1 DEF IInv, GrantHeld, OnlyStales
  <2>3. rec'[a].stale = (rec[a].stale \/ rec[a].grant \cap Issued # {})
    BY <1>1 DEF GrantsWritten, Types, Transaction
  <2>4. rec'[a].stale
    BY <1>1, <2>2, <2>3 DEF Issued, Types, Transaction
  <2>5. QED
    BY <1>2, <2>2, <2>4 DEF OnlyStales
<1>7. AllSeen' /\ Present' /\ RowsExist'
  BY <1>1, <1>2 DEF IInv, AllSeen, Present, RowsExist, OnlyStales, Active, Fresh
<1>8. QED
  BY <1>3, <1>5, <1>6, <1>7 DEF IInv

LEMMA GrantExpiresStep ==
  ASSUME IInv, NEW g \in Grant, GrantExpires(g)
  PROVE  IInv'
<1>1. Types /\ UNCHANGED <<rotation, told, login, session, rec, ver>>
      /\ grant' = [grant EXCEPT ![g].over = TRUE]
  BY DEF IInv, GrantExpires
<1>2. \A h \in Grant : grant'[h].status = grant[h].status
  BY <1>1 DEF Types, GrantRow
<1>3. Types'
  BY <1>1 DEF Types, GrantRow
<1>4. Consumed' = Consumed
  BY <1>2 DEF Consumed
<1>5. OneRotationPerGrant' /\ GrantHeld'
  BY <1>1, <1>2, <1>4 DEF IInv, OneRotationPerGrant, GrantHeld
<1>6. AllSeen' /\ Present' /\ RowsExist'
  BY <1>1 DEF IInv, AllSeen, Present, RowsExist, Active, Fresh
<1>7. QED
  BY <1>3, <1>5, <1>6 DEF IInv

LEMMA BeginStep ==
  ASSUME IInv, NEW a \in Recovery, NEW g \in Grant, Begin(a, g)
  PROVE  IInv'
<1>1. /\ Types /\ UNCHANGED <<rotation, grant, told, login, session, ver>>
      /\ grant[g].status = "ISSUED"
  BY DEF IInv, Begin
<1>2. PICK t : t = [open |-> TRUE, grant |-> {g}, seen |-> ActiveRows, stale |-> FALSE]
  OBVIOUS
<1>3. rec' = [rec EXCEPT ![a] = t] /\ t \in Transaction
  BY <1>2 DEF Begin, Transaction, ActiveRows
<1>4. /\ rec'[a] = t /\ \A b \in Recovery : b # a => rec'[b] = rec[b]
      /\ rec' \in [Recovery -> Transaction]
  BY <1>1, <1>3 DEF Types
<1>5. Types'
  BY <1>1, <1>4 DEF Types
<1>6. OneRotationPerGrant' /\ Present'
  BY <1>1 DEF IInv, OneRotationPerGrant, Consumed, Present, Active
<1>7. GrantHeld'
  BY <1>1, <1>2, <1>4 DEF IInv, GrantHeld
<1>8. AllSeen'
  <2>1. \A x \in Session : Active(x) => x \in t.seen
    BY <1>2 DEF ActiveRows, Active
  <2>2. QED
    BY <1>1, <1>4, <2>1 DEF IInv, AllSeen, Active, Fresh
<1>9. RowsExist'
  <2>1. \A x \in Session : session[x].status = "none" => x \notin t.seen
    BY <1>2 DEF ActiveRows
  <2>2. QED
    BY <1>1, <1>4, <2>1 DEF IInv, RowsExist
<1>10. QED
  BY <1>5, <1>6, <1>7, <1>8, <1>9 DEF IInv

\* What a COMMIT does.
LEMMA RotateEffect ==
  ASSUME IInv, NEW a \in Recovery, Commit(a)
  PROVE  /\ Types' /\ rotation' = rotation + 1 /\ UNCHANGED <<told, login, ver>>
         /\ \E g \in Grant :
              /\ grant[g].status = "ISSUED" /\ grant'[g].status = "CONSUMED"
              /\ \A h \in Grant : h # g => grant'[h] = grant[h]
         /\ \A x \in Session :
              IF x \in rec[a].seen
                THEN session'[x].status = "REVOKED" /\ session'[x].revoked
                ELSE session'[x] = session[x]
         /\ ~rec'[a].open /\ rec'[a].seen = {}
         /\ \A b \in Recovery : b # a =>
              /\ rec'[b].open = rec[b].open /\ rec'[b].grant = rec[b].grant
              /\ rec'[b].seen = rec[b].seen /\ rec'[b].stale = rec[b].open
<1>1. Types /\ rec[a].open /\ ~rec[a].stale
  BY DEF IInv, Commit
<1>2. PICK g \in Grant : rec[a].grant = {g} /\ grant[g].status = "ISSUED"
  BY <1>1 DEF IInv, GrantHeld
<1>3. /\ rotation' = rotation + 1 /\ UNCHANGED <<told, login, ver>>
      /\ grant' = [h \in Grant |->
           IF h \in rec[a].grant THEN [grant[h] EXCEPT !.status = "CONSUMED"] ELSE grant[h]]
      /\ session' = [x \in Session |->
           IF x \in rec[a].seen
             THEN [session[x] EXCEPT !.status = "REVOKED", !.revoked = TRUE]
             ELSE session[x]]
      /\ rec' = [b \in Recovery |->
           IF b = a THEN None ELSE [rec[b] EXCEPT !.stale = rec[b].open]]
  BY DEF Commit, Rotate
<1>4. /\ grant' \in [Grant -> GrantRow] /\ grant'[g].status = "CONSUMED"
      /\ \A h \in Grant : h # g => grant'[h] = grant[h]
  BY <1>1, <1>2, <1>3 DEF Types, GrantRow
<1>5. /\ session' \in [Session -> SessionRow]
      /\ \A x \in Session :
           IF x \in rec[a].seen
             THEN session'[x].status = "REVOKED" /\ session'[x].revoked
             ELSE session'[x] = session[x]
  BY <1>1, <1>3 DEF Types, SessionRow
<1>6. /\ rec' \in [Recovery -> Transaction] /\ ~rec'[a].open /\ rec'[a].seen = {}
      /\ \A b \in Recovery : b # a =>
           /\ rec'[b].open = rec[b].open /\ rec'[b].grant = rec[b].grant
           /\ rec'[b].seen = rec[b].seen /\ rec'[b].stale = rec[b].open
  BY <1>1, <1>3 DEF Types, Transaction, None
<1>7. Types'
  <2>1. rotation' = rotation + 1 /\ UNCHANGED <<told, login, ver>>
    BY <1>3
  <2>2. /\ rotation' \in Nat /\ told' \subseteq Grant /\ login' \in [Session -> Login]
        /\ ver' \in [Verifier -> Verification]
    BY <1>1, <2>1 DEF Types
  <2>3. QED
    BY <1>4, <1>5, <1>6, <2>2 DEF Types
<1>8. QED
  BY <1>2, <1>3, <1>4, <1>5, <1>6, <1>7

LEMMA CommitStep ==
  ASSUME IInv, NEW a \in Recovery, Commit(a)
  PROVE  IInv'
<1>1. /\ Types /\ Types' /\ rotation' = rotation + 1 /\ UNCHANGED <<login, ver>>
      /\ Fresh(a)
  BY RotateEffect DEF IInv, Commit, Fresh
<1>2. PICK g \in Grant :
        /\ grant[g].status = "ISSUED" /\ grant'[g].status = "CONSUMED"
        /\ \A h \in Grant : h # g => grant'[h] = grant[h]
  BY RotateEffect
<1>3. \A x \in Session :
        IF x \in rec[a].seen
          THEN session'[x].status = "REVOKED" /\ session'[x].revoked
          ELSE session'[x] = session[x]
  BY RotateEffect
<1>4. /\ ~rec'[a].open /\ rec'[a].seen = {}
      /\ \A b \in Recovery : b # a =>
           /\ rec'[b].open = rec[b].open /\ rec'[b].grant = rec[b].grant
           /\ rec'[b].seen = rec[b].seen /\ rec'[b].stale = rec[b].open
  BY RotateEffect
<1>5. OneRotationPerGrant'
  <2>1. PICK C : C = Consumed
    OBVIOUS
  <2>2. Consumed' = C \cup {g} /\ g \notin C
    BY <1>2, <2>1 DEF Consumed
  <2>3. IsFiniteSet(C) /\ Cardinality(C) = rotation
    BY <2>1, ConsumedFinite DEF IInv, OneRotationPerGrant
  <2>4. Cardinality(C \cup {g}) = Cardinality(C) + 1
    BY <2>2, <2>3, FS_AddElement
  <2>5. QED
    BY <1>1, <2>2, <2>3, <2>4 DEF OneRotationPerGrant
<1>6. GrantHeld'
  BY <1>4 DEF IInv, GrantHeld
<1>7. \A x \in Session : Active(x)' => /\ Active(x) /\ x \notin rec[a].seen
                                      /\ session'[x] = session[x]
  BY <1>3 DEF Active
<1>8. \A x \in Session : Active(x)' => session'[x].during
  BY <1>1, <1>7 DEF IInv, AllSeen
<1>9. AllSeen' /\ Present'
  BY <1>8 DEF AllSeen, Present
<1>10. RowsExist'
  BY <1>1, <1>3, <1>4 DEF IInv, RowsExist
<1>11. QED
  BY <1>1, <1>5, <1>6, <1>9, <1>10 DEF IInv

LEMMA AbortStep ==
  ASSUME IInv, NEW a \in Recovery, Abort(a)
  PROVE  IInv'
<1>1. /\ Types /\ UNCHANGED <<rotation, grant, told, login, session, ver>>
      /\ rec' = [rec EXCEPT ![a] = None]
  BY DEF IInv, Abort
<1>2. /\ ~rec'[a].open /\ rec'[a].seen = {} /\ \A b \in Recovery : b # a => rec'[b] = rec[b]
      /\ rec' \in [Recovery -> Transaction]
  BY <1>1 DEF Types, None, Transaction
<1>3. Types'
  BY <1>1, <1>2 DEF Types
<1>4. OneRotationPerGrant' /\ Present'
  BY <1>1 DEF IInv, OneRotationPerGrant, Consumed, Present, Active
<1>5. GrantHeld' /\ AllSeen'
  BY <1>1, <1>2 DEF IInv, GrantHeld, AllSeen, Active, Fresh
<1>6. RowsExist'
  BY <1>1, <1>2 DEF IInv, RowsExist
<1>7. QED
  BY <1>3, <1>4, <1>5, <1>6 DEF IInv

\* A step of a login that inserts nothing.
LEMMA LoginStep ==
  ASSUME IInv, NEW x \in Session,
         VerifyPassword(x) \/ ResetAttempts(x) \/ LoginFails(x) \/ RefusePassword
  PROVE  IInv'
<1>1. Types /\ UNCHANGED <<rotation, grant, told, session, ver>>
  BY DEF IInv, VerifyPassword, ResetAttempts, LoginFails, RefusePassword
<1>2. OnlyStales /\ rec' \in [Recovery -> Transaction]
  <2>1. CredentialWritten \/ UNCHANGED rec
    BY DEF VerifyPassword, ResetAttempts, LoginFails, RefusePassword
  <2>2. QED
    BY <1>1, <2>1, Stales, Same DEF Types
<1>3. /\ login' \in [Session -> Login]
      /\ \A y \in Session : login'[y].step # "over" => login[y].step # "over"
  <2>1. CASE VerifyPassword(x)
    BY <1>1, <2>1 DEF VerifyPassword, Types, Login
  <2>2. CASE ResetAttempts(x)
    BY <1>1, <2>2 DEF ResetAttempts, Types, Login
  <2>3. CASE LoginFails(x)
    BY <1>1, <2>3 DEF LoginFails, Types, Login
  <2>4. CASE RefusePassword
    BY <1>1, <2>4 DEF RefusePassword, Types
  <2>5. QED
    BY <2>1, <2>2, <2>3, <2>4
<1>4. Types'
  BY <1>1, <1>2, <1>3 DEF Types
<1>5. QED
  BY <1>1, <1>2, <1>3, <1>4, QuietStep, Same, SameVer

LEMMA CreateSessionStep ==
  ASSUME IInv, NEW x \in Session, CreateSession(x)
  PROVE  IInv'
<1>1. /\ Types /\ UNCHANGED <<rotation, grant, told, rec, ver>>
      /\ login' = [login EXCEPT ![x].step = "over"]
  BY DEF IInv, CreateSession
<1>2. PICK row : row = [status |-> "ACTIVE", revoked |-> FALSE, over |-> FALSE,
                        born |-> rotation, during |-> \E a \in Recovery : rec[a].open]
  OBVIOUS
<1>3. /\ session' = [session EXCEPT ![x] = row] /\ row \in SessionRow
      /\ row.status = "ACTIVE" /\ row.born = rotation
      /\ \A a \in Recovery : rec[a].open => row.during
  BY <1>1, <1>2 DEF CreateSession, SessionRow, Types
<1>4. /\ session'[x] = row /\ \A y \in Session : y # x => session'[y] = session[y]
      /\ session' \in [Session -> SessionRow]
  BY <1>1, <1>3 DEF Types
<1>5. /\ login' \in [Session -> Login] /\ login'[x].step = "over"
      /\ \A y \in Session : y # x => login'[y] = login[y]
  BY <1>1 DEF Types, Login
<1>6. Types'
  BY <1>1, <1>4, <1>5 DEF Types
<1>7. OneRotationPerGrant' /\ GrantHeld'
  BY <1>1 DEF IInv, OneRotationPerGrant, Consumed, GrantHeld
<1>8. AllSeen'
  BY <1>1, <1>3, <1>4 DEF IInv, AllSeen, Active, Fresh
<1>9. Present'
  BY <1>1, <1>3, <1>4 DEF IInv, Present, Active
<1>10. RowsExist'
  BY <1>1, <1>3, <1>4, <1>5 DEF IInv, RowsExist
<1>11. QED
  BY <1>6, <1>7, <1>8, <1>9, <1>10 DEF IInv

LEMMA SessionExpiresStep ==
  ASSUME IInv, NEW x \in Session, SessionExpires(x)
  PROVE  IInv'
<1>1. /\ Types /\ UNCHANGED <<rotation, grant, told, login, rec, ver>>
      /\ session' = [session EXCEPT ![x].over = TRUE]
  BY DEF IInv, SessionExpires
<1>2. Types' /\ SessionsEnd
  BY <1>1 DEF Types, SessionRow, SessionsEnd
<1>3. QED
  BY <1>1, <1>2, QuietStep, Same, SameVer

LEMMA SelectStep ==
  ASSUME IInv, NEW v \in Verifier, NEW x \in Session, Select(v, x)
  PROVE  IInv'
<1>1. /\ Types /\ UNCHANGED <<rotation, grant, told, login, session, rec>>
      /\ session[x].status # "none"
  BY DEF IInv, Select
<1>2. PICK step \in {"touch", "mark"} :
        ver' = [ver EXCEPT ![v] = [step |-> step, session |-> {x}]]
  BY DEF Select
<1>3. Types'
  BY <1>1, <1>2 DEF Types, Verification
<1>4. \A w \in Verifier : \A y \in ver'[w].session : session[y].status # "none"
  <2>1. TAKE w \in Verifier
  <2>2. CASE w = v
    BY <1>1, <1>2, <2>2 DEF Types
  <2>3. CASE w # v
    <3>1. ver'[w] = ver[w]
      BY <1>1, <1>2, <2>3 DEF Types
    <3>2. QED
      BY <1>1, <3>1 DEF IInv, RowsExist, Types, Verification
  <2>4. QED
    BY <2>2, <2>3
<1>5. QED
  BY <1>1, <1>3, <1>4, QuietStep, Same

\* A request with a token writes its row, or fails to.
LEMMA VerifierStep ==
  ASSUME IInv, NEW v \in Verifier, NEW logout \in BOOLEAN,
         \/ MarkExpired(v) \/ Touch(v, logout) \/ RevokeSession(v)
         \/ WriteFails(v, logout)
  PROVE  IInv'
<1>1. Types /\ UNCHANGED <<rotation, grant, told, login>>
  BY DEF IInv, MarkExpired, Touch, RevokeSession, WriteFails
<1>2. OnlyStales /\ rec' \in [Recovery -> Transaction]
  <2>1. SessionsWritten(ver[v].session) \/ UNCHANGED rec
    BY DEF MarkExpired, Touch, RevokeSession, WriteFails
  <2>2. QED
    BY <1>1, <2>1, Stales, Same DEF Types
<1>3. /\ ver' \in [Verifier -> Verification]
      /\ \A w \in Verifier : ver'[w].session \subseteq ver[w].session
  <2>1. \/ ver' = [ver EXCEPT ![v] = Idle]
        \/ ver' = [ver EXCEPT ![v] = [ver[v] EXCEPT !.step = "revoke"]]
    BY <1>1 DEF MarkExpired, Touch, RevokeSession, WriteFails, Types
  <2>2. CASE ver' = [ver EXCEPT ![v] = Idle]
    BY <1>1, <2>2 DEF Types, Idle, Verification
  <2>3. CASE ver' = [ver EXCEPT ![v] = [ver[v] EXCEPT !.step = "revoke"]]
    BY <1>1, <2>3 DEF Types, Verification
  <2>4. QED
    BY <2>1, <2>2, <2>3
<1>4. \A x \in ver[v].session : session[x].status # "none"
  BY <1>1 DEF IInv, RowsExist, Types, Verification
<1>5. session' \in [Session -> SessionRow] /\ SessionsEnd
  <2>1. CASE MarkExpired(v)
    BY <1>1, <1>4, <2>1 DEF MarkExpired, Types, SessionRow, SessionsEnd
  <2>2. CASE RevokeSession(v)
    BY <1>1, <1>4, <2>2 DEF RevokeSession, Types, SessionRow, SessionsEnd
  <2>3. CASE UNCHANGED session
    BY <1>1, <2>3, Same DEF Types
  <2>4. QED
    BY <2>1, <2>2, <2>3 DEF Touch, WriteFails
<1>6. Types'
  BY <1>1, <1>2, <1>3, <1>5 DEF Types
<1>7. QED
  BY <1>1, <1>2, <1>3, <1>5, <1>6, QuietStep, Same, SameVer

-----------------------------------------------------------------------------
\* The inductive invariant holds at first.
LEMMA InitIInv == Init => IInv
<1>1. SUFFICES ASSUME Init PROVE IInv
  OBVIOUS
<1>2. Types
  BY <1>1 DEF Init, Types, GrantRow, Login, SessionRow, Transaction, None, Verification, Idle
<1>3. OneRotationPerGrant
  <2>1. Consumed = {}
    BY <1>1 DEF Init, Consumed
  <2>2. QED
    BY <1>1, <2>1, FS_EmptySet DEF Init, OneRotationPerGrant
<1>4. GrantHeld /\ AllSeen /\ Present
  BY <1>1 DEF Init, GrantHeld, AllSeen, Present, Active, Fresh, None
<1>5. RowsExist
  BY <1>1 DEF Init, RowsExist, Idle, None
<1>6. QED
  BY <1>2, <1>3, <1>4, <1>5 DEF IInv

\* Every step keeps the inductive invariant.
LEMMA NextIInv == IInv /\ [Next]_vars => IInv'
<1>1. SUFFICES ASSUME IInv, [Next]_vars PROVE IInv'
  OBVIOUS
<1>2. ASSUME NEW g \in Grant, GrantExpires(g) \/ \E known \in BOOLEAN : Issue(g, known)
      PROVE  IInv'
  BY <1>1, <1>2, GrantExpiresStep, IssueStep
<1>3. ASSUME NEW a \in Recovery, Commit(a) \/ Abort(a) \/ \E g \in Grant : Begin(a, g)
      PROVE  IInv'
  BY <1>1, <1>3, CommitStep, AbortStep, BeginStep
<1>4. ASSUME NEW x \in Session,
             VerifyPassword(x) \/ ResetAttempts(x) \/ LoginFails(x)
      PROVE  IInv'
  BY <1>1, <1>4, LoginStep
<1>5. ASSUME NEW x \in Session, CreateSession(x) \/ SessionExpires(x)
      PROVE  IInv'
  BY <1>1, <1>5, CreateSessionStep, SessionExpiresStep
<1>6. ASSUME NEW v \in Verifier,
             \/ MarkExpired(v) \/ RevokeSession(v)
             \/ \E x \in Session : Select(v, x)
             \/ \E logout \in BOOLEAN : Touch(v, logout) \/ WriteFails(v, logout)
      PROVE  IInv'
  BY <1>1, <1>6, SelectStep, VerifierStep
<1>7. ASSUME RefusePassword PROVE IInv'
  <2>1. Types /\ UNCHANGED <<rotation, grant, told, login, session, ver>> /\ CredentialWritten
    BY <1>1, <1>7 DEF IInv, RefusePassword
  <2>2. OnlyStales /\ rec' \in [Recovery -> Transaction]
    BY <2>1, Stales
  <2>3. Types'
    BY <2>1, <2>2 DEF Types
  <2>4. QED
    BY <1>1, <2>1, <2>2, <2>3, QuietStep, Same, SameVer
<1>8. CASE UNCHANGED vars
  BY <1>1, <1>8 DEF vars, IInv, Types, OneRotationPerGrant, Consumed, GrantHeld, AllSeen,
                    Present, RowsExist, Active, Fresh
<1>9. QED
  BY <1>1, <1>2, <1>3, <1>4, <1>5, <1>6, <1>7, <1>8 DEF Next

LEMMA Invariance == Spec => []IInv
<1>1. QED
  BY InitIInv, NextIInv, PTL DEF Spec

\* The rows are of their types, and there are no more rotations than grants.
THEOREM TypeCorrect == Spec => []TypeOK
<1>1. IInv => TypeOK
  BY ConsumedFinite DEF IInv, TypeOK, Types, OneRotationPerGrant
<1>2. QED
  BY Invariance, <1>1, PTL

\* As many rotations as grants that were consumed.
THEOREM RotationsAreGranted == Spec => []OneRotationPerGrant
<1>1. IInv => OneRotationPerGrant
  BY DEF IInv
<1>2. QED
  BY Invariance, <1>1, PTL

\* Only a login that overlapped a recovery leaves a session of the lost password.
THEOREM LostPasswordsEnd == Spec => []OnlyOverlappingLoginsSurvive
<1>1. IInv => OnlyOverlappingLoginsSurvive
  BY DEF IInv, Types, Present, Active, Usable, OnlyOverlappingLoginsSurvive
<1>2. QED
  BY Invariance, <1>1, PTL

\* A grant ends once.
THEOREM GrantsAreFinal == Spec => GrantsEndOnce
<1>1. IInv /\ [Next]_vars =>
        [\A g \in Grant : grant[g].status \in {"CONSUMED", "REVOKED"} =>
           grant'[g].status = grant[g].status]_vars
  <2>1. SUFFICES ASSUME IInv, Next, NEW g \in Grant,
                        grant[g].status \in {"CONSUMED", "REVOKED"}
                 PROVE  grant'[g].status = grant[g].status
    BY DEF vars
  <2>2. CASE UNCHANGED grant
    BY <2>2
  <2>3. ASSUME NEW h \in Grant, NEW known \in BOOLEAN, Issue(h, known)
        PROVE  grant'[g].status = grant[g].status
    BY <2>1, <2>3 DEF Issue, Issued, IInv, Types
  <2>4. ASSUME NEW h \in Grant, GrantExpires(h)
        PROVE  grant'[g].status = grant[g].status
    BY <2>1, <2>4 DEF GrantExpires, IInv, Types, GrantRow
  <2>5. ASSUME NEW a \in Recovery, Commit(a)
        PROVE  grant'[g].status = grant[g].status
    BY <2>1, <2>5, RotateEffect
  <2>6. QED
    BY <2>1, <2>2, <2>3, <2>4, <2>5
    DEF Next, Abort, Begin, RefusePassword, VerifyPassword, ResetAttempts, CreateSession,
        LoginFails, SessionExpires, MarkExpired, RevokeSession, Select, Touch, WriteFails
<1>2. QED
  BY Invariance, <1>1, PTL DEF Spec, GrantsEndOnce

\* A session that has ended is not used again.
THEOREM EndedStaysEnded == Spec => SessionsEndForGood
<1>1. IInv /\ [Next]_vars =>
        [\A x \in Session : session[x].status # "none" /\ ~Usable(x) => ~Usable(x)']_vars
  <2>1. SUFFICES ASSUME IInv, Next, NEW x \in Session,
                        session[x].status # "none", ~Usable(x)
                 PROVE  ~Usable(x)'
    BY DEF vars
  <2>2. CASE UNCHANGED session
    BY <2>1, <2>2 DEF Usable
  <2>3. ASSUME NEW a \in Recovery, Commit(a)
        PROVE  ~Usable(x)'
    BY <2>1, <2>3, RotateEffect DEF Usable
  <2>4. ASSUME NEW y \in Session, CreateSession(y)
        PROVE  ~Usable(x)'
    <3>1. y # x
      BY <2>1, <2>4 DEF CreateSession, IInv, RowsExist
    <3>2. session'[x] = session[x]
      BY <2>1, <2>4, <3>1 DEF CreateSession, IInv, Types
    <3>3. QED
      BY <2>1, <3>2 DEF Usable
  <2>5. ASSUME NEW y \in Session, SessionExpires(y)
        PROVE  ~Usable(x)'
    BY <2>1, <2>5 DEF SessionExpires, IInv, Types, SessionRow, Usable
  <2>6. ASSUME NEW v \in Verifier, MarkExpired(v) \/ RevokeSession(v)
        PROVE  ~Usable(x)'
    <3>1. session \in [Session -> SessionRow]
      BY <2>1 DEF IInv, Types
    <3>2. session'[x] = session[x] \/ session'[x].status \in {"EXPIRED", "REVOKED"}
      <4>1. CASE MarkExpired(v)
        BY <3>1, <4>1 DEF MarkExpired, SessionRow
      <4>2. CASE RevokeSession(v)
        BY <3>1, <4>2 DEF RevokeSession, SessionRow
      <4>3. QED
        BY <2>6, <4>1, <4>2
    <3>3. QED
      BY <2>1, <3>2 DEF Usable
  <2>7. QED
    BY <2>1, <2>2, <2>3, <2>4, <2>5, <2>6
    DEF Next, GrantExpires, Issue, Abort, Begin, RefusePassword, VerifyPassword,
        ResetAttempts, LoginFails, Select, Touch, WriteFails
<1>2. QED
  BY Invariance, <1>1, PTL DEF Spec, SessionsEndForGood
-----------------------------------------------------------------------------
(* The recovery as one step.                                                 *)

\* One grant at a time is valid, and a request has one token.
OneEach ==
  /\ \A g, h \in Issued : g = h
  /\ \A v \in Verifier : \A x, y \in ver[v].session : x = y

LEMMA GrantsStep ==
  ASSUME IInv, Next
  PROVE  \/ \E g \in Grant : \E known \in BOOLEAN : Issue(g, known)
         \/ \E a \in Recovery : Commit(a)
         \/ UNCHANGED rotation /\ \A g \in Grant : grant'[g].status = grant[g].status
BY DEF IInv, Types, GrantRow, Next, GrantExpires, Abort, Begin, RefusePassword,
       VerifyPassword, ResetAttempts, CreateSession, LoginFails, SessionExpires,
       MarkExpired, RevokeSession, Select, Touch, WriteFails

LEMMA IssueEffect ==
  ASSUME IInv, NEW g \in Grant, NEW known \in BOOLEAN, Issue(g, known)
  PROVE  /\ g \notin Issued \cup Spent
         /\ Issued' = {g} /\ Spent' = Spent \cup Issued
         /\ UNCHANGED <<rotation, session>>
<1>1. /\ grant[g].status = "none" /\ UNCHANGED <<rotation, session>>
      /\ grant \in [Grant -> GrantRow]
      /\ grant' = [h \in Grant |->
           IF h = g THEN [status |-> "ISSUED", over |-> FALSE]
           ELSE IF h \in Issued THEN [grant[h] EXCEPT !.status = "REVOKED"] ELSE grant[h]]
  BY DEF Issue, IInv, Types
<1>2. /\ grant'[g].status = "ISSUED"
      /\ \A h \in Grant : h # g =>
           grant'[h].status = IF h \in Issued THEN "REVOKED" ELSE grant[h].status
  BY <1>1 DEF GrantRow
<1>3. QED
  BY <1>1, <1>2 DEF Issued, Spent

\* One grant at a time is valid.
LEMMA OneValidStep ==
  ASSUME IInv, OneEach, Next
  PROVE  \A g, h \in Issued' : g = h
<1>1. ASSUME NEW k \in Grant, NEW known \in BOOLEAN, Issue(k, known)
      PROVE  \A g, h \in Issued' : g = h
  BY <1>1, IssueEffect
<1>2. ASSUME NEW a \in Recovery, Commit(a)
      PROVE  Issued' \subseteq Issued
  BY <1>2, RotateEffect DEF Issued
<1>3. CASE \A g \in Grant : grant'[g].status = grant[g].status
  BY <1>3 DEF Issued, OneEach
<1>4. QED
  BY <1>1, <1>2, <1>3, GrantsStep DEF OneEach

\* A request reads one row, and works on no other.
LEMMA OneTokenStep ==
  ASSUME IInv, OneEach, Next
  PROVE  \A v \in Verifier : \A x, y \in ver'[v].session : x = y
<1>1. ver \in [Verifier -> Verification]
  BY DEF IInv, Types
<1>2. ASSUME NEW w \in Verifier, NEW z \in Session, Select(w, z)
      PROVE  \A v \in Verifier : \A x, y \in ver'[v].session : x = y
  BY <1>1, <1>2 DEF Select, OneEach
<1>3. ASSUME NEW w \in Verifier, NEW logout \in BOOLEAN,
             \/ MarkExpired(w) \/ Touch(w, logout) \/ RevokeSession(w)
             \/ WriteFails(w, logout)
      PROVE  \A v \in Verifier : \A x, y \in ver'[v].session : x = y
  <2>1. \/ ver' = [ver EXCEPT ![w] = Idle]
        \/ ver' = [ver EXCEPT ![w] = [ver[w] EXCEPT !.step = "revoke"]]
    BY <1>1, <1>3 DEF MarkExpired, Touch, RevokeSession, WriteFails
  <2>2. QED
    BY <1>1, <2>1 DEF OneEach, Idle, Verification
<1>4. CASE UNCHANGED ver
  BY <1>4 DEF OneEach
<1>5. QED
  BY <1>2, <1>3, <1>4
  DEF Next, GrantExpires, Issue, Commit, Rotate, Abort, Begin, RefusePassword,
      VerifyPassword, ResetAttempts, CreateSession, LoginFails, SessionExpires

LEMMA OneEachInvariance == Spec => []OneEach
<1>1. Init => OneEach
  BY DEF Init, OneEach, Issued, Idle
<1>2. IInv /\ OneEach /\ [Next]_vars => OneEach'
  <2>1. IInv /\ OneEach /\ Next => OneEach'
    BY OneValidStep, OneTokenStep DEF OneEach
  <2>2. OneEach /\ UNCHANGED vars => OneEach'
    BY DEF OneEach, vars, Issued
  <2>3. QED
    BY <2>1, <2>2
<1>3. QED
  BY Invariance, <1>1, <1>2, PTL DEF Spec

\* A COMMIT is the one step that the subject sees of a recovery.
LEMMA CommitIsAtomic ==
  ASSUME IInv, OneEach, NEW a \in Recovery, Commit(a)
  PROVE  \E g \in Grant : Atomic!Recover(g)
<1>1. Fresh(a) /\ rotation' = rotation + 1
  BY RotateEffect DEF Commit, Fresh
<1>2. PICK g \in Grant :
        /\ grant[g].status = "ISSUED" /\ grant'[g].status = "CONSUMED"
        /\ \A h \in Grant : h # g => grant'[h] = grant[h]
  BY RotateEffect
<1>3. Issued = {g} /\ Issued' = {} /\ Spent' = Spent \cup {g}
  <2>1. Issued = {g}
    BY <1>2 DEF OneEach, Issued
  <2>2. Issued' = {} /\ Spent' = Spent \cup {g}
    BY <1>2, <2>1 DEF Issued, Spent
  <2>3. QED
    BY <2>1, <2>2
<1>4. \A x \in Session :
        IF x \in rec[a].seen
          THEN session'[x].status = "REVOKED" /\ session'[x].revoked
          ELSE session'[x] = session[x]
  BY RotateEffect
<1>5. \A x \in Session :
        /\ (session'[x].status = "none") <=> (session[x].status = "none")
        /\ session'[x].during = session[x].during
  <2>1. \A x \in rec[a].seen : session[x].status # "none"
    BY DEF IInv, RowsExist, Types, Transaction
  <2>2. \A x \in Session : session'[x].during = session[x].during
    BY DEF Commit, Rotate, IInv, Types, SessionRow
  <2>3. QED
    BY <1>4, <2>1, <2>2
<1>6. UNCHANGED <<Made, MadeBeside>>
  BY <1>5 DEF Made, MadeBeside
<1>7. Live' \subseteq Live \cap MadeBeside
  <2>1. SUFFICES ASSUME NEW x \in Session, Usable(x)'
                 PROVE  Usable(x) /\ x \in MadeBeside
    BY DEF Live
  <2>2. x \notin rec[a].seen /\ session'[x] = session[x]
    BY <1>4, <2>1 DEF Usable
  <2>3. Usable(x) /\ Active(x) /\ session[x].status # "none"
    BY <2>1, <2>2 DEF Usable, Active
  <2>4. session[x].during
    BY <1>1, <2>2, <2>3 DEF IInv, AllSeen
  <2>5. QED
    BY <2>3, <2>4 DEF MadeBeside, Made
<1>8. QED
  BY <1>1, <1>3, <1>6, <1>7 DEF Atomic!Recover

LEMMA CreateSessionIsAtomic ==
  ASSUME IInv, NEW x \in Session, CreateSession(x)
  PROVE  Atomic!LogIn(x)
<1>1. /\ UNCHANGED <<rotation, grant>> /\ session \in [Session -> SessionRow]
      /\ login[x].step = "reset"
  BY DEF CreateSession, IInv, Types
<1>2. x \notin Made /\ session[x].status = "none"
  BY <1>1 DEF IInv, RowsExist, Made
<1>3. /\ session'[x].status = "ACTIVE" /\ ~session'[x].revoked /\ ~session'[x].over
      /\ \A y \in Session : y # x => session'[y] = session[y]
  BY <1>1 DEF CreateSession
<1>4. Made' = Made \cup {x}
  BY <1>3 DEF Made
<1>5. Live' = Live \cup {x}
  BY <1>3 DEF Live, Usable
<1>6. MadeBeside' = MadeBeside \/ MadeBeside' = MadeBeside \cup {x}
  BY <1>2, <1>3, <1>4 DEF MadeBeside, Made
<1>7. UNCHANGED <<Issued, Spent>>
  BY <1>1 DEF Issued, Spent
<1>8. QED
  BY <1>1, <1>2, <1>4, <1>5, <1>6, <1>7 DEF Atomic!LogIn

\* What only ends one session, or leaves the sessions alone.
Ends(x) ==
  /\ \A y \in Session : y # x => session'[y] = session[y]
  /\ session'[x].during = session[x].during
  /\ (session'[x].status = "none") <=> (session[x].status = "none")
  /\ Usable(x)' => Usable(x)

LEMMA EndsIsAtomic ==
  ASSUME UNCHANGED <<rotation, grant>>, NEW x \in Session, Ends(x)
  PROVE  Atomic!End(x) \/ UNCHANGED Atomic!vars
<1>1. UNCHANGED <<Issued, Spent, Made, MadeBeside>>
  BY DEF Ends, Issued, Spent, Made, MadeBeside
<1>2. \A y \in Session : y # x => (Usable(y)' <=> Usable(y))
  BY DEF Ends, Usable
<1>3. CASE Usable(x)' <=> Usable(x)
  <2>1. Live' = Live
    BY <1>2, <1>3 DEF Live
  <2>2. QED
    BY <1>1, <2>1 DEF Atomic!vars
<1>4. CASE Usable(x) /\ ~Usable(x)'
  <2>1. x \in Live /\ Live' = Live \ {x}
    BY <1>2, <1>4 DEF Live
  <2>2. QED
    BY <1>1, <2>1 DEF Atomic!End
<1>5. QED
  BY <1>3, <1>4 DEF Ends

LEMMA StepIsAtomic ==
  ASSUME IInv, OneEach, Next
  PROVE  [Atomic!Next]_(Atomic!vars)
<1>1. ASSUME NEW g \in Grant, NEW known \in BOOLEAN, Issue(g, known)
      PROVE  Atomic!Issue(g)
  <2>1. UNCHANGED <<Made, MadeBeside, Live>>
    BY <1>1, IssueEffect DEF Made, MadeBeside, Live, Usable
  <2>2. QED
    BY <1>1, <2>1, IssueEffect DEF Atomic!Issue
<1>2. ASSUME NEW a \in Recovery, Commit(a)
      PROVE  \E g \in Grant : Atomic!Recover(g)
  BY <1>2, CommitIsAtomic
<1>3. ASSUME NEW x \in Session, CreateSession(x)
      PROVE  Atomic!LogIn(x)
  BY <1>3, CreateSessionIsAtomic
<1>4. ASSUME NEW x \in Session, SessionExpires(x)
      PROVE  Atomic!End(x) \/ UNCHANGED Atomic!vars
  <2>1. Ends(x)
    BY <1>4 DEF SessionExpires, IInv, Types, SessionRow, Ends, Usable
  <2>2. QED
    BY <1>4, <2>1, EndsIsAtomic DEF SessionExpires
<1>5. ASSUME NEW v \in Verifier, MarkExpired(v) \/ RevokeSession(v)
      PROVE  (\E x \in Session : Atomic!End(x)) \/ UNCHANGED Atomic!vars
  <2>1. /\ UNCHANGED <<rotation, grant>> /\ session \in [Session -> SessionRow]
        /\ ver[v].session \subseteq Session
    BY <1>5 DEF MarkExpired, RevokeSession, IInv, Types, Verification
  <2>2. PICK status \in {"EXPIRED", "REVOKED"} :
          \A x \in Session :
            IF x \in ver[v].session
              THEN /\ session'[x].status = status /\ session'[x].during = session[x].during
              ELSE session'[x] = session[x]
    <3>1. CASE MarkExpired(v)
      BY <2>1, <3>1 DEF MarkExpired, SessionRow
    <3>2. CASE RevokeSession(v)
      BY <2>1, <3>2 DEF RevokeSession, SessionRow
    <3>3. QED
      BY <1>5, <3>1, <3>2
  <2>3. CASE ver[v].session = {}
    <3>1. \A x \in Session : session'[x] = session[x]
      BY <2>2, <2>3
    <3>2. UNCHANGED <<Issued, Spent, Made, MadeBeside, Live>>
      BY <2>1, <3>1 DEF Issued, Spent, Made, MadeBeside, Live, Usable
    <3>3. QED
      BY <2>1, <3>2 DEF Atomic!vars
  <2>4. ASSUME NEW x \in ver[v].session
        PROVE  Ends(x)
    <3>1. session[x].status # "none" /\ x \in Session
      BY <2>1 DEF IInv, RowsExist
    <3>2. \A y \in Session : y # x => session'[y] = session[y]
      BY <2>2 DEF OneEach
    <3>3. QED
      BY <2>2, <3>1, <3>2 DEF Ends, Usable
  <2>5. QED
    BY <2>1, <2>3, <2>4, EndsIsAtomic
<1>6. CASE /\ UNCHANGED <<rotation, session>>
           /\ \A g \in Grant : grant'[g].status = grant[g].status
  <2>1. UNCHANGED <<Issued, Spent, Made, MadeBeside, Live>>
    BY <1>6 DEF Issued, Spent, Made, MadeBeside, Live, Usable
  <2>2. QED
    BY <1>6, <2>1 DEF Atomic!vars
<1>7. \/ \E g \in Grant : \E known \in BOOLEAN : Issue(g, known)
      \/ \E a \in Recovery : Commit(a)
      \/ \E x \in Session : CreateSession(x) \/ SessionExpires(x)
      \/ \E v \in Verifier : MarkExpired(v) \/ RevokeSession(v)
      \/ UNCHANGED session
  BY DEF Next, GrantExpires, Abort, Begin, RefusePassword, VerifyPassword,
         ResetAttempts, LoginFails, Select, Touch, WriteFails
<1>8. QED
  BY <1>1, <1>2, <1>3, <1>4, <1>5, <1>6, <1>7, GrantsStep DEF Atomic!Next

\* Whatever is interleaved with them, recoveries are as if each were one step.
THEOREM RecoveryIsAtomic == Spec => ImplementsAtomic
<1>1. Init => Atomic!Init
  BY DEF Init, Atomic!Init, Issued, Spent, Made, MadeBeside, Live, Usable
<1>2. IInv /\ OneEach /\ [Next]_vars => [Atomic!Next]_(Atomic!vars)
  <2>1. UNCHANGED vars => UNCHANGED Atomic!vars
    BY DEF vars, Atomic!vars, Issued, Spent, Made, MadeBeside, Live, Usable
  <2>2. QED
    BY <2>1, StepIsAtomic
<1>3. QED
  BY Invariance, OneEachInvariance, <1>1, <1>2, PTL DEF Spec, ImplementsAtomic, Atomic!Spec
=============================================================================
