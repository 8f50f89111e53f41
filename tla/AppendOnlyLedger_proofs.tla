----------------------- MODULE AppendOnlyLedger_proofs -----------------------
(***************************************************************************)
(* A theorem about AppendOnlyLedger, which every ledger that implements it *)
(* inherits.                                                               *)
(***************************************************************************)
EXTENDS AppendOnlyLedger, TLAPS

\* Each operation has one entry.
Unique ==
  \A i, j \in DOMAIN log :
    log[i].operation = log[j].operation /\ log[i].operation # Null => i = j

\* What a client was told is an entry of the operation it asked for.
Truthful ==
  \A c \in Client : told[c] # 0 =>
    told[c] \in DOMAIN log /\ log[told[c]].operation = asked[c].operation

IInv ==
  /\ log \in Seq(Entry)
  /\ asked \in [Client -> Entry \cup {Null}]
  /\ told \in [Client -> Nat]
  /\ Unique
  /\ Truthful

\* Appending keeps the entries where they are.
LEMMA Appended ==
  ASSUME NEW l \in Seq(Entry), NEW e \in Entry
  PROVE  /\ Append(l, e) \in Seq(Entry)
         /\ Len(l) \in Nat
         /\ DOMAIN l = 1..Len(l)
         /\ DOMAIN Append(l, e) = 1..(Len(l) + 1)
         /\ \A i \in DOMAIN l : Append(l, e)[i] = l[i]
         /\ Append(l, e)[Len(l) + 1] = e
OBVIOUS

LEMMA AskStep ==
  ASSUME IInv, NEW c \in Client, Ask(c)
  PROVE  IInv'
<1>1. PICK e \in Entry : asked' = [asked EXCEPT ![c] = e]
  BY DEF Ask
<1>2. told' = [told EXCEPT ![c] = 0] /\ log' = log
  BY DEF Ask
<1>3. log' \in Seq(Entry) /\ asked' \in [Client -> Entry \cup {Null}] /\ told' \in [Client -> Nat]
  BY <1>1, <1>2 DEF IInv
<1>4. Unique'
  BY <1>2 DEF IInv, Unique
<1>5. \A d \in Client : told'[d] # 0 => /\ d # c
                                         /\ told'[d] = told[d] /\ asked'[d] = asked[d]
  BY <1>1, <1>2 DEF IInv
<1>6. Truthful'
  BY <1>2, <1>5 DEF IInv, Truthful
<1>7. QED
  BY <1>3, <1>4, <1>6 DEF IInv

LEMMA TellStep ==
  ASSUME IInv, NEW c \in Client, Tell(c)
  PROVE  IInv'
<1>1. PICK i \in DOMAIN log : Answers(log[i], asked[c]) /\ told' = [told EXCEPT ![c] = i]
  BY DEF Tell
<1>2. log' = log /\ asked' = asked
  BY DEF Tell
<1>3. i \in Nat
  BY <1>1 DEF IInv
<1>4. told' \in [Client -> Nat]
  BY <1>1, <1>3 DEF IInv
<1>5. Truthful'
  BY <1>1, <1>2, <1>3 DEF IInv, Truthful, Answers
<1>6. QED
  BY <1>2, <1>4, <1>5 DEF IInv, Unique

LEMMA ExtendStep ==
  ASSUME IInv, NEW e \in Entry, Extend(e)
  PROVE  IInv'
<1> DEFINE n == Len(log) + 1
<1>1. log \in Seq(Entry) /\ log' = Append(log, e) /\ asked' = asked
  BY DEF IInv, Extend
<1>2. /\ log' \in Seq(Entry)
      /\ n \in Nat \ {0} /\ DOMAIN log = 1..(n - 1) /\ DOMAIN log' = 1..n
      /\ \A i \in DOMAIN log : log'[i] = log[i]
      /\ log'[n] = e
  BY <1>1, Appended
<1>3. \A i \in DOMAIN log : log[i].operation = e.operation => e.operation = Null
  BY DEF Extend
<1>4. Unique'
  <2>1. SUFFICES ASSUME NEW i \in 1..n, NEW j \in 1..n,
                        log'[i].operation = log'[j].operation, log'[i].operation # Null
                 PROVE  i = j
    BY <1>2 DEF Unique
  <2>2. CASE i \in DOMAIN log /\ j \in DOMAIN log
    BY <1>2, <2>1, <2>2 DEF IInv, Unique
  <2>3. CASE i = n \/ j = n
    BY <1>2, <1>3, <2>1, <2>3
  <2>4. QED
    BY <1>2, <2>1, <2>2, <2>3
<1>5. \A c \in Client : told[c] # 0 =>
        told[c] \in DOMAIN log' /\ log'[told[c]].operation = asked'[c].operation
  BY <1>1, <1>2 DEF IInv, Truthful
<1>6. CASE UNCHANGED told
  BY <1>1, <1>2, <1>4, <1>5, <1>6 DEF IInv, Truthful
<1>7. ASSUME NEW c \in Client, Answers(e, asked[c]), told' = [told EXCEPT ![c] = n]
      PROVE  IInv'
  <2>1. told' \in [Client -> Nat]
    BY <1>2, <1>7 DEF IInv
  <2>2. n \in DOMAIN log' /\ log'[n].operation = asked'[c].operation
    BY <1>1, <1>2, <1>7 DEF Answers
  <2>3. Truthful'
    BY <1>5, <1>7, <2>2 DEF IInv, Truthful
  <2>4. QED
    BY <1>1, <1>2, <1>4, <2>1, <2>3 DEF IInv
<1>8. QED
  BY <1>6, <1>7 DEF Extend

\* Two clients that were told an entry for one operation were told the same.
THEOREM AgreementOnAnswers == Spec => []AnswersAgree
<1>1. Init => IInv
  BY DEF Init, IInv, Unique, Truthful
<1>2. IInv /\ [Next]_vars => IInv'
  <2>1. CASE UNCHANGED vars
    BY <2>1 DEF vars, IInv, Unique, Truthful
  <2>2. QED
    BY <2>1, AskStep, TellStep, ExtendStep DEF Next
<1>3. IInv => AnswersAgree
  BY DEF IInv, Unique, Truthful, AnswersAgree
<1>4. QED
  BY <1>1, <1>2, <1>3, PTL DEF Spec
=============================================================================
