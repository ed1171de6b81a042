--------------------------- MODULE RecordsProofs ---------------------------
(***************************************************************************)
(* Proofs about Records, for every number of customers and requests and    *)
(* any number of stops of the server.                                      *)
(*                                                                         *)
(* Health data is written by the seed only, over two commits, and wiped by *)
(* the seed and by a revocation.  IInv says what the seed has established  *)
(* for the customer it is at: revocations come when it is over.            *)
(* RepairInv adds what it has made whole by then, PushInv that what a push *)
(* request has read is what is stored, as long as none overlaps with it.   *)
(***************************************************************************)
EXTENDS Records, FiniteSetTheorems, TLAPS

-----------------------------------------------------------------------------
(* The inductive invariant. *)

\* Nothing is there before the first start.
Untouched ==
  known = {} =>
    /\ server.step = "down"
    /\ \A c \in Customers : consent[c] = "none" /\ records[c] = 0 /\ docs[c] = 0 /\ events[c] = 0

\* Before the first commit for a customer there is no data of his; between the
\* two there is no document, and the consent is active.
SeedAt ==
  /\ server.step = "clear" => server.at > 1
  /\ server.step = "consent" => records[Current] = 0 /\ docs[Current] = 0 /\ events[Current] = 0
  /\ server.step = "consent" /\ server.at = 1 => consent[First] = "none"
  /\ server.step = "document" => docs[Current] = 0 /\ consent[Current] = "active"

IInv == TypeOK /\ Untouched /\ SeedAt /\ NoRowWithoutItsConsent

-----------------------------------------------------------------------------
(* Lemmas about the rows. *)

LEMMA Seeds ==
  /\ Len(Order) \in Nat /\ Len(Order) > 1 /\ DOMAIN Order = 1..Len(Order)
  /\ First \in Customers
  /\ \A i \in 1..Len(Order) : Order[i] \in Customers
  BY OrderAssumption DEF First

\* A push request keeps its locals and the rows typed.
LEMMA LookTyped ==
  ASSUME TypeOK, NEW r \in Requests, NEW a \in Accounts, NEW act \in {"register", "remove"},
         NEW k, k = None \/ k \in DOMAIN pushes, Look(r, a, act, k)
  PROVE  /\ req' \in [Requests -> Locals \cup {Idle}]
         /\ crossed' \subseteq Accounts
         /\ calls' \in 0..MaxCalls
<1> DEFINE status == IF k = None THEN "none" ELSE pushes[k].status
           new == [act |-> act, account |-> a, row |-> k, status |-> status]
<1>1. k \in Nat /\ status \in {"active", "revoked", "none"}
  <2>1. CASE k = None
    BY <2>1 DEF None
  <2>2. CASE k \in DOMAIN pushes /\ k # None
    <3>1. pushes \in Seq(PushRow) /\ k \in 1..Len(pushes)
      BY <2>2 DEF TypeOK
    <3>2. pushes[k] \in PushRow
      BY <3>1
    <3> QED  BY <2>2, <3>1, <3>2 DEF PushRow
  <2> QED  BY <2>1, <2>2
<1>2. new \in Locals
  BY <1>1 DEF Locals
<1>3. req' = [req EXCEPT ![r] = new]
  BY DEF Look
<1> HIDE DEF new
<1>4. req' \in [Requests -> Locals \cup {Idle}]
  BY <1>2, <1>3 DEF TypeOK
<1>5. crossed' \subseteq Accounts /\ calls' \in 0..MaxCalls
  BY BoundsAssumption DEF Look, TypeOK
<1> QED  BY <1>4, <1>5

\* Giving a row another status leaves a sequence of rows.
LEMMA StatusGiven ==
  ASSUME NEW ps \in Seq(PushRow), NEW k, NEW status \in {"active", "revoked"}
  PROVE  [ps EXCEPT ![k].status = status] \in Seq(PushRow)
<1> DEFINE row == [ps[k] EXCEPT !.status = status]
<1>1. CASE k \in DOMAIN ps
  <2>1. ps[k] \in PushRow
    BY <1>1
  <2>2. row \in PushRow
    BY <2>1 DEF PushRow
  <2> HIDE DEF row
  <2>3. [ps EXCEPT ![k] = row] \in Seq(PushRow)
    BY <1>1, <2>2
  <2> QED  BY <2>3 DEF row
<1>2. CASE k \notin DOMAIN ps
  <2> HIDE DEF row
  <2>1. [ps EXCEPT ![k] = row] = ps
    BY <1>2
  <2> QED  BY <2>1 DEF row
<1> QED  BY <1>1, <1>2

\* A push request that commits keeps the rows and its locals typed.
LEMMA PushTyped ==
  ASSUME TypeOK, NEW r \in Requests, CommitPush(r)
  PROVE  /\ pushes' \in Seq(PushRow)
         /\ last' \in [Accounts -> {"none", "register", "remove"}]
         /\ req' \in [Requests -> Locals \cup {Idle}]
<1>1. req[r] \in Locals
  BY DEF CommitPush, TypeOK
<1> DEFINE new == StatusAfter(req[r].act, req[r].status)
<1>2. /\ new \in {"active", "revoked"}
      /\ [account |-> req[r].account, status |-> "active"] \in PushRow
  BY <1>1 DEF StatusAfter, Locals, PushRow
<1> HIDE DEF new
<1>3. [pushes EXCEPT ![req[r].row].status = new] \in Seq(PushRow)
  BY <1>2, StatusGiven DEF TypeOK
<1>4. pushes' \in Seq(PushRow)
  BY <1>2, <1>3 DEF CommitPush, TypeOK, new
<1>5. last' \in [Accounts -> {"none", "register", "remove"}]
  BY <1>1 DEF CommitPush, TypeOK, Locals
<1>6. req' \in [Requests -> Locals \cup {Idle}]
  BY DEF CommitPush, TypeOK
<1> QED  BY <1>4, <1>5, <1>6

\* What is left alone: everything IInv says of customers and of the start.
Undisturbed ==
  /\ server' = server /\ known' = known
  /\ consent' = consent /\ records' = records /\ docs' = docs /\ events' = events

LEMMA UndisturbedSafe ==
  ASSUME IInv, TypeOK', Undisturbed
  PROVE  IInv'
  BY DEF IInv, Undisturbed, Untouched, SeedAt, Current, NoRowWithoutItsConsent, Consented

-----------------------------------------------------------------------------
(* Every step keeps the invariant. *)

LEMMA InvInit == Init => IInv
<1> SUFFICES ASSUME Init PROVE IInv
  OBVIOUS
<1>1. server \in [step : Steps, at : 1..Len(Order)] /\ pushes \in Seq(PushRow)
  BY Seeds DEF Init, Steps
<1>2. /\ calls \in 0..MaxCalls /\ faults \in 0..MaxFaults
      /\ req \in [Requests -> Locals \cup {Idle}]
  BY BoundsAssumption DEF Init
<1>3. TypeOK
  <2>1. /\ consent \in [Customers -> {"none", "active", "revoked"}]
        /\ {records, docs, events} \subseteq [Customers -> 0..1]
        /\ last \in [Accounts -> {"none", "register", "remove"}]
    BY DEF Init
  <2>2. cut \in BOOLEAN /\ known \subseteq Customers /\ env \in Envs
    BY Zenon DEF Init
  <2>3. active \subseteq Accounts /\ crossed \subseteq Accounts
    BY Zenon DEF Init
  <2> QED  BY <1>1, <1>2, <2>1, <2>2, <2>3 DEF TypeOK
<1>4. Untouched /\ SeedAt /\ NoRowWithoutItsConsent
  BY DEF Init, Untouched, SeedAt, NoRowWithoutItsConsent, Consented
<1> QED  BY <1>3, <1>4 DEF IInv

LEMMA InvNext == IInv /\ [Next]_vars => IInv'
<1> SUFFICES ASSUME IInv, [Next]_vars PROVE IInv'
  OBVIOUS
<1>0. /\ TypeOK /\ Untouched /\ SeedAt /\ NoRowWithoutItsConsent
      /\ Current \in Customers
      /\ server.at \in 1..Len(Order)
  BY Seeds DEF IInv, TypeOK, Current
<1>1. CASE StartEmpty
  <2>1. TypeOK'
    BY <1>0, <1>1, Seeds DEF StartEmpty, TypeOK, Steps, Goto
  <2>2. Untouched' /\ SeedAt'
    BY <1>0, <1>1, Seeds DEF StartEmpty, TypeOK, Untouched, SeedAt, Current, Goto, First
  <2>3. NoRowWithoutItsConsent'
    BY <1>0, <1>1, Seeds DEF StartEmpty, TypeOK, SeedAt, Current, NoRowWithoutItsConsent, Consented, Goto
  <2> QED  BY <2>1, <2>2, <2>3 DEF IInv
<1>2. CASE StartAgain
  <2>1. TypeOK'
    BY <1>0, <1>2, Seeds DEF StartAgain, TypeOK, Steps, Goto
  <2>2. Untouched' /\ SeedAt'
    BY <1>0, <1>2, Seeds DEF StartAgain, TypeOK, Untouched, SeedAt, Current, Goto
  <2>3. NoRowWithoutItsConsent'
    BY <1>0, <1>2, Seeds DEF StartAgain, TypeOK, SeedAt, Current, NoRowWithoutItsConsent, Consented, Goto
  <2> QED  BY <2>1, <2>2, <2>3 DEF IInv
<1>3. CASE ClearCustomer
  <2>1. TypeOK'
    BY <1>0, <1>3, Seeds DEF ClearCustomer, TypeOK, Steps, Goto
  <2>2. Untouched' /\ SeedAt'
    BY <1>0, <1>3, Seeds DEF ClearCustomer, TypeOK, Untouched, SeedAt, Current, Goto
  <2>3. NoRowWithoutItsConsent'
    BY <1>0, <1>3, Seeds DEF ClearCustomer, TypeOK, SeedAt, Current, NoRowWithoutItsConsent, Consented, Goto
  <2> QED  BY <2>1, <2>2, <2>3 DEF IInv
<1>4. CASE CommitConsent
  <2>1. TypeOK'
    BY <1>0, <1>4, Seeds DEF CommitConsent, TypeOK, Steps, Goto, SeedAt, Current
  <2>2. Untouched' /\ SeedAt'
    BY <1>0, <1>4, Seeds DEF CommitConsent, TypeOK, Untouched, SeedAt, Current, Goto
  <2>3. NoRowWithoutItsConsent'
    BY <1>0, <1>4, Seeds DEF CommitConsent, TypeOK, SeedAt, Current, NoRowWithoutItsConsent, Consented, Goto
  <2> QED  BY <2>1, <2>2, <2>3 DEF IInv
<1>5. CASE CommitFirstDocument
  <2>1. TypeOK'
    BY <1>0, <1>5, Seeds DEF CommitFirstDocument, TypeOK, Steps, Goto, SeedAt, Current, First
  <2>2. Untouched' /\ SeedAt'
    BY <1>0, <1>5, Seeds DEF CommitFirstDocument, TypeOK, Untouched, SeedAt, Current, Goto, First
  <2>3. NoRowWithoutItsConsent'
    BY <1>0, <1>5, Seeds DEF CommitFirstDocument, TypeOK, SeedAt, Current, NoRowWithoutItsConsent, Consented, Goto, First
  <2> QED  BY <2>1, <2>2, <2>3 DEF IInv
<1>6. CASE CommitDocument
  <2>1. TypeOK'
    BY <1>0, <1>6, Seeds DEF CommitDocument, TypeOK, Steps, Goto, SeedAt, Current
  <2>2. Untouched' /\ SeedAt'
    BY <1>0, <1>6, Seeds DEF CommitDocument, TypeOK, Untouched, SeedAt, Current, Goto
  <2>3. NoRowWithoutItsConsent'
    BY <1>0, <1>6, Seeds DEF CommitDocument, TypeOK, SeedAt, Current, NoRowWithoutItsConsent, Consented, Goto
  <2> QED  BY <2>1, <2>2, <2>3 DEF IInv
<1>7. CASE CommitAccounts
  <2>1. TypeOK'
    BY <1>0, <1>7, Seeds DEF CommitAccounts, TypeOK, Steps, Goto
  <2>2. Untouched' /\ SeedAt'
    BY <1>0, <1>7, Seeds DEF CommitAccounts, TypeOK, Untouched, SeedAt, Current, Goto
  <2>3. NoRowWithoutItsConsent'
    BY <1>0, <1>7, Seeds DEF CommitAccounts, TypeOK, SeedAt, Current, NoRowWithoutItsConsent, Consented, Goto
  <2> QED  BY <2>1, <2>2, <2>3 DEF IInv
<1>8. CASE Stop
  <2>1. TypeOK'
    BY <1>0, <1>8, Seeds, BoundsAssumption DEF Stop, TypeOK, Steps, Goto
  <2>2. Untouched' /\ SeedAt'
    BY <1>0, <1>8, Seeds DEF Stop, TypeOK, Untouched, SeedAt, Current, Goto
  <2>3. NoRowWithoutItsConsent'
    BY <1>0, <1>8, Seeds DEF Stop, TypeOK, SeedAt, Current, NoRowWithoutItsConsent, Consented, Goto
  <2> QED  BY <2>1, <2>2, <2>3 DEF IInv
<1>9. ASSUME NEW who \in Callers, NEW c \in Customers, RevokeConsent(who, c) PROVE IInv'
  <2>1. TypeOK'
    BY <1>0, <1>9 DEF RevokeConsent, TypeOK
  <2>2. Untouched' /\ SeedAt'
    BY <1>0, <1>9 DEF RevokeConsent, Up, Untouched, SeedAt
  <2>3. NoRowWithoutItsConsent'
    BY <1>0, <1>9 DEF RevokeConsent, TypeOK, NoRowWithoutItsConsent, Consented
  <2> QED  BY <2>1, <2>2, <2>3 DEF IInv
<1>10. ASSUME NEW a \in Accounts, CloseAccount(a) PROVE IInv'
  <2>1. TypeOK' /\ Undisturbed
    BY <1>0, <1>10, BoundsAssumption DEF CloseAccount, TypeOK, Undisturbed
  <2> QED  BY <2>1, UndisturbedSafe
<1>11. ASSUME NEW r \in Requests, NEW a \in Accounts,
              LookToRegister(r, a) \/ LookToRemove(r, a)
       PROVE  IInv'
  <2>1. PICK act \in {"register", "remove"}, k \in {None} \cup DOMAIN pushes :
          Look(r, a, act, k)
    BY <1>11 DEF LookToRegister, LookToRemove, RowsOf
  <2>2. TypeOK'
    BY <1>0, <2>1, LookTyped DEF Look, TypeOK
  <2>3. Undisturbed
    BY <2>1 DEF Look, Undisturbed
  <2> QED  BY <2>2, <2>3, UndisturbedSafe
<1>12. ASSUME NEW r \in Requests, CommitPush(r) PROVE IInv'
  <2>1. TypeOK'
    BY <1>0, <1>12, PushTyped DEF CommitPush, TypeOK
  <2>2. Undisturbed
    BY <1>12 DEF CommitPush, Undisturbed
  <2> QED  BY <2>1, <2>2, UndisturbedSafe
<1>13. CASE Quiet \/ UNCHANGED vars
  <2>1. TypeOK' /\ Undisturbed
    BY <1>0, <1>13 DEF Quiet, vars, TypeOK, Undisturbed
  <2> QED  BY <2>1, UndisturbedSafe
<1> QED
  BY <1>1, <1>2, <1>3, <1>4, <1>5, <1>6, <1>7, <1>8, <1>9, <1>10, <1>11, <1>12, <1>13
  DEF Next, Startup

LEMMA InvCorrect == Spec => []IInv
  BY InvInit, InvNext, PTL DEF Spec

\* Every variable keeps its type; in particular no customer's health data is ever
\* stored twice, which the seed makes sure of by clearing before it adds.
THEOREM RecordsTypeCorrect == Spec => []TypeOK
<1>1. IInv => TypeOK
  BY DEF IInv
<1> QED  BY <1>1, InvCorrect, PTL

\* The rows that name a consent, health records and documents, are there only while it
\* is active, however often the server is stopped in the middle of its start.  Health
\* events name none and are no part of this (seed.py, privacy/service.py).
THEOREM ConsentGuardsData == Spec => []NoRowWithoutItsConsent
<1>1. IInv => NoRowWithoutItsConsent
  BY DEF IInv
<1> QED  BY <1>1, InvCorrect, PTL

\* Nothing but the seed makes a revoked consent active again, and it never does so
\* for the first customer.
THEOREM OnlySeedUndoesRevocation == Spec => RevokedUntilRestart
<1> DEFINE Step == \A c \in Customers :
             consent[c] = "revoked" /\ consent'[c] # "revoked"
               => server.step = "consent" /\ c # First
<1>1. IInv /\ [Next]_vars => [Step]_vars
  <2> SUFFICES ASSUME IInv, Next, NEW c \in Customers,
                      consent[c] = "revoked", consent'[c] # "revoked"
               PROVE  server.step = "consent" /\ c # First
    OBVIOUS
  <2>0. consent \in [Customers -> {"none", "active", "revoked"}] /\ Current \in Customers
    BY Seeds DEF IInv, TypeOK, Current
  <2>1. CASE CommitConsent
    <3>1. c = Current /\ server.step = "consent"
      BY <2>0, <2>1 DEF CommitConsent
    <3>2. Current = First => server.at = 1
      <4>1. server.at \in 1..Len(Order) /\ 1 \in 1..Len(Order)
        BY Seeds DEF IInv, TypeOK
      <4> QED  BY <4>1, OrderAssumption, Seeds DEF Current, First
    <3> QED  BY <3>1, <3>2 DEF IInv, SeedAt
  <2>2. ASSUME NEW who \in Callers, NEW d \in Customers, RevokeConsent(who, d) PROVE FALSE
    BY <2>0, <2>2 DEF RevokeConsent
  <2>3. CASE consent' = consent
    BY <2>3
  <2> QED
    BY <2>1, <2>2, <2>3
    DEF Next, Startup, StartEmpty, StartAgain, ClearCustomer, CommitFirstDocument,
        CommitDocument, CommitAccounts, Stop, Quiet, vars, CloseAccount, LookToRegister,
        LookToRemove, Look, CommitPush
<1> QED  BY <1>1, InvCorrect, PTL DEF Spec, RevokedUntilRestart

-----------------------------------------------------------------------------
(* What a start has made good: of the first customer, whom it seeds once,  *)
(* of those it has passed, and of the one it is at.                        *)

Whole(c) ==
  /\ events[c] = 1
  /\ consent[c] = "revoked" \/ (records[c] = 1 /\ docs[c] = 1)

SeedingFirst == server.step \in {"consent", "document"} /\ server.at = 1

FirstDone == known # {} /\ ~SeedingFirst => cut \/ Whole(First)

Passed(i) ==
  \/ server.step \in {"accounts", "up"}
  \/ server.step \in {"clear", "consent", "document"} /\ i < server.at

RestDone == \A i \in 2..Len(Order) : Passed(i) => Whole(Order[i])

RepairInv ==
  /\ IInv /\ FirstDone /\ RestDone
  /\ server.step = "document" => records[Current] = 1 /\ events[Current] = 1

\* The data of one customer changes: that of no other does.
LEMMA OthersWhole ==
  ASSUME TypeOK, NEW c \in Customers,
         \A d \in Customers : d # c => /\ consent'[d] = consent[d]
                                       /\ records'[d] = records[d] /\ docs'[d] = docs[d]
                                       /\ events'[d] = events[d]
  PROVE  \A d \in Customers : d # c => (Whole(d)' <=> Whole(d))
  BY DEF Whole

LEMMA RepairInit == Init => RepairInv
<1> SUFFICES ASSUME Init PROVE RepairInv
  OBVIOUS
<1>1. server.step = "down" /\ known = {}
  BY DEF Init
<1> QED  BY <1>1, InvInit DEF RepairInv, FirstDone, RestDone, Passed

LEMMA RepairNext == RepairInv /\ [Next]_vars => RepairInv'
<1> SUFFICES ASSUME RepairInv, [Next]_vars
             PROVE  FirstDone' /\ RestDone' /\ (server.step = "document" => records[Current] = 1 /\ events[Current] = 1)'
  BY InvNext DEF RepairInv
<1>0. /\ TypeOK /\ Untouched /\ SeedAt /\ FirstDone /\ RestDone
      /\ server.step = "document" => records[Current] = 1 /\ events[Current] = 1
      /\ Current \in Customers /\ server.at \in 1..Len(Order) /\ Len(Order) \in Nat
  BY Seeds DEF RepairInv, IInv, TypeOK, Current
<1>1. /\ \A i, k \in 1..Len(Order) : Order[i] = Order[k] => i = k
      /\ \A i \in 1..Len(Order) : Order[i] \in Customers
      /\ 1 \in 1..Len(Order) /\ First = Order[1] /\ First \in Customers
  BY Seeds, OrderAssumption DEF First
<1>2. CASE StartEmpty
  <2>1. server'.step = "consent" /\ server'.at = 1
    BY <1>2 DEF StartEmpty, Goto
  <2> QED  BY <2>1 DEF FirstDone, SeedingFirst, RestDone, Passed
<1>3. CASE StartAgain
  <2>1. /\ server'.step = "clear" /\ server'.at = 2 /\ server.step = "down" /\ known # {}
        /\ UNCHANGED <<known, consent, records, docs, events, cut>>
    BY <1>3 DEF StartAgain, Goto
  <2> QED  BY <1>0, <2>1 DEF FirstDone, SeedingFirst, RestDone, Passed, Whole
<1>4. CASE ClearCustomer
  <2>1. /\ server'.step = "consent" /\ server'.at = server.at /\ server.step = "clear"
        /\ known # {} /\ cut' = cut
        /\ server.at > 1
    BY <1>0, <1>4 DEF ClearCustomer, Goto, SeedAt, Untouched
  <2>2. \A d \in Customers : d # Current => (Whole(d)' <=> Whole(d))
    BY <1>0, <1>4, OthersWhole DEF ClearCustomer, TypeOK
  <2>3. Current # First /\ \A i \in 2..Len(Order) : i < server.at => Order[i] # Current
    BY <1>0, <1>1, <2>1 DEF Current
  <2> QED  BY <1>0, <1>1, <2>1, <2>2, <2>3 DEF FirstDone, SeedingFirst, RestDone, Passed
<1>5. CASE CommitConsent
  <2>1. /\ server'.step = "document" /\ server'.at = server.at /\ server.step = "consent"
        /\ known' = known /\ cut' = cut /\ records[Current] = 0 /\ events[Current] = 0
        /\ records'[Current] = 1 /\ events'[Current] = 1 /\ Current' = Current
    BY <1>0, <1>5 DEF CommitConsent, Goto, SeedAt, TypeOK, Current
  <2>2. \A d \in Customers : d # Current => (Whole(d)' <=> Whole(d))
    BY <1>0, <1>5, OthersWhole DEF CommitConsent, TypeOK
  <2>3. /\ Current = First <=> server.at = 1
        /\ \A i \in 2..Len(Order) : i < server.at => Order[i] # Current
    BY <1>0, <1>1 DEF Current
  <2> QED  BY <1>0, <1>1, <2>1, <2>2, <2>3 DEF FirstDone, SeedingFirst, RestDone, Passed
<1>6. CASE CommitFirstDocument
  <2>1. /\ server'.step = "clear" /\ server'.at = 2 /\ server.step = "document"
        /\ server.at = 1 /\ Current = First
        /\ records[First] = 1 /\ docs[First] = 0 /\ events[First] = 1
    BY <1>0, <1>6 DEF CommitFirstDocument, Goto, SeedAt, Current, First
  <2>2. records'[First] = 1 /\ docs'[First] = 1 /\ events'[First] = 1
    BY <1>0, <1>1, <1>6, <2>1 DEF CommitFirstDocument, TypeOK
  <2> QED  BY <2>1, <2>2 DEF FirstDone, RestDone, Passed, Whole
<1>7. CASE CommitDocument
  <2>1. /\ server.step = "document" /\ server.at > 1 /\ known' = known /\ cut' = cut
        /\ records[Current] = 1 /\ docs[Current] = 0 /\ events[Current] = 1
        /\ \/ server'.step = "clear" /\ server'.at = server.at + 1
           \/ server'.step = "accounts" /\ server.at >= Len(Order)
    BY <1>0, <1>7 DEF CommitDocument, Goto, SeedAt
  <2>2. records'[Current] = 1 /\ docs'[Current] = 1 /\ events'[Current] = 1
    BY <1>0, <1>7, <2>1 DEF CommitDocument, TypeOK
  <2>3. \A d \in Customers : d # Current => (Whole(d)' <=> Whole(d))
    BY <1>0, <1>7, OthersWhole DEF CommitDocument, TypeOK
  <2>4. Current # First
    BY <1>0, <1>1, <2>1 DEF Current
  <2>5. FirstDone'
    BY <1>0, <1>1, <2>1, <2>3, <2>4 DEF FirstDone, SeedingFirst
  <2>6. ASSUME NEW i \in 2..Len(Order), Passed(i)' PROVE Whole(Order[i])'
    <3>1. CASE i = server.at
      BY <2>2, <3>1 DEF Whole, Current
    <3>2. CASE i # server.at
      <4>1. Order[i] \in Customers /\ Order[i] # Current
        BY <1>0, <1>1, <3>2 DEF Current
      <4>2. i < server.at
        BY <1>0, <2>1, <2>6, <3>2 DEF Passed
      <4>3. Whole(Order[i])
        BY <1>0, <2>1, <4>2 DEF RestDone, Passed
      <4> QED  BY <2>3, <4>1, <4>3
    <3> QED  BY <3>1, <3>2
  <2> QED  BY <2>1, <2>5, <2>6 DEF RestDone
<1>8. CASE CommitAccounts
  <2>1. /\ server'.step = "up" /\ server'.at = 1 /\ server.step = "accounts"
        /\ UNCHANGED <<known, consent, records, docs, events, cut>>
    BY <1>8 DEF CommitAccounts, Goto
  <2> QED  BY <1>0, <2>1 DEF FirstDone, SeedingFirst, RestDone, Passed, Whole
<1>9. CASE Stop
  <2>1. /\ server'.step = "down"
        /\ UNCHANGED <<known, consent, records, docs, events>>
    BY <1>9 DEF Stop, Goto
  <2>2. (cut \/ SeedingFirst) => cut'
    BY <1>9 DEF Stop, SeedingFirst
  <2> QED  BY <1>0, <2>1, <2>2 DEF FirstDone, SeedingFirst, RestDone, Passed, Whole
<1>10. ASSUME NEW who \in Callers, NEW c \in Customers, RevokeConsent(who, c)
       PROVE  FirstDone' /\ RestDone' /\ (server.step = "document" => records[Current] = 1 /\ events[Current] = 1)'
  <2>1. /\ server' = server /\ server.step = "up" /\ known' = known /\ cut' = cut
        /\ consent'[c] = "revoked"
    BY <1>0, <1>10 DEF RevokeConsent, Up, TypeOK
  <2>2. \A d \in Customers : d # c => (Whole(d)' <=> Whole(d))
    BY <1>0, <1>10, OthersWhole DEF RevokeConsent, TypeOK
  <2>3. Whole(c) => Whole(c)'
    BY <1>10, <2>1 DEF RevokeConsent, Whole
  <2>4. \A d \in Customers : Whole(d) => Whole(d)'
    BY <2>2, <2>3
  <2> QED  BY <1>0, <1>1, <2>1, <2>4 DEF FirstDone, SeedingFirst, RestDone, Passed
<1>11. CASE Undisturbed /\ cut' = cut
  BY <1>0, <1>11
  DEF Undisturbed, FirstDone, SeedingFirst, RestDone, Passed, Whole, Current
<1> QED
  BY <1>2, <1>3, <1>4, <1>5, <1>6, <1>7, <1>8, <1>9, <1>10, <1>11
  DEF Next, Startup, CloseAccount, LookToRegister, LookToRemove, Look, CommitPush, Quiet,
      vars, Undisturbed

\* A server that is up has every customer's data whole and once, but for what he
\* revoked, however many starts were cut short and wherever; only the first customer's
\* can stay incomplete, because no later start seeds him again.
THEOREM StartsRepair == Spec => []Repaired
<1>1. RepairInv => Repaired
  <2> SUFFICES ASSUME RepairInv, Up, NEW c \in Customers
               PROVE  Whole(c) \/ (c = First /\ cut)
    BY DEF Repaired, Whole
  <2>1. PICK i \in 1..Len(Order) : c = Order[i]
    BY Seeds DEF Customers
  <2>2. known # {} /\ ~SeedingFirst
    BY DEF RepairInv, IInv, Untouched, Up, SeedingFirst
  <2>3. CASE i = 1
    BY <2>1, <2>2, <2>3 DEF RepairInv, FirstDone, First
  <2>4. CASE i # 1
    <3>1. i \in 2..Len(Order) /\ Passed(i)
      BY <2>4, Seeds DEF Passed, Up
    <3> QED  BY <2>1, <3>1 DEF RepairInv, RestDone
  <2> QED  BY <2>3, <2>4
<1>2. RepairInv /\ [Next]_vars => RepairInv'
  BY RepairNext
<1> QED  BY <1>1, <1>2, RepairInit, PTL DEF Spec

-----------------------------------------------------------------------------
(* Push subscriptions of an account whose requests never overlapped.       *)

InFlight(a) == {r \in Requests : req[r] # Idle /\ req[r].account = a}

\* What a request has read is still so when it commits.
ReadIsCurrent(r, a) ==
  IF req[r].row = None THEN RowsOf(a) = {} /\ req[r].act = "register"
  ELSE req[r].row \in RowsOf(a) /\ pushes[req[r].row].status = req[r].status

Tidy(a) ==
  /\ \A r, q \in InFlight(a) : r = q
  /\ \A k, l \in RowsOf(a) : k = l
  /\ \A r \in InFlight(a) : ReadIsCurrent(r, a)
  /\ (\E k \in RowsOf(a) : pushes[k].status = "active") <=> last[a] = "register"

\* A row stays with its account: true of every account, also of crossed ones.
RowsAreOwn ==
  \A r \in Requests :
    req[r] # Idle /\ req[r].row # None => req[r].row \in RowsOf(req[r].account)

PushInv == IInv /\ RowsAreOwn /\ \A a \in Accounts \ crossed : Tidy(a)

LEMMA TidyStays ==
  ASSUME PushInv, UNCHANGED <<pushes, last, crossed>>,
         req' = req \/ \A r \in Requests : req'[r] = Idle
  PROVE  RowsAreOwn' /\ \A a \in Accounts \ crossed' : Tidy(a)'
<1>1. \A a : RowsOf(a)' = RowsOf(a)
  BY DEF RowsOf
<1>2. RowsAreOwn'
  BY <1>1 DEF PushInv, RowsAreOwn
<1>3. ASSUME NEW a \in Accounts \ crossed' PROVE Tidy(a)'
  <2>1. Tidy(a) /\ InFlight(a)' \subseteq InFlight(a)
    BY DEF PushInv, InFlight
  <2>2. \A r \in InFlight(a)' : req'[r] = req[r]
    BY DEF InFlight
  <2>3. \A r \in InFlight(a)' : ReadIsCurrent(r, a)'
    BY <1>1, <2>1, <2>2 DEF Tidy, ReadIsCurrent
  <2> QED  BY <1>1, <2>1, <2>3 DEF Tidy
<1> QED  BY <1>2, <1>3

LEMMA PushInit == Init => PushInv
<1> SUFFICES ASSUME Init PROVE RowsAreOwn /\ \A a \in Accounts \ crossed : Tidy(a)
  BY InvInit DEF PushInv
<1>1. \A a : RowsOf(a) = {} /\ InFlight(a) = {}
  BY DEF Init, RowsOf, InFlight
<1>2. \A a \in Accounts : last[a] = "none"
  BY DEF Init
<1> QED  BY <1>1, <1>2 DEF Tidy, RowsAreOwn, InFlight

\* A request reads its account's row.
LEMMA LookTidy ==
  ASSUME PushInv, NEW r \in Requests, NEW b \in Accounts,
         LookToRegister(r, b) \/ LookToRemove(r, b)
  PROVE  RowsAreOwn' /\ \A a \in Accounts \ crossed' : Tidy(a)'
<1>0. TypeOK /\ req \in [Requests -> Locals \cup {Idle}]
  BY DEF PushInv, IInv, TypeOK
<1>1. PICK act \in {"register", "remove"}, k \in {None} \cup RowsOf(b) :
        /\ Look(r, b, act, k)
        /\ k = None => RowsOf(b) = {} /\ act = "register"
  <2>1. None \notin RowsOf(b)
    BY <1>0 DEF TypeOK, RowsOf, None
  <2> QED  BY <2>1 DEF LookToRegister, LookToRemove
<1> DEFINE status == IF k = None THEN "none" ELSE pushes[k].status
           new == [act |-> act, account |-> b, row |-> k, status |-> status]
<1>2. /\ req' = [req EXCEPT ![r] = new] /\ req[r] = Idle
      /\ UNCHANGED <<pushes, last>>
      /\ crossed \subseteq crossed'
      /\ (\E q \in Requests : req[q] # Idle /\ req[q].account = b) => b \in crossed'
  BY <1>1 DEF Look
<1>3. /\ new.account = b /\ new.row = k /\ new.act = act /\ new.status = status
      /\ new # Idle
  BY DEF Idle
<1>4. k # None => status = pushes[k].status
  OBVIOUS
<1> HIDE DEF new, status
<1>5. req'[r] = new /\ \A q \in Requests : q # r => req'[q] = req[q]
  BY <1>0, <1>2
<1>6. ASSUME NEW a \in Accounts \ crossed' PROVE Tidy(a)'
  <2>1. Tidy(a) /\ RowsOf(a)' = RowsOf(a)
    BY <1>2 DEF PushInv, RowsOf
  <2>2. CASE a = b
    <3>1. InFlight(a) = {}
      BY <1>2, <2>2 DEF InFlight
    <3>2. InFlight(a)' = {r}
      BY <1>3, <1>5, <2>2, <3>1 DEF InFlight
    <3>3. ReadIsCurrent(r, a)'
      BY <1>1, <1>2, <1>3, <1>4, <1>5, <2>1, <2>2 DEF ReadIsCurrent
    <3> QED  BY <1>2, <2>1, <3>2, <3>3 DEF Tidy
  <2>3. CASE a # b
    <3>1. InFlight(a)' = InFlight(a) /\ r \notin InFlight(a)
      BY <1>2, <1>3, <1>5, <2>3 DEF InFlight
    <3>2. \A q \in InFlight(a) : ReadIsCurrent(q, a)'
      BY <1>2, <1>5, <2>1, <3>1 DEF Tidy, ReadIsCurrent, InFlight
    <3> QED  BY <1>2, <2>1, <3>1, <3>2 DEF Tidy
  <2> QED  BY <2>2, <2>3
<1>7. RowsAreOwn'
  <2>1. \A a : RowsOf(a)' = RowsOf(a)
    BY <1>2 DEF RowsOf
  <2> QED  BY <1>1, <1>3, <1>5, <2>1 DEF PushInv, RowsAreOwn
<1> QED  BY <1>6, <1>7

\* A request commits: the rows of another account are none of its business.
LEMMA CommitTidy ==
  ASSUME PushInv, NEW r \in Requests, CommitPush(r)
  PROVE  RowsAreOwn' /\ \A a \in Accounts \ crossed' : Tidy(a)'
<1> DEFINE b == req[r].account
           k == req[r].row
           new == StatusAfter(req[r].act, req[r].status)
<1>0. /\ TypeOK /\ pushes \in Seq(PushRow) /\ req[r] \in Locals /\ b \in Accounts
      /\ req[r].act \in {"register", "remove"} /\ k \in Nat
      /\ r \in InFlight(b) /\ None \notin DOMAIN pushes
  BY DEF PushInv, IInv, TypeOK, CommitPush, Locals, InFlight, None
<1>1. /\ new = IF req[r].act = "register" THEN "active" ELSE "revoked"
      /\ crossed' = crossed /\ last' = [last EXCEPT ![b] = req[r].act]
      /\ pushes' = IF k = None THEN Append(pushes, [account |-> b, status |-> "active"])
                   ELSE IF new = req[r].status THEN pushes
                   ELSE [pushes EXCEPT ![k].status = new]
  BY DEF CommitPush, StatusAfter
<1>2. /\ req'[r] = Idle /\ \A q \in Requests : q # r => req'[q] = req[q]
      /\ last'[b] = req[r].act /\ \A a \in Accounts : a # b => last'[a] = last[a]
  BY <1>0, <1>1 DEF CommitPush, TypeOK
<1> DEFINE act == req[r].act
<1>3. \A a : InFlight(a)' = InFlight(a) \ {r}
  BY <1>2 DEF InFlight
<1>4. ASSUME k # None, k \in DOMAIN pushes, new # req[r].status
      PROVE  /\ DOMAIN pushes' = DOMAIN pushes
             /\ pushes'[k].account = pushes[k].account /\ pushes'[k].status = new
             /\ \A l \in DOMAIN pushes : l # k => pushes'[l] = pushes[l]
  <2>1. pushes' = [pushes EXCEPT ![k].status = new] /\ pushes[k] \in PushRow
    BY <1>0, <1>1, <1>4
  <2> HIDE DEF k, new
  <2> QED  BY <1>0, <1>4, <2>1 DEF PushRow
<1>5. ASSUME k = None
      PROVE  \E n : /\ n \notin DOMAIN pushes /\ n # None
                    /\ DOMAIN pushes' = DOMAIN pushes \cup {n}
                    /\ pushes'[n].account = b /\ pushes'[n].status = "active"
                    /\ \A l \in DOMAIN pushes : pushes'[l] = pushes[l]
  <2> DEFINE n == Len(pushes) + 1
             row == [account |-> b, status |-> "active"]
  <2>1. pushes' = Append(pushes, row) /\ row.account = b /\ row.status = "active"
    BY <1>1, <1>5
  <2> HIDE DEF row, k, b
  <2>2. /\ n \notin DOMAIN pushes /\ n # None /\ DOMAIN pushes' = DOMAIN pushes \cup {n}
        /\ pushes'[n] = row /\ \A l \in DOMAIN pushes : pushes'[l] = pushes[l]
    BY <1>0, <2>1 DEF None
  <2> QED  BY <2>1, <2>2
<1>6. ASSUME NEW a \in Accounts \ crossed', a = b PROVE Tidy(a)'
  <2>1. /\ Tidy(a) /\ InFlight(a) = {r} /\ InFlight(a)' = {} /\ ReadIsCurrent(r, a)
    BY <1>0, <1>1, <1>3, <1>6 DEF PushInv, Tidy
  <2>2. /\ \A i, j \in RowsOf(a)' : i = j
        /\ (\E i \in RowsOf(a)' : pushes'[i].status = "active") <=> act = "register"
    <3>1. CASE k = None
      <4>1. RowsOf(a) = {} /\ act = "register"
        BY <2>1, <3>1 DEF ReadIsCurrent
      <4>2. PICK n : /\ DOMAIN pushes' = DOMAIN pushes \cup {n}
                     /\ pushes'[n].account = b /\ pushes'[n].status = "active"
                     /\ \A l \in DOMAIN pushes : pushes'[l] = pushes[l]
        BY <1>5, <3>1
      <4>3. RowsOf(a)' = {n}
        BY <1>6, <4>1, <4>2 DEF RowsOf
      <4> QED  BY <4>1, <4>2, <4>3
    <3>2. CASE k # None
      <4>1. /\ k \in RowsOf(a) /\ k \in DOMAIN pushes /\ pushes[k].status = req[r].status
            /\ RowsOf(a) = {k}
        BY <2>1, <3>2 DEF ReadIsCurrent, RowsOf, Tidy
      <4>2. RowsOf(a)' = RowsOf(a) /\ pushes'[k].status = new
        <5>1. CASE new = req[r].status
          BY <1>1, <3>2, <4>1, <5>1 DEF RowsOf
        <5>2. CASE new # req[r].status
          <6>1. \A l \in DOMAIN pushes : pushes'[l].account = pushes[l].account
            BY <1>4, <3>2, <4>1, <5>2
          <6> QED  BY <1>4, <3>2, <4>1, <5>2, <6>1 DEF RowsOf
        <5> QED  BY <5>1, <5>2
      <4>3. new = "active" <=> act = "register"
        BY <1>1
      <4> QED  BY <4>1, <4>2, <4>3
    <3> QED  BY <3>1, <3>2
  <2> QED  BY <1>2, <1>6, <2>1, <2>2 DEF Tidy
<1>7. ASSUME NEW a \in Accounts \ crossed', a # b PROVE Tidy(a)'
  <2>1. Tidy(a) /\ InFlight(a)' = InFlight(a) /\ r \notin InFlight(a)
    BY <1>1, <1>3, <1>7 DEF PushInv, InFlight
  <2>2. RowsOf(a)' = RowsOf(a) /\ \A l \in RowsOf(a) : pushes'[l] = pushes[l]
    <3>1. CASE k = None
      BY <1>5, <1>7, <3>1 DEF RowsOf
    <3>2. CASE k # None /\ k \in DOMAIN pushes /\ new # req[r].status
      <4>1. pushes[k].account = b
        BY <1>0, <3>2 DEF PushInv, RowsAreOwn, RowsOf, InFlight
      <4>2. \A l \in DOMAIN pushes : pushes'[l].account = pushes[l].account
        BY <1>4, <3>2
      <4> QED  BY <1>4, <1>7, <3>2, <4>1, <4>2 DEF RowsOf
    <3>3. CASE k # None /\ ~(k \in DOMAIN pushes /\ new # req[r].status)
      <4>1. pushes' = pushes
        BY <1>0, <1>1, <3>3
      <4> QED  BY <4>1 DEF RowsOf
    <3> QED  BY <3>1, <3>2, <3>3
  <2>3. \A q \in InFlight(a) : ReadIsCurrent(q, a)'
    BY <1>2, <2>1, <2>2 DEF Tidy, ReadIsCurrent, InFlight
  <2> QED  BY <1>2, <1>7, <2>1, <2>2, <2>3 DEF Tidy
<1>8. \A a : RowsOf(a) \subseteq RowsOf(a)'
  <2>1. CASE k = None
    BY <1>5, <2>1 DEF RowsOf
  <2>2. CASE k # None /\ k \in DOMAIN pushes /\ new # req[r].status
    <3>1. \A l \in DOMAIN pushes : pushes'[l].account = pushes[l].account
      BY <1>4, <2>2
    <3> QED  BY <1>4, <2>2, <3>1 DEF RowsOf
  <2>3. CASE k # None /\ ~(k \in DOMAIN pushes /\ new # req[r].status)
    <3>1. pushes' = pushes
      BY <1>0, <1>1, <2>3
    <3> QED  BY <3>1 DEF RowsOf
  <2> QED  BY <2>1, <2>2, <2>3
<1>9. RowsAreOwn'
  BY <1>2, <1>8 DEF PushInv, RowsAreOwn
<1> QED  BY <1>6, <1>7, <1>9

LEMMA PushNext == PushInv /\ [Next]_vars => PushInv'
<1> SUFFICES ASSUME PushInv, [Next]_vars
             PROVE  RowsAreOwn' /\ \A a \in Accounts \ crossed' : Tidy(a)'
  BY InvNext DEF PushInv
<1>1. ASSUME NEW r \in Requests, NEW a \in Accounts,
             LookToRegister(r, a) \/ LookToRemove(r, a)
      PROVE  RowsAreOwn' /\ \A b \in Accounts \ crossed' : Tidy(b)'
  BY <1>1, LookTidy
<1>2. ASSUME NEW r \in Requests, CommitPush(r)
      PROVE  RowsAreOwn' /\ \A b \in Accounts \ crossed' : Tidy(b)'
  BY <1>2, CommitTidy
<1>3. CASE /\ UNCHANGED <<pushes, last, crossed>>
           /\ req' = req \/ \A r \in Requests : req'[r] = Idle
  BY <1>3, TidyStays
<1>4. CASE Startup \/ Quiet \/ UNCHANGED vars
  BY <1>3, <1>4
  DEF Startup, StartEmpty, StartAgain, ClearCustomer, CommitConsent, CommitFirstDocument,
      CommitDocument, CommitAccounts, Quiet, vars
<1>5. CASE Stop
  BY <1>3, <1>5 DEF Stop
<1>6. ASSUME NEW who \in Callers, NEW c \in Customers, RevokeConsent(who, c)
      PROVE  UNCHANGED <<pushes, last, crossed, req>>
  BY <1>6 DEF RevokeConsent
<1>7. ASSUME NEW a \in Accounts, CloseAccount(a)
      PROVE  UNCHANGED <<pushes, last, crossed, req>>
  BY <1>7 DEF CloseAccount
<1> QED  BY <1>1, <1>2, <1>3, <1>4, <1>5, <1>6, <1>7 DEF Next

LEMMA PushCorrect == Spec => []PushInv
  BY PushInit, PushNext, PTL DEF Spec

\* An account gets notifications exactly if its last push request was a
\* registration, whatever the requests of other accounts do in between and however
\* often the server is stopped between the read and the commit.
THEOREM LastRequestCounts == Spec => []LastPushCounts
<1>1. PushInv => LastPushCounts
  BY DEF PushInv, Tidy, LastPushCounts
<1> QED  BY <1>1, PushCorrect, PTL

\* An account none of whose push requests overlapped has one row per endpoint.
THEOREM RowsAreSingle == Spec => []OneRow
<1>1. PushInv => OneRow
  <2> SUFFICES ASSUME PushInv, NEW a \in Accounts \ crossed
               PROVE  Cardinality(RowsOf(a)) <= 1
    BY DEF OneRow
  <2>1. \A k, l \in RowsOf(a) : k = l
    BY DEF PushInv, Tidy
  <2>2. CASE RowsOf(a) = {}
    BY <2>2, FS_EmptySet
  <2>3. ASSUME NEW k \in RowsOf(a) PROVE Cardinality(RowsOf(a)) <= 1
    <3>1. RowsOf(a) = {k}
      BY <2>1, <2>3
    <3>2. Cardinality({k}) = 1
      BY FS_Singleton
    <3> QED  BY <3>1, <3>2
  <2> QED  BY <2>2, <2>3
<1> QED  BY <1>1, PushCorrect, PTL

=============================================================================
