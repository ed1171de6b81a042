------------------------------- MODULE Records -------------------------------
(***************************************************************************)
(* The rows that outlive every request: customers with their consents and  *)
(* health data, login accounts, push subscriptions.  The start of the      *)
(* server fills them in and fills them in again, commit by commit, and may *)
(* be cut short; requests change them while the server is up.              *)
(***************************************************************************)
EXTENDS Naturals, Sequences, FiniteSets, Access

CONSTANTS
  Order,      \* the customers in the order the seed creates them
  Requests,   \* worker threads
  Envs,       \* the values of settings.app_env considered
  MaxCalls,   \* bound: push registrations and removals in one behaviour
  MaxFaults   \* bound: stops of the server, and closed accounts

ASSUME EnvsAssumption == Envs \subseteq Environments
ASSUME BoundsAssumption == {MaxCalls, MaxFaults} \subseteq Nat

Customers == {Order[i] : i \in DOMAIN Order}
First == Order[1]

ASSUME OrderAssumption ==
  /\ Order \in Seq(Customers) /\ Len(Order) > 1
  /\ \A i, k \in DOMAIN Order : Order[i] = Order[k] => i = k

\* The demo accounts: the operator's, and one per customer, named after him.
Operator == "operator"
Accounts == Customers \cup {Operator}

VARIABLES
  env,      \* settings.app_env, the same throughout
  server,   \* where the start of the server is: the step, and the customer
  known,    \* the Customer rows
  consent,  \* the status of each customer's ConsentRecord
  records,  \* his HealthRecord rows under that consent, in batches of the seed
  docs,     \* his MedicalDocument rows under that consent
  events,   \* his HealthEvent rows, which name no consent
  active,   \* the UserAccount rows that are active
  pushes,   \* the PushSubscription rows of one endpoint, by commit
  req,      \* the locals of every push request
  last,     \* history: the last push request of an account that committed
  crossed,  \* history: accounts two of whose push requests overlapped
  cut,      \* history: the first customer's seeding was cut short
  calls, faults

vars == <<env, server, known, consent, records, docs, events, active, pushes, req,
          last, crossed, cut, calls, faults>>

-----------------------------------------------------------------------------
(* Values. *)

Steps == {"down", "clear", "consent", "document", "accounts", "up"}
None == 0

PushRow == [account : Accounts, status : {"active", "revoked"}]

\* The row a push request has read, 0 where there is none, and its status then.
Locals == [act : {"register", "remove"}, account : Accounts, row : Nat,
           status : {"active", "revoked", "none"}]
Idle == [act |-> "none"]

TypeOK ==
  /\ env \in Envs
  /\ server \in [step : Steps, at : 1..Len(Order)]
  /\ known \subseteq Customers
  /\ consent \in [Customers -> {"none", "active", "revoked"}]
  /\ {records, docs, events} \subseteq [Customers -> 0..1]
  /\ active \subseteq Accounts
  /\ pushes \in Seq(PushRow)
  /\ req \in [Requests -> Locals \cup {Idle}]
  /\ last \in [Accounts -> {"none", "register", "remove"}]
  /\ crossed \subseteq Accounts
  /\ cut \in BOOLEAN
  /\ calls \in 0..MaxCalls /\ faults \in 0..MaxFaults

Init ==
  /\ env \in Envs
  /\ server = [step |-> "down", at |-> 1]
  /\ known = {}
  /\ consent = [c \in Customers |-> "none"]
  /\ records = [c \in Customers |-> 0]
  /\ docs = [c \in Customers |-> 0]
  /\ events = [c \in Customers |-> 0]
  /\ active = {}
  /\ pushes = <<>>
  /\ req = [r \in Requests |-> Idle]
  /\ last = [a \in Accounts |-> "none"]
  /\ crossed = {} /\ cut = FALSE
  /\ calls = 0 /\ faults = 0

Up == server.step = "up"
Goto(step, at) == server' = [step |-> step, at |-> at]

\* The customer the seed is at.
Current == Order[server.at]

-----------------------------------------------------------------------------
(* lifespan: seed_if_empty, _seed_additional_customers, _seed_demo_accounts. *)

\* An empty database: the first customer's row is committed before his data.
StartEmpty ==
  /\ server.step = "down" /\ known = {}
  /\ known' = {First}
  /\ Goto("consent", 1)
  /\ UNCHANGED <<env, consent, records, docs, events, active, pushes, req, last, crossed,
                 cut, calls, faults>>

\* Mutant: every customer is cleared and seeded again, the first one too.
StartOver ==
  /\ server.step = "down" /\ known # {}
  /\ Goto("clear", 1)
  /\ UNCHANGED <<env, known, consent, records, docs, events, active, pushes, req, last,
                 crossed, cut, calls, faults>>

\* Any row will do for the first customer to be taken for complete.
StartAgain ==
  /\ server.step = "down" /\ known # {}
  /\ Goto("clear", 2)
  /\ UNCHANGED <<env, known, consent, records, docs, events, active, pushes, req, last,
                 crossed, cut, calls, faults>>

\* Mutant: what is there already is left there.
KeepCustomer ==
  /\ server.step = "clear"
  /\ known' = known \cup {Current}
  /\ Goto("consent", server.at)
  /\ UNCHANGED <<env, consent, records, docs, events, active, pushes, req, last, crossed,
                 cut, calls, faults>>

\* A further customer: his data is cleared, or his row created.
ClearCustomer ==
  /\ server.step = "clear"
  /\ known' = known \cup {Current}
  /\ records' = [records EXCEPT ![Current] = 0]
  /\ docs' = [docs EXCEPT ![Current] = 0]
  /\ events' = [events EXCEPT ![Current] = 0]
  /\ Goto("consent", server.at)
  /\ UNCHANGED <<env, consent, active, pushes, req, last, crossed, cut, calls, faults>>

\* Mutant: a consent that exists is left as it is.
CommitMissingConsent ==
  /\ server.step = "consent"
  /\ consent' = [consent EXCEPT ![Current] = IF @ = "none" THEN "active" ELSE @]
  /\ records' = [records EXCEPT ![Current] = @ + 1]
  /\ events' = [events EXCEPT ![Current] = @ + 1]
  /\ Goto("document", server.at)
  /\ UNCHANGED <<env, known, docs, active, pushes, req, last, crossed, cut, calls, faults>>

\* The consent, whatever it was, and the health records and events, up to the commit
\* of the first policy.
CommitConsent ==
  /\ server.step = "consent"
  /\ consent' = [consent EXCEPT ![Current] = "active"]
  /\ records' = [records EXCEPT ![Current] = @ + 1]
  /\ events' = [events EXCEPT ![Current] = @ + 1]
  /\ Goto("document", server.at)
  /\ UNCHANGED <<env, known, docs, active, pushes, req, last, crossed, cut, calls, faults>>

\* The last commit for a customer: the document and what else there is.
CommitFirstDocument ==
  /\ server.step = "document" /\ server.at = 1
  /\ docs' = [docs EXCEPT ![First] = @ + 1]
  /\ Goto("clear", 2)
  /\ UNCHANGED <<env, known, consent, records, events, active, pushes, req, last, crossed,
                 cut, calls, faults>>

CommitDocument ==
  /\ server.step = "document" /\ server.at > 1
  /\ docs' = [docs EXCEPT ![Current] = @ + 1]
  /\ IF server.at < Len(Order)
       THEN Goto("clear", server.at + 1)
       ELSE Goto("accounts", server.at)
  /\ UNCHANGED <<env, known, consent, records, events, active, pushes, req, last, crossed,
                 cut, calls, faults>>

\* Every account is created or set back to active; requests are let in.
CommitAccounts ==
  /\ server.step = "accounts"
  /\ active' = Accounts
  /\ Goto("up", 1)
  /\ UNCHANGED <<env, known, consent, records, docs, events, pushes, req, last, crossed,
                 cut, calls, faults>>

\* The process ends, in the middle of its start or of requests.
Stop ==
  /\ server.step # "down"
  /\ faults < MaxFaults
  /\ faults' = faults + 1
  /\ Goto("down", 1)
  /\ cut' = (cut \/ (server.at = 1 /\ server.step \in {"consent", "document"}))
  /\ req' = [r \in Requests |-> Idle]
  /\ UNCHANGED <<env, known, consent, records, docs, events, active, pushes, last, crossed, calls>>

-----------------------------------------------------------------------------
(* Who asks, and what he is shown. *)

AccountRow ==
  [a \in Accounts |->
     [role |-> IF a = Operator THEN "operator" ELSE "customer",
      customer |-> IF a = Operator THEN Nobody ELSE a,
      active |-> a \in active]]

\* login gives a token to an active account; the account may be closed later.
Callers ==
  (UNION {PrincipalsFor([subject |-> a, expired |-> FALSE], AccountRow, env) : a \in Accounts})
    \cup PrincipalsFor(NoToken, AccountRow, env)

\* The rows that name the customer's consent, and all that get_health_data and the
\* detail snapshot show: of a record and a document they ask that a consent is
\* named, whatever its status; of an event nothing.
Consented(c) == records[c] + docs[c] > 0
HealthShown(c) == Consented(c) \/ events[c] > 0

\* Mutants: the documents are forgotten; a status of its own.
RevokeRecordsOnly(who, c) ==
  /\ Up /\ who \in Callers /\ HasAccess(who, c)
  /\ consent[c] # "none"
  /\ records' = [records EXCEPT ![c] = 0]
  /\ consent' = [consent EXCEPT ![c] = "revoked"]
  /\ UNCHANGED <<env, server, known, docs, events, active, pushes, req, last, crossed,
                 cut, calls, faults>>
WithdrawConsent(who, c) ==
  /\ Up /\ who \in Callers /\ HasAccess(who, c)
  /\ consent[c] # "none"
  /\ consent' = [consent EXCEPT ![c] = "withdrawn"]
  /\ UNCHANGED <<env, server, known, records, docs, events, active, pushes, req, last,
                 crossed, cut, calls, faults>>

\* revoke_consent: one commit; again and again if asked.  Events are left alone.
RevokeConsent(who, c) ==
  /\ Up /\ who \in Callers /\ HasAccess(who, c)
  /\ consent[c] # "none"
  /\ records' = [records EXCEPT ![c] = 0]
  /\ docs' = [docs EXCEPT ![c] = 0]
  /\ consent' = [consent EXCEPT ![c] = "revoked"]
  /\ UNCHANGED <<env, server, known, events, active, pushes, req, last, crossed, cut,
                 calls, faults>>

\* No code closes an account: it is done in the database.
CloseAccount(a) ==
  /\ Up /\ a \in active
  /\ faults < MaxFaults
  /\ faults' = faults + 1
  /\ active' = active \ {a}
  /\ UNCHANGED <<env, server, known, consent, records, docs, events, pushes, req, last,
                 crossed, cut, calls>>

-----------------------------------------------------------------------------
(* Push subscriptions. *)

RowsOf(a) == {k \in DOMAIN pushes : pushes[k].account = a}

\* The account reads row k (0: it finds none) to do act.
Look(r, a, act, k) ==
  /\ Up /\ req[r] = Idle
  /\ calls < MaxCalls
  /\ \E who \in Callers : who.subject = a
  /\ calls' = calls + 1
  /\ req' = [req EXCEPT ![r] = [act |-> act, account |-> a, row |-> k,
               status |-> IF k = None THEN "none" ELSE pushes[k].status]]
  /\ crossed' = IF \E q \in Requests : req[q] # Idle /\ req[q].account = a
                  THEN crossed \cup {a} ELSE crossed
  /\ UNCHANGED <<env, server, known, consent, records, docs, events, active, pushes, last,
                 cut, faults>>

\* Mutant: only an active row counts as registered.
LookToRegisterActive(r, a) ==
  LET rows == {k \in RowsOf(a) : pushes[k].status = "active"}
  IN IF rows = {} THEN Look(r, a, "register", None)
     ELSE \E k \in rows : Look(r, a, "register", k)

LookToRegister(r, a) ==
  IF RowsOf(a) = {} THEN Look(r, a, "register", None)
  ELSE \E k \in RowsOf(a) : Look(r, a, "register", k)

\* Only an own row: any other is not found.
LookToRemove(r, a) == \E k \in RowsOf(a) : Look(r, a, "remove", k)

\* Mutant: a row that was removed keeps its status.
StatusKept(act, status) == IF act = "register" THEN status ELSE "revoked"

StatusAfter(act, status) == IF act = "register" THEN "active" ELSE "revoked"

\* The UPDATE leaves out a column that has the value it was read with.
CommitPush(r) ==
  LET q == req[r]
      new == StatusAfter(q.act, q.status)
  IN /\ q # Idle
     /\ pushes' =
          IF q.row = None THEN Append(pushes, [account |-> q.account, status |-> "active"])
          ELSE IF new = q.status THEN pushes
          ELSE [pushes EXCEPT ![q.row].status = new]
     /\ last' = [last EXCEPT ![q.account] = q.act]
     /\ req' = [req EXCEPT ![r] = Idle]
     /\ UNCHANGED <<env, server, known, consent, records, docs, events, active, crossed, cut,
                    calls, faults>>

-----------------------------------------------------------------------------

Startup ==
  \/ StartEmpty \/ StartAgain
  \/ ClearCustomer \/ CommitConsent
  \/ CommitFirstDocument \/ CommitDocument \/ CommitAccounts

\* The bounds admit nothing more: the only place where a behaviour may stop.
Quiet == Up /\ faults = MaxFaults /\ calls = MaxCalls /\ UNCHANGED vars

Next ==
  \/ Startup \/ Stop \/ Quiet
  \/ \E who \in Callers, c \in Customers : RevokeConsent(who, c)
  \/ \E a \in Accounts : CloseAccount(a)
  \/ \E r \in Requests :
       \/ \E a \in Accounts : LookToRegister(r, a) \/ LookToRemove(r, a)
       \/ CommitPush(r)

Spec == Init /\ [][Next]_vars

-----------------------------------------------------------------------------
(* Properties. *)

\* Records and documents, the rows that name a consent, are there only while it is
\* active, after every commit of a request and of the seed, however a start was cut
\* short.  A row that names a consent is shown whatever its status, so this is all
\* that keeps them from clients and agents once it is revoked (revoke_consent with
\* _seed_additional_customers and get_health_data).  Events name none: see
\* HealthUnderConsent.
NoRowWithoutItsConsent == \A c \in Customers : Consented(c) => consent[c] = "active"

\* "consent 있는 기록만 반환" (data_tools.get_health_data): what is shown of a customer's
\* health is shown under an active consent.
HealthUnderConsent == \A c \in Customers : HealthShown(c) => consent[c] = "active"

\* A server that is up has every customer's data whole and once, but for what the
\* customer revoked; a start that was cut short is made good by the next one,
\* except for the first customer, who is never seeded again.
Repaired ==
  Up => \A c \in Customers :
          \/ /\ events[c] = 1
             /\ consent[c] = "revoked" \/ (records[c] = 1 /\ docs[c] = 1)
          \/ c = First /\ cut

\* Only the start of the server undoes a revocation, and not the first
\* customer's.
RevokedUntilRestart ==
  [][\A c \in Customers :
       consent[c] = "revoked" /\ consent'[c] # "revoked"
         => server.step = "consent" /\ c # First]_vars

\* An account gets notifications exactly if its last push request was a
\* registration; only two requests of the account that overlapped can break
\* this (two rows of which one is removed, or an update that is left out).
LastPushCounts ==
  \A a \in Accounts \ crossed :
    (\E k \in RowsOf(a) : pushes[k].status = "active") <=> last[a] = "register"

\* An account has one row per endpoint although no constraint says so, unless
\* two of its push requests overlapped.
OneRow == \A a \in Accounts \ crossed : Cardinality(RowsOf(a)) <= 1

=============================================================================
