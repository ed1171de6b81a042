------------------------------- MODULE Threads -------------------------------
(***************************************************************************)
(* The threads clients hold on to: which AgentThread a customer is given,  *)
(* which requests a thread lets in, and what happens to it when the        *)
(* checkpoints of the process are lost.  What a graph run does inside is   *)
(* Workflow's matter; here it only ends with or without an approval.       *)
(***************************************************************************)
EXTENDS Naturals, Sequences, FiniteSets, Access

CONSTANTS
  Requests,    \* worker threads
  Customers,   \* Customer rows
  Accounts,    \* UserAccount rows
  Account,     \* what each account row holds: role, customer, active
  Envs,        \* the values of settings.app_env considered
  MaxCreates,  \* bound: workflow-session requests in one behaviour
  MaxRuns,     \* bound: requests for a graph run in one behaviour
  MaxFaults    \* bound: exceptions and restarts in one behaviour

ASSUME AccountAssumption ==
  /\ Nobody \notin Accounts
  /\ Account \in [Accounts -> [role : Roles, customer : Customers \cup {Nobody},
                               active : BOOLEAN]]
ASSUME EnvsAssumption == Envs \subseteq Environments
ASSUME BoundsAssumption == {MaxCreates, MaxRuns, MaxFaults} \subseteq Nat

VARIABLES
  env,       \* settings.app_env, the same throughout
  sessions,  \* the AgentSession rows, in the order of their commits
  threads,   \* the AgentThread rows, in the order of their commits
  live,      \* the threads whose checkpoint InMemorySaver holds
  req,       \* the locals of every request
  deed,      \* history: what the last step showed to whom or let him do
  creates, runs, faults

vars == <<env, sessions, threads, live, req, deed, creates, runs, faults>>

-----------------------------------------------------------------------------
(* Values. *)

None == 0
SessionRow == [customer : Customers, waiting : BOOLEAN]

\* scope is what scope_hash digests.  raced is a history: when the row was
\* marked stale, the thread was in use, or had been since it was looked at.
ThreadRow == [customer : Customers, session : Nat,
              scope : [customer : Customers, session : Nat, thread : Nat],
              status : {"active", "stale"}, raced : BOOLEAN]

PCs == {"idle", "mark", "session", "bind", "load", "run"}

Who == Principals(Accounts, Customers)

\* The customer of a create, the thread or session the request has in hand,
\* and whether it carries a decision.
Locals == [pc : PCs, customer : Customers \cup {Nobody}, id : Nat, decision : BOOLEAN]

Idle == [pc |-> "idle", customer |-> Nobody, id |-> None, decision |-> FALSE]

Deed == [by : Who, what : {"reuse", "view", "debug", "reply", "message", "event",
                           "decision"}, thread : Nat]
NoDeed == [what |-> "none"]

TypeOK ==
  /\ env \in Envs
  /\ sessions \in Seq(SessionRow)
  /\ threads \in Seq(ThreadRow)
  /\ live \subseteq DOMAIN threads
  /\ req \in [Requests -> Locals]
  /\ deed = NoDeed \/ deed \in Deed
  /\ creates \in 0..MaxCreates /\ runs \in 0..MaxRuns /\ faults \in 0..MaxFaults

Init ==
  /\ env \in Envs
  /\ sessions = <<>> /\ threads = <<>> /\ live = {}
  /\ req = [r \in Requests |-> Idle]
  /\ deed = NoDeed
  /\ creates = 0 /\ runs = 0 /\ faults = 0

-----------------------------------------------------------------------------
(* Reads. *)

\* The principals a client can be: every account with a valid token, or none.
Callers ==
  (UNION {PrincipalsFor([subject |-> a, expired |-> FALSE], Account, env) : a \in Accounts})
    \cup PrincipalsFor(NoToken, Account, env)

Waiting(t) == sessions[threads[t].session].waiting
ActiveOf(customer) ==
  {t \in DOMAIN threads : threads[t].customer = customer /\ threads[t].status = "active"}
WaitingOf(customer) == {t \in ActiveOf(customer) : Waiting(t)}

Newest(t, set) == t \in set /\ \A u \in set : u <= t

\* _pick_reusable_thread over the query of create_or_reuse_thread.
IsReusable(t, customer) ==
  Newest(t, IF WaitingOf(customer) # {} THEN WaitingOf(customer) ELSE ActiveOf(customer))

\* _has_graph_checkpoint is only asked in local and dev.
KeepsThread(t) == IsDevelopment(env) => t \in live

\* The scope the server derives from the row, _scope_for.
ScopeOf(row, t) == [customer |-> row.customer, session |-> row.session, thread |-> t]

\* Mutants: no look at the status; no look at the principal.
ResolvesAny(t, who) ==
  /\ t \in DOMAIN threads
  /\ HasAccess(who, threads[t].customer)
ResolvesForAll(t, who) ==
  /\ t \in DOMAIN threads
  /\ threads[t].status = "active"

\* resolve_thread
Resolves(t, who) ==
  /\ t \in DOMAIN threads
  /\ threads[t].status = "active"
  /\ HasAccess(who, threads[t].customer)
  /\ sessions[threads[t].session].customer = threads[t].customer
  /\ threads[t].scope = ScopeOf(threads[t], t)

Done(who, what, t) == [by |-> who, what |-> what, thread |-> t]

InUse(t) == \E r \in Requests : req[r].pc \in {"load", "run"} /\ req[r].id = t

-----------------------------------------------------------------------------
(* POST /customers/{id}/workflow-sessions: create_or_reuse_thread. *)

MayCreate(r, who, customer) ==
  /\ req[r].pc = "idle"
  /\ creates < MaxCreates
  /\ who \in Callers
  /\ HasAccess(who, customer)

\* Mutant: the session row is stored before the look at the threads.
SessionThenReuse(r, who, customer) ==
  /\ MayCreate(r, who, customer)
  /\ \E t \in ActiveOf(customer) :
       /\ IsReusable(t, customer) /\ KeepsThread(t)
       /\ deed' = Done(who, "reuse", t)
  /\ sessions' = Append(sessions, [customer |-> customer, waiting |-> FALSE])
  /\ creates' = creates + 1
  /\ UNCHANGED <<env, threads, live, req, runs, faults>>

\* A thread is there and is kept: it is the answer.
Reuse(r, who, customer) ==
  /\ MayCreate(r, who, customer)
  /\ \E t \in ActiveOf(customer) :
       /\ IsReusable(t, customer) /\ KeepsThread(t)
       /\ deed' = Done(who, "reuse", t)
  /\ creates' = creates + 1
  /\ UNCHANGED <<env, sessions, threads, live, req, runs, faults>>

\* A thread is there, but its checkpoint is not: it is about to be given up.
FindStale(r, who, customer) ==
  /\ MayCreate(r, who, customer)
  /\ \E t \in ActiveOf(customer) :
       /\ IsReusable(t, customer) /\ ~KeepsThread(t)
       /\ req' = [req EXCEPT ![r] = [pc |-> "mark", customer |-> customer,
                                     id |-> t, decision |-> FALSE]]
  /\ creates' = creates + 1
  /\ deed' = NoDeed
  /\ UNCHANGED <<env, sessions, threads, live, runs, faults>>

\* No thread is there, or the client sent force_new, as it always may.
StartNew(r, who, customer) ==
  /\ MayCreate(r, who, customer)
  /\ req' = [req EXCEPT ![r] = [pc |-> "session", customer |-> customer,
                                id |-> None, decision |-> FALSE]]
  /\ creates' = creates + 1
  /\ deed' = NoDeed
  /\ UNCHANGED <<env, sessions, threads, live, runs, faults>>

\* Mutant: a status the column does not know.
CloseThread(r) ==
  /\ req[r].pc = "mark"
  /\ threads' = [threads EXCEPT ![req[r].id].status = "closed"]
  /\ req' = [req EXCEPT ![r].pc = "session", ![r].id = None]
  /\ deed' = NoDeed
  /\ UNCHANGED <<env, sessions, live, creates, runs, faults>>

\* First commit: the old row.  The checkpoint is not looked at again.
MarkStale(r) ==
  /\ req[r].pc = "mark"
  /\ threads' = [threads EXCEPT
       ![req[r].id].status = "stale",
       ![req[r].id].raced = @ \/ InUse(req[r].id) \/ req[r].id \in live]
  /\ req' = [req EXCEPT ![r].pc = "session", ![r].id = None]
  /\ deed' = NoDeed
  /\ UNCHANGED <<env, sessions, live, creates, runs, faults>>

\* Second commit: the session row.
CommitSession(r) ==
  /\ req[r].pc = "session"
  /\ sessions' = Append(sessions, [customer |-> req[r].customer, waiting |-> FALSE])
  /\ req' = [req EXCEPT ![r].pc = "bind", ![r].id = Len(sessions) + 1]
  /\ deed' = NoDeed
  /\ UNCHANGED <<env, threads, live, creates, runs, faults>>

\* Mutant: the session is looked up again, and the latest one is taken.
NewThreadOfLatest(customer, session, t) ==
  [customer |-> customer, session |-> Len(sessions), status |-> "active", raced |-> FALSE,
   scope |-> [customer |-> customer, session |-> Len(sessions), thread |-> t]]

NewThread(customer, session, t) ==
  [customer |-> customer, session |-> session, status |-> "active", raced |-> FALSE,
   scope |-> [customer |-> customer, session |-> session, thread |-> t]]

\* Third commit: the thread row, and the answer.
CommitThread(r) ==
  /\ req[r].pc = "bind"
  /\ threads' = Append(threads, NewThread(req[r].customer, req[r].id, Len(threads) + 1))
  /\ req' = [req EXCEPT ![r] = Idle]
  /\ deed' = NoDeed
  /\ UNCHANGED <<env, sessions, live, creates, runs, faults>>

-----------------------------------------------------------------------------
(* Requests on a thread. *)

Read(who, t, what) ==
  /\ who \in Callers /\ Resolves(t, who)
  /\ deed' = Done(who, what, t)
  /\ UNCHANGED <<env, sessions, threads, live, req, creates, runs, faults>>

\* GET of a thread, and its debug view: operators, local and dev only.
View(who, t) == Read(who, t, "view")
Debug(who, t) == IsOperator(who) /\ IsDevelopment(env) /\ Read(who, t, "debug")

\* Free text while an approval is pending: recorded and nothing else.
RecordUserMessage(who, t) ==
  /\ who \in Callers /\ Resolves(t, who)
  /\ Waiting(t)
  /\ deed' = Done(who, "reply", t)
  /\ UNCHANGED <<env, sessions, threads, live, req, creates, runs, faults>>

EnterGraph(r, who, t, what) ==
  /\ req[r].pc = "idle"
  /\ runs < MaxRuns
  /\ who \in Callers /\ Resolves(t, who)
  /\ req' = [req EXCEPT ![r] = [pc |-> "load", customer |-> Nobody, id |-> t,
                                decision |-> what = "decision"]]
  /\ deed' = Done(who, what, t)
  /\ runs' = runs + 1
  /\ UNCHANGED <<env, sessions, threads, live, creates, faults>>

\* An event, from operators only; a message that finds no approval pending.
PostEvent(r, who, t) == IsOperator(who) /\ EnterGraph(r, who, t, "event") /\ ~Waiting(t)
PostMessage(r, who, t) == EnterGraph(r, who, t, "message") /\ ~Waiting(t)
PostDecision(r, who, t) == EnterGraph(r, who, t, "decision") /\ Waiting(t)

\* The graph starts: the input is the thread's first checkpoint.
LoadGraph(r) ==
  /\ req[r].pc = "load"
  /\ req[r].decision => req[r].id \in live
  /\ live' = live \cup {req[r].id}
  /\ req' = [req EXCEPT ![r].pc = "run"]
  /\ deed' = NoDeed
  /\ UNCHANGED <<env, sessions, threads, creates, runs, faults>>

\* A decision that finds no checkpoint is an error.
LoadNothing(r) ==
  /\ req[r].pc = "load"
  /\ req[r].decision /\ req[r].id \notin live
  /\ req' = [req EXCEPT ![r] = Idle]
  /\ deed' = NoDeed
  /\ UNCHANGED <<env, sessions, threads, live, creates, runs, faults>>

\* The graph ends, at an approval or without one.
EndRun(r) ==
  /\ req[r].pc = "run"
  /\ \E waiting \in BOOLEAN :
       sessions' = [sessions EXCEPT ![threads[req[r].id].session].waiting = waiting]
  /\ req' = [req EXCEPT ![r] = Idle]
  /\ deed' = NoDeed
  /\ UNCHANGED <<env, threads, live, creates, runs, faults>>

-----------------------------------------------------------------------------
(* Faults. *)

\* A request breaks off between two of its commits.
BreakOff(r) ==
  /\ faults < MaxFaults
  /\ req[r].pc # "idle"
  /\ faults' = faults + 1
  /\ req' = [req EXCEPT ![r] = Idle]
  /\ deed' = NoDeed
  /\ UNCHANGED <<env, sessions, threads, live, creates, runs>>

\* The process restarts: the rows stay, the checkpoints are gone.
Restart ==
  /\ faults < MaxFaults
  /\ faults' = faults + 1
  /\ req' = [r \in Requests |-> Idle]
  /\ live' = {}
  /\ deed' = NoDeed
  /\ UNCHANGED <<env, sessions, threads, creates, runs>>

-----------------------------------------------------------------------------

CreateStep(r, who, customer) ==
  Reuse(r, who, customer) \/ FindStale(r, who, customer) \/ StartNew(r, who, customer)

ThreadStep(r, who, t) ==
  \/ View(who, t) \/ Debug(who, t) \/ RecordUserMessage(who, t)
  \/ PostEvent(r, who, t) \/ PostMessage(r, who, t) \/ PostDecision(r, who, t)

RequestStep(r) ==
  \/ MarkStale(r) \/ CommitSession(r) \/ CommitThread(r)
  \/ LoadGraph(r) \/ LoadNothing(r) \/ EndRun(r)

\* The bounds admit nothing more: the only place where a behaviour may stop.
NoMoreRequests ==
  /\ \A r \in Requests : req[r].pc = "idle"
  /\ creates = MaxCreates
  /\ UNCHANGED vars

Next ==
  \/ \E r \in Requests :
       \/ \E who \in Callers, customer \in Customers : CreateStep(r, who, customer)
       \/ \E who \in Callers, t \in DOMAIN threads : ThreadStep(r, who, t)
       \/ RequestStep(r) \/ BreakOff(r)
  \/ Restart
  \/ NoMoreRequests

Spec == Init /\ [][Next]_vars

-----------------------------------------------------------------------------
(* Properties. *)

\* A thread is bound to one customer's session and to no one else's, however
\* creates of several clients interleave: the row, its session and the scope
\* its hash covers agree, and no two threads share a session.
OwnSession ==
  /\ \A t \in DOMAIN threads :
       /\ threads[t].session \in DOMAIN sessions
       /\ sessions[threads[t].session].customer = threads[t].customer
       /\ threads[t].scope = ScopeOf(threads[t], t)
  /\ \A t, u \in DOMAIN threads : threads[t].session = threads[u].session => t = u

\* Nobody is shown, writes to or runs the graph on a session of a customer he
\* has no access to; external events come from operators, and the internals are
\* shown to operators of a development server only (routes/workflows.py with
\* resolve_thread).
OnlyInScope ==
  deed # NoDeed =>
    /\ HasAccess(deed.by, sessions[threads[deed.thread].session].customer)
    /\ deed.what \in {"event", "debug"} => IsOperator(deed.by)
    /\ deed.what = "debug" => IsDevelopment(env)
    /\ deed.by.subject = Nobody => IsDevelopment(env)

\* A session row without a thread is what a fault between the two commits of a
\* create leaves behind, and nothing else does.
OrphanOnlyByFault ==
  faults = 0 =>
    \A s \in DOMAIN sessions :
      \/ \E t \in DOMAIN threads : threads[t].session = s
      \/ \E r \in Requests : req[r].pc = "bind" /\ req[r].id = s

\* An approval that can still be answered is taken away from the customer only
\* by a create that had looked at the thread when it had no checkpoint, before its
\* first run or after a restart, and marked it stale while a run that came in
\* meanwhile was in progress or over.
LostOnlyInRace ==
  \A t \in live : threads[t].status = "stale" /\ Waiting(t) => threads[t].raced

=============================================================================
