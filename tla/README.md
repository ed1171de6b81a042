# TLA+ development for JB-WM-backend

JB-WM-backend watches a bank customer's data, lets an agent job propose a plan
when a signal arrives, runs the harmless part of the plan by itself and asks the
customer before anything else runs. This directory models that workflow in TLA+,
model-checks it with TLC on small instances and proves its central safety
properties with TLAPS for every value of the constants.

## Inventory of the system

| Part | State it keeps | Operations | Interacts with | Hard behaviour | What makes it correct |
|---|---|---|---|---|---|
| Workflow graph (`app/workflows/nodes.py`, `wm_graph.py`, `state.py`) | channels of one run: pending proposal, stored answer, plan | eleven nodes, two conditional edges | called by the service; calls executor, policy, agent job, database | several commits per node, checkpoint after them, interrupt and resume | nothing gated runs unapproved; one offer at a time; every decision settles |
| Workflow service (`service.py`) | `AgentThread`, `AgentSession` rows | create or reuse a thread, event, message, decision, serialise, debug; each also streamed | HTTP routes above, graph below | check first, act minutes later; two requests on one thread | a decision reaches only the proposal it names |
| Executor (`executor/handlers.py`) | `ActionExecution` rows; holdings, policies, coverage | `execute_scoped`, `execute`, one handler per kind | called from `policy_check` and `execute_action` | effect and record in separate commits | at most one effect per proposal, none without approval |
| Policy (`policy/engine.py`, `planning/schemas.py`) | none | `evaluate` | nodes, executor | two independent criteria | anything external or high-risk is gated |
| LangGraph and `InMemorySaver` (external) | last checkpoint of a thread | invoke, stream, resume | graph, service | last writer wins; lost at restart | resume continues where the run stopped |
| Agent job (`agent_jobs/dispatcher.py`, `planning/validators.py`) | `AgentJob` row, directory of the job, a child process | `run`: queue, write, call, read, check, complete or fail | `spawn_agent` | timeout, a process that outlives its job, failed commits, crash | a plan is the job's own and checked; the row tells the outcome; every job ends |
| Local stub planner (`agent_jobs/local_stub.py`) | none | `build_local_stub_output` | called by the agent job | plans on a snapshot that may be old when approved | advice is not repeated; what is announced is what is sold |
| Signals and context (`signals/`, `adapters/`, `tools/`) | `Signal`, `DataSnapshot` rows | detect, gate, build context | first four nodes | three thresholds in three files; the gate lets everything through | what was done no longer shows as something to do |
| Effects on holdings and cover (`executor/handlers.py`) | holdings, policies, coverages | `_apply_mock_rebalance`, `_apply_mock_insurance_review` | executor | read, compute, commit; overlapping handlers and retries | amounts and weights agree and nothing is lost; one rider |
| Threads and scope (`service.py`, `api/routes/workflows.py`, `security/scope.py`) | `AgentThread`, `AgentSession`, checkpoints | create, reuse, mark stale, resolve, view, debug, message | every workflow route | three commits per create, checkpoints lost at restart | a customer reaches only their threads; a waiting approval is not lost |
| Privacy (`privacy/service.py`, `api/routes/privacy.py`, `adapters/`) | consents, health data | revoke, show | context building, seed | events that name no consent; a start of the server writes the same rows | what a consent covers is gone when it is |
| Auth (`core/auth.py`, `api/deps.py`, `routes/auth.py`) | accounts, tokens | principal of a token, role and customer checks | every route | account closed under a valid token | role and customer come from the row |
| Push (`routes/push.py`) | subscriptions | register, remove | web client | select-then-insert, unchanged columns left out of the UPDATE | the last request of an account counts |
| Start-up (`main.py`, `seed.py`) | all demo rows | seed the first customer once, the others at every start, accounts | database | stopped between any two commits, revocations in between | the next start repairs; a revocation stays |
| Customer routes (`routes/customers.py`) | none | list, get | clients | none: they read | the check of the caller, `HasAccess` |
| Web client, schema reconciliation, scripts, docs | - | - | - | - | not modelled |

### How a request runs

A signal or a decision arrives as an HTTP request, is checked against the session
row, and then runs graph nodes **in the request's own worker thread** until the graph ends
or stops at `approval_interrupt`. There is no lock on a thread or a session, so two
requests may run on one thread at once. Every node commits to the database one or more times and returns;
only then does LangGraph store a checkpoint. The service, the session row, the proposal rows
and the checkpoint are therefore four views that agree only when everything went well.

## Modules

| Module | What it is |
|---|---|
| `Policy` | Action kinds, which need approval, which write customer data. |
| `Workflow` | The workflow: session row, proposal rows, checkpoint, and the requests that run on them. |
| `Approval` | The abstract specification: what the workflow promises a customer, with no requests, graph or database. |
| `WorkflowRefinement` | The refinement mapping from `Workflow` to `Approval`, used by the runs and by the proofs. |
| `MC_Workflow` | Constants for TLC. |
| `WorkflowProofs` | Proofs for any number of overlapping requests and faults: types and authority. |
| `WorkflowEffectProofs` | The same: what is offered, and that effects are recorded. |
| `WorkflowSerialProofs` | Proofs for requests one at a time and any number of faults: the session row and the proposals. |
| `WorkflowPromiseProofs` | Proofs for requests one at a time until something fails: at most once, rest, and the refinement of `Approval`. |
| `Access` | Principals, tokens, roles: who a request speaks for and whom it may reach. Used by `Threads` and `Records`. |
| `Threads`, `MC_Threads`, `ThreadsProofs` | Creating, reusing and losing threads; the scope check before every request on one. |
| `AgentJob`, `MC_AgentJob`, `AgentJobProofs` | Jobs, their files and processes, and the checks an answer passes. |
| `Advice`, `MC_Advice`, `AdviceProofs` | The closed loop: data, snapshot, signal, plan, approved effect, data. Uses `Policy`. |
| `Records`, `MC_Records`, `RecordsProofs` | Consents, health data, accounts and push rows, under requests and under the start of the server. |

The modules share what they must agree on (`Policy`, `Access`) and meet at narrow
points. `Workflow` takes any plan of its `Plans`; `Advice` says which ones the stub makes, and
`AgentJob` that a plan comes from the job that was started for it. `Threads` takes a graph run as one that ends with or
without an approval; `Workflow` is what happens in it. `Workflow` is one thread and session; that several
threads do not get into one another's sessions is `OwnSession` of `Threads`.

### State of `Workflow` and the code

| Variable | In the code |
|---|---|
| `session` | `AgentSession.state`, `.pending_proposal_id` |
| `proposals` | `ActionProposal` rows in `created_at` order; with each, its `ApprovalDecision` rows (`decisions`), the number of its `ActionExecution` rows (`executions`) and of handler commits on customer data (`applied`). `asked` is history: the decisions the service accepted for it. |
| `checkpoint` | the last checkpoint in `InMemorySaver`: the node that runs next and the channels `pending_proposal_id`, `approval_decision`, `plan` |
| `graph[r]` | the channels of the run inside request `r` |
| `ask[r]` | the `Command(resume=...)` value the request carries |
| `batch[r]` | the loop of `policy_check`: the next row, the last row, the first row kept for approval |
| `pc[r]` | the point between two commits where the request is |
| `events`, `answers`, `faults` | bounds only |

### What one step is

One step is one database commit together with the reads that feed it, or one
checkpoint write. So a node with three commits is three steps, and other requests
may act between them. In particular:

- `execute_action`, approve: `ApproveProposal` (decision row and status), then the
  executor's `PassGuard` or `ReturnExisting` or `RefuseExecution`, `ApplyHandler` (the effect),
  `RecordExecution` (row and status), `SettleApproval` (session row), `ReturnNode`, `PutCheckpoint`.
- `policy_check`: `PersistPlan`, for each proposal `KeepForApproval` or the executor's steps,
  `RoutePolicy`, `ReturnNode`, `PutCheckpoint`.
- `ReturnNode` is the `return` after a node's last commit. The rows have expired by then, so what is returned (`session.pending_proposal_id`, `proposal.id`)
  is read from the database again: as others have left it, or not at all, when the read fails.
- reject and revise are one commit, `DeclineProposal`, and a `ReturnNode`. The session row it writes was loaded when the
  request was checked and SQLAlchemy writes only the columns that differ from what it
  loaded; the action does the same. After an approval the row has expired and is read again.
- Nodes that only append rows nobody reads back (snapshot, signal, message, event) return and are
  checkpointed in one step, `AuditNode`. The same holds for the two ends of the interrupt.

LangGraph is external and modelled from how `wm_graph.py` compiles the graph and
`service.py` calls it: a fresh input starts at `data_refresh` and keeps the other channels
(`LoadInput`); `Command(resume=...)` continues with the node the last checkpoint names, and its value
reaches the interrupt only if that node is `approval_interrupt` (`LoadResume`); on a finished graph
or without a checkpoint nothing runs (`LoadNothing`). If a node raises, the checkpoint stays
before it, so the next resume runs that node again with the stored answer.

Abstractions: a plan is a sequence of (kind, external effect) pairs, chosen freely from
`Plans`; texts, parameters and audit rows are left out; requests refused without any
change (404, 403, 400, 409 of the service's own check) are not steps; `PersistPlan`
joins the two commits that store the proposals and the plan record, which nothing reads;
in `ReturnExisting` the session row is read again by `SettleApproval`, a moment later than in the code.

### The other modules' state and the code

- **`Threads`**. `sessions` and `threads` are the `AgentSession` and `AgentThread` rows in the order of
  their commits; `live` the thread ids `InMemorySaver` knows; `req[r]` the locals of a request between its commits:
  a create that is about to mark a row stale, to store a session, or to store the thread for it (`service.py:46-82`); a
  run that has passed `resolve_thread` and has not reached the graph, or is in it. `deed` notes what the last step showed or
  allowed to whom, so that the scope properties speak of the answer and not of the check. `raced` notes in a stale row that the
  thread was in use when it was given up.
- **`AgentJob`**. `pc`, `row`, `raw` are the run, the row's status and `raw_output` of one `run` call; `file` is `output.json` under the
  job's directory and `child` the process. An answer is known by the first check it fails. `by` and `late` record who wrote it and when.
  `CommitFails` ends a run in `raised` also from the except branch, since the transaction is not rolled back there (`dispatcher.py:96-100`).
- **`Advice`**. `customer` holds what the two handlers write and the context reads. Amounts are exact parts of the constant
  `Whole` (1200 in the runs), where the code has floats and `Decimal`s and the stub cuts what it announces to whole won (`int`, `local_stub.py:147-149`); the assumptions ask for a unit fine enough that every division is exact
  (`UnitAssumption`, `SharesAssumption`). A plan may ask for any share, also below nothing or above everything, as nothing in the code refuses one; amounts are therefore
  integers of any sign and size. A customer may have no policy or no holding. One step per commit; a handler's reads
  are steps of their own and what they found is in `seen[t]`; an UPDATE names only the columns it changed, as SQLAlchemy's does (`Updated`); a review that finds no policy
  commits one before it looks for the rider. `todo[t]` are the proposals `policy_check` has still to look at, `held[t]` its `pending`, `open[t]` all
  others that are stored as proposed: a request that breaks off leaves its whole plan there, and what needs approval in it is offered later. `torn` notes the tables where a
  handler wrote over rows that had changed since its read; `rebalances`, `shares` and `reviews` what was carried out so far.
- **`Records`**. `server` says which commit of the start comes next and for which customer of the seed; `known`, `consent`, `records`,
  `docs`, `events`, `active`, `pushes` are rows (health records and medical documents name a consent, health events do not); `req[r]` the row a push request has read. `last`, `crossed` and `cut` are histories: the last push request
  of an account, whether two of its requests overlapped, whether the first customer's seeding was cut short.

Abstractions of these modules: texts, wording and amounts nobody decides on; the signature of a token and the password digest;
`mock_apply` is the execution mode of `Advice` (the other mode writes nothing and is in `Workflow`); which of a thread's open proposals is
asked first is left open in `Advice`, being `Workflow`'s matter; whoever holds something holds both high-risk and other assets,
as all seeded customers do; the other tables the seed clears and fills in the same commits are folded into `records`, `docs` and `events`.

### Faults

`NodeFails` is any exception in a node, before, between or after its commits (the open transaction is rolled back, earlier commits and
checkpoints stay), `AgentJobFails` the failing agent job, which needs no fault budget, `Disconnect` a streaming
client that goes away between two nodes, `Restart` the end of the process: every
request and every checkpoint is lost, the database stays. `Threads` has `BreakOff` between any two commits of a request and `Restart`;
`AgentJob` has failing writes and commits and `Crash`, after which the processes live on; `Advice` has `BreakOff` between any two commits of a
request; `Records` has `Stop` at every point of the start and while requests run, and accounts closed in the database.

## Properties

Safety under any interleaving and any fault:

- `ExecutedAsAsked`: what needed approval and ran, or touched customer data, was approved by
  the client for that very proposal, and the decision row says so.
- `DecisionsWereAsked`: an answer never lands on another proposal, however long it waits in a checkpoint.
- `Authority`: why both hold; where an approval is at any moment.
- `PendingNeedsApproval`: what the session offers is a stored proposal that needs approval, also after a `policy_check` that broke off.
- `NoSilentEffect`: no change of customer data without its record, but for the effects a fault cut off.

Safety with one request at a time, with faults:

- `StateMatchesPending`: the session's two columns agree.
- `ApprovalIsKept`: while a proposal is approved and not carried out, the session waits and the stored run holds this approval, ready for the next
  answer; only a restart loses the run. It does not say that the session waits for this very proposal: after a failure behind the last commit it
  may wait for the next one ("Behaviours the models also reach", 1).
- `DeclinedStays`: nothing reopens a declined proposal.
- `WaitEndsByAnswer`: the session stops waiting for a proposal only when that proposal was answered, also where a stored answer or `policy_check` is carried out again.

Without faults and one request at a time: `AtMostOnce`, `AtRestAgreement`, the liveness properties `ApprovalsHonoured` and `DecisionsSettle`,
and `KeepsPromise`, the refinement of `Approval` including its fairness.

What the repository says and the code does not do, each checked by a run of its own: `AtMostOnce` with overlapping requests or a fault,
`DeclinedStays` with overlapping requests, and `Answerable`.

`Threads`: `OwnSession` (thread, session and scope are of one customer, no session is shared), `OnlyInScope` (what
anyone was shown or allowed was within his scope), `OrphanOnlyByFault`, `LostOnlyInRace` (an approval that can still be answered is taken from the customer
only where a create looked at a thread without a checkpoint and marked it after a run had come in).

`AgentJob`: `PlanIsOwn`, `StatusTellsOutcome`, and the liveness property `JobEnds`.

`Advice`: `Conserved` (only a share above everything makes or loses money, only one below nothing puts a holding in the red, and the weights still say what the amounts
say), `NoRepeat` and `GapClosed` (what was done is not advised again), `CoverOnce`, `SoldAsAnnounced` (what is sold is what the approved proposal announced, or nothing where
it was sold already).

`Records`: `NoRowWithoutItsConsent` (what names a consent is there only while it is active), `Repaired` (a later start makes a cut one good), `RevokedUntilRestart`,
`LastPushCounts`, `OneRow`. Violated: `HealthUnderConsent` (what is shown of a customer's health is shown under an active consent).

The exemptions in these formulas are part of what they say. `LastPushCounts` and `OneRow` exempt an account whose push requests overlapped, `Repaired` the first customer when
his seeding was cut short, `StatusTellsOutcome` the rows that a fault kept from being written, `CoverOnce` handlers that inserted on an old look: there the code does go wrong. What it
does there is shown by a violation run, or described under "Behaviours the models also reach", or the hazard in `PROJECT.json` says in a note why nothing is held against it.

## Runs

| Run | Instance | Result |
|---|---|---|
| `serial` | 1 request, 4 stub plans, 2 signals, 4 decisions, no faults, fair | passes, 3,047 states |
| `concurrent` | 2 requests, plans of 0 and 3 actions, 2 signals, 2 decisions, 1 fault | passes, 944,482 states |
| `faults` | 1 request, 4 stub plans, 2 signals, 4 decisions, 2 faults | passes, 325,361 states |
| `threads` | 2 requests, 2 customers, 3 accounts, development and production, 3 creates, 2 runs, 1 fault | passes, 112,297 states |
| `jobs` | 2 jobs, both modes, 2 faults, fair | passes, 79,741 states |
| `cycle` | 2 threads, both planners, 4 seeded customers and one with nothing, 7 inputs, 4 codex plans with shares from -10% to 200%, 3 signals (2 with codex), 1 fault | passes, 461,244 states |
| `records` | 3 customers, 2 requests, 3 push calls, 2 faults | passes, 352,686 states |
| `double_approve` | 2 requests, 1 signal, 2 decisions | `AtMostOnce` violated |
| `retry` | 1 request, 1 signal, 2 decisions, 1 fault | `AtMostOnce` violated |
| `reject_lost` | 2 requests, 1 signal, 2 decisions | `DeclinedStays` violated |
| `wedge` | 2 requests, 1 signal, 2 decisions | `Answerable` violated |
| `events_shown` | 2 customers, production | `HealthUnderConsent` violated |

Why the bounds are enough: the plans hold no action, a harmless one, one and two gated ones, and a
harmless one before, between and after gated ones; two gated actions are the fewest with a *next*
proposal. Two signals give a plan that meets the rows of an earlier one. Four decisions answer two plans
with two gated actions each; two are the fewest for a race. In `concurrent` one fault falls into the race. Two
requests are the fewest that race, and requests share nothing but the modelled variables. Two faults give a
failure during the recovery from a failure. The bounds limit only what clients send and how
often faults strike; a behaviour may stop only where `NoMoreRequests` says so, so deadlock is checked.
Requests are symmetric; symmetry is used only for safety.

`threads`: two requests are the fewest that race; three creates give a customer a thread, a second one and a reuse between them; one
restart is enough to lose all checkpoints, and two runs put an approval on a thread before or after that. The accounts are a customer's, an
operator's and a closed one, and the client without a token. Steps that only show something or store a reply change nothing later steps read,
so their result is checked and not explored further (the CONSTRAINT). `jobs`: jobs share nothing but the directory tree, so two show any mix-up; two faults are what
it takes to leave a completed row behind a raised error. `cycle`: the four seeded customers are one for each way the seed can start the loop (both kinds of advice, none,
rebalancing only with two policies, insurance only), one with a weight exactly at the stub's threshold; the fifth is one whose seeding was cut short, so that reviews find no policy and rebalances no holding; three signals give a snapshot before, between and
after two effects. Threads may end up waiting for the customer, so deadlock is not checked there. The shares a codex plan asks for are the falsy one, two ordinary ones
of which 52% leaves one row as it is, and one beyond either end. Codex plans do not depend on what the snapshot shows, so two signals, which put two plans against each other, are
enough there; states at the third are checked and not explored further (the CONSTRAINT). `records`: the first customer and two further ones
differ as the seed's code does; three push calls are a register, a remove and a second register; two stops cut a start and the one that repairs it.

Fairness: weak fairness of each request's own steps. The nodes run in the
worker thread that serves the request, with nothing to wait for except the agent job, which has a
timeout. Clients and faults get no fairness. `AgentJob`'s `FairSpec` is weak fairness of each run's steps, which include the timeout while
the process lives; nothing is assumed of the process itself.

### What the violations show

1. `double_approve`: two approvals in flight both pass the executor's guard
   (`nodes.py:252`, `handlers.py:196-219`), since status and guard are not one transaction with the effect.
2. `retry`: the effect is committed (`handlers.py:115`) before its record (`handlers.py:175`); after a failure in between
   the customer's next approval repeats the effect.
3. `reject_lost`: `execute_action` overwrites whatever status is stored, so a committed rejection becomes an approval.
4. `wedge`: a second answer to the proposal just settled is consumed by the interrupt of the next proposal and stays stored; every
   later decision meets it and is refused, and signals are refused while the session waits.
5. `events_shown`: `get_health_data` filters records and documents by consent but not events (`data_tools.py:54-57`), and `revoke_consent` does not delete them
   (`privacy/service.py:20-34`).

Two weaknesses are known to the repository and are not reported: the loss of checkpoints at
restart (`wm_graph.py:17-21`) and the gate that lets every signal through.
The hazards in `PROJECT.json` include them.

### Behaviours the models also reach

Each of these was found with TLC on the models here; no run is kept for it. What to check, as an invariant or action property, to see it again is in brackets.

1. An executed action runs again behind a failure. The request that settled one approval fails after its last commit (`nodes.py:287-290`), so the checkpoint still holds that approval. The
   customer's answer to the next proposal, whatever it says, re-runs it: `execute_action` sets the executed proposal back to approved (`nodes.py:252`), the guard lets it pass, and the
   answer that was given is dropped. [`AtMostOnce`, or no status goes from `executed` to `approved`; `Workflow`, 1 request, 1 signal, 2 decisions, 1 fault]
2. A plan is stored and run twice. A decision that is accepted between the commit of `policy_check` (`nodes.py:198`) and its checkpoint resumes `policy_check` itself.
   [no more rows than one plan has; `Workflow`, 2 requests, 1 signal, 1 decision]
3. A wait is dropped. Two signals pass the check of `trigger_event` (`service.py:105`) while the session is monitoring; the run that finds nothing to ask ends the wait of the other
   (`nodes.py:176`), and nobody is asked about its proposal. [`WaitEndsByAnswer`; `Workflow`, 2 requests, 2 signals]
4. A session row is half of one request and half of the other. An answer writes those columns that differ from the copy it loaded (`nodes.py:283`), over what another run's
   `policy_check` has committed since. [`StateMatchesPending`; `Workflow`, 2 requests, 2 signals, 1 decision]
5. A waiting approval is passed over. `create_or_reuse_thread` has one candidate only; where that one lost its checkpoint in a restart, another thread that waits with one is not looked at
   (`service.py:49-56`). [no `StartNew` or `MarkStale` while a thread of the customer waits and is `live`; `Threads`, constants of the run]
6. No high-risk holdings cannot be asked for: a target of 0 is falsy and becomes 45% (`handlers.py:92`). [after `CommitRebalance` the weights are those of the plan; `Advice`, a plan for a share of 0]
7. Two rebalances mix. Both read before either commits, and the later UPDATE leaves out what did not change for it (`handlers.py:84-114`). [the same; 2 threads, shares of 52% and 30%]
8. A policy has the rider twice, or a customer without a policy gets two: two reviews look before either inserts (`handlers.py:46-65`). [`CoverOnce` without its exemption; 2 threads, a plan for a review]
9. A start of the server undoes a revocation: `_seed_additional_customers` clears and recreates the data of customers who exist and sets their consent to active (`seed.py:297-322`).
   `RevokedUntilRestart` says that nothing else does. [no consent goes from revoked to active; `Records`, 2 customers, 1 stop]

## Proofs

Every invariant and every action property that a passing run checks, except `WaitEndsByAnswer`, is also a theorem for all values of the constants; the safety part of the
refinement is one too. The assumptions are the named ones of the modules, which TLC evaluates on every run.

| Module | Theorem | States | For |
|---|---|---|---|
| `WorkflowProofs` | `TypeCorrect` | `TypeOK` | any requests, plans, faults |
| | `ExecutionNeedsApproval` | `ExecutedAsAsked` | any requests, plans, faults |
| | `DecisionsAreTheClients` | `DecisionsWereAsked` | any requests, plans, faults |
| | `AuthorityHolds` | `Authority` | any requests, plans, faults |
| `WorkflowEffectProofs` | `PendingIsGated` | `PendingNeedsApproval` | any requests, plans, faults |
| | `EffectsAreRecorded` | `NoSilentEffect` | any requests, plans, faults |
| `WorkflowSerialProofs` | `ColumnsAgree` | `StateMatchesPending` | one request at a time, any faults |
| | `ApprovalsAreNotOrphaned` | `ApprovalIsKept` | one request at a time, any faults |
| | `DeclinedStayDeclined` | `DeclinedStays` | one request at a time, any faults |
| `WorkflowPromiseProofs` | `ExecutedAtMostOnce` | `AtMostOnce` | one request at a time, until a fault |
| | `RestIsAgreed` | `AtRestAgreement` | one request at a time, until a fault |
| | `StepsKeepThePromise` | safety part of `KeepsPromise` | one request at a time, no faults |
| `AgentJobProofs` | `AgentJobTypeCorrect`, `PlansAreOwn`, `OutcomeIsTold` | `TypeOK`, `PlanIsOwn`, `StatusTellsOutcome` | any jobs, both modes, any faults |
| `ThreadsProofs` | `ThreadsTypeCorrect`, `ThreadsOwnSessions`, `NobodyBeyondScope`, `OrphansAreFaults` | `TypeOK`, `OwnSession`, `OnlyInScope`, `OrphanOnlyByFault` | any accounts, requests, faults |
| | `LostInRaces` | `LostOnlyInRace` | any accounts, requests, faults |
| `RecordsProofs` | `RecordsTypeCorrect`, `ConsentGuardsData`, `OnlySeedUndoesRevocation` | `TypeOK`, `NoRowWithoutItsConsent`, `RevokedUntilRestart` | any customers, stops |
| | `StartsRepair` | `Repaired` | any customers, stops |
| | `LastRequestCounts`, `RowsAreSingle` | `LastPushCounts`, `OneRow` | any accounts, requests, stops |
| `AdviceProofs` | `AdviceTyped`, `NothingIsLost`, `AdviceIsNotRepeated`, `GapStaysClosed`, `CoveredOnce`, `SalesAreAnnounced` | `TypeOK`, `Conserved`, `NoRepeat`, `GapClosed`, `CoverOnce`, `SoldAsAnnounced` | any holdings, policies, shares, threads, faults |

### The two hypotheses about requests and faults

`OneAtATime` says that the clients of a thread send the next request when the one before it is over, and `faults = 0` that nothing has failed so
far. Both are needed, and the violation runs show it: with two requests `double_approve` breaks `AtMostOnce` and `reject_lost` breaks `DeclinedStays`;
with one request and one fault `retry` breaks `AtMostOnce`. A theorem uses `faults = 0` in the state, as in `Spec => [](faults = 0 => AtMostOnce)`: it says something of every
behaviour up to its first fault, whatever `MaxFaults` is. `AgentJobFails`, the failing agent job, does not count as a fault.

### The arguments

**Authority** (`WorkflowProofs`). `ExecutedAsAsked` speaks of rows only, and is not inductive, because a step of the executor adds an
execution without looking at the decision rows again. The inductive invariant `IInv` adds to the types
`Authority`: an answer in a request, in a run or in the checkpoint was asked for; a request inside the executor works
either on a proposal that needs no approval (from `policy_check`) or on one with an asked and recorded
approval (from `execute_action`); the loop of `policy_check` stays within the stored rows. These survive the steps of
others because rows are never dropped, never change what they propose and never lose a decision (`Grows`).
`OneRequest` states once what a step of one request has to establish; `InvNext` then has one step for each action.

**Offers and effects** (`WorkflowEffectProofs`). What the session offers may have been chosen by another request's `policy_check`, so `OfferInv` adds that
what each loop has kept so far may be offered. An effect without its record is visible in the rows between two commits of `execute()`. `EffectInv`
counts: of each proposal, effects do not exceed records by more than the requests between those two commits, and those that faults have cut off there: at most
every request once for each fault. Worker threads are finitely many (`RequestsAssumption`).

**One request at a time** (`WorkflowSerialProofs`). `StateMatchesPending` depends on what the request in flight believes. `SerialInv` says where it is
in its node and how the run, the checkpoint, the answer it carries and the session row hang together (`Place`). A failure behind the last commit of a node leaves a session that waits and a
run that has yet to settle, so the two agree in one direction only: a run at the interrupt stops for what the session waits for, and while the session waits some run stops there,
holds an answer or repeats `policy_check` (`Agrees`). It says too that the rows `policy_check` has still to look at are all proposed (`Turn`),
that the row `execute_action` works on is approved until it is settled (`Answer`), and of the rows that an approval not carried out is the one in the stored run (`Kept`) and that a stored
answer to a declined proposal is the one that declined it (`Repeats`), which is what makes its replay after a fault harmless.

**Exactly as promised** (`WorkflowPromiseProofs`). Until the first fault `ExactInv` adds that a row that may still run has not run, except between
the two commits of its execution (`Once`), that the loop of `policy_check` has run what needs nobody and holds the oldest of the others (`Held`), and that outside the two nodes
that commit, the session offers the oldest open proposal. Under the mapping of `WorkflowRefinement` each commit is then a step of `Approval` or none; `StepsKeepThePromise`
goes through them action by action.

**Jobs** (`AgentJobProofs`). The properties speak of runs that are over; the invariant says what a run has in hand on
the way there: its path holds only what its own process wrote, marked late only when the job is over, and the row is completed from the commit on. A step of one
job touches no other's files or row (`OneJob`).

**Threads** (`ThreadsProofs`). A create commits its session before its thread; the invariant says that the session id in its local is the request's own
until then. `OnlyInScope` needs `OwnSession`: a route checks the customer of the thread row and works on the session row.
It rests on `AccountAssumption`: account rows are well formed and no account is called `Nobody`. For `LostOnlyInRace`, `RaceInv` adds that a thread that was given up
while nobody was on it has no checkpoint and no request on it, now and later.

**Records** (`RecordsProofs`). The invariant says what the seed has established
for the customer it is at: no data of his before the first commit, no document and an active consent between the two. It rests on
`OrderAssumption`: the seed's list has two customers at least and names none twice. That `records`, `docs` and `events` stay within 0..1 is part of the type. Events are outside `NoRowWithoutItsConsent`: `events_shown` shows why.
`RepairInv` adds that whoever the seed has passed is whole, and the first customer too unless he was cut short. `PushInv` adds, for each account without overlapping push requests, that at most one of
them is in flight, that the row it has read is the row there is, and that the row's status tells the last request.

**Advice** (`AdviceProofs`). None of the properties is inductive: what a handler writes depends on what it read, perhaps before others wrote. `IInv` says what each thread
carries and how much of it is still true: a snapshot from before the first rebalance shows the stored weights, or a later one of the stub's nothing to sell (`SnapshotTrue`); an offer announces what is
there now as long as nothing was written (`OfferTrue`); what a handler has read is a portfolio of the same shape, and under the stub a balanced one (`ReadTrue`). The stub asks for one share only, so whatever
overlaps, after the first rebalance every row is where the stub puts it (`Resting`), and a handler that is late sells nothing. For the reviews, policies only gain riders and, up to a
late look, one is added only where none is active, so the policy a handler has found is the one all later ones find (`Found`, `RidersOnFirst`) and a rider it has seen is still there (`Looked`). The assumption on customers is what the seed
gives: nobody has two policies of one name, nor the rider to begin with. Totals run over any number of holdings. The library's induction theorems take an operator and cannot be instantiated by the provers here, so what is said of a
sum is proved by looking at the first prefix for which it fails: `LeastNumber`, from the well-foundedness of `<`, then `UpTo` and `PartialSums`. `BalancedAgain` is the arithmetic of `_apply_mock_rebalance`: either
side's share divided by its holdings, summed, is everything there was; a share below nothing is made up by the other side, one above everything is not.

### Only model-checked

Liveness under fairness is out of the prover's reach: `ApprovalsHonoured`, `DecisionsSettle`, `JobEnds`, and the fairness part of `KeepsPromise`. Its safety
part, `StepsArePromised`, is proved. `WaitEndsByAnswer` is an ordinary action property that is not proved yet: it needs, beyond `SerialInv`, that a plan which `policy_check` repeats
while the session waits has an action that needs approval.

## Plan

What is left, most useful first:

1. The proof of `WaitEndsByAnswer` from `SerialInv`.
2. `Records` and `Advice` composed at the seed: a start recreates the holdings a pending proposal was made on.
3. Snapshots stored before a revocation: which later reads still reach them.
4. The abstract specification of the other components, as `Approval` is for the workflow: `AgentJob` as one answer or one failure, and its refinement.

## Not modelled, and why

- `purge_expired_sensitive_messages`: no code calls it, so it takes part in no behaviour.
- `_reconcile_mvp_schema`: DDL on a development database, no state of its own.
- The web client: the server does not rely on it; clients are unconstrained in the models.
- Benchmarks, scripts, documents, logging, the health route.
- Spending summaries, loan prechecks, population statistics and the redaction of identifiers: they feed texts only.
- What the customer routes answer: they only read.
- What `Advice` and `Records` do to one another (a start of the server replaces holdings and policies) is a hazard in `PROJECT.json` without a property.
