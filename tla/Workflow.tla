------------------------------ MODULE Workflow ------------------------------
(***************************************************************************)
(* One customer thread: its AgentSession row, its proposals, the LangGraph *)
(* checkpoint, and the HTTP requests that run the graph on it at the same  *)
(* time.  A step is one database commit of the code together with the      *)
(* reads that feed it, or one checkpoint write; anything may happen        *)
(* between two of them.                                                    *)
(***************************************************************************)
EXTENDS Naturals, Sequences, FiniteSets, Policy

CONSTANTS
  Requests,       \* worker threads that may be inside the graph at once
  Plans,          \* the plans an agent job may return
  ExecutionMode,  \* settings.action_execution_mode
  MaxEvents,      \* bound: signals accepted in one behaviour
  MaxAnswers,     \* bound: customer decisions accepted in one behaviour
  MaxFaults       \* bound: exceptions, disconnects and restarts in one behaviour

ASSUME RequestsAssumption == IsFiniteSet(Requests)
ASSUME PlansAssumption == Plans \subseteq Seq(Items)
ASSUME ModeAssumption == ExecutionMode \in ExecutionModes
ASSUME BoundsAssumption == {MaxEvents, MaxAnswers, MaxFaults} \subseteq Nat

VARIABLES
  session,     \* the AgentSession row: its state and pending_proposal_id
  proposals,   \* the ActionProposal rows of the session, by created_at
  checkpoint,  \* what InMemorySaver holds last for the thread
  pc,          \* where each request is
  graph,       \* the channel values of each request's graph run
  ask,         \* the decision each request carries, and the proposal it names
  batch,       \* policy_check's loop over the proposals it has just stored
  events,      \* signals accepted so far
  answers,     \* decisions accepted so far
  faults       \* faults so far

vars ==
  <<session, proposals, checkpoint, pc, graph, ask, batch, events, answers, faults>>

-----------------------------------------------------------------------------
(* Values. *)

None == 0
SessionState == {"Monitoring", "UserApproval"}
Decision == {"approve", "reject", "revise"}
Status == {"proposed", "approved", "rejected", "deferred", "executed", "failed"}

NoAnswer == [act |-> "none", target |-> None]
Answers == [act : Decision \cup {"none"}, target : Nat]

\* A proposal row with the rows that refer to it.  asked is a history: the
\* decisions clients submitted for this proposal and the service accepted;
\* decisions are the ApprovalDecision rows, executions counts the
\* ActionExecution rows, applied the handler commits on customer data.
Proposal == [item : Items, status : Status, asked : SUBSET Decision,
             decisions : SUBSET Decision, applied : Nat, executions : Nat]

NewProposal(item) ==
  [item |-> item, status |-> "proposed", asked |-> {}, decisions |-> {},
   applied |-> 0, executions |-> 0]

NewProposals(plan) == [i \in 1..Len(plan) |-> NewProposal(plan[i])]

\* What one commit does to a row.
Asked(row, act) == [row EXCEPT !.asked = @ \cup {act}]

\* Mutant: a proposal sent back for revision stays open.
DecidedReviseOpen(row, act) ==
  [row EXCEPT !.decisions = @ \cup {act},
              !.status = CASE act = "approve" -> "approved"
                           [] act = "reject" -> "rejected"
                           [] act = "revise" -> "proposed"]

Decided(row, act) ==
  [row EXCEPT !.decisions = @ \cup {act},
              !.status = CASE act = "approve" -> "approved"
                           [] act = "reject" -> "rejected"
                           [] act = "revise" -> "deferred"]

Applied(row) == [row EXCEPT !.applied = @ + 1]

\* Mutants: the status of an agent job; one execution row for all attempts.
RecordedCompleted(row) == [row EXCEPT !.status = "completed", !.executions = @ + 1]
RecordedOnce(row) ==
  [row EXCEPT !.status = OutcomeStatus(ExecutionMode), !.executions = 1]

Recorded(row) ==
  [row EXCEPT !.status = OutcomeStatus(ExecutionMode), !.executions = @ + 1]

\* The edges of the graph that do not depend on a channel.
Edge == [data_refresh |-> "signal_detect", signal_detect |-> "signal_gate",
         signal_gate |-> "build_context", build_context |-> "spawn_agent",
         spawn_agent |-> "validate_output", validate_output |-> "policy_check",
         approval_interrupt |-> "execute_action",
         verify_result |-> "update_memory", update_memory |-> "END"]

\* Nodes that only append audit rows (snapshot, signal, message, event).
AuditNodes == {"data_refresh", "signal_detect", "signal_gate", "build_context",
               "validate_output", "verify_result"}

Nodes == AuditNodes \cup {"spawn_agent", "policy_check", "approval_interrupt",
                          "execute_action", "update_memory"}

\* route_after_policy and route_after_execution.
Route(pending) == IF pending = None THEN "verify_result" ELSE "approval_interrupt"

\* The channels that decide anything, and the node that runs next.
Runs == [next : Nodes \cup {"END", "none"}, pending : Nat,
         answer : Answers, plan : Plans \cup {<<>>}]

NoRun == [next |-> "none", pending |-> None, answer |-> NoAnswer, plan |-> <<>>]

PCs == {"idle", "load", "node", "resume", "loop", "scoped", "apply", "record",
        "settle", "return", "put"}

Batches == [at : Nat, hi : Nat, pending : Nat]
NoBatch == [at |-> 1, hi |-> 0, pending |-> None]

TypeOK ==
  /\ session \in [state : SessionState, pending : Nat]
  /\ proposals \in Seq(Proposal)
  /\ checkpoint \in Runs
  /\ pc \in [Requests -> PCs]
  /\ graph \in [Requests -> Runs]
  /\ ask \in [Requests -> Answers]
  /\ batch \in [Requests -> Batches]
  /\ events \in 0..MaxEvents
  /\ answers \in 0..MaxAnswers
  /\ faults \in 0..MaxFaults

Init ==
  /\ session = [state |-> "Monitoring", pending |-> None]
  /\ proposals = <<>>
  /\ checkpoint = NoRun
  /\ pc = [r \in Requests |-> "idle"]
  /\ graph = [r \in Requests |-> NoRun]
  /\ ask = [r \in Requests |-> NoAnswer]
  /\ batch = [r \in Requests |-> NoBatch]
  /\ events = 0
  /\ answers = 0
  /\ faults = 0

-----------------------------------------------------------------------------
(* Helpers of the actions. *)

At(r, place) == pc[r] = place
Goto(r, place) == pc' = [pc EXCEPT ![r] = place]

\* Request r is about to run node n.
InNode(r, n) == At(r, "node") /\ graph[r].next = n

\* The request is over: its response is sent, its locals are gone.
Finish(r) ==
  /\ pc' = [pc EXCEPT ![r] = "idle"]
  /\ graph' = [graph EXCEPT ![r] = NoRun]
  /\ ask' = [ask EXCEPT ![r] = NoAnswer]
  /\ batch' = [batch EXCEPT ![r] = NoBatch]

\* A node has returned: its values are in the run, the checkpoint is next.
Return(r, run) ==
  /\ graph' = [graph EXCEPT ![r] = run]
  /\ Goto(r, "put")
  /\ UNCHANGED <<proposals, checkpoint, ask, events, answers, faults>>

\* A node whose database writes no other request reads: its return and its
\* checkpoint are one step.
ReturnAndPut(r, run) ==
  /\ graph' = [graph EXCEPT ![r] = run]
  /\ checkpoint' = run
  /\ Goto(r, "node")
  /\ UNCHANGED <<session, proposals, ask, batch, events, answers, faults>>

\* Mutants: the query without the approval filter; with what was put off.
OpenAny(ps) == {p \in DOMAIN ps : ps[p].status = "proposed"}
OpenDeferred(ps) ==
  {p \in DOMAIN ps : ps[p].status \in {"proposed", "deferred"} /\ NeedsApproval(ps[p].item)}

\* The proposals that still wait for the customer.
Open(ps) ==
  {p \in DOMAIN ps : ps[p].status = "proposed" /\ NeedsApproval(ps[p].item)}

\* nxt is the oldest of them.
IsNextPending(nxt, ps) ==
  IF Open(ps) = {} THEN nxt = None
  ELSE nxt \in Open(ps) /\ \A p \in Open(ps) : nxt <= p

StateFor(pending) == IF pending = None THEN "Monitoring" ELSE "UserApproval"

-----------------------------------------------------------------------------
(* A request enters the graph. *)

\* trigger_event, stream_event: refused while an approval is pending.
TriggerEvent(r) ==
  /\ At(r, "idle")
  /\ events < MaxEvents
  /\ session.state = "Monitoring"
  /\ Goto(r, "load")
  /\ events' = events + 1
  /\ UNCHANGED <<session, proposals, checkpoint, graph, ask, batch, answers, faults>>

\* submit_decision, stream_decision: only for the proposal that is pending.
SubmitDecision(r) ==
  /\ At(r, "idle")
  /\ answers < MaxAnswers
  /\ session.state = "UserApproval"
  /\ session.pending \in DOMAIN proposals
  /\ \E act \in Decision :
       /\ ask' = [ask EXCEPT ![r] = [act |-> act, target |-> session.pending]]
       /\ proposals' = [proposals EXCEPT ![session.pending] = Asked(@, act)]
  /\ Goto(r, "load")
  /\ answers' = answers + 1
  /\ UNCHANGED <<session, checkpoint, graph, batch, events, faults>>

\* A fresh input restarts the graph and drops whatever was waiting.
LoadInput(r) ==
  /\ At(r, "load")
  /\ ask[r] = NoAnswer
  /\ ReturnAndPut(r, [checkpoint EXCEPT !.next = "data_refresh"])

\* Command(resume=...) continues from the checkpoint.  The answer reaches the
\* interrupt only if that is the node the checkpoint stops at.
LoadResume(r) ==
  /\ At(r, "load")
  /\ ask[r] # NoAnswer
  /\ checkpoint.next \in Nodes
  /\ graph' = [graph EXCEPT ![r] = checkpoint]
  /\ Goto(r, IF checkpoint.next = "approval_interrupt" THEN "resume" ELSE "node")
  /\ UNCHANGED <<session, proposals, checkpoint, ask, batch, events, answers, faults>>

\* No checkpoint: an error.  A finished graph: nothing runs and the call
\* returns normally.  Either way the decision is gone.
LoadNothing(r) ==
  /\ At(r, "load")
  /\ ask[r] # NoAnswer
  /\ checkpoint.next \notin Nodes
  /\ Finish(r)
  /\ UNCHANGED <<session, proposals, checkpoint, events, answers, faults>>

\* A checkpoint is written; END is where the request returns.
PutCheckpoint(r) ==
  /\ At(r, "put")
  /\ checkpoint' = graph[r]
  /\ IF graph[r].next = "END"
       THEN Finish(r)
       ELSE Goto(r, "node") /\ UNCHANGED <<graph, ask, batch>>
  /\ UNCHANGED <<session, proposals, events, answers, faults>>

-----------------------------------------------------------------------------
(* The nodes up to policy_check. *)

AuditNode(r) ==
  /\ At(r, "node")
  /\ graph[r].next \in AuditNodes
  /\ ReturnAndPut(r, [graph[r] EXCEPT !.next = Edge[graph[r].next]])

\* spawn_agent: the job ends with some plan ...
SpawnAgent(r) ==
  /\ InNode(r, "spawn_agent")
  /\ \E plan \in Plans :
       ReturnAndPut(r, [graph[r] EXCEPT !.next = "validate_output", !.plan = plan])

\* ... or fails (timeout, bad output, leaked identifier) and the error is
\* raised through the graph.
AgentJobFails(r) ==
  /\ InNode(r, "spawn_agent")
  /\ Finish(r)
  /\ UNCHANGED <<session, proposals, checkpoint, events, answers, faults>>

-----------------------------------------------------------------------------
(* policy_check. *)

\* Mutant: a plan stored by an earlier attempt is not stored again, and the loop
\* only sees what this attempt stored.
PersistPlanOnce(r) ==
  /\ InNode(r, "policy_check")
  /\ LET n == Len(proposals)
         plan == IF Open(proposals) = {} THEN graph[r].plan ELSE <<>>
     IN /\ proposals' = proposals \o NewProposals(plan)
        /\ batch' = [batch EXCEPT ![r] =
                       [at |-> n + 1, hi |-> n + Len(plan), pending |-> None]]
  /\ Goto(r, "loop")
  /\ UNCHANGED <<session, checkpoint, graph, ask, events, answers, faults>>

\* _persist_plan and _record_plan.
PersistPlan(r) ==
  /\ InNode(r, "policy_check")
  /\ LET plan == graph[r].plan
         n == Len(proposals)
     IN /\ proposals' = proposals \o NewProposals(plan)
        /\ batch' = [batch EXCEPT ![r] =
                       [at |-> n + 1, hi |-> n + Len(plan), pending |-> None]]
  /\ Goto(r, "loop")
  /\ UNCHANGED <<session, checkpoint, graph, ask, events, answers, faults>>

\* Mutant: the loop's variable is kept instead of the first proposal held back.
NextTurnLeaks(b, pending) == [at |-> b.at + 1, hi |-> b.hi, pending |-> b.at]

\* The loop goes on to the next proposal; pending is the first one kept back.
NextTurn(b, pending) == [at |-> b.at + 1, hi |-> b.hi, pending |-> pending]

\* Mutant: the last one held back is offered first.
LastOf(pending, p) == p
FirstOf(pending, p) == IF pending = None THEN p ELSE pending

\* A proposal that needs approval is left for the customer.
KeepForApproval(r) ==
  /\ At(r, "loop")
  /\ batch[r].at <= batch[r].hi
  /\ NeedsApproval(proposals[batch[r].at].item)
  /\ batch' = [batch EXCEPT ![r] = NextTurn(@, FirstOf(@.pending, @.at))]
  /\ UNCHANGED <<session, proposals, checkpoint, pc, graph, ask, events, answers, faults>>

\* Mutant: every proposal goes to the executor.
AutoExecuteAny(r) ==
  /\ At(r, "loop")
  /\ batch[r].at <= batch[r].hi
  /\ Goto(r, "scoped")
  /\ UNCHANGED <<session, proposals, checkpoint, graph, ask, batch, events, answers, faults>>

\* Any other proposal is executed at once.
AutoExecute(r) ==
  /\ At(r, "loop")
  /\ batch[r].at <= batch[r].hi
  /\ ~NeedsApproval(proposals[batch[r].at].item)
  /\ Goto(r, "scoped")
  /\ UNCHANGED <<session, proposals, checkpoint, graph, ask, batch, events, answers, faults>>

\* Mutant: one of the two columns is forgotten.
RoutePolicyPendingOnly(r) ==
  /\ At(r, "loop")
  /\ batch[r].at > batch[r].hi
  /\ LET pending == batch[r].pending
     IN session' = [session EXCEPT !.pending = pending]
  /\ Goto(r, "return")
  /\ UNCHANGED <<proposals, checkpoint, graph, ask, batch, events, answers, faults>>

\* The last commit of policy_check: both session columns are written.
RoutePolicy(r) ==
  /\ At(r, "loop")
  /\ batch[r].at > batch[r].hi
  /\ LET pending == batch[r].pending
     IN session' = [state |-> StateFor(pending), pending |-> pending]
  /\ Goto(r, "return")
  /\ UNCHANGED <<proposals, checkpoint, graph, ask, batch, events, answers, faults>>

-----------------------------------------------------------------------------
(* approval_interrupt and execute_action. *)

\* No resume value: the graph stops here and the request returns.
Interrupt(r) ==
  /\ InNode(r, "approval_interrupt")
  /\ Finish(r)
  /\ UNCHANGED <<session, proposals, checkpoint, events, answers, faults>>

\* interrupt() returns the resume value.
ResumeInterrupt(r) ==
  /\ At(r, "resume")
  /\ ReturnAndPut(r, [graph[r] EXCEPT !.answer = ask[r], !.next = "execute_action"])

\* The stored answer is for another proposal: 409, nothing is written.
DecisionMismatch(r) ==
  /\ InNode(r, "execute_action")
  /\ graph[r].answer.target # graph[r].pending
  /\ Finish(r)
  /\ UNCHANGED <<session, proposals, checkpoint, events, answers, faults>>

\* Mutant: the answer is taken for whatever is pending.
AnswerForAny(r, acts) == InNode(r, "execute_action") /\ graph[r].answer.act \in acts

AnswerIs(r, acts) ==
  /\ InNode(r, "execute_action")
  /\ graph[r].answer.target = graph[r].pending
  /\ graph[r].answer.act \in acts

\* Mutants: revise taken for approve; the session moves on with the approval.
ApproveOnRevise(r) ==
  /\ AnswerIs(r, {"approve", "revise"})
  /\ proposals' = [proposals EXCEPT ![graph[r].pending] = Decided(@, "approve")]
  /\ Goto(r, "scoped")
  /\ UNCHANGED <<session, checkpoint, graph, ask, batch, events, answers, faults>>

ApproveAndMoveOn(r) ==
  /\ AnswerIs(r, {"approve"})
  /\ proposals' = [proposals EXCEPT ![graph[r].pending] = Decided(@, "approve")]
  /\ session' = [state |-> "Monitoring", pending |-> None]
  /\ Goto(r, "scoped")
  /\ UNCHANGED <<checkpoint, graph, ask, batch, events, answers, faults>>

\* approve: the decision row and the status, whatever the status was.
ApproveProposal(r) ==
  /\ AnswerIs(r, {"approve"})
  /\ proposals' = [proposals EXCEPT ![graph[r].pending] = Decided(@, "approve")]
  /\ Goto(r, "scoped")
  /\ UNCHANGED <<session, checkpoint, graph, ask, batch, events, answers, faults>>

\* reject and revise, one commit.  The session row was loaded when the request
\* checked it, in state UserApproval with this request's target pending; only
\* the columns that differ from that are written.
DeclineProposal(r) ==
  /\ AnswerIs(r, {"reject", "revise"})
  /\ proposals' = [proposals EXCEPT
       ![graph[r].pending] = Decided(@, graph[r].answer.act)]
  /\ \E nxt \in {None} \cup DOMAIN proposals :
       /\ IsNextPending(nxt, proposals')
       /\ session' =
            [state   |-> IF nxt = None THEN "Monitoring" ELSE session.state,
             pending |-> IF nxt = ask[r].target THEN session.pending ELSE nxt]
  /\ Goto(r, "return")
  /\ UNCHANGED <<checkpoint, graph, ask, batch, events, answers, faults>>

\* After an approved execution the session row is read again and written.
SettleApproval(r) ==
  /\ At(r, "settle")
  /\ \E nxt \in {None} \cup DOMAIN proposals :
       /\ IsNextPending(nxt, proposals)
       /\ session' = [state |-> StateFor(nxt), pending |-> nxt]
  /\ Goto(r, "return")
  /\ UNCHANGED <<proposals, checkpoint, graph, ask, batch, events, answers, faults>>

-----------------------------------------------------------------------------
(* execute_scoped and execute, called from both nodes. *)

InPolicyCheck(r) == graph[r].next = "policy_check"
Target(r) == IF InPolicyCheck(r) THEN batch[r].at ELSE graph[r].pending

\* Back to the caller: the next turn of the loop, or the end of the node.
BackToCaller(r) ==
  /\ Goto(r, IF InPolicyCheck(r) THEN "loop" ELSE "settle")
  /\ batch' = IF InPolicyCheck(r) THEN [batch EXCEPT ![r] = NextTurn(@, @.pending)] ELSE batch

\* An executed proposal is not executed again: the existing row is returned.
ReturnExisting(r) ==
  /\ At(r, "scoped")
  /\ proposals[Target(r)].status = "executed"
  /\ proposals[Target(r)].executions > 0
  /\ BackToCaller(r)
  /\ UNCHANGED <<session, proposals, checkpoint, graph, ask, events, answers, faults>>

\* Mutant: an approved proposal no longer counts as open.
MayExecuteProposed(p, requireApproval) ==
  /\ proposals[p].status = "proposed"
  /\ NeedsApproval(proposals[p].item) =>
       requireApproval /\ proposals[p].status = "approved"

MayExecute(p, requireApproval) ==
  /\ proposals[p].status \in {"proposed", "approved"}
  /\ NeedsApproval(proposals[p].item) =>
       requireApproval /\ proposals[p].status = "approved"

PassGuard(r) ==
  /\ At(r, "scoped")
  /\ MayExecute(Target(r), ~InPolicyCheck(r))
  /\ Goto(r, "apply")
  /\ UNCHANGED <<session, proposals, checkpoint, graph, ask, batch, events, answers, faults>>

\* 409: the exception leaves the node and the request.
RefuseExecution(r) ==
  /\ At(r, "scoped")
  /\ ~MayExecute(Target(r), ~InPolicyCheck(r))
  /\ ~(/\ proposals[Target(r)].status = "executed"
       /\ proposals[Target(r)].executions > 0)
  /\ Finish(r)
  /\ UNCHANGED <<session, proposals, checkpoint, events, answers, faults>>

\* The handler of the proposal's kind commits its effect by itself.
ApplyHandler(r) ==
  /\ At(r, "apply")
  /\ proposals' = IF WritesCustomerData(proposals[Target(r)].item, ExecutionMode)
                    THEN [proposals EXCEPT ![Target(r)] = Applied(@)]
                    ELSE proposals
  /\ Goto(r, "record")
  /\ UNCHANGED <<session, checkpoint, graph, ask, batch, events, answers, faults>>

\* execute(): the execution row and the status, one commit.
RecordExecution(r) ==
  /\ At(r, "record")
  /\ proposals' = [proposals EXCEPT ![Target(r)] = Recorded(@)]
  /\ BackToCaller(r)
  /\ UNCHANGED <<session, checkpoint, graph, ask, events, answers, faults>>

-----------------------------------------------------------------------------
(* The return of policy_check and of execute_action.  What they return they    *)
(* read back after their last commit: the session row as it is by then.        *)

ReturnNode(r) ==
  /\ At(r, "return")
  /\ LET pending == IF InPolicyCheck(r) THEN batch[r].pending ELSE session.pending
         answer == IF InPolicyCheck(r) THEN graph[r].answer ELSE NoAnswer
     IN Return(r, [graph[r] EXCEPT !.pending = pending, !.answer = answer,
                                   !.next = Route(pending)])
  /\ batch' = [batch EXCEPT ![r] = NoBatch]
  /\ UNCHANGED session

-----------------------------------------------------------------------------
(* update_memory. *)

UpdateMemory(r) ==
  /\ InNode(r, "update_memory")
  /\ session' = [session EXCEPT !.state = IF session.pending = None
                                            THEN "Monitoring" ELSE @]
  /\ Return(r, [graph[r] EXCEPT !.next = "END"])
  /\ UNCHANGED batch

-----------------------------------------------------------------------------
(* Faults. *)

\* An exception inside a node: the open transaction is rolled back, the
\* request answers 500, commits and checkpoints already made stay.
NodeFails(r) ==
  /\ faults < MaxFaults
  /\ pc[r] \in {"node", "resume", "loop", "scoped", "apply", "record", "settle",
               "return"}
  /\ faults' = faults + 1
  /\ Finish(r)
  /\ UNCHANGED <<session, proposals, checkpoint, events, answers>>

\* A streaming client goes away: the generator is dropped between two nodes.
Disconnect(r) ==
  /\ faults < MaxFaults
  /\ pc[r] \in {"load", "node"}
  /\ faults' = faults + 1
  /\ Finish(r)
  /\ UNCHANGED <<session, proposals, checkpoint, events, answers>>

\* The process restarts: requests and the in-memory checkpoints are gone.
Restart ==
  /\ faults < MaxFaults
  /\ faults' = faults + 1
  /\ checkpoint' = NoRun
  /\ pc' = [r \in Requests |-> "idle"]
  /\ graph' = [r \in Requests |-> NoRun]
  /\ ask' = [r \in Requests |-> NoAnswer]
  /\ batch' = [r \in Requests |-> NoBatch]
  /\ UNCHANGED <<session, proposals, events, answers>>

-----------------------------------------------------------------------------

EnterStep(r) == TriggerEvent(r) \/ SubmitDecision(r)

LoadStep(r) == LoadInput(r) \/ LoadResume(r) \/ LoadNothing(r)

PolicyStep(r) ==
  \/ PersistPlan(r) \/ KeepForApproval(r) \/ AutoExecute(r) \/ RoutePolicy(r)

ApprovalStep(r) ==
  \/ Interrupt(r) \/ ResumeInterrupt(r) \/ DecisionMismatch(r)
  \/ ApproveProposal(r) \/ DeclineProposal(r) \/ SettleApproval(r)

ExecutorStep(r) ==
  \/ ReturnExisting(r) \/ PassGuard(r) \/ RefuseExecution(r)
  \/ ApplyHandler(r) \/ RecordExecution(r)

\* What a request does by itself once it has been accepted.
RequestStep(r) ==
  \/ LoadStep(r) \/ PutCheckpoint(r) \/ AuditNode(r)
  \/ SpawnAgent(r) \/ AgentJobFails(r)
  \/ PolicyStep(r) \/ ApprovalStep(r) \/ ExecutorStep(r)
  \/ ReturnNode(r) \/ UpdateMemory(r)

FaultStep(r) == NodeFails(r) \/ Disconnect(r)

\* No request is running and the bounds admit no other: the only place where a
\* behaviour may stop.
NoMoreRequests ==
  /\ \A r \in Requests : At(r, "idle")
  /\ IF session.state = "Monitoring" THEN events = MaxEvents ELSE answers = MaxAnswers
  /\ UNCHANGED vars

Next ==
  \/ \E r \in Requests : EnterStep(r) \/ RequestStep(r) \/ FaultStep(r)
  \/ Restart
  \/ NoMoreRequests

Spec == Init /\ [][Next]_vars

\* A request that was accepted runs in its worker thread until it returns;
\* nothing makes a client send one.
Fairness == \A r \in Requests : WF_vars(RequestStep(r))

FairSpec == Spec /\ Fairness

-----------------------------------------------------------------------------
(* Properties. *)

Quiet == \A r \in Requests : At(r, "idle")

\* What needed approval and ran, or touched customer data, was approved: the
\* client asked to approve this very proposal and the decision row says so
\* (execute_action, execute_scoped; any interleaving and any fault).
ExecutedAsAsked ==
  \A p \in DOMAIN proposals :
    /\ NeedsApproval(proposals[p].item)
    /\ proposals[p].applied > 0 \/ proposals[p].executions > 0
    => "approve" \in proposals[p].asked \cap proposals[p].decisions

\* An answer never lands on another proposal: every ApprovalDecision row was
\* submitted by a client for the proposal it refers to, however long the answer
\* waited in a checkpoint (the id comparison of execute_action).
DecisionsWereAsked ==
  \A p \in DOMAIN proposals : proposals[p].decisions \subseteq proposals[p].asked

\* Why the two above hold: where an approval is at any moment.  Every answer
\* that a request, a run or the checkpoint carries was submitted for the
\* proposal it names, and whoever is inside the executor either holds such an
\* approval, recorded, or works on a proposal that needs none.
Answered(a) ==
  a.act # "none" => /\ a.target \in DOMAIN proposals
                    /\ a.act \in proposals[a.target].asked

Authorised(r) ==
  pc[r] \in {"scoped", "apply", "record"} =>
    /\ Target(r) \in DOMAIN proposals
    /\ IF InPolicyCheck(r) THEN ~NeedsApproval(proposals[Target(r)].item)
       ELSE "approve" \in proposals[Target(r)].asked \cap proposals[Target(r)].decisions

LoopInBounds(r) ==
  /\ batch[r].at > 0 /\ batch[r].hi <= Len(proposals)
  /\ pc[r] = "loop" => InPolicyCheck(r)

RequestSafe(r) ==
  /\ Answered(ask[r]) /\ Answered(graph[r].answer)
  /\ Authorised(r) /\ LoopInBounds(r)

Authority ==
  Answered(checkpoint.answer) /\ \A r \in Requests : RequestSafe(r)

\* What the customer is asked about is a stored proposal that needs approval:
\* never an automatic one that a broken policy_check left behind, nor a row that
\* is not there (session.pending_proposal_id as written by policy_check and
\* execute_action).
PendingNeedsApproval ==
  session.pending # None =>
    /\ session.pending \in DOMAIN proposals
    /\ NeedsApproval(proposals[session.pending].item)

\* The two columns of the session row agree (policy_check, execute_action and
\* update_memory write them, together or one of them).
StateMatchesPending == session.state = StateFor(session.pending)

\* A proposal runs at most once and touches customer data at most once.
AtMostOnce ==
  \A p \in DOMAIN proposals :
    proposals[p].executions <= 1 /\ proposals[p].applied <= 1

\* Between requests the session row and the graph's checkpoint tell the same
\* story: an approval is pending exactly when the graph waits at the interrupt,
\* for the same proposal, the oldest one still open; otherwise none is open.
AtRestAgreement ==
  Quiet =>
    /\ IsNextPending(session.pending, proposals)
    /\ session.state = StateFor(session.pending)
    /\ session.pending # None <=> checkpoint.next = "approval_interrupt"
    /\ session.pending # None => checkpoint.pending = session.pending

\* At rest, the stored run can take the next answer: no answer for another
\* proposal is kept where that answer would resume (the comparison in
\* execute_action refuses it, and every later request would meet it again).
Answerable ==
  Quiet /\ session.state = "UserApproval" /\ checkpoint.next = "execute_action"
    => checkpoint.answer.target = checkpoint.pending

\* No handler changes customer data without the execution row that says so,
\* however many requests execute the same proposal; only a fault can come
\* between the two, and it ends no more than the requests of the moment.
NoSilentEffect ==
  Quiet => \A p \in DOMAIN proposals :
    proposals[p].applied <= proposals[p].executions + faults * Cardinality(Requests)

\* A declined proposal stays declined, so it can no longer be executed: no
\* replayed answer and no later round of the graph reopens it.
DeclinedStays ==
  [][\A p \in DOMAIN proposals :
       proposals[p].status \in {"rejected", "deferred"}
         => proposals'[p].status = proposals[p].status]_vars

\* An approval that was stored but not carried out, because its request broke
\* off, is never orphaned: the session still waits, and the stored run holds
\* this very approval, so that the next answer carries it out; only a restart,
\* which loses the run, parts the two.
ApprovalIsKept ==
  Quiet => \A p \in DOMAIN proposals :
    proposals[p].status = "approved" =>
      /\ session.state = "UserApproval"
      /\ checkpoint.next # "none" =>
           /\ checkpoint.next = "execute_action"
           /\ checkpoint.pending = p
           /\ checkpoint.answer = [act |-> "approve", target |-> p]

\* The wait for a customer ends by an answer: the session leaves UserApproval
\* only when the proposal it waited for was approved, rejected or revised, also
\* where an answer or policy_check is carried out again after a fault.
WaitEndsByAnswer ==
  [][session.state = "UserApproval" /\ session'.state = "Monitoring"
       => proposals'[session.pending].status # "proposed"]_vars

\* An approval that was accepted is carried out: the proposal ends executed or
\* failed.
ApprovalHonoured(p) ==
  (p \in DOMAIN proposals /\ "approve" \in proposals[p].asked)
    ~> (p \in DOMAIN proposals /\ proposals[p].status \in {"executed", "failed"})

\* Any accepted decision ends the wait for that proposal.
DecisionSettles(p) ==
  (\E r \in Requests : ask[r].target = p /\ p # None) ~> (session.pending # p)

=============================================================================
