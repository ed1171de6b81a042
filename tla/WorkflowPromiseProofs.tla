------------------------ MODULE WorkflowPromiseProofs ------------------------
(***************************************************************************)
(* Requests that do not overlap and do not fail keep the promise of        *)
(* Approval: every step of the code is a step the customer was promised,   *)
(* or one he does not see.                                                 *)
(***************************************************************************)
EXTENDS WorkflowSerialProofs, WorkflowRefinement, SequenceTheorems

-----------------------------------------------------------------------------
(* The inductive invariant: what is exact as long as nothing has failed.   *)

Looping(r) == pc[r] \in {"loop"} \cup InExecutor /\ InPolicyCheck(r)
Settling(r) == pc[r] \in InExecutor \cup {"settle"} /\ ~InPolicyCheck(r)

\* An action that needs nobody and has not run.
Unattended(p) == proposals[p].status = "proposed" /\ ~NeedsApproval(proposals[p].item)

\* A row that may still run has not run; its effect is there only between the
\* two commits of its execution.
Once(r, p) ==
  /\ proposals[p].executions <= 1 /\ proposals[p].applied <= 1
  /\ proposals[p].status \in {"proposed", "approved"} =>
       /\ proposals[p].executions = 0
       /\ proposals[p].applied > 0 => pc[r] = "record" /\ Target(r) = p

\* The loop of policy_check has run what needs nobody, and holds the oldest of
\* the others.
Held(r) ==
  /\ batch[r].hi = Len(proposals)
  /\ batch[r].pending # None => batch[r].pending \in Open(proposals)
  /\ \A p \in Open(proposals) :
       p < batch[r].at => batch[r].pending # None /\ batch[r].pending <= p
  /\ \A p \in DOMAIN proposals : Unattended(p) => p >= batch[r].at

\* What a request inside the graph has to do fits what the session says: it does
\* not plan while the session waits, and it answers what the session waits for.
InStep(r) ==
  pc[r] \in BeforeReturn \cup {"put"} =>
    /\ Waiting => graph[r].next # "policy_check"
    /\ graph[r].next = "execute_action" => graph[r].pending = session.pending

Exact(r) ==
  /\ InStep(r)
  /\ \A p \in DOMAIN proposals : Once(r, p)
  /\ Looping(r) => Held(r)
  /\ ~Looping(r) => \A p \in DOMAIN proposals : ~Unattended(p)
  /\ ~Looping(r) /\ ~Settling(r) => IsNextPending(session.pending, proposals)
  /\ pc[r] \in {"idle", "load"} /\ Waiting => checkpoint.next = "approval_interrupt"

ExactInv == SerialInv /\ (faults = 0 => \A r \in Requests : Exact(r))

\* What a commit may do to a row without anybody noticing.
Alike(new, row) ==
  /\ new.status = row.status /\ new.item = row.item
  /\ new.applied = row.applied /\ new.executions = row.executions

RowsAlike ==
  /\ DOMAIN proposals' = DOMAIN proposals
  /\ \A p \in DOMAIN proposals : Alike(proposals'[p], proposals[p])

LEMMA OpenAlike == ASSUME RowsAlike PROVE Open(proposals') = Open(proposals)
  BY DEF RowsAlike, Alike, Open

LEMMA StaysInStep ==
  ASSUME NEW r \in Requests, InStep(r), pc[r] \in BeforeReturn \cup {"put"},
         session' = session, graph'[r] = graph[r]
  PROVE  InStep(r)'
  BY DEF InStep, Waiting

\* A step outside the two nodes that commit anything.
LEMMA CalmExact ==
  ASSUME NEW r \in Requests, Exact(r), TypeOK, TypeOK', RowsAlike,
         session'.pending = session.pending, InStep(r)',
         ~Looping(r), ~Settling(r), ~Looping(r)', ~Settling(r)',
         (pc[r] \in {"idle", "load"} /\ Waiting => checkpoint.next = "approval_interrupt")'
  PROVE  Exact(r)'
<1>1. pc[r] # "record"
  BY DEF Looping, Settling, InExecutor
<1>2. ASSUME NEW p \in DOMAIN proposals PROVE Once(r, p)' /\ ~Unattended(p)'
  <2>1. Once(r, p) /\ ~Unattended(p) /\ Alike(proposals'[p], proposals[p])
    BY DEF Exact, RowsAlike
  <2>2. proposals[p] \in Proposal
    BY DEF TypeOK
  <2>3. Once(r, p)'
    BY <1>1, <2>1, <2>2, RowCounts DEF Once, Alike
  <2> QED  BY <2>1, <2>3 DEF Unattended, Alike
<1>3. DOMAIN proposals' = DOMAIN proposals
  BY DEF RowsAlike
<1>4. IsNextPending(session.pending, proposals)'
  BY OpenAlike DEF Exact, IsNextPending
<1> QED  BY <1>2, <1>3, <1>4 DEF Exact

\* Nothing is refused, repeated or out of step.
LEMMA NeverHappens ==
  ASSUME SerialInv, NEW r \in Requests, Exact(r)
  PROVE  /\ ~LoadNothing(r) /\ ~DecisionMismatch(r)
         /\ ~ReturnExisting(r) /\ ~RefuseExecution(r)
<1>0. /\ TypeOK /\ Serial(r) /\ RequestSafe(r) /\ batch[r] \in Batches
  BY DEF SerialInv, OfferInv, IInv, Authority, TypeOK
<1>1. ~LoadNothing(r)
  BY <1>0, EdgeTyped DEF LoadNothing, At, Serial, Place, Exact
<1>2. ~DecisionMismatch(r)
  BY <1>0 DEF DecisionMismatch, InNode, At, Serial, Place, Inside, BeforeReturn, Agrees
<1>3. ASSUME pc[r] = "scoped"
      PROVE  /\ proposals[Target(r)].status # "executed"
             /\ MayExecute(Target(r), ~InPolicyCheck(r))
  <2>1. graph[r].next \in {"policy_check", "execute_action"}
    BY <1>0, <1>3 DEF Serial, Place, Position, InExecutor
  <2>2. CASE InPolicyCheck(r)
    BY <1>0, <1>3, <2>2 DEF Serial, Turn, Target, InExecutor, Batches, MayExecute,
                            RequestSafe, Authorised
  <2>3. CASE ~InPolicyCheck(r)
    BY <1>0, <1>3, <2>1, <2>3 DEF Serial, Answer, Target, InExecutor, MayExecute
  <2> QED  BY <2>2, <2>3
<1> QED  BY <1>1, <1>2, <1>3 DEF ReturnExisting, RefuseExecution, At

LEMMA CalmStep ==
  ASSUME SerialInv, TypeOK', NEW r \in Requests, Exact(r),
         \/ EnterStep(r) \/ LoadStep(r) \/ PutCheckpoint(r) \/ AuditNode(r)
         \/ SpawnAgent(r) \/ AgentJobFails(r) \/ Interrupt(r) \/ ResumeInterrupt(r)
         \/ ReturnNode(r) \/ UpdateMemory(r)
  PROVE  Exact(r)' /\ RowsAlike /\ session'.pending = session.pending
<1>0. /\ TypeOK /\ Serial(r) /\ proposals \in Seq(Proposal) /\ StateMatchesPending
      /\ ~LoadNothing(r) /\ graph[r] \in Runs
  BY NeverHappens DEF SerialInv, OfferInv, IInv, TypeOK
<1>1. RowsAlike
  <2>1. CASE SubmitDecision(r)
    <3>1. PICK act \in Decision :
            proposals' = [proposals EXCEPT ![session.pending] = Asked(@, act)]
      BY <2>1 DEF SubmitDecision
    <3>2. \A p \in DOMAIN proposals : proposals[p] \in Proposal
      BY <1>0
    <3>3. \A row \in Proposal : Alike(Asked(row, act), row)
      BY <3>1 DEF Alike, Asked, Proposal
    <3> QED  BY <1>0, <3>1, <3>2, <3>3 DEF RowsAlike, Alike
  <2>2. CASE ~SubmitDecision(r)
    <3>1. proposals' = proposals
      BY <2>2 DEF EnterStep, TriggerEvent, LoadStep, LoadInput, LoadResume, LoadNothing,
                  PutCheckpoint, AuditNode, SpawnAgent, AgentJobFails, Interrupt,
                  ResumeInterrupt, ReturnNode, UpdateMemory, ReturnAndPut, Return
    <3> QED  BY <3>1 DEF RowsAlike, Alike
  <2> QED  BY <2>1, <2>2
<1>2. /\ pc[r] \in {"idle", "load", "node", "resume", "return", "put"}
      /\ pc'[r] \in {"idle", "load", "node", "resume", "put"}
  BY <1>0 DEF EnterStep, TriggerEvent, SubmitDecision, LoadStep, LoadInput, LoadResume,
              PutCheckpoint, AuditNode, SpawnAgent, AgentJobFails, Interrupt,
              ResumeInterrupt, ReturnNode, UpdateMemory, ReturnAndPut, Return, Finish, InNode,
              At, Goto, TypeOK
<1>3. session'.pending = session.pending /\ (Waiting' => Waiting)
  <2>1. CASE UpdateMemory(r)
    BY <1>0, <2>1 DEF UpdateMemory, Waiting, TypeOK
  <2>2. CASE ~UpdateMemory(r)
    <3>1. session' = session
      BY <2>2 DEF EnterStep, TriggerEvent, SubmitDecision, LoadStep, LoadInput, LoadResume,
                  LoadNothing, PutCheckpoint, AuditNode, SpawnAgent, AgentJobFails,
                  Interrupt, ResumeInterrupt, ReturnNode, ReturnAndPut
    <3> QED  BY <3>1 DEF Waiting
  <2> QED  BY <2>1, <2>2
<1>4. ASSUME pc'[r] \in {"idle", "load"}, Waiting'
      PROVE  checkpoint'.next = "approval_interrupt"
  <2>1. CASE EnterStep(r)
    <3>1. checkpoint' = checkpoint /\ pc[r] = "idle"
      BY <2>1 DEF EnterStep, TriggerEvent, SubmitDecision, At
    <3> QED  BY <1>3, <1>4, <3>1 DEF Exact
  <2>2. CASE PutCheckpoint(r)
    <3>1. pc[r] = "put" /\ graph[r].next = "END"
      BY <1>0, <1>4, <2>2 DEF PutCheckpoint, At, Goto, TypeOK
    <3>2. ~Waiting
      BY <1>0, <3>1 DEF Serial, Place, Agrees
    <3> QED  BY <1>3, <1>4, <3>2
  <2>3. CASE AgentJobFails(r)
    <3>1. pc[r] = "node" /\ graph[r].next = "spawn_agent"
      BY <2>3 DEF AgentJobFails, InNode, At
    <3>2. ~Waiting
      BY <1>0, <3>1 DEF Serial, Place, Agrees, Inside, BeforeReturn
    <3> QED  BY <1>3, <1>4, <3>2
  <2>4. CASE Interrupt(r)
    <3>1. /\ pc[r] = "node" /\ graph[r].next = "approval_interrupt"
          /\ checkpoint' = checkpoint
      BY <2>4 DEF Interrupt, InNode, At
    <3> QED  BY <1>0, <3>1 DEF Serial, Place, Inside, BeforeReturn
  <2>5. CASE \/ LoadStep(r) \/ AuditNode(r) \/ SpawnAgent(r) \/ ResumeInterrupt(r)
             \/ ReturnNode(r) \/ UpdateMemory(r)
    BY <1>0, <1>4, <2>5 DEF LoadStep, LoadInput, LoadResume, AuditNode, SpawnAgent,
                            ResumeInterrupt, ReturnNode, UpdateMemory, ReturnAndPut, Return,
                            Goto, TypeOK
  <2> QED  BY <2>1, <2>2, <2>3, <2>4, <2>5
<1>5. ~Looping(r) /\ ~Settling(r) /\ ~Looping(r)' /\ ~Settling(r)'
  BY <1>2 DEF Looping, Settling, InExecutor
<1>6. InStep(r)'
  <2>1. CASE EnterStep(r) \/ AgentJobFails(r) \/ Interrupt(r)
    <3>1. pc'[r] \in {"idle", "load"}
      BY <1>0, <2>1 DEF EnterStep, TriggerEvent, SubmitDecision, AgentJobFails, Interrupt,
                        Finish, Goto, TypeOK
    <3> QED  BY <3>1 DEF InStep, BeforeReturn, InExecutor
  <2>2. CASE LoadInput(r)
    <3>1. graph'[r].next = "data_refresh"
      BY <1>0, <2>2 DEF LoadInput, ReturnAndPut, TypeOK, Runs
    <3> QED  BY <3>1 DEF InStep
  <2>3. CASE LoadResume(r)
    <3>1. graph'[r] = checkpoint /\ pc[r] = "load" /\ ask[r] # NoAnswer
      BY <1>0, <2>3 DEF LoadResume, At, TypeOK
    <3>2. checkpoint.next = "approval_interrupt"
      BY <1>0, <3>1 DEF Serial, Place, Exact
    <3> QED  BY <3>1, <3>2 DEF InStep
  <2>4. CASE PutCheckpoint(r)
    <3>1. CASE graph[r].next = "END"
      <4>1. pc'[r] = "idle"
        BY <1>0, <2>4, <3>1 DEF PutCheckpoint, Finish, TypeOK
      <4> QED  BY <4>1 DEF InStep, BeforeReturn, InExecutor
    <3>2. CASE graph[r].next # "END"
      BY <2>4, <3>2, StaysInStep DEF PutCheckpoint, Exact, At
    <3> QED  BY <3>1, <3>2
  <2>5. CASE AuditNode(r)
    <3>1. pc[r] = "node" /\ graph[r].next \in AuditNodes /\ session' = session
          /\ graph'[r].next = Edge[graph[r].next]
      BY <1>0, <2>5 DEF AuditNode, ReturnAndPut, At, TypeOK, Runs
    <3>2. ~Waiting
      BY <1>0, <3>1 DEF Serial, Place, Inside, BeforeReturn, Agrees, AuditNodes
    <3>3. graph'[r].next # "execute_action"
      BY <3>1 DEF Edge, AuditNodes
    <3> QED  BY <3>1, <3>2, <3>3 DEF InStep, Waiting
  <2>6. CASE SpawnAgent(r)
    <3>1. graph'[r].next = "validate_output"
      BY <1>0, <2>6 DEF SpawnAgent, ReturnAndPut, TypeOK, Runs
    <3> QED  BY <3>1 DEF InStep
  <2>7. CASE ResumeInterrupt(r)
    <3>1. /\ pc[r] = "resume" /\ session' = session
          /\ graph'[r].next = "execute_action" /\ graph'[r].pending = graph[r].pending
      BY <1>0, <2>7 DEF ResumeInterrupt, ReturnAndPut, At, TypeOK, Runs
    <3>2. graph[r].pending = session.pending
      BY <1>0, <3>1 DEF Serial, Place, Position, Inside, BeforeReturn, Agrees
    <3> QED  BY <3>1, <3>2 DEF InStep
  <2>8. CASE ReturnNode(r)
    <3>1. PICK pending : graph'[r].next = Route(pending)
      BY <1>0, <2>8 DEF ReturnNode, Return, TypeOK, Runs
    <3> QED  BY <3>1 DEF InStep, Route
  <2>9. CASE UpdateMemory(r)
    <3>1. graph'[r].next = "END"
      BY <1>0, <2>9 DEF UpdateMemory, Return, TypeOK, Runs
    <3> QED  BY <3>1 DEF InStep
  <2> QED
    BY <1>0, <2>1, <2>2, <2>3, <2>4, <2>5, <2>6, <2>7, <2>8, <2>9 DEF LoadStep
<1> QED  BY <1>0, <1>1, <1>3, <1>4, <1>5, <1>6, CalmExact

\* policy_check: the loop holds the oldest open proposal back and runs the rest.
LEMMA PolicyExact ==
  ASSUME SerialInv, TypeOK', NEW r \in Requests, Exact(r), PolicyStep(r)
  PROVE  Exact(r)'
<1>0. /\ TypeOK /\ Serial(r) /\ proposals \in Seq(Proposal) /\ batch[r] \in Batches
      /\ RequestSafe(r) /\ \A p \in DOMAIN proposals : proposals[p] \in Proposal
  BY DEF SerialInv, OfferInv, IInv, Authority, TypeOK
<1>1. CASE PersistPlan(r)
  <2> DEFINE plan == graph[r].plan
  <2>1. plan \in Seq(Items)
    <3>1. graph[r].plan \in Plans \cup {<<>>} /\ <<>> \in Seq(Items)
      BY <1>0 DEF TypeOK, Runs
    <3> QED  BY <3>1, PlansAssumption
  <2>2. /\ proposals' = proposals \o NewProposals(plan)
        /\ batch'[r] = [at |-> Len(proposals) + 1, hi |-> Len(proposals) + Len(plan),
                        pending |-> None]
        /\ graph' = graph /\ session' = session
        /\ pc[r] = "node" /\ pc'[r] = "loop" /\ graph[r].next = "policy_check"
    BY <1>0, <1>1 DEF PersistPlan, InNode, At, Goto, TypeOK
  <2> HIDE DEF plan
  <2>3. /\ DOMAIN proposals' = 1..(Len(proposals) + Len(plan))
        /\ \A p \in DOMAIN proposals : proposals'[p] = proposals[p]
        /\ \A p \in DOMAIN proposals' \ DOMAIN proposals :
             /\ proposals'[p].applied = 0 /\ proposals'[p].executions = 0
             /\ p > Len(proposals)
    BY <1>0, <2>1, <2>2, AppendPlan
  <2>4. /\ ~Looping(r) /\ ~Settling(r) /\ Looping(r)'
        /\ ~Waiting /\ InStep(r)'
    BY <1>0, <2>2, StaysInStep DEF Looping, Settling, InExecutor, InPolicyCheck, Exact, InStep,
                                   BeforeReturn
  <2>5. ASSUME NEW p \in DOMAIN proposals'
        PROVE  Once(r, p)' /\ (p \in DOMAIN proposals => ~Unattended(p)')
    <3>1. CASE p \in DOMAIN proposals
      <4>1. Once(r, p) /\ ~Unattended(p) /\ proposals'[p] = proposals[p]
        BY <2>3, <2>4, <3>1 DEF Exact
      <4>2. Once(r, p)'
        BY <1>0, <2>2, <3>1, <4>1, RowCounts DEF Once
      <4> QED  BY <4>1, <4>2 DEF Unattended
    <3>2. CASE p \notin DOMAIN proposals
      BY <2>3, <3>2 DEF Once
    <3> QED  BY <3>1, <3>2
  <2>6. \A p \in Open(proposals') : p > Len(proposals)
    <3>1. Open(proposals) = {}
      <4>1. session.pending = None
        BY <2>4 DEF SerialInv, StateMatchesPending, StateFor, Waiting
      <4>2. IsNextPending(None, proposals)
        BY <2>4, <4>1 DEF Exact
      <4>3. None \notin Open(proposals)
        BY <1>0 DEF Open, None
      <4> QED  BY <4>2, <4>3 DEF IsNextPending
    <3> QED  BY <2>3, <3>1 DEF Open
  <2>7. Held(r)'
    <3>1. proposals' \in Seq(Proposal) /\ Len(plan) \in Nat
      BY <2>1 DEF TypeOK
    <3>2. /\ batch'[r].hi = Len(proposals') /\ batch'[r].pending = None
          /\ batch'[r].at = Len(proposals) + 1
      BY <1>0, <2>2, <2>3, <3>1
    <3>3. \A p \in Open(proposals') : ~(p < Len(proposals) + 1)
      BY <1>0, <2>3, <2>6, <3>1 DEF Open
    <3>4. ASSUME NEW p \in DOMAIN proposals', Unattended(p)' PROVE p >= Len(proposals) + 1
      BY <1>0, <2>3, <2>5, <3>1, <3>4
    <3> QED  BY <3>2, <3>3, <3>4 DEF Held
  <2> QED  BY <2>2, <2>4, <2>5, <2>7 DEF Exact
<1>2. CASE KeepForApproval(r)
  <2>1. /\ proposals' = proposals /\ pc' = pc /\ graph' = graph /\ pc[r] = "loop"
        /\ session' = session /\ batch[r].at <= batch[r].hi
        /\ batch'[r].at = batch[r].at + 1 /\ batch'[r].hi = batch[r].hi
        /\ batch'[r].pending = FirstOf(batch[r].pending, batch[r].at)
        /\ NeedsApproval(proposals[batch[r].at].item)
        /\ batch[r].at \in Nat /\ batch[r].hi \in Nat /\ batch[r].pending \in Nat
    BY <1>0, <1>2 DEF KeepForApproval, At, NextTurn, TypeOK, Batches
  <2>2. /\ Looping(r) /\ Looping(r)' /\ Held(r) /\ Turn(r) /\ InPolicyCheck(r)
        /\ InStep(r)'
    BY <1>0, <2>1, StaysInStep DEF BeforeReturn, Looping, InPolicyCheck, Serial, Place, Position, Exact
  <2>3. /\ batch[r].at \in Open(proposals)
        /\ batch[r].pending # None => batch[r].pending < batch[r].at
    BY <1>0, <2>1, <2>2 DEF Turn, Open, RequestSafe, LoopInBounds
  <2>4. Held(r)'
    <3>1. batch'[r].hi = Len(proposals) /\ batch'[r].pending \in Open(proposals)
      BY <2>1, <2>2, <2>3 DEF Held, FirstOf
    <3>2. ASSUME NEW p \in Open(proposals), p < batch[r].at + 1
          PROVE  batch'[r].pending # None /\ batch'[r].pending <= p
      <4>1. p \in Nat /\ None \notin Open(proposals)
        BY <1>0 DEF Open, None
      <4> QED  BY <2>1, <2>2, <2>3, <3>1, <3>2, <4>1 DEF Held, FirstOf
    <3>3. \A p \in DOMAIN proposals : Unattended(p) => p >= batch[r].at + 1
      <4>1. ~Unattended(batch[r].at)
        BY <2>1 DEF Unattended
      <4> QED  BY <1>0, <2>1, <2>2, <4>1 DEF Held
    <3> QED  BY <2>1, <3>1, <3>2, <3>3 DEF Held, Unattended
  <2>5. \A p \in DOMAIN proposals : Once(r, p)'
    BY <2>1 DEF Exact, Once
  <2> QED  BY <2>1, <2>2, <2>4, <2>5 DEF Exact
<1>3. CASE AutoExecute(r)
  <2>1. /\ proposals' = proposals /\ batch' = batch /\ graph' = graph /\ pc[r] = "loop"
        /\ pc'[r] = "scoped" /\ session' = session
    BY <1>0, <1>3 DEF AutoExecute, At, Goto, TypeOK
  <2>2. Looping(r) /\ Looping(r)' /\ InStep(r)'
    BY <1>0, <2>1, StaysInStep DEF Exact, BeforeReturn, Looping, InPolicyCheck, Serial, Place, Position, InExecutor
  <2>3. Held(r)'
    BY <2>1, <2>2 DEF Exact, Held, Unattended
  <2>4. \A p \in DOMAIN proposals : Once(r, p)'
    BY <2>1 DEF Exact, Once
  <2> QED  BY <2>1, <2>2, <2>3, <2>4 DEF Exact
<1>4. CASE RoutePolicy(r)
  <2>1. /\ proposals' = proposals /\ pc[r] = "loop" /\ pc'[r] = "return"
        /\ session'.pending = batch[r].pending /\ batch[r].at > batch[r].hi
    BY <1>0, <1>4 DEF RoutePolicy, At, Goto, TypeOK
  <2>2. Looping(r) /\ Held(r) /\ ~Looping(r)' /\ ~Settling(r)' /\ InStep(r)'
    BY <1>0, <2>1 DEF InStep, BeforeReturn, Looping, Settling, InPolicyCheck, InExecutor, Serial, Place, Position,
                      Exact
  <2>3. \A p \in DOMAIN proposals : p < batch[r].at /\ p > 0
    BY <1>0, <2>1, <2>2 DEF Held, Batches
  <2>4. IsNextPending(batch[r].pending, proposals)
    BY <2>2, <2>3 DEF Held, IsNextPending, Open
  <2>5. \A p \in DOMAIN proposals : ~Unattended(p)
    BY <1>0, <2>2, <2>3 DEF Held, Batches
  <2>6. \A p \in DOMAIN proposals : Once(r, p)'
    BY <2>1 DEF Exact, Once
  <2> QED  BY <2>1, <2>2, <2>4, <2>5, <2>6 DEF Exact, Unattended
<1> QED  BY <1>1, <1>2, <1>3, <1>4 DEF PolicyStep

\* Whatever the answer, it finds the proposal the session waits for.
LEMMA AnswersOffered ==
  ASSUME SerialInv, NEW r \in Requests, Exact(r), NEW acts, AnswerIs(r, acts)
  PROVE  /\ graph[r].pending = session.pending /\ ask[r].target = session.pending
         /\ graph[r].next = "execute_action" /\ pc[r] = "node"
         /\ Waiting /\ session.pending # None /\ session.pending \in DOMAIN proposals
         /\ proposals[session.pending] \in Proposal
<1>1. /\ graph[r].next = "execute_action" /\ pc[r] = "node" /\ Waiting
      /\ graph[r].pending \in DOMAIN proposals /\ proposals[graph[r].pending] \in Proposal
      /\ ask[r].target = session.pending
  BY AnswersStored
<1>2. graph[r].pending = session.pending
  BY <1>1 DEF Exact, InStep, BeforeReturn
<1>3. session.pending # None
  BY <1>1 DEF SerialInv, StateMatchesPending, StateFor, Waiting
<1> QED  BY <1>1, <1>2, <1>3

\* execute_action: the proposal offered is open, and has not run.
LEMMA OfferedIsOpen ==
  ASSUME SerialInv, NEW r \in Requests, Exact(r), NEW acts, AnswerIs(r, acts)
  PROVE  /\ session.pending \in Open(proposals)
         /\ proposals[session.pending].executions = 0
         /\ proposals[session.pending].applied = 0
         /\ ~Looping(r) /\ ~Settling(r)
<1>1. ~Looping(r) /\ ~Settling(r) /\ pc[r] # "record"
  BY AnswersOffered DEF Looping, Settling, InExecutor
<1>2. session.pending \in Open(proposals)
  BY <1>1, AnswersOffered DEF Exact, IsNextPending
<1>3. Once(r, session.pending)
  BY AnswersOffered DEF Exact
<1>4. proposals[session.pending].applied \in Nat
  BY AnswersOffered, RowCounts
<1> QED  BY <1>1, <1>2, <1>3, <1>4 DEF Once, Open

LEMMA ApprovalExact ==
  ASSUME SerialInv, TypeOK', NEW r \in Requests, Exact(r),
         ApproveProposal(r) \/ DeclineProposal(r) \/ SettleApproval(r)
  PROVE  Exact(r)'
<1>0. /\ TypeOK /\ Serial(r) /\ proposals \in Seq(Proposal)
      /\ \A p \in DOMAIN proposals : proposals[p] \in Proposal
  BY DEF SerialInv, OfferInv, IInv, TypeOK
<1> DEFINE p == session.pending
<1>1. ASSUME NEW act \in Decision, AnswerIs(r, {"approve", "reject", "revise"}),
             proposals' = [proposals EXCEPT ![p] = Decided(@, act)]
      PROVE  /\ DOMAIN proposals' = DOMAIN proposals /\ p \in DOMAIN proposals
             /\ \A q \in DOMAIN proposals : q # p => proposals'[q] = proposals[q]
             /\ proposals'[p].status = Decided(proposals[p], act).status
             /\ \A q \in DOMAIN proposals : Once(r, q)'
             /\ proposals'[p].status # "proposed"
  <2>1. /\ p \in DOMAIN proposals /\ p \in Open(proposals)
        /\ proposals[p].executions = 0 /\ proposals[p].applied = 0
        /\ pc[r] = "node"
    BY <1>1, AnswersOffered, OfferedIsOpen
  <2> HIDE DEF p
  <2>2. /\ DOMAIN proposals' = DOMAIN proposals
        /\ \A q \in DOMAIN proposals : q # p => proposals'[q] = proposals[q]
        /\ proposals'[p] = Decided(proposals[p], act)
    BY <1>0, <1>1, <2>1
  <2>3. proposals'[p].executions = 0 /\ proposals'[p].applied = 0
    BY <1>0, <2>1, <2>2, RowFields
  <2>4. ASSUME NEW q \in DOMAIN proposals PROVE Once(r, q)'
    <3>1. CASE q = p
      BY <2>3, <3>1 DEF Once
    <3>2. CASE q # p
      <4>1. Once(r, q) /\ proposals'[q] = proposals[q] /\ proposals[q].applied \in Nat
        BY <1>0, <2>2, <3>2, RowCounts DEF Exact
      <4> QED  BY <2>1, <4>1 DEF Once
    <3> QED  BY <3>1, <3>2
  <2>5. proposals'[p].status # "proposed"
    <3>1. act \in {"approve", "reject", "revise"} /\ proposals[p] \in Proposal
      BY <1>0, <2>1 DEF Decision
    <3>2. Decided(proposals[p], act).status \in {"approved", "rejected", "deferred"}
      BY <3>1, RowStatuses
    <3> QED  BY <2>2, <3>2
  <2> QED  BY <2>1, <2>2, <2>4, <2>5
<1>2. CASE ApproveProposal(r)
  <2>1. /\ AnswerIs(r, {"approve", "reject", "revise"}) /\ graph[r].pending = p
        /\ graph[r].next = "execute_action" /\ "approve" \in Decision
    BY <1>2, AnswersOffered DEF ApproveProposal, AnswerIs, Decision
  <2>2. /\ proposals' = [proposals EXCEPT ![p] = Decided(@, "approve")]
        /\ pc'[r] = "scoped" /\ graph' = graph
    BY <1>0, <1>2, <2>1 DEF ApproveProposal, Goto, TypeOK
  <2>3. /\ DOMAIN proposals' = DOMAIN proposals
        /\ \A q \in DOMAIN proposals : q # p => proposals'[q] = proposals[q]
        /\ \A q \in DOMAIN proposals : Once(r, q)'
        /\ proposals'[p].status # "proposed"
    BY <1>1, <2>1, <2>2
  <2>4. ~Looping(r)' /\ Settling(r)' /\ ~Looping(r) /\ InStep(r)'
    BY <1>2, <2>1, <2>2, OfferedIsOpen, AnswersOffered, StaysInStep
    DEF ApproveProposal, Exact, BeforeReturn, Looping, Settling, InPolicyCheck, InExecutor
  <2>5. \A q \in DOMAIN proposals' : ~Unattended(q)'
    BY <2>3, <2>4 DEF Exact, Unattended
  <2> QED  BY <2>2, <2>3, <2>4, <2>5 DEF Exact
<1>3. CASE DeclineProposal(r)
  <2> DEFINE act == graph[r].answer.act
  <2>1. /\ AnswerIs(r, {"approve", "reject", "revise"}) /\ graph[r].pending = p
        /\ ask[r].target = p /\ act \in Decision
        /\ act \in {"reject", "revise"} /\ p # None
    BY <1>3, AnswersOffered DEF DeclineProposal, AnswerIs, Decision
  <2>2. /\ proposals' = [proposals EXCEPT ![p] = Decided(@, act)]
        /\ pc'[r] = "return"
    BY <1>0, <1>3, <2>1 DEF DeclineProposal, Goto, TypeOK
  <2>3. PICK nxt \in {None} \cup DOMAIN proposals :
          /\ IsNextPending(nxt, proposals')
          /\ session' =
               [state   |-> IF nxt = None THEN "Monitoring" ELSE session.state,
                pending |-> IF nxt = ask[r].target THEN session.pending ELSE nxt]
    BY <1>3 DEF DeclineProposal
  <2> HIDE DEF act
  <2>4. /\ DOMAIN proposals' = DOMAIN proposals
        /\ \A q \in DOMAIN proposals : q # p => proposals'[q] = proposals[q]
        /\ \A q \in DOMAIN proposals : Once(r, q)'
        /\ proposals'[p].status # "proposed"
    BY <1>1, <2>1, <2>2
  <2>5. ~Looping(r)' /\ ~Settling(r)' /\ ~Looping(r) /\ InStep(r)'
    BY <2>1, <2>2, OfferedIsOpen DEF InStep, BeforeReturn, Looping, Settling, InExecutor
  <2>6. \A q \in DOMAIN proposals' : ~Unattended(q)'
    BY <2>4, <2>5 DEF Exact, Unattended
  <2>7. session'.pending = nxt
    BY <2>1, <2>3
  <2>8. IsNextPending(session.pending, proposals)'
    BY <2>3, <2>7 DEF IsNextPending
  <2> QED  BY <2>2, <2>4, <2>5, <2>6, <2>8 DEF Exact
<1>4. CASE SettleApproval(r)
  <2>1. PICK nxt \in {None} \cup DOMAIN proposals :
          /\ IsNextPending(nxt, proposals)
          /\ session' = [state |-> StateFor(nxt), pending |-> nxt]
    BY <1>4 DEF SettleApproval
  <2>2. pc[r] = "settle" /\ pc'[r] = "return" /\ proposals' = proposals
    BY <1>0, <1>4 DEF SettleApproval, At, Goto, TypeOK
  <2>3. ~Looping(r) /\ ~Looping(r)' /\ ~Settling(r)' /\ InStep(r)'
    BY <1>0, <2>2 DEF InStep, BeforeReturn, Looping, Settling, InExecutor
  <2>4. IsNextPending(session.pending, proposals)'
    <3>1. session'.pending = nxt
      BY <2>1
    <3> QED  BY <2>1, <2>2, <3>1 DEF IsNextPending
  <2>5. \A q \in DOMAIN proposals : Once(r, q)' /\ ~Unattended(q)'
    <3>1. \A q \in DOMAIN proposals : proposals[q].applied \in Nat
      BY <1>0, RowCounts
    <3> QED  BY <2>2, <2>3, <3>1 DEF Exact, Once, Unattended
  <2> QED  BY <2>2, <2>3, <2>4, <2>5 DEF Exact
<1> QED  BY <1>2, <1>3, <1>4

\* Whoever is inside the executor works on a row that may run.
LEMMA TargetMayRun ==
  ASSUME SerialInv, NEW r \in Requests, pc[r] \in InExecutor
  PROVE  /\ Target(r) \in DOMAIN proposals
         /\ Looping(r) <=> InPolicyCheck(r)
         /\ Settling(r) <=> ~InPolicyCheck(r)
         /\ IF InPolicyCheck(r)
              THEN /\ Target(r) = batch[r].at /\ ~NeedsApproval(proposals[Target(r)].item)
                   /\ proposals[Target(r)].status = "proposed"
              ELSE proposals[Target(r)].status = "approved"
<1>0. /\ TypeOK /\ Serial(r) /\ batch[r] \in Batches /\ RequestSafe(r)
  BY DEF SerialInv, OfferInv, IInv, Authority, TypeOK
<1>1. Target(r) \in DOMAIN proposals
  BY <1>0 DEF RequestSafe, Authorised, InExecutor
<1>2. /\ Looping(r) <=> InPolicyCheck(r)
      /\ Settling(r) <=> ~InPolicyCheck(r)
  BY DEF Looping, Settling
<1>3. CASE InPolicyCheck(r)
  <2>1. Target(r) = batch[r].at /\ ~NeedsApproval(proposals[Target(r)].item)
    BY <1>0, <1>3 DEF RequestSafe, Authorised, InExecutor, Target
  <2> QED  BY <1>0, <1>1, <1>2, <1>3, <2>1 DEF Serial, Turn, Batches
<1>4. CASE ~InPolicyCheck(r)
  BY <1>0, <1>1, <1>2, <1>4 DEF Serial, Answer, Target
<1> QED  BY <1>3, <1>4

\* execute_scoped and execute.
LEMMA ExecutorExact ==
  ASSUME SerialInv, TypeOK', NEW r \in Requests, Exact(r), ExecutorStep(r)
  PROVE  Exact(r)'
<1>0. /\ TypeOK /\ Serial(r) /\ proposals \in Seq(Proposal) /\ batch[r] \in Batches
      /\ RequestSafe(r) /\ \A p \in DOMAIN proposals : proposals[p] \in Proposal
      /\ ~ReturnExisting(r) /\ ~RefuseExecution(r)
  BY NeverHappens DEF SerialInv, OfferInv, IInv, Authority, TypeOK
<1>1. ASSUME pc[r] \in InExecutor
      PROVE  /\ Target(r) \in DOMAIN proposals
             /\ proposals[Target(r)].status \in {"proposed", "approved"}
             /\ Looping(r) <=> InPolicyCheck(r)
             /\ Settling(r) <=> ~InPolicyCheck(r)
             /\ InPolicyCheck(r) => /\ Target(r) = batch[r].at
                                    /\ ~NeedsApproval(proposals[Target(r)].item)
  BY <1>1, TargetMayRun
<1>2. CASE PassGuard(r)
  <2>1. /\ proposals' = proposals /\ batch' = batch /\ graph' = graph /\ session' = session
        /\ pc[r] = "scoped" /\ pc'[r] = "apply"
    BY <1>0, <1>2 DEF PassGuard, At, Goto, TypeOK
  <2>2. Looping(r)' = Looping(r) /\ Settling(r)' = Settling(r)
        /\ (Looping(r) \/ Settling(r)) /\ InStep(r)'
    BY <2>1, StaysInStep DEF Exact, BeforeReturn, Looping, Settling, InExecutor, InPolicyCheck
  <2>3. Looping(r)' => Held(r)'
    BY <2>1, <2>2 DEF Exact, Held, Unattended
  <2>4. \A p \in DOMAIN proposals : Once(r, p)'
    BY <2>1 DEF Exact, Once
  <2> QED  BY <2>1, <2>2, <2>3, <2>4 DEF Exact, Unattended
<1>3. CASE ApplyHandler(r)
  <2> DEFINE t == Target(r)
  <2>1. /\ batch' = batch /\ graph' = graph /\ session' = session
        /\ pc[r] = "apply" /\ pc'[r] = "record"
        /\ \/ proposals' = proposals
           \/ proposals' = [proposals EXCEPT ![t] = Applied(@)]
    BY <1>0, <1>3 DEF ApplyHandler, At, Goto, TypeOK
  <2>2. /\ t \in DOMAIN proposals /\ t' = t
        /\ proposals[t].status \in {"proposed", "approved"}
    BY <1>1, <2>1 DEF InExecutor, Target, InPolicyCheck
  <2> HIDE DEF t
  <2>3. /\ DOMAIN proposals' = DOMAIN proposals
        /\ \A p \in DOMAIN proposals :
             /\ proposals'[p].status = proposals[p].status
             /\ proposals'[p].item = proposals[p].item
             /\ proposals'[p].executions = proposals[p].executions
             /\ p # t => proposals'[p].applied = proposals[p].applied
        /\ proposals'[t].applied \in {proposals[t].applied, proposals[t].applied + 1}
    <3>1. "approve" \in Decision
      BY DEF Decision
    <3> QED  BY <1>0, <2>1, <2>2, <3>1, RowStatuses, RowFields, RowCounts
  <2>4. Looping(r)' = Looping(r) /\ Settling(r)' = Settling(r)
        /\ (Looping(r) \/ Settling(r)) /\ InStep(r)'
    BY <2>1, StaysInStep DEF Exact, BeforeReturn, Looping, Settling, InExecutor, InPolicyCheck
  <2>5. ASSUME NEW p \in DOMAIN proposals PROVE Once(r, p)' /\ (Unattended(p)' <=> Unattended(p))
    <3>1. Once(r, p) /\ proposals[p].applied \in Nat
      BY <1>0, RowCounts DEF Exact
    <3>2. CASE p = t
      <4>1. proposals[p].applied = 0 /\ proposals[p].executions = 0
        BY <2>1, <2>2, <3>1, <3>2 DEF Once
      <4>2. Target(r)' = t
        BY <2>2 DEF t
      <4> QED  BY <2>1, <2>3, <3>2, <4>1, <4>2 DEF Once, Unattended
    <3>3. CASE p # t
      BY <2>1, <2>3, <3>1, <3>3 DEF Once, Unattended
    <3> QED  BY <3>2, <3>3
  <2>6. Open(proposals') = Open(proposals)
    BY <2>3 DEF Open
  <2>7. Looping(r)' => Held(r)'
    <3>1. Len(proposals') = Len(proposals)
      BY <1>0, <2>3 DEF TypeOK
    <3> QED  BY <2>1, <2>3, <2>4, <2>5, <2>6, <3>1 DEF Exact, Held
  <2> QED  BY <2>1, <2>3, <2>4, <2>5, <2>7 DEF Exact
<1>4. CASE RecordExecution(r)
  <2> DEFINE t == Target(r)
  <2>1. /\ graph' = graph /\ session' = session
        /\ pc[r] = "record" /\ pc'[r] = IF InPolicyCheck(r) THEN "loop" ELSE "settle"
        /\ batch'[r] = IF InPolicyCheck(r) THEN NextTurn(batch[r], batch[r].pending)
                       ELSE batch[r]
        /\ proposals' = [proposals EXCEPT ![t] = Recorded(@)]
    BY <1>0, <1>4 DEF RecordExecution, BackToCaller, At, Goto, TypeOK
  <2>2. /\ t \in DOMAIN proposals
        /\ proposals[t].status \in {"proposed", "approved"}
        /\ Looping(r) <=> InPolicyCheck(r)
        /\ InPolicyCheck(r) => t = batch[r].at /\ ~NeedsApproval(proposals[t].item)
    BY <1>1, <2>1 DEF InExecutor
  <2>3. \A p \in DOMAIN proposals : p # t => Target(r) # p
    OBVIOUS
  <2> HIDE DEF t
  <2>4. /\ DOMAIN proposals' = DOMAIN proposals
        /\ \A p \in DOMAIN proposals : p # t => proposals'[p] = proposals[p]
        /\ proposals'[t].status \in {"executed", "failed"}
        /\ proposals'[t].executions = proposals[t].executions + 1
        /\ proposals'[t].applied = proposals[t].applied
    <3>1. "approve" \in Decision
      BY DEF Decision
    <3> QED  BY <1>0, <2>1, <2>2, <3>1, RowStatuses, RowCounts
  <2>5. Looping(r)' = Looping(r) /\ (Looping(r)' \/ Settling(r)') /\ InStep(r)'
    BY <2>1, <2>2, StaysInStep
    DEF Exact, BeforeReturn, Looping, Settling, InExecutor, InPolicyCheck
  <2>6. ASSUME NEW p \in DOMAIN proposals
        PROVE  Once(r, p)' /\ (Unattended(p)' <=> Unattended(p) /\ p # t)
    <3>1. Once(r, p) /\ proposals[p].applied \in Nat
      BY <1>0, RowCounts DEF Exact
    <3>2. CASE p = t
      BY <2>2, <2>4, <3>1, <3>2 DEF Once, Unattended
    <3>3. CASE p # t
      BY <2>3, <2>4, <3>1, <3>3 DEF Once, Unattended
    <3> QED  BY <3>2, <3>3
  <2>7. Looping(r)' => Held(r)'
    <3> SUFFICES ASSUME Looping(r) PROVE Held(r)'
      BY <2>5
    <3>1. /\ batch'[r].at = batch[r].at + 1 /\ batch'[r].hi = batch[r].hi
          /\ batch'[r].pending = batch[r].pending /\ batch[r].at \in Nat
          /\ t = batch[r].at /\ ~NeedsApproval(proposals[t].item) /\ Held(r)
      BY <1>0, <2>1, <2>2 DEF NextTurn, Batches, Exact
    <3>2. Open(proposals') = Open(proposals) /\ t \notin Open(proposals)
      BY <2>4, <3>1 DEF Open
    <3>3. Len(proposals') = Len(proposals) /\ Open(proposals) \subseteq Nat
      BY <1>0, <2>4 DEF TypeOK, Open
    <3>4. \A p \in Open(proposals') :
            p < batch'[r].at => batch'[r].pending # None /\ batch'[r].pending <= p
      BY <3>1, <3>2, <3>3 DEF Held
    <3>5. ASSUME NEW p \in DOMAIN proposals, Unattended(p)' PROVE p >= batch[r].at + 1
      BY <1>0, <2>6, <3>1, <3>5 DEF Held
    <3> QED  BY <2>4, <3>1, <3>2, <3>3, <3>4, <3>5 DEF Held
  <2>8. \A p \in DOMAIN proposals : ~Looping(r) => ~Unattended(p)'
    BY <2>6 DEF Exact
  <2> QED  BY <2>1, <2>4, <2>5, <2>6, <2>7, <2>8 DEF Exact
<1> QED  BY <1>0, <1>2, <1>3, <1>4 DEF ExecutorStep

-----------------------------------------------------------------------------
(* The invariant holds, and what follows from it. *)

LEMMA ExactInit == Init => ExactInv
<1> SUFFICES ASSUME Init PROVE \A r \in Requests : Exact(r)
  BY SerialInit DEF ExactInv
<1>1. ASSUME NEW r \in Requests PROVE ~Looping(r) /\ ~Settling(r)
  BY DEF Init, Looping, Settling, InExecutor
<1>2. DOMAIN proposals = {} /\ Open(proposals) = {} /\ ~Waiting
  BY DEF Init, Open, Waiting
<1>3. IsNextPending(session.pending, proposals)
  BY <1>2 DEF Init, IsNextPending
<1>4. \A r \in Requests : InStep(r)
  BY DEF Init, InStep, BeforeReturn, InExecutor
<1> QED  BY <1>1, <1>2, <1>3, <1>4 DEF Exact

\* Everything a request does by itself.
LEMMA RequestExact ==
  ASSUME SerialInv, TypeOK', NEW r \in Requests, Exact(r), EnterStep(r) \/ RequestStep(r)
  PROVE  Exact(r)'
<1>1. CASE \/ EnterStep(r) \/ LoadStep(r) \/ PutCheckpoint(r) \/ AuditNode(r)
           \/ SpawnAgent(r) \/ AgentJobFails(r) \/ Interrupt(r) \/ ResumeInterrupt(r)
           \/ ReturnNode(r) \/ UpdateMemory(r)
  BY <1>1, CalmStep
<1>2. CASE PolicyStep(r)
  BY <1>2, PolicyExact
<1>3. CASE ApproveProposal(r) \/ DeclineProposal(r) \/ SettleApproval(r)
  BY <1>3, ApprovalExact
<1>4. CASE ExecutorStep(r)
  BY <1>4, ExecutorExact
<1> QED  BY <1>1, <1>2, <1>3, <1>4, NeverHappens DEF RequestStep, ApprovalStep

\* A fault is counted.
LEMMA FaultsCounted ==
  ASSUME TypeOK, Restart \/ \E r \in Requests : FaultStep(r)
  PROVE  faults' # 0
<1>1. faults \in Nat /\ faults' = faults + 1
  BY BoundsAssumption DEF TypeOK, Restart, FaultStep, NodeFails, Disconnect
<1> QED  BY <1>1

\* A step after which nothing has failed leaves the count as it was.
LEMMA FaultsStay ==
  ASSUME TypeOK, [Next]_vars, faults' = 0
  PROVE  /\ faults = 0
         /\ \/ \E r \in Requests : EnterStep(r) \/ RequestStep(r)
            \/ UNCHANGED vars
<1>1. faults \in Nat /\ faults \in 0..MaxFaults /\ MaxFaults \in Nat
  BY BoundsAssumption DEF TypeOK
<1>2. faults' = faults \/ faults' = faults + 1
  BY DEF Next, EnterStep, TriggerEvent, SubmitDecision, RequestStep, LoadStep, LoadInput,
         LoadResume, LoadNothing, PutCheckpoint, AuditNode, SpawnAgent, AgentJobFails,
         PolicyStep, PersistPlan, KeepForApproval, AutoExecute, RoutePolicy, ApprovalStep,
         Interrupt, ResumeInterrupt, DecisionMismatch, ApproveProposal, DeclineProposal,
         SettleApproval, ExecutorStep, ReturnExisting, PassGuard, RefuseExecution,
         ApplyHandler, RecordExecution, ReturnNode, UpdateMemory, ReturnAndPut, Return, FaultStep,
         NodeFails, Disconnect, Restart, NoMoreRequests, vars
<1>3. faults = 0
  BY <1>1, <1>2
<1> QED  BY <1>3, FaultsCounted DEF Next, NoMoreRequests

LEMMA ExactNext == OneAtATime /\ ExactInv /\ [Next]_vars => ExactInv'
<1> SUFFICES ASSUME OneAtATime, ExactInv, [Next]_vars, faults' = 0
             PROVE  \A r \in Requests : Exact(r)'
  BY SerialNext DEF ExactInv
<1>0. SerialInv /\ TypeOK /\ TypeOK'
  BY SerialNext DEF ExactInv, SerialInv, OfferInv, IInv
<1>1. \A r \in Requests : Exact(r)
  BY <1>0, FaultsStay DEF ExactInv
<1>2. CASE \E r \in Requests : EnterStep(r) \/ RequestStep(r)
  BY <1>0, <1>1, <1>2, RequestExact DEF OneAtATime
<1>3. CASE UNCHANGED vars
  BY <1>1, <1>3 DEF vars, Exact, InStep, Once, Looping, Settling, Held, Unattended, Waiting,
                    InPolicyCheck, Target, IsNextPending
<1> QED  BY <1>0, <1>2, <1>3, FaultsStay

LEMMA ExactCorrect == ASSUME OneAtATime PROVE Spec => []ExactInv
<1>1. ExactInv /\ [Next]_vars => ExactInv'
  BY ExactNext
<1> QED  BY <1>1, ExactInit, PTL DEF Spec

\* With requests that do not overlap, and as long as nothing has failed, no
\* proposal is executed twice and no handler commits twice for the same one
\* (execute, execute_scoped), whatever plans the agent proposes.
THEOREM ExecutedAtMostOnce ==
  ASSUME OneAtATime
  PROVE  Spec => [](faults = 0 => AtMostOnce)
<1>1. ExactInv => (faults = 0 => AtMostOnce)
  BY DEF OneAtATime, ExactInv, Exact, Once, AtMostOnce
<1>2. Spec => []ExactInv
  BY ExactCorrect
<1> QED  BY <1>1, <1>2, PTL

\* With requests that do not overlap, and as long as nothing has failed, the
\* session row and the checkpoint tell the same story whenever no request runs:
\* the oldest open proposal is the one offered, and the graph waits at its
\* interrupt (_record_plan, execute_action, update_memory).
THEOREM RestIsAgreed ==
  ASSUME OneAtATime
  PROVE  Spec => [](faults = 0 => AtRestAgreement)
<1>1. ExactInv => (faults = 0 => AtRestAgreement)
  <2> SUFFICES ASSUME ExactInv, faults = 0, Quiet PROVE AtRestAgreement
    BY DEF AtRestAgreement
  <2>1. PICK r \in Requests : pc[r] = "idle" /\ Exact(r) /\ Serial(r)
    BY DEF OneAtATime, Quiet, At, ExactInv, SerialInv
  <2>2. StateMatchesPending /\ (Waiting <=> session.pending # None)
    BY DEF ExactInv, SerialInv, StateMatchesPending, StateFor, Waiting
  <2>3. IsNextPending(session.pending, proposals)
    BY <2>1 DEF Exact, Looping, Settling, InExecutor
  <2>4. Waiting <=> checkpoint.next = "approval_interrupt"
    BY <2>1 DEF Exact, Serial, Place, Stopped, Agrees
  <2>5. Waiting => checkpoint.pending = session.pending
    BY <2>1, <2>4 DEF Serial, Place, Stopped, Agrees
  <2> QED  BY <2>2, <2>3, <2>4, <2>5 DEF AtRestAgreement, StateMatchesPending
<1>2. Spec => []ExactInv
  BY ExactCorrect
<1> QED  BY <1>1, <1>2, PTL

-----------------------------------------------------------------------------
(* Every step is a promised one, or shows the customer nothing.            *)

PhaseSet == {"auto", "open", "approved", "done", "declined"}

LEMMA PhaseIs ==
  ASSUME NEW row \in Proposal
  PROVE  /\ PhaseOf(row) \in PhaseSet
         /\ PhaseOf(row) = "auto" <=> row.status = "proposed" /\ ~NeedsApproval(row.item)
         /\ PhaseOf(row) = "open" <=> row.status = "proposed" /\ NeedsApproval(row.item)
         /\ PhaseOf(row) = "approved" <=> row.status = "approved"
         /\ PhaseOf(row) = "done" <=> row.status \in {"executed", "failed"}
         /\ PhaseOf(row) = "declined" <=> row.status \in {"rejected", "deferred"}
<1>1. row.status \in Status
  BY DEF Proposal
<1>2. CASE row.status = "proposed" /\ ~NeedsApproval(row.item)
  BY <1>2 DEF PhaseOf, PhaseSet
<1>3. CASE row.status = "proposed" /\ NeedsApproval(row.item)
  BY <1>3 DEF PhaseOf, PhaseSet
<1>4. CASE row.status = "approved"
  BY <1>4 DEF PhaseOf, PhaseSet
<1>5. CASE row.status \in {"executed", "failed"}
  BY <1>5 DEF PhaseOf, PhaseSet
<1>6. CASE row.status \in {"rejected", "deferred"}
  BY <1>6 DEF PhaseOf, PhaseSet
<1> QED  BY <1>1, <1>2, <1>3, <1>4, <1>5, <1>6 DEF Status

LEMMA SamePhase ==
  ASSUME NEW row, NEW new, new.status = row.status, new.item = row.item
  PROVE  PhaseOf(new) = PhaseOf(row)
  BY Zenon DEF PhaseOf

LEMMA ShownTyped ==
  ASSUME NEW ps \in Seq(Proposal)
  PROVE  /\ DOMAIN ps = 1..Len(ps) /\ Len(ps) \in Nat
         /\ Phases(ps) \in Seq(PhaseSet) /\ Counts(ps) \in Seq(Nat)
         /\ Len(Phases(ps)) = Len(ps) /\ Len(Counts(ps)) = Len(ps)
         /\ \A p \in DOMAIN ps :
              /\ Phases(ps)[p] = PhaseOf(ps[p]) /\ Counts(ps)[p] = ps[p].executions
              /\ ps[p] \in Proposal
<1>1. DOMAIN ps = 1..Len(ps) /\ Len(ps) \in Nat /\ \A p \in DOMAIN ps : ps[p] \in Proposal
  OBVIOUS
<1>2. \A p \in DOMAIN ps : PhaseOf(ps[p]) \in PhaseSet /\ ps[p].executions \in Nat
  BY <1>1, PhaseIs, RowCounts
<1>3. Phases(ps) \in Seq(PhaseSet) /\ Len(Phases(ps)) = Len(ps)
  BY <1>1, <1>2 DEF Phases
<1>4. Counts(ps) \in Seq(Nat) /\ Len(Counts(ps)) = Len(ps)
  BY <1>1, <1>2 DEF Counts
<1> QED  BY <1>1, <1>3, <1>4 DEF Phases, Counts

\* The open actions of the promise are the open proposals.
LEMMA OldestIsNext ==
  ASSUME NEW ps \in Seq(Proposal), NEW p
  PROVE  IsNextPending(p, ps) <=> Promise!OldestOpen(p, Phases(ps))
<1>1. DOMAIN Phases(ps) = DOMAIN ps
  BY DEF Phases
<1>2. Open(ps) = {q \in DOMAIN Phases(ps) : Phases(ps)[q] = "open"}
  BY <1>1, ShownTyped, PhaseIs DEF Open
<1> QED  BY <1>2 DEF IsNextPending, Promise!OldestOpen, None

LEMMA UnseenStep ==
  ASSUME TypeOK, TypeOK', RowsAlike, session'.pending = session.pending
  PROVE  UNCHANGED Promise!avars
<1>1. /\ \A p \in DOMAIN proposals : proposals[p] \in Proposal /\ proposals'[p] \in Proposal
      /\ DOMAIN proposals' = DOMAIN proposals
  BY DEF RowsAlike, TypeOK
<1>2. \A p \in DOMAIN proposals : PhaseOf(proposals'[p]) = PhaseOf(proposals[p])
  <2> SUFFICES ASSUME NEW p \in DOMAIN proposals
               PROVE  PhaseOf(proposals'[p]) = PhaseOf(proposals[p])
    OBVIOUS
  <2>1. /\ proposals'[p].status = proposals[p].status
        /\ proposals'[p].item = proposals[p].item
    BY DEF RowsAlike, Alike
  <2> QED  BY <2>1, Zenon DEF PhaseOf
<1>3. Phases(proposals)' = Phases(proposals)
  BY <1>1, <1>2 DEF Phases
<1>4. Counts(proposals)' = Counts(proposals)
  BY <1>1 DEF RowsAlike, Alike, Counts
<1> QED  BY <1>3, <1>4 DEF Promise!avars

\* One row of the session is rewritten.
LEMMA OneIsShown ==
  ASSUME NEW p \in DOMAIN proposals, DOMAIN proposals' = DOMAIN proposals,
         \A q \in DOMAIN proposals : q # p => proposals'[q] = proposals[q]
  PROVE  /\ Phases(proposals)' = [Phases(proposals) EXCEPT ![p] = PhaseOf(proposals'[p])]
         /\ Counts(proposals)' = [Counts(proposals) EXCEPT ![p] = proposals'[p].executions]
  BY DEF Phases, Counts

\* Sequences: a function on 1..n is one, and what appending one to another gives.
LEMMA AsSequence ==
  ASSUME NEW S, NEW n \in Nat, NEW f \in [1..n -> S]
  PROVE  f \in Seq(S) /\ Len(f) = n
  OBVIOUS

LEMMA AppendIs ==
  ASSUME NEW S, NEW s \in Seq(S), NEW t \in Seq(S), NEW u \in Seq(S),
         Len(u) = Len(s) + Len(t),
         \A i \in 1..Len(s) : u[i] = s[i],
         \A i \in 1..Len(t) : u[Len(s) + i] = t[i]
  PROVE  u = s \o t
<1>1. /\ s \o t \in Seq(S) /\ Len(s \o t) = Len(s) + Len(t)
      /\ \A i \in 1..Len(s) + Len(t) : (s \o t)[i] =
           IF i <= Len(s) THEN s[i] ELSE t[i - Len(s)]
  BY ConcatProperties
<1>2. ASSUME NEW i \in 1..Len(u) PROVE u[i] = (s \o t)[i]
  <2>1. Len(s) \in Nat /\ Len(t) \in Nat /\ i \in 1..Len(s) + Len(t)
    OBVIOUS
  <2>2. CASE i <= Len(s)
    BY <1>1, <2>1, <2>2
  <2>3. CASE ~(i <= Len(s))
    <3>1. i - Len(s) \in 1..Len(t) /\ Len(s) + (i - Len(s)) = i
      BY <2>1, <2>3
    <3>2. u[i] = t[i - Len(s)]
      BY <3>1
    <3> QED  BY <1>1, <2>1, <2>3, <3>2
  <2> QED  BY <2>2, <2>3
<1> QED  BY <1>1, <1>2, SeqEqual

\* What storing a plan shows: its actions, each waiting or about to run by
\* itself, none of them run yet.
LEMMA PlanIsShown ==
  ASSUME NEW ps \in Seq(Proposal), NEW qs \in Seq(Proposal), NEW n \in Nat,
         Len(qs) = Len(ps) + n, \A i \in 1..Len(ps) : qs[i] = ps[i],
         \A i \in 1..n : /\ qs[Len(ps) + i].status = "proposed"
                         /\ qs[Len(ps) + i].executions = 0
  PROVE  /\ \E new \in [1..n -> {"auto", "open"}] : Phases(qs) = Phases(ps) \o new
         /\ Counts(qs) = Counts(ps) \o [i \in 1..n |-> 0]
<1>1. /\ Phases(ps) \in Seq(PhaseSet) /\ Phases(qs) \in Seq(PhaseSet)
      /\ Len(Phases(ps)) = Len(ps) /\ Len(Phases(qs)) = Len(ps) + n
      /\ Counts(ps) \in Seq(Nat) /\ Counts(qs) \in Seq(Nat)
      /\ Len(Counts(ps)) = Len(ps) /\ Len(Counts(qs)) = Len(ps) + n
      /\ DOMAIN ps = 1..Len(ps) /\ DOMAIN qs = 1..(Len(ps) + n) /\ Len(ps) \in Nat
  BY ShownTyped
<1>2. /\ \A i \in 1..Len(ps) : /\ Phases(qs)[i] = Phases(ps)[i]
                               /\ Counts(qs)[i] = Counts(ps)[i]
      /\ \A i \in 1..n : /\ Phases(qs)[Len(ps) + i] = PhaseOf(qs[Len(ps) + i])
                         /\ Counts(qs)[Len(ps) + i] = 0
                         /\ qs[Len(ps) + i] \in Proposal
  <2>1. /\ \A i \in 1..n : Len(ps) + i \in DOMAIN qs
        /\ \A i \in 1..Len(ps) : i \in DOMAIN qs
    BY <1>1
  <2>2. /\ \A p \in DOMAIN ps : /\ Phases(ps)[p] = PhaseOf(ps[p])
                                /\ Counts(ps)[p] = ps[p].executions
        /\ \A p \in DOMAIN qs : /\ Phases(qs)[p] = PhaseOf(qs[p]) /\ qs[p] \in Proposal
                                /\ Counts(qs)[p] = qs[p].executions
    BY ShownTyped
  <2> QED  BY <1>1, <2>1, <2>2
<1> DEFINE new == [i \in 1..n |-> PhaseOf(qs[Len(ps) + i])]
<1>3. new \in [1..n -> {"auto", "open"}]
  <2>1. \A i \in 1..n : PhaseOf(qs[Len(ps) + i]) \in {"auto", "open"}
    BY <1>2, PhaseIs
  <2> QED  BY <2>1
<1>4. \A i \in 1..n : Phases(qs)[Len(ps) + i] = new[i]
  BY <1>2
<1> HIDE DEF new
<1>5. Phases(qs) = Phases(ps) \o new
  <2>1. new \in [1..n -> PhaseSet]
    BY <1>3 DEF PhaseSet
  <2>2. new \in Seq(PhaseSet) /\ Len(new) = n
    BY <2>1, AsSequence
  <2> DEFINE old == Phases(ps)
             all == Phases(qs)
  <2>3. /\ old \in Seq(PhaseSet) /\ all \in Seq(PhaseSet)
        /\ Len(all) = Len(old) + Len(new)
        /\ \A i \in 1..Len(old) : all[i] = old[i]
        /\ \A i \in 1..Len(new) : all[Len(old) + i] = new[i]
    BY <1>1, <1>2, <1>4, <2>2
  <2> HIDE DEF old, all
  <2>4. all = old \o new
    BY <2>2, <2>3, AppendIs
  <2> QED  BY <2>4 DEF old, all
<1> DEFINE zeros == [i \in 1..n |-> 0]
<1>6. zeros \in [1..n -> Nat] /\ \A i \in 1..n : zeros[i] = 0
  OBVIOUS
<1> HIDE DEF zeros
<1>7. Counts(qs) = Counts(ps) \o zeros
  <2>1. zeros \in Seq(Nat) /\ Len(zeros) = n
    BY <1>6, AsSequence
  <2> DEFINE old == Counts(ps)
             all == Counts(qs)
  <2>2. /\ old \in Seq(Nat) /\ all \in Seq(Nat)
        /\ Len(all) = Len(old) + Len(zeros)
        /\ \A i \in 1..Len(old) : all[i] = old[i]
        /\ \A i \in 1..Len(zeros) : all[Len(old) + i] = zeros[i]
    BY <1>1, <1>2, <1>6, <2>1
  <2> HIDE DEF old, all
  <2>3. all = old \o zeros
    BY <2>1, <2>2, AppendIs
  <2> QED  BY <2>3 DEF old, all
<1> QED  BY <1>3, <1>5, <1>7 DEF zeros

\* policy_check stores a plan: the actions are posted.
LEMMA PlanIsPosted ==
  ASSUME SerialInv, TypeOK', NEW r \in Requests, Exact(r), PersistPlan(r)
  PROVE  Promise!Post \/ UNCHANGED Promise!avars
<1>0. /\ TypeOK /\ Serial(r) /\ StateMatchesPending
      /\ proposals \in Seq(Proposal) /\ proposals' \in Seq(Proposal)
  BY DEF SerialInv, OfferInv, IInv, TypeOK
<1> DEFINE plan == graph[r].plan
           n == Len(plan)
<1>1. plan \in Seq(Items) /\ plan \in Plans \cup {<<>>}
  <2>1. graph[r].plan \in Plans \cup {<<>>} /\ <<>> \in Seq(Items)
    BY <1>0 DEF TypeOK, Runs
  <2> QED  BY <2>1, PlansAssumption
<1>2. /\ proposals' = proposals \o NewProposals(plan) /\ session' = session
      /\ pc[r] = "node" /\ graph[r].next = "policy_check"
  BY <1>0 DEF PersistPlan, InNode, At, Goto, TypeOK
<1>3. session.pending = 0
  BY <1>0, <1>2 DEF Exact, InStep, BeforeReturn, Waiting, StateMatchesPending, StateFor, None
<1> HIDE DEF plan
<1>4. n \in Nat /\ (plan = <<>> => n = 0)
  BY <1>1
<1>5. /\ DOMAIN proposals' = 1..(Len(proposals) + n)
      /\ \A p \in DOMAIN proposals : proposals'[p] = proposals[p]
      /\ \A p \in DOMAIN proposals' \ DOMAIN proposals :
           proposals'[p].status = "proposed" /\ proposals'[p].executions = 0
  BY <1>0, <1>1, <1>2, AppendPlan
<1>6. CASE plan \in Plans
  <2>1. n \in {Len(x) : x \in Plans}
    BY <1>6
  <2> HIDE DEF n
  <2>2. /\ DOMAIN proposals = 1..Len(proposals) /\ Len(proposals) \in Nat
        /\ Len(proposals') = Len(proposals) + n
    BY <1>0, <1>4, <1>5
  <2>3. \A i \in 1..n : Len(proposals) + i \in DOMAIN proposals' \ DOMAIN proposals
    BY <1>4, <1>5, <2>2
  <2>4. /\ \E new \in [1..n -> {"auto", "open"}] :
             Phases(proposals') = Phases(proposals) \o new
        /\ Counts(proposals') = Counts(proposals) \o [i \in 1..n |-> 0]
    <3> DEFINE qs == proposals'
    <3>1. /\ qs \in Seq(Proposal) /\ Len(qs) = Len(proposals) + n
          /\ \A i \in 1..Len(proposals) : qs[i] = proposals[i]
          /\ \A i \in 1..n : /\ qs[Len(proposals) + i].status = "proposed"
                             /\ qs[Len(proposals) + i].executions = 0
      BY <1>0, <1>5, <2>2, <2>3
    <3> HIDE DEF qs
    <3>2. /\ \E new \in [1..n -> {"auto", "open"}] : Phases(qs) = Phases(proposals) \o new
          /\ Counts(qs) = Counts(proposals) \o [i \in 1..n |-> 0]
      BY <1>0, <1>4, <3>1, PlanIsShown
    <3> QED  BY <3>2 DEF qs
  <2>5. PICK new \in [1..n -> {"auto", "open"}] :
          Phases(proposals') = Phases(proposals) \o new
    BY <2>4
  <2>6. /\ session.pending = 0 /\ session'.pending = session.pending
        /\ Phases(proposals)' = Phases(proposals) \o new
        /\ Counts(proposals)' = Counts(proposals) \o [i \in 1..n |-> 0]
    BY <1>2, <1>3, <2>4, <2>5
  <2> QED  BY <2>1, <2>6 DEF Promise!Post
<1>7. CASE plan = <<>>
  <2>1. DOMAIN proposals' = DOMAIN proposals
    BY <1>0, <1>4, <1>5, <1>7
  <2>2. RowsAlike
    BY <1>5, <2>1 DEF RowsAlike, Alike
  <2> QED  BY <1>0, <1>2, <2>2, UnseenStep
<1> QED  BY <1>1, <1>6, <1>7

\* The session moves on: nothing is left to run, and the oldest open proposal
\* is offered.
LEMMA MoveIsShown ==
  ASSUME TypeOK, proposals' = proposals, NEW nxt \in {None} \cup DOMAIN proposals,
         IsNextPending(nxt, proposals), session'.pending = nxt,
         \A p \in DOMAIN proposals : ~Unattended(p) /\ proposals[p].status # "approved",
         session.pending # None =>
           session.pending \in DOMAIN proposals /\ session.pending \notin Open(proposals)
  PROVE  Promise!MoveOn
<1>1. proposals \in Seq(Proposal)
  BY DEF TypeOK
<1>2. /\ DOMAIN Phases(proposals) = DOMAIN proposals
      /\ DOMAIN proposals = 1..Len(proposals)
      /\ Len(Phases(proposals)) = Len(proposals) /\ Len(proposals) \in Nat
      /\ \A p \in DOMAIN proposals :
           Phases(proposals)[p] = PhaseOf(proposals[p]) /\ proposals[p] \in Proposal
  BY <1>1, ShownTyped DEF Phases
<1>3. \A p \in DOMAIN proposals : Phases(proposals)[p] \notin {"auto", "approved"}
  BY <1>2, PhaseIs DEF Unattended
<1>4. session.pending # 0 => Phases(proposals)[session.pending] # "open"
  BY <1>2, PhaseIs DEF Open, None
<1>5. nxt \in 0..Len(Phases(proposals)) /\ Promise!OldestOpen(nxt, Phases(proposals))
  BY <1>1, <1>2, OldestIsNext DEF None
<1>6. Phases(proposals)' = Phases(proposals) /\ Counts(proposals)' = Counts(proposals)
  BY DEF Phases, Counts
<1> QED  BY <1>2, <1>3, <1>4, <1>5, <1>6 DEF Promise!MoveOn

LEMMA PolicyIsPromised ==
  ASSUME SerialInv, TypeOK', NEW r \in Requests, Exact(r), PolicyStep(r)
  PROVE  Promise!Post \/ Promise!MoveOn \/ UNCHANGED Promise!avars
<1>0. /\ TypeOK /\ Serial(r) /\ StateMatchesPending /\ batch[r] \in Batches
  BY DEF SerialInv, OfferInv, IInv, TypeOK
<1>1. CASE PersistPlan(r)
  BY <1>1, PlanIsPosted
<1>2. CASE KeepForApproval(r) \/ AutoExecute(r)
  BY <1>0, <1>2, UnseenStep DEF KeepForApproval, AutoExecute, RowsAlike, Alike
<1>3. CASE RoutePolicy(r)
  <2> DEFINE nxt == batch[r].pending
  <2>1. /\ proposals' = proposals /\ session'.pending = nxt
        /\ pc[r] = "loop" /\ pc'[r] = "return" /\ nxt \in Nat
    BY <1>0, <1>3 DEF RoutePolicy, At, Goto, TypeOK, Batches
  <2>2. ~Waiting /\ session.pending = None
    BY <1>0, <2>1 DEF Serial, Place, Position, Exact, InStep, BeforeReturn, Waiting,
                      StateMatchesPending, StateFor
  <2>3. Exact(r)' /\ ~Looping(r)' /\ ~Settling(r)'
    BY <1>3, <2>1, PolicyExact DEF PolicyStep, Looping, Settling, InExecutor
  <2>4. /\ IsNextPending(nxt, proposals) /\ \A p \in DOMAIN proposals : ~Unattended(p)
    BY <2>1, <2>3 DEF Exact, IsNextPending, Unattended
  <2>5. \A p \in DOMAIN proposals : proposals[p].status # "approved"
    BY <2>2, NothingApproved DEF NoApproval
  <2>6. nxt \in {None} \cup DOMAIN proposals
    BY <2>4 DEF IsNextPending, Open
  <2> HIDE DEF nxt
  <2> QED  BY <1>0, <2>1, <2>2, <2>4, <2>5, <2>6, MoveIsShown
<1> QED  BY <1>1, <1>2, <1>3 DEF PolicyStep

LEMMA ApprovalIsPromised ==
  ASSUME SerialInv, TypeOK', NEW r \in Requests, Exact(r),
         ApproveProposal(r) \/ DeclineProposal(r) \/ SettleApproval(r)
  PROVE  Promise!Approve \/ Promise!Decline \/ Promise!MoveOn
<1>0. /\ TypeOK /\ Serial(r) /\ StateMatchesPending /\ Kept /\ Offers
      /\ proposals \in Seq(Proposal) /\ proposals' \in Seq(Proposal)
      /\ \A p \in DOMAIN proposals : proposals[p] \in Proposal
  BY DEF SerialInv, OfferInv, IInv, TypeOK, Rows
<1> DEFINE p == session.pending
<1>1. ASSUME NEW act \in Decision, AnswerIs(r, {"approve", "reject", "revise"}),
             proposals' = [proposals EXCEPT ![p] = Decided(@, act)]
      PROVE  /\ p \in DOMAIN proposals /\ p # 0 /\ Phases(proposals)[p] = "open"
             /\ proposals'[p].status = Decided(proposals[p], act).status
             /\ proposals'[p] \in Proposal /\ proposals[p] \in Proposal
             /\ Phases(proposals)' =
                  [Phases(proposals) EXCEPT ![p] = PhaseOf(proposals'[p])]
             /\ Counts(proposals)' = Counts(proposals)
  <2>1. p \in DOMAIN proposals /\ p \in Open(proposals)
    BY <1>1, AnswersOffered, OfferedIsOpen
  <2>2. Phases(proposals)[p] = "open" /\ p # 0
    BY <1>0, <2>1, ShownTyped, PhaseIs DEF Open
  <2> HIDE DEF p
  <2>3. /\ DOMAIN proposals' = DOMAIN proposals
        /\ \A q \in DOMAIN proposals : q # p => proposals'[q] = proposals[q]
        /\ proposals'[p] = Decided(proposals[p], act)
    BY <1>0, <1>1, <2>1
  <2>4. proposals'[p].executions = proposals[p].executions
    BY <1>0, <2>1, <2>3, RowFields
  <2>5. /\ Phases(proposals)' = [Phases(proposals) EXCEPT ![p] = PhaseOf(proposals'[p])]
        /\ Counts(proposals)' = [Counts(proposals) EXCEPT ![p] = proposals'[p].executions]
    BY <2>1, <2>3, OneIsShown
  <2>6. Counts(proposals)' = Counts(proposals)
    BY <2>1, <2>4, <2>5 DEF Counts
  <2> QED  BY <1>0, <2>1, <2>2, <2>3, <2>5, <2>6
<1>2. CASE ApproveProposal(r)
  <2>1. /\ AnswerIs(r, {"approve", "reject", "revise"}) /\ graph[r].pending = p
        /\ "approve" \in Decision
    BY <1>2, AnswersOffered DEF ApproveProposal, AnswerIs, Decision
  <2>2. proposals' = [proposals EXCEPT ![p] = Decided(@, "approve")] /\ session' = session
    BY <1>2, <2>1 DEF ApproveProposal
  <2> HIDE DEF p
  <2>3. PhaseOf(proposals'[p]) = "approved"
    <3>1. /\ proposals[p] \in Proposal /\ proposals'[p] \in Proposal
          /\ proposals'[p].status = Decided(proposals[p], "approve").status
      BY <1>1, <2>1, <2>2
    <3>2. proposals'[p].status = "approved"
      BY <2>1, <3>1, RowStatuses
    <3> QED  BY <3>1, <3>2, PhaseIs
  <2>4. /\ p # 0 /\ Phases(proposals)[p] = "open"
        /\ Phases(proposals)' = [Phases(proposals) EXCEPT ![p] = "approved"]
        /\ Counts(proposals)' = Counts(proposals)
    BY <1>1, <2>1, <2>2, <2>3
  <2> QED  BY <2>2, <2>4 DEF Promise!Approve, p
<1>3. CASE DeclineProposal(r)
  <2> DEFINE act == graph[r].answer.act
  <2>1. /\ AnswerIs(r, {"approve", "reject", "revise"}) /\ graph[r].pending = p
        /\ ask[r].target = p /\ act \in Decision
        /\ act \in {"reject", "revise"}
    BY <1>3, AnswersOffered DEF DeclineProposal, AnswerIs, Decision
  <2>2. proposals' = [proposals EXCEPT ![p] = Decided(@, act)]
    BY <1>3, <2>1 DEF DeclineProposal
  <2>3. PICK nxt \in {None} \cup DOMAIN proposals :
          /\ IsNextPending(nxt, proposals')
          /\ session' =
               [state   |-> IF nxt = None THEN "Monitoring" ELSE session.state,
                pending |-> IF nxt = ask[r].target THEN session.pending ELSE nxt]
    BY <1>3 DEF DeclineProposal
  <2>4. session'.pending = nxt
    BY <2>1, <2>3
  <2> HIDE DEF act, p
  <2>5. PhaseOf(proposals'[p]) = "declined"
    <3>1. /\ proposals[p] \in Proposal /\ proposals'[p] \in Proposal
          /\ proposals'[p].status = Decided(proposals[p], act).status
      BY <1>1, <2>1, <2>2
    <3>2. proposals'[p].status \in {"rejected", "deferred"}
      BY <2>1, <3>1, RowStatuses
    <3> QED  BY <3>1, <3>2, PhaseIs
  <2>6. /\ p # 0 /\ Phases(proposals)[p] = "open"
        /\ Phases(proposals)' = [Phases(proposals) EXCEPT ![p] = "declined"]
        /\ Counts(proposals)' = Counts(proposals)
    BY <1>1, <2>1, <2>2, <2>5
  <2>7. /\ nxt \in 0..Len(Phases(proposals))
        /\ Promise!OldestOpen(nxt, Phases(proposals'))
    BY <1>0, <2>3, OldestIsNext, ShownTyped DEF None
  <2> QED  BY <2>4, <2>6, <2>7 DEF Promise!Decline, p
<1>4. CASE SettleApproval(r)
  <2>1. PICK nxt \in {None} \cup DOMAIN proposals :
          /\ IsNextPending(nxt, proposals)
          /\ session' = [state |-> StateFor(nxt), pending |-> nxt]
    BY <1>4 DEF SettleApproval
  <2>2. session'.pending = nxt
    BY <2>1
  <2>3. pc[r] = "settle" /\ proposals' = proposals
    BY <1>4 DEF SettleApproval, At
  <2>4. \A q \in DOMAIN proposals : ~Unattended(q)
    <3>1. graph[r].next = "execute_action"
      BY <1>0, <2>3 DEF Serial, Place, Position
    <3>2. ~Looping(r)
      BY <2>3, <3>1 DEF Looping, InExecutor
    <3> QED  BY <3>2 DEF Exact
  <2>5. /\ graph[r].pending = p /\ checkpoint = graph[r]
        /\ graph[r].next = "execute_action"
        /\ proposals[p].status \in {"executed", "failed"}
    BY <1>0, <2>3 DEF Serial, Place, Position, Answer, Inside, BeforeReturn, Exact, InStep
  <2>6. p # None => p \in DOMAIN proposals
    BY <1>0 DEF Offers, Offerable
  <2>7. \A q \in DOMAIN proposals : proposals[q].status # "approved"
    BY <1>0, <2>5 DEF Kept
  <2>8. p \notin Open(proposals)
    BY <2>5 DEF Open
  <2> QED  BY <1>0, <2>1, <2>2, <2>3, <2>4, <2>6, <2>7, <2>8, MoveIsShown
<1> QED  BY <1>2, <1>3, <1>4

LEMMA ExecutorIsPromised ==
  ASSUME SerialInv, TypeOK', NEW r \in Requests, Exact(r), ExecutorStep(r)
  PROVE  Promise!RunSome \/ UNCHANGED Promise!avars
<1>0. /\ TypeOK /\ proposals \in Seq(Proposal) /\ proposals' \in Seq(Proposal)
      /\ \A p \in DOMAIN proposals : proposals[p] \in Proposal
      /\ ~ReturnExisting(r) /\ ~RefuseExecution(r) /\ "approve" \in Decision
  BY NeverHappens DEF SerialInv, OfferInv, IInv, TypeOK, Decision
<1> DEFINE t == Target(r)
<1>1. CASE PassGuard(r)
  BY <1>0, <1>1, UnseenStep DEF PassGuard, RowsAlike, Alike
<1>2. CASE ApplyHandler(r)
  <2>1. t \in DOMAIN proposals
    BY <1>2, TargetMayRun DEF ApplyHandler, At, InExecutor
  <2>2. \/ proposals' = proposals
        \/ proposals' = [proposals EXCEPT ![t] = Applied(@)]
    BY <1>2 DEF ApplyHandler
  <2>3. session' = session
    BY <1>2 DEF ApplyHandler
  <2> HIDE DEF t
  <2>4. /\ DOMAIN proposals' = DOMAIN proposals
        /\ \A p \in DOMAIN proposals :
             /\ proposals'[p].status = proposals[p].status
             /\ proposals'[p].item = proposals[p].item
             /\ proposals'[p].executions = proposals[p].executions
    <3>1. /\ Applied(proposals[t]).status = proposals[t].status
          /\ Applied(proposals[t]).item = proposals[t].item
          /\ Applied(proposals[t]).executions = proposals[t].executions
      BY <1>0, <2>1, RowStatuses, RowFields, RowCounts
    <3> QED  BY <1>0, <2>1, <2>2, <3>1
  <2>5. Phases(proposals)' = Phases(proposals)
    <3>1. \A p \in DOMAIN proposals : PhaseOf(proposals'[p]) = PhaseOf(proposals[p])
      BY <2>4, SamePhase
    <3> QED  BY <2>4, <3>1 DEF Phases
  <2>6. Counts(proposals)' = Counts(proposals)
    BY <2>4 DEF Counts
  <2> QED  BY <2>3, <2>5, <2>6 DEF Promise!avars
<1>3. CASE RecordExecution(r)
  <2>1. /\ t \in DOMAIN proposals
        /\ \/ proposals[t].status = "proposed" /\ ~NeedsApproval(proposals[t].item)
           \/ proposals[t].status = "approved"
    BY <1>3, TargetMayRun DEF RecordExecution, At, InExecutor
  <2>2. proposals' = [proposals EXCEPT ![t] = Recorded(@)] /\ session' = session
    BY <1>3 DEF RecordExecution
  <2> HIDE DEF t
  <2>3. /\ DOMAIN proposals' = DOMAIN proposals
        /\ \A q \in DOMAIN proposals : q # t => proposals'[q] = proposals[q]
        /\ proposals'[t] = Recorded(proposals[t])
    BY <1>0, <2>1, <2>2
  <2>4. /\ proposals'[t].status \in {"executed", "failed"}
        /\ proposals'[t].executions = proposals[t].executions + 1
        /\ proposals'[t] \in Proposal
    BY <1>0, <2>1, <2>3, RowStatuses, RowCounts
  <2>5. PhaseOf(proposals'[t]) = "done" /\ Phases(proposals)[t] \in {"auto", "approved"}
        /\ Counts(proposals)[t] = proposals[t].executions
    BY <1>0, <2>1, <2>4, ShownTyped, PhaseIs
  <2>6. /\ Phases(proposals)' = [Phases(proposals) EXCEPT ![t] = "done"]
        /\ Counts(proposals)' = [Counts(proposals) EXCEPT ![t] = @ + 1]
    <3>1. /\ Phases(proposals)' = [Phases(proposals) EXCEPT ![t] = PhaseOf(proposals'[t])]
          /\ Counts(proposals)' = [Counts(proposals) EXCEPT ![t] = proposals'[t].executions]
      BY <2>1, <2>3, OneIsShown
    <3> QED  BY <2>4, <2>5, <3>1
  <2>7. Promise!Run(t)
    BY <2>2, <2>5, <2>6 DEF Promise!Run
  <2>8. t \in DOMAIN Phases(proposals)
    BY <2>1 DEF Phases
  <2> QED  BY <2>7, <2>8 DEF Promise!RunSome
<1> QED  BY <1>0, <1>1, <1>2, <1>3 DEF ExecutorStep

\* Every step of a request, and every other step of a run without faults.
LEMMA StepIsPromised ==
  OneAtATime /\ ExactInv /\ ExactInv' /\ faults = 0 /\ faults' = 0 /\ [Next]_vars
    => [Promise!Next]_(Promise!avars)
<1> SUFFICES ASSUME OneAtATime, ExactInv, ExactInv', faults = 0, faults' = 0, [Next]_vars
             PROVE  [Promise!Next]_(Promise!avars)
  OBVIOUS
<1>0. SerialInv /\ TypeOK /\ TypeOK' /\ \A r \in Requests : Exact(r)
  BY DEF ExactInv, SerialInv, OfferInv, IInv
<1>1. ASSUME NEW r \in Requests, EnterStep(r) \/ RequestStep(r)
      PROVE  [Promise!Next]_(Promise!avars)
  <2>1. CASE \/ EnterStep(r) \/ LoadStep(r) \/ PutCheckpoint(r) \/ AuditNode(r)
             \/ SpawnAgent(r) \/ AgentJobFails(r) \/ Interrupt(r) \/ ResumeInterrupt(r)
             \/ ReturnNode(r) \/ UpdateMemory(r)
    BY <1>0, <2>1, CalmStep, UnseenStep
  <2>2. CASE PolicyStep(r)
    BY <1>0, <2>2, PolicyIsPromised DEF Promise!Next
  <2>3. CASE ApproveProposal(r) \/ DeclineProposal(r) \/ SettleApproval(r)
    BY <1>0, <2>3, ApprovalIsPromised DEF Promise!Next
  <2>4. CASE ExecutorStep(r)
    BY <1>0, <2>4, ExecutorIsPromised DEF Promise!Next
  <2> QED
    BY <1>0, <1>1, <2>1, <2>2, <2>3, <2>4, NeverHappens DEF RequestStep, ApprovalStep
<1>2. CASE UNCHANGED vars
  BY <1>0, <1>2, UnseenStep DEF vars, RowsAlike, Alike
<1> QED  BY <1>0, <1>1, <1>2, FaultsStay

LEMMA InitIsPromised == Init => Promise!Init
<1> SUFFICES ASSUME Init PROVE Promise!Init
  OBVIOUS
<1>1. Phases(proposals) = <<>> /\ Counts(proposals) = <<>> /\ session.pending = 0
  BY DEF Init, Phases, Counts, None
<1> QED  BY <1>1 DEF Promise!Init

\* With requests that do not overlap and nothing that fails, every step of the
\* code is one the customer was promised, for all plans: actions that need
\* nobody run once by themselves, the others are offered one at a time, oldest
\* first, are answered once, and run once if approved, before the next is
\* offered (policy_check, execute_action, execute).
THEOREM StepsKeepThePromise ==
  ASSUME OneAtATime
  PROVE  Spec /\ [](faults = 0) => StepsArePromised
<1>1. ExactInv /\ ExactInv' /\ faults = 0 /\ (faults = 0)' /\ [Next]_vars
        => [Promise!Next]_(Promise!avars)
  BY StepIsPromised
<1>2. Spec => []ExactInv
  BY ExactCorrect
<1> QED  BY <1>1, <1>2, InitIsPromised, PTL DEF Spec, StepsArePromised

=============================================================================
