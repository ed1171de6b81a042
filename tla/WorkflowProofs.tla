--------------------------- MODULE WorkflowProofs ---------------------------
(***************************************************************************)
(* Theorems about Workflow, for every set of requests, every set of plans, *)
(* every execution mode and every bound, faults included.                  *)
(***************************************************************************)
EXTENDS Workflow, TLAPS

-----------------------------------------------------------------------------
(* Lemmas about the rows of the session. *)

\* Rewriting one row leaves a sequence of rows with the same domain.
LEMMA UpdateRow ==
  ASSUME NEW ps \in Seq(Proposal), NEW p \in DOMAIN ps, NEW row \in Proposal
  PROVE  /\ [ps EXCEPT ![p] = row] \in Seq(Proposal)
         /\ DOMAIN [ps EXCEPT ![p] = row] = DOMAIN ps
         /\ [ps EXCEPT ![p] = row][p] = row
         /\ \A q \in DOMAIN ps : q # p => [ps EXCEPT ![p] = row][q] = ps[q]
  OBVIOUS

\* Storing a plan appends fresh rows and touches no other.
LEMMA AppendPlan ==
  ASSUME NEW ps \in Seq(Proposal), NEW plan \in Seq(Items)
  PROVE  LET qs == ps \o NewProposals(plan)
         IN /\ qs \in Seq(Proposal)
            /\ DOMAIN qs = 1..(Len(ps) + Len(plan))
            /\ \A p \in DOMAIN ps : qs[p] = ps[p]
            /\ \A p \in DOMAIN qs \ DOMAIN ps :
                 /\ qs[p].status = "proposed"
                 /\ qs[p].asked = {} /\ qs[p].decisions = {}
                 /\ qs[p].applied = 0 /\ qs[p].executions = 0
<1> DEFINE new == NewProposals(plan)
<1>1. \A i \in 1..Len(plan) : NewProposal(plan[i]) \in Proposal
  BY DEF NewProposal, Proposal, Status
<1>2. /\ new \in Seq(Proposal) /\ Len(new) = Len(plan)
      /\ \A i \in 1..Len(plan) : new[i] = NewProposal(plan[i])
  BY <1>1 DEF NewProposals
<1> HIDE DEF new
<1>3. ps \o new \in Seq(Proposal) /\ DOMAIN (ps \o new) = 1..(Len(ps) + Len(plan))
  BY <1>2
<1>4. \A p \in DOMAIN ps : (ps \o new)[p] = ps[p]
  BY <1>2
<1>5. ASSUME NEW p \in DOMAIN (ps \o new) \ DOMAIN ps
      PROVE  /\ (ps \o new)[p].status = "proposed"
             /\ (ps \o new)[p].asked = {} /\ (ps \o new)[p].decisions = {}
             /\ (ps \o new)[p].applied = 0 /\ (ps \o new)[p].executions = 0
  <2>1. p \in (Len(ps) + 1)..(Len(ps) + Len(plan)) /\ Len(ps) \in Nat
    BY <1>3, <1>5
  <2>2. (ps \o new)[p] = new[p - Len(ps)]
    BY <2>1, <1>2
  <2>3. (ps \o new)[p] = NewProposal(plan[p - Len(ps)])
    BY <1>2, <2>1, <2>2
  <2> QED  BY <2>3 DEF NewProposal
<1> QED  BY <1>3, <1>4, <1>5 DEF new

\* One commit on a row keeps the row typed, keeps its item, and loses none of
\* the decisions recorded with it.
LEMMA RowTyped ==
  ASSUME NEW row \in Proposal, NEW act \in Decision
  PROVE  /\ Asked(row, act) \in Proposal
         /\ Decided(row, act) \in Proposal
         /\ Applied(row) \in Proposal
         /\ Recorded(row) \in Proposal
<1>1. Asked(row, act) \in Proposal
  BY DEF Asked, Proposal
<1>2. Decided(row, act) \in Proposal
  BY DEF Decided, Proposal, Decision, Status
<1>3. Applied(row) \in Proposal
  BY DEF Applied, Proposal
<1>4. Recorded(row) \in Proposal
  <2>1. OutcomeStatus(ExecutionMode) \in Status
    BY DEF OutcomeStatus, Status
  <2>2. row.executions + 1 \in Nat
    BY DEF Proposal
  <2> DEFINE judged == [row EXCEPT !.status = OutcomeStatus(ExecutionMode)]
  <2>3. judged \in Proposal /\ judged.executions = row.executions
    BY <2>1 DEF Proposal
  <2>4. Recorded(row) = [judged EXCEPT !.executions = row.executions + 1]
    BY DEF Recorded, Proposal
  <2> HIDE DEF judged
  <2> QED  BY <2>2, <2>3, <2>4 DEF Proposal
<1> QED  BY <1>1, <1>2, <1>3, <1>4

LEMMA Rewritten ==
  ASSUME NEW ps \in Seq(Proposal), NEW p, NEW act \in Decision
  PROVE  /\ [ps EXCEPT ![p] = Asked(@, act)] \in Seq(Proposal)
         /\ [ps EXCEPT ![p] = Decided(@, act)] \in Seq(Proposal)
         /\ [ps EXCEPT ![p] = Applied(@)] \in Seq(Proposal)
         /\ [ps EXCEPT ![p] = Recorded(@)] \in Seq(Proposal)
<1>1. CASE p \in DOMAIN ps
  <2>1. ps[p] \in Proposal
    BY <1>1
  <2> QED  BY <1>1, <2>1, UpdateRow, RowTyped
<1>2. CASE p \notin DOMAIN ps
  <2>1. \A row : [ps EXCEPT ![p] = row] = ps
    BY <1>2
  <2> QED  BY <2>1
<1> QED  BY <1>1, <1>2

LEMMA TurnTyped ==
  ASSUME NEW b \in Batches, NEW p \in Nat
  PROVE  NextTurn(b, p) \in Batches /\ FirstOf(b.pending, b.at) \in Nat
  BY DEF NextTurn, FirstOf, Batches

LEMMA EdgeTyped ==
  /\ \A n \in AuditNodes : Edge[n] \in Nodes
  /\ "policy_check" \in Nodes /\ "execute_action" \in Nodes
  /\ "data_refresh" \in Nodes /\ "validate_output" \in Nodes
  /\ "verify_result" \in Nodes /\ "approval_interrupt" \in Nodes
  BY DEF Edge, AuditNodes, Nodes

LEMMA RunTyped == NoRun \in Runs /\ NoAnswer \in Answers /\ NoBatch \in Batches
  BY DEF NoRun, Runs, NoAnswer, Answers, NoBatch, Batches, None

\* The end of a request keeps its locals typed.
LEMMA FinishTyped ==
  ASSUME TypeOK, NEW r \in Requests, Finish(r)
  PROVE  /\ pc' \in [Requests -> PCs]
         /\ graph' \in [Requests -> Runs]
         /\ ask' \in [Requests -> Answers]
         /\ batch' \in [Requests -> Batches]
  BY RunTyped DEF TypeOK, Finish, PCs

-----------------------------------------------------------------------------
(* Type correctness. *)

LEMMA TypeInit == Init => TypeOK
  BY RunTyped, BoundsAssumption DEF Init, TypeOK, PCs, SessionState, None

LEMMA TypeNext == TypeOK /\ [Next]_vars => TypeOK'
<1> SUFFICES ASSUME TypeOK, [Next]_vars PROVE TypeOK'
  OBVIOUS
<1> USE BoundsAssumption, PlansAssumption
<1>1. ASSUME NEW r \in Requests, TriggerEvent(r) PROVE TypeOK'
  BY <1>1 DEF TypeOK, TriggerEvent, Goto, PCs
<1>2. ASSUME NEW r \in Requests, SubmitDecision(r) PROVE TypeOK'
  <2>1. PICK act \in Decision :
          /\ ask' = [ask EXCEPT ![r] = [act |-> act, target |-> session.pending]]
          /\ proposals' = [proposals EXCEPT ![session.pending] = Asked(@, act)]
    BY <1>2 DEF SubmitDecision
  <2>2. proposals' \in Seq(Proposal)
    BY <2>1, Rewritten DEF TypeOK
  <2>3. ask' \in [Requests -> Answers]
    BY <2>1 DEF TypeOK, Answers
  <2> QED  BY <1>2, <2>2, <2>3 DEF TypeOK, SubmitDecision, Goto, PCs
<1>3. ASSUME NEW r \in Requests, LoadInput(r) PROVE TypeOK'
  BY <1>3, EdgeTyped DEF TypeOK, LoadInput, ReturnAndPut, Goto, PCs, Runs
<1>4. ASSUME NEW r \in Requests, LoadResume(r) PROVE TypeOK'
  BY <1>4 DEF TypeOK, LoadResume, Goto, PCs
<1>5. ASSUME NEW r \in Requests, LoadNothing(r) PROVE TypeOK'
  BY <1>5, FinishTyped DEF TypeOK, LoadNothing
<1>6. ASSUME NEW r \in Requests, PutCheckpoint(r) PROVE TypeOK'
  <2>1. checkpoint' \in Runs
    BY <1>6 DEF PutCheckpoint, TypeOK
  <2>2. CASE graph[r].next = "END"
    BY <1>6, <2>1, <2>2, FinishTyped DEF TypeOK, PutCheckpoint
  <2>3. CASE graph[r].next # "END"
    BY <1>6, <2>1, <2>3 DEF TypeOK, PutCheckpoint, Goto, PCs
  <2> QED  BY <2>2, <2>3
<1>7. ASSUME NEW r \in Requests, AuditNode(r) PROVE TypeOK'
  <2>1. [graph[r] EXCEPT !.next = Edge[graph[r].next]] \in Runs
    BY <1>7, EdgeTyped DEF AuditNode, TypeOK, Runs
  <2> QED  BY <1>7, <2>1 DEF TypeOK, AuditNode, ReturnAndPut, Goto, PCs
<1>8. ASSUME NEW r \in Requests, SpawnAgent(r) PROVE TypeOK'
  <2>1. PICK plan \in Plans : ReturnAndPut(r,
          [graph[r] EXCEPT !.next = "validate_output", !.plan = plan])
    BY <1>8 DEF SpawnAgent
  <2>2. [graph[r] EXCEPT !.next = "validate_output", !.plan = plan] \in Runs
    BY <2>1, EdgeTyped DEF TypeOK, Runs
  <2> QED  BY <2>1, <2>2 DEF TypeOK, ReturnAndPut, Goto, PCs
<1>9. ASSUME NEW r \in Requests, AgentJobFails(r) PROVE TypeOK'
  BY <1>9, FinishTyped DEF TypeOK, AgentJobFails
<1>10. ASSUME NEW r \in Requests, PersistPlan(r) PROVE TypeOK'
  <2>1. graph[r].plan \in Seq(Items)
    <3>1. graph[r].plan \in Plans \cup {<<>>}
      BY DEF TypeOK, Runs
    <3>2. <<>> \in Seq(Items)
      OBVIOUS
    <3> QED  BY <3>1, <3>2, PlansAssumption
  <2>2. proposals' \in Seq(Proposal)
    <3>1. proposals' = proposals \o NewProposals(graph[r].plan)
      BY <1>10 DEF PersistPlan
    <3>2. proposals \in Seq(Proposal)
      BY DEF TypeOK
    <3> QED  BY <2>1, <3>1, <3>2, AppendPlan
  <2>3. batch' \in [Requests -> Batches]
    <3>1. Len(proposals) \in Nat /\ Len(graph[r].plan) \in Nat
      BY <2>1 DEF TypeOK
    <3> DEFINE loop == [at |-> Len(proposals) + 1,
                        hi |-> Len(proposals) + Len(graph[r].plan), pending |-> None]
    <3>2. loop \in Batches
      BY <3>1 DEF Batches, None
    <3>3. batch' = [batch EXCEPT ![r] = loop]
      BY <1>10 DEF PersistPlan
    <3> HIDE DEF loop
    <3> QED  BY <3>2, <3>3 DEF TypeOK
  <2> QED  BY <1>10, <2>2, <2>3 DEF TypeOK, PersistPlan, Goto, PCs
<1>11. ASSUME NEW r \in Requests, KeepForApproval(r) PROVE TypeOK'
  BY <1>11, TurnTyped DEF TypeOK, KeepForApproval, Batches
<1>12. ASSUME NEW r \in Requests, AutoExecute(r) PROVE TypeOK'
  BY <1>12 DEF TypeOK, AutoExecute, Goto, PCs
<1>13. ASSUME NEW r \in Requests, RoutePolicy(r) PROVE TypeOK'
  <2>1. batch[r].pending \in Nat
    BY DEF TypeOK, Batches
  <2> QED  BY <1>13, <2>1 DEF TypeOK, RoutePolicy, Goto, PCs, StateFor, SessionState
<1>14. ASSUME NEW r \in Requests, Interrupt(r) PROVE TypeOK'
  BY <1>14, FinishTyped DEF TypeOK, Interrupt
<1>15. ASSUME NEW r \in Requests, ResumeInterrupt(r) PROVE TypeOK'
  <2>1. [graph[r] EXCEPT !.answer = ask[r], !.next = "execute_action"] \in Runs
    BY EdgeTyped DEF TypeOK, Runs
  <2> QED  BY <1>15, <2>1 DEF TypeOK, ResumeInterrupt, ReturnAndPut, Goto, PCs
<1>16. ASSUME NEW r \in Requests, DecisionMismatch(r) PROVE TypeOK'
  BY <1>16, FinishTyped DEF TypeOK, DecisionMismatch
<1>17. ASSUME NEW r \in Requests, ApproveProposal(r) PROVE TypeOK'
  <2>1. proposals' \in Seq(Proposal)
    BY <1>17, Rewritten DEF ApproveProposal, TypeOK, Decision
  <2> QED  BY <1>17, <2>1 DEF TypeOK, ApproveProposal, Goto, PCs
<1>18. ASSUME NEW r \in Requests, DeclineProposal(r) PROVE TypeOK'
  <2>1. proposals' \in Seq(Proposal)
    BY <1>18, Rewritten DEF DeclineProposal, AnswerIs, TypeOK, Decision
  <2>2. PICK nxt \in {None} \cup DOMAIN proposals :
          session' =
            [state   |-> IF nxt = None THEN "Monitoring" ELSE session.state,
             pending |-> IF nxt = ask[r].target THEN session.pending ELSE nxt]
    BY <1>18 DEF DeclineProposal
  <2>3. nxt \in Nat
    BY DEF None, TypeOK
  <2> QED  BY <1>18, <2>1, <2>2, <2>3 DEF TypeOK, DeclineProposal, Goto, PCs, SessionState
<1>19. ASSUME NEW r \in Requests, SettleApproval(r) PROVE TypeOK'
  <2>1. PICK nxt \in {None} \cup DOMAIN proposals :
          session' = [state |-> StateFor(nxt), pending |-> nxt]
    BY <1>19 DEF SettleApproval
  <2>2. nxt \in Nat
    BY DEF None, TypeOK
  <2> QED  BY <1>19, <2>1, <2>2 DEF TypeOK, SettleApproval, Goto, PCs, SessionState, StateFor
<1>20. ASSUME NEW r \in Requests, ReturnExisting(r) PROVE TypeOK'
  <2>1. batch[r] \in Batches /\ batch[r].pending \in Nat
    BY DEF TypeOK, Batches
  <2> QED  BY <1>20, <2>1, TurnTyped DEF TypeOK, ReturnExisting, BackToCaller, Goto, PCs
<1>21. ASSUME NEW r \in Requests, PassGuard(r) PROVE TypeOK'
  BY <1>21 DEF TypeOK, PassGuard, Goto, PCs
<1>22. ASSUME NEW r \in Requests, RefuseExecution(r) PROVE TypeOK'
  BY <1>22, FinishTyped DEF TypeOK, RefuseExecution
<1>23. ASSUME NEW r \in Requests, ApplyHandler(r) PROVE TypeOK'
  <2>1. proposals' \in Seq(Proposal)
    BY <1>23, Rewritten DEF ApplyHandler, TypeOK, Decision
  <2> QED  BY <1>23, <2>1 DEF TypeOK, ApplyHandler, Goto, PCs
<1>24. ASSUME NEW r \in Requests, RecordExecution(r) PROVE TypeOK'
  <2>1. proposals' \in Seq(Proposal)
    BY <1>24, Rewritten DEF RecordExecution, TypeOK, Decision
  <2>2. batch' \in [Requests -> Batches] /\ pc' \in [Requests -> PCs]
    <3>1. batch[r] \in Batches /\ batch[r].pending \in Nat
      BY DEF TypeOK, Batches
    <3> QED  BY <1>24, <3>1, TurnTyped
             DEF RecordExecution, BackToCaller, Goto, TypeOK, PCs
  <2> QED  BY <1>24, <2>1, <2>2 DEF TypeOK, RecordExecution
<1>25. ASSUME NEW r \in Requests, UpdateMemory(r) PROVE TypeOK'
  BY <1>25 DEF TypeOK, UpdateMemory, Return, Goto, PCs, SessionState, Runs
<1>26. ASSUME NEW r \in Requests, NodeFails(r) PROVE TypeOK'
  BY <1>26, FinishTyped DEF TypeOK, NodeFails
<1>27. ASSUME NEW r \in Requests, Disconnect(r) PROVE TypeOK'
  BY <1>27, FinishTyped DEF TypeOK, Disconnect
<1>28. CASE Restart
  BY <1>28, RunTyped DEF TypeOK, Restart, PCs
<1>30. ASSUME NEW r \in Requests, ReturnNode(r) PROVE TypeOK'
  <2>1. PICK pending \in Nat, answer \in Answers :
          Return(r, [graph[r] EXCEPT !.pending = pending, !.answer = answer,
                                     !.next = Route(pending)])
    <3>1. /\ batch[r].pending \in Nat /\ session.pending \in Nat
          /\ graph[r].answer \in Answers /\ NoAnswer \in Answers
      BY RunTyped DEF TypeOK, Batches, Runs
    <3>2. CASE InPolicyCheck(r)
      <4>1. Return(r, [graph[r] EXCEPT !.pending = batch[r].pending,
                                       !.answer = graph[r].answer,
                                       !.next = Route(batch[r].pending)])
        BY <1>30, <3>2 DEF ReturnNode
      <4> QED  BY <3>1, <4>1
    <3>3. CASE ~InPolicyCheck(r)
      <4>1. Return(r, [graph[r] EXCEPT !.pending = session.pending, !.answer = NoAnswer,
                                       !.next = Route(session.pending)])
        BY <1>30, <3>3 DEF ReturnNode
      <4> QED  BY <3>1, <4>1
    <3> QED  BY <3>2, <3>3
  <2>2. [graph[r] EXCEPT !.pending = pending, !.answer = answer,
                         !.next = Route(pending)] \in Runs
    BY EdgeTyped DEF TypeOK, Runs, Route
  <2> QED  BY <1>30, <2>1, <2>2, RunTyped DEF TypeOK, ReturnNode, Return, Goto, PCs
<1>29. CASE NoMoreRequests \/ UNCHANGED vars
  BY <1>29 DEF TypeOK, NoMoreRequests, vars
<1> QED
  BY <1>1, <1>2, <1>3, <1>4, <1>5, <1>6, <1>7, <1>8, <1>9, <1>10, <1>11, <1>12,
     <1>13, <1>14, <1>15, <1>16, <1>17, <1>18, <1>19, <1>20, <1>21, <1>22, <1>23,
     <1>24, <1>25, <1>26, <1>27, <1>28, <1>29, <1>30
  DEF Next, EnterStep, LoadStep, PolicyStep, ApprovalStep, ExecutorStep,
      RequestStep, FaultStep

\* Every variable keeps its type (all actions of Workflow, faults included).
THEOREM TypeCorrect == Spec => []TypeOK
  BY TypeInit, TypeNext, PTL DEF Spec

-----------------------------------------------------------------------------
(* Nothing runs without the approval it needs. *)

\* What ExecutedAsAsked and DecisionsWereAsked say of one row.
Justified(row) ==
  /\ row.decisions \subseteq row.asked
  /\ NeedsApproval(row.item) /\ (row.applied > 0 \/ row.executions > 0)
       => "approve" \in row.asked \cap row.decisions

AllJustified == \A p \in DOMAIN proposals : Justified(proposals[p])

IInv == TypeOK /\ Authority /\ AllJustified

\* No commit drops a row, changes what it proposes or forgets a decision.
Grows(ps, qs) ==
  /\ DOMAIN ps \subseteq DOMAIN qs
  /\ \A p \in DOMAIN ps : /\ qs[p].item = ps[p].item
                          /\ ps[p].asked \subseteq qs[p].asked
                          /\ ps[p].decisions \subseteq qs[p].decisions

LEMMA RowFields ==
  ASSUME NEW row \in Proposal, NEW act \in Decision
  PROVE  /\ LET new == Asked(row, act)
            IN /\ new.item = row.item /\ new.asked = row.asked \cup {act}
               /\ new.decisions = row.decisions
               /\ new.applied = row.applied /\ new.executions = row.executions
         /\ LET new == Decided(row, act)
            IN /\ new.item = row.item /\ new.asked = row.asked
               /\ new.decisions = row.decisions \cup {act}
               /\ new.applied = row.applied /\ new.executions = row.executions
         /\ \A new \in {Applied(row), Recorded(row)} :
               /\ new.item = row.item /\ new.asked = row.asked
               /\ new.decisions = row.decisions
<1>1. LET new == Asked(row, act)
      IN /\ new.item = row.item /\ new.asked = row.asked \cup {act}
         /\ new.decisions = row.decisions
         /\ new.applied = row.applied /\ new.executions = row.executions
  BY DEF Asked, Proposal
<1>2. LET new == Decided(row, act)
      IN /\ new.item = row.item /\ new.asked = row.asked
         /\ new.decisions = row.decisions \cup {act}
         /\ new.applied = row.applied /\ new.executions = row.executions
  BY DEF Decided, Proposal
<1>3. LET new == Applied(row)
      IN new.item = row.item /\ new.asked = row.asked /\ new.decisions = row.decisions
  BY DEF Applied, Proposal
<1>4. LET new == Recorded(row)
      IN new.item = row.item /\ new.asked = row.asked /\ new.decisions = row.decisions
  BY DEF Recorded, Proposal
<1> QED  BY <1>1, <1>2, <1>3, <1>4

\* A commit on a row proposes the same thing and forgets no decision.
RowGrows(new, row) ==
  /\ new \in Proposal
  /\ new.item = row.item
  /\ row.asked \subseteq new.asked
  /\ row.decisions \subseteq new.decisions

LEMMA CommitGrows ==
  ASSUME NEW row \in Proposal, NEW act \in Decision
  PROVE  /\ RowGrows(Asked(row, act), row) /\ RowGrows(Decided(row, act), row)
         /\ RowGrows(Applied(row), row) /\ RowGrows(Recorded(row), row)
<1>1. RowGrows(Asked(row, act), row) /\ RowGrows(Decided(row, act), row)
  BY RowTyped, RowFields DEF RowGrows
<1>2. ASSUME NEW new \in {Applied(row), Recorded(row)} PROVE RowGrows(new, row)
  <2>1. new \in Proposal
    BY <1>2, RowTyped
  <2> QED  BY <2>1, RowFields DEF RowGrows
<1> QED  BY <1>1, <1>2

\* Rewriting one row that way.
LEMMA RewriteGrows ==
  ASSUME NEW ps \in Seq(Proposal), NEW p \in DOMAIN ps, NEW new, RowGrows(new, ps[p])
  PROVE  LET qs == [ps EXCEPT ![p] = new]
         IN /\ Grows(ps, qs) /\ DOMAIN qs = DOMAIN ps /\ Len(qs) = Len(ps)
            /\ qs[p] = new
            /\ \A q \in DOMAIN ps : q # p => qs[q] = ps[q]
<1> DEFINE qs == [ps EXCEPT ![p] = new]
<1>1. /\ DOMAIN qs = DOMAIN ps /\ qs[p] = new /\ Len(qs) = Len(ps)
      /\ \A q \in DOMAIN ps : q # p => qs[q] = ps[q]
  BY UpdateRow DEF RowGrows
<1> HIDE DEF qs
<1>2. Grows(ps, qs)
  BY <1>1 DEF Grows, RowGrows
<1> QED  BY <1>1, <1>2 DEF qs

\* Each of the four commits keeps a justified row justified: a decision must
\* have been asked for, an execution approved or in no need of it.
LEMMA RowJustified ==
  ASSUME NEW row \in Proposal, Justified(row), NEW act \in Decision
  PROVE  /\ Justified(Asked(row, act))
         /\ act \in row.asked => Justified(Decided(row, act))
         /\ (NeedsApproval(row.item) => "approve" \in row.asked \cap row.decisions)
              => Justified(Applied(row)) /\ Justified(Recorded(row))
<1>1. Justified(Asked(row, act))
  BY RowFields DEF Justified
<1>2. act \in row.asked => Justified(Decided(row, act))
  BY RowFields DEF Justified
<1>3. ASSUME NeedsApproval(row.item) => "approve" \in row.asked \cap row.decisions,
             NEW new \in {Applied(row), Recorded(row)}
      PROVE  Justified(new)
  <2>1. /\ new.item = row.item /\ new.asked = row.asked
        /\ new.decisions = row.decisions
    BY <1>3, RowFields
  <2> QED  BY <1>3, <2>1 DEF Justified
<1> QED  BY <1>1, <1>2, <1>3

\* What other requests, and the checkpoint, rely on survives a growing step.
LEMMA AnsweredKept ==
  ASSUME Grows(proposals, proposals'), NEW a, Answered(a)
  PROVE  Answered(a)'
  BY DEF Grows, Answered

LEMMA LocalsKept ==
  ASSUME TypeOK, Grows(proposals, proposals'), Len(proposals) <= Len(proposals'),
         Len(proposals) \in Nat, Len(proposals') \in Nat,
         NEW q \in Requests,
         pc'[q] = pc[q], graph'[q] = graph[q], batch'[q] = batch[q],
         Authorised(q), LoopInBounds(q)
  PROVE  Authorised(q)' /\ LoopInBounds(q)'
<1>1. Authorised(q)'
  BY DEF Authorised, Target, InPolicyCheck, Grows
<1>2. LoopInBounds(q)'
  BY DEF LoopInBounds, InPolicyCheck, TypeOK, Batches
<1> QED  BY <1>1, <1>2

\* A step of request r leaves the locals of the others alone.
OthersUntouched(r) ==
  \A q \in Requests \ {r} :
    pc'[q] = pc[q] /\ graph'[q] = graph[q] /\ batch'[q] = batch[q] /\ ask'[q] = ask[q]

\* What a step of r has to establish.
LEMMA OneRequest ==
  ASSUME IInv, TypeOK', NEW r \in Requests, OthersUntouched(r),
         Grows(proposals, proposals'), Len(proposals) <= Len(proposals'),
         AllJustified', RequestSafe(r)', Answered(checkpoint.answer)'
  PROVE  IInv'
<1>1. Len(proposals) \in Nat /\ Len(proposals') \in Nat
  BY DEF IInv, TypeOK
<1>2. ASSUME NEW q \in Requests \ {r} PROVE RequestSafe(q)'
  <2>1. RequestSafe(q) /\ TypeOK
    BY DEF IInv, Authority
  <2>2. Authorised(q)' /\ LoopInBounds(q)'
    BY <1>1, <2>1, LocalsKept DEF OthersUntouched, RequestSafe
  <2>3. Answered(ask[q])' /\ Answered(graph[q].answer)'
    <3>1. ask'[q] = ask[q] /\ graph'[q] = graph[q]
      BY DEF OthersUntouched
    <3> QED  BY <2>1, <3>1 DEF RequestSafe, Answered, Grows
  <2> QED  BY <2>2, <2>3 DEF RequestSafe
<1> QED  BY <1>2 DEF IInv, Authority

LEMMA NoRowChanged ==
  ASSUME IInv, proposals' = proposals
  PROVE  /\ Grows(proposals, proposals') /\ Len(proposals) <= Len(proposals')
         /\ AllJustified'
  BY DEF IInv, TypeOK, AllJustified, Grows

\* A finished request holds nothing.
LEMMA FinishSafe ==
  ASSUME IInv, TypeOK', NEW r \in Requests, Finish(r),
         proposals' = proposals, checkpoint' = checkpoint
  PROVE  IInv'
<1>1. OthersUntouched(r)
  BY DEF IInv, TypeOK, Finish, OthersUntouched
<1>2. /\ pc'[r] = "idle" /\ ask'[r] = NoAnswer /\ graph'[r] = NoRun /\ batch'[r] = NoBatch
  BY DEF IInv, TypeOK, Finish
<1>3. RequestSafe(r)'
  BY <1>2 DEF RequestSafe, Answered, Authorised, LoopInBounds, NoAnswer, NoRun, NoBatch,
              IInv, TypeOK
<1>4. Answered(checkpoint.answer)'
  BY DEF IInv, Authority, Answered
<1> QED  BY <1>1, <1>3, <1>4, OneRequest, NoRowChanged

\* A node that returns, with or without its checkpoint, carries an answer that
\* was asked for.
LEMMA GotoSafe ==
  ASSUME IInv, TypeOK', NEW r \in Requests, NEW run,
         Answered(run.answer), proposals' = proposals,
         checkpoint' \in {checkpoint, run},
         graph' = [graph EXCEPT ![r] = run],
         pc' \in {[pc EXCEPT ![r] = "put"], [pc EXCEPT ![r] = "node"],
                 [pc EXCEPT ![r] = "resume"]},
         ask' = ask, batch' = batch \/ batch' = [batch EXCEPT ![r] = NoBatch]
  PROVE  IInv'
<1>1. OthersUntouched(r)
  BY DEF IInv, TypeOK, OthersUntouched
<1>2. /\ graph'[r] = run /\ ask'[r] = ask[r] /\ pc'[r] \in {"put", "node", "resume"}
      /\ batch'[r] = batch[r] \/ batch'[r] = NoBatch
  BY DEF IInv, TypeOK
<1>3. RequestSafe(r)
  BY DEF IInv, Authority
<1>4. Answered(ask[r])' /\ Answered(graph[r].answer)' /\ Authorised(r)'
  BY <1>2, <1>3 DEF RequestSafe, Answered, Authorised
<1>5. LoopInBounds(r)'
  BY <1>2, <1>3 DEF RequestSafe, LoopInBounds, NoBatch, IInv, TypeOK
<1>6. Answered(checkpoint.answer)'
  BY DEF IInv, Authority, Answered
<1> QED  BY <1>1, <1>4, <1>5, <1>6, OneRequest, NoRowChanged DEF RequestSafe

\* A commit of the session row alone, at the end of a node.
LEMMA StaySafe ==
  ASSUME IInv, TypeOK', NEW r \in Requests,
         pc' = [pc EXCEPT ![r] = "return"], proposals' = proposals,
         checkpoint' = checkpoint, graph' = graph, ask' = ask, batch' = batch
  PROVE  IInv'
<1>1. OthersUntouched(r)
  BY DEF IInv, TypeOK, OthersUntouched
<1>2. pc'[r] = "return" /\ RequestSafe(r)
  BY DEF IInv, TypeOK, Authority
<1>3. RequestSafe(r)' /\ Answered(checkpoint.answer)'
  BY <1>2 DEF IInv, Authority, RequestSafe, Answered, Authorised, LoopInBounds
<1> QED  BY <1>1, <1>3, OneRequest, NoRowChanged

LEMMA InvInit == Init => IInv
  BY TypeInit DEF Init, IInv, Authority, RequestSafe, Answered, Authorised, LoopInBounds,
                  AllJustified, NoRun, NoAnswer, NoBatch

LEMMA InvNext == IInv /\ [Next]_vars => IInv'
<1> SUFFICES ASSUME IInv, [Next]_vars PROVE IInv'
  OBVIOUS
<1>0. TypeOK /\ TypeOK' /\ Authority /\ AllJustified
  BY TypeNext DEF IInv
<1>1. ASSUME NEW r \in Requests, TriggerEvent(r) PROVE IInv'
  <2>1. OthersUntouched(r)
    BY <1>0, <1>1 DEF TriggerEvent, Goto, OthersUntouched, TypeOK
  <2>2. pc'[r] = "load" /\ RequestSafe(r)
    BY <1>0, <1>1 DEF TriggerEvent, Goto, TypeOK, Authority
  <2>3. RequestSafe(r)' /\ Answered(checkpoint.answer)'
    BY <1>0, <1>1, <2>2 DEF TriggerEvent, RequestSafe, Answered, Authorised, LoopInBounds,
                            Authority
  <2> QED  BY <1>0, <1>1, <2>1, <2>3, OneRequest, NoRowChanged DEF TriggerEvent
<1>2. ASSUME NEW r \in Requests, SubmitDecision(r) PROVE IInv'
  <2> DEFINE p == session.pending
  <2>1. PICK act \in Decision :
          /\ ask' = [ask EXCEPT ![r] = [act |-> act, target |-> p]]
          /\ proposals' = [proposals EXCEPT ![p] = Asked(@, act)]
    BY <1>2 DEF SubmitDecision
  <2>2. p \in DOMAIN proposals /\ proposals \in Seq(Proposal) /\ proposals[p] \in Proposal
    BY <1>0, <1>2 DEF SubmitDecision, TypeOK
  <2> HIDE DEF p
  <2>3. /\ Grows(proposals, proposals') /\ DOMAIN proposals' = DOMAIN proposals
        /\ Len(proposals') = Len(proposals) /\ proposals'[p] = Asked(proposals[p], act)
        /\ \A q \in DOMAIN proposals : q # p => proposals'[q] = proposals[q]
    <3>1. RowGrows(Asked(proposals[p], act), proposals[p])
      BY <2>1, <2>2, CommitGrows
    <3>2. /\ p \in DOMAIN proposals /\ proposals \in Seq(Proposal)
          /\ proposals' = [proposals EXCEPT ![p] = Asked(proposals[p], act)]
      BY <2>1, <2>2
    <3> QED  BY <3>1, <3>2, RewriteGrows
  <2>4. AllJustified'
    BY <1>0, <2>2, <2>3, RowJustified DEF AllJustified
  <2>5. OthersUntouched(r)
    BY <1>0, <1>2, <2>1 DEF SubmitDecision, Goto, OthersUntouched, TypeOK
  <2>6. /\ pc'[r] = "load" /\ graph'[r] = graph[r] /\ batch'[r] = batch[r]
        /\ ask'[r] = [act |-> act, target |-> p] /\ RequestSafe(r)
    BY <1>0, <1>2, <2>1 DEF SubmitDecision, Goto, TypeOK, Authority
  <2>7. act \in proposals'[p].asked
    BY <2>2, <2>3, RowFields
  <2>8. Answered(ask[r])'
    BY <2>2, <2>3, <2>6, <2>7 DEF Answered
  <2>9. Answered(graph[r].answer)' /\ Answered(checkpoint.answer)'
    BY <1>0, <1>2, <2>3, <2>6 DEF SubmitDecision, Answered, RequestSafe, Authority, Grows
  <2>10. Authorised(r)' /\ LoopInBounds(r)'
    BY <2>3, <2>6 DEF Authorised, LoopInBounds, RequestSafe
  <2>11. Len(proposals) <= Len(proposals')
    BY <1>0, <2>3 DEF TypeOK
  <2> QED  BY <1>0, <2>3, <2>4, <2>5, <2>8, <2>9, <2>10, <2>11, OneRequest DEF RequestSafe
<1>3. ASSUME NEW r \in Requests, LoadInput(r) PROVE IInv'
  <2>1. Answered([checkpoint EXCEPT !.next = "data_refresh"].answer)
    BY <1>0 DEF Authority, TypeOK, Runs
  <2> QED  BY <1>0, <1>3, <2>1, GotoSafe DEF LoadInput, ReturnAndPut, Goto
<1>4. ASSUME NEW r \in Requests, LoadResume(r) PROVE IInv'
  BY <1>0, <1>4, GotoSafe DEF LoadResume, Goto, Authority
<1>5. ASSUME NEW r \in Requests, LoadNothing(r) PROVE IInv'
  BY <1>0, <1>5, FinishSafe DEF LoadNothing
<1>6. ASSUME NEW r \in Requests, PutCheckpoint(r) PROVE IInv'
  <2>1. Answered(checkpoint.answer)' /\ RequestSafe(r) /\ proposals' = proposals
    BY <1>0, <1>6 DEF PutCheckpoint, Authority, RequestSafe, Answered
  <2>2. CASE graph[r].next = "END"
    <3>1. Finish(r)
      BY <1>6, <2>2 DEF PutCheckpoint
    <3>2. OthersUntouched(r)
      BY <1>0, <3>1 DEF TypeOK, Finish, OthersUntouched
    <3>3. /\ pc'[r] = "idle" /\ ask'[r] = NoAnswer /\ graph'[r] = NoRun
          /\ batch'[r] = NoBatch
      BY <1>0, <3>1 DEF TypeOK, Finish
    <3>4. RequestSafe(r)'
      BY <1>0, <3>3 DEF RequestSafe, Answered, Authorised, LoopInBounds, NoAnswer, NoRun,
                        NoBatch, TypeOK
    <3> QED  BY <1>0, <2>1, <3>2, <3>4, OneRequest, NoRowChanged
  <2>3. CASE graph[r].next # "END"
    <3>1. graph' = [graph EXCEPT ![r] = graph[r]]
      BY <1>0, <1>6, <2>3 DEF PutCheckpoint, TypeOK
    <3> QED  BY <1>0, <1>6, <2>1, <2>3, <3>1, GotoSafe DEF PutCheckpoint, Goto, RequestSafe
  <2> QED  BY <2>2, <2>3
<1>7. ASSUME NEW r \in Requests, AuditNode(r) PROVE IInv'
  <2>1. Answered([graph[r] EXCEPT !.next = Edge[graph[r].next]].answer)
    BY <1>0 DEF Authority, RequestSafe, TypeOK, Runs
  <2> QED  BY <1>0, <1>7, <2>1, GotoSafe DEF AuditNode, ReturnAndPut, Goto
<1>8. ASSUME NEW r \in Requests, SpawnAgent(r) PROVE IInv'
  <2>1. PICK plan \in Plans : ReturnAndPut(r,
          [graph[r] EXCEPT !.next = "validate_output", !.plan = plan])
    BY <1>8 DEF SpawnAgent
  <2>2. Answered([graph[r] EXCEPT !.next = "validate_output", !.plan = plan].answer)
    BY <1>0 DEF Authority, RequestSafe, TypeOK, Runs
  <2> QED  BY <1>0, <2>1, <2>2, GotoSafe DEF ReturnAndPut, Goto
<1>9. ASSUME NEW r \in Requests, AgentJobFails(r) PROVE IInv'
  BY <1>0, <1>9, FinishSafe DEF AgentJobFails
<1>10. ASSUME NEW r \in Requests, PersistPlan(r) PROVE IInv'
  <2> DEFINE plan == graph[r].plan
  <2>1. plan \in Seq(Items) /\ InPolicyCheck(r)
    <3>1. graph[r].plan \in Plans \cup {<<>>}
      BY <1>0 DEF TypeOK, Runs
    <3>2. <<>> \in Seq(Items)
      OBVIOUS
    <3> QED  BY <1>10, <3>1, <3>2, PlansAssumption DEF PersistPlan, InNode, InPolicyCheck
  <2>2. /\ proposals' = proposals \o NewProposals(plan)
        /\ batch' = [batch EXCEPT ![r] = [at |-> Len(proposals) + 1,
                                        hi |-> Len(proposals) + Len(plan),
                                        pending |-> None]]
        /\ proposals \in Seq(Proposal)
    BY <1>0, <1>10 DEF PersistPlan, TypeOK
  <2> HIDE DEF plan
  <2>3. /\ proposals' \in Seq(Proposal)
        /\ DOMAIN proposals' = 1..(Len(proposals) + Len(plan))
        /\ \A p \in DOMAIN proposals : proposals'[p] = proposals[p]
        /\ \A p \in DOMAIN proposals' \ DOMAIN proposals :
             /\ proposals'[p].status = "proposed"
             /\ proposals'[p].asked = {} /\ proposals'[p].decisions = {}
             /\ proposals'[p].applied = 0 /\ proposals'[p].executions = 0
    BY <2>1, <2>2, AppendPlan
  <2>4. /\ Len(proposals') = Len(proposals) + Len(plan) /\ Len(plan) \in Nat
        /\ Len(proposals) \in Nat /\ DOMAIN proposals = 1..Len(proposals)
    BY <2>1, <2>2, <2>3
  <2>5. Grows(proposals, proposals') /\ Len(proposals) <= Len(proposals')
    BY <2>3, <2>4 DEF Grows
  <2>6. AllJustified'
    <3>1. ASSUME NEW p \in DOMAIN proposals' PROVE Justified(proposals'[p])
      <4>1. CASE p \in DOMAIN proposals
        BY <1>0, <2>3, <4>1 DEF AllJustified
      <4>2. CASE p \notin DOMAIN proposals
        BY <2>3, <3>1, <4>2 DEF Justified
      <4> QED  BY <4>1, <4>2
    <3> QED  BY <3>1 DEF AllJustified
  <2>7. OthersUntouched(r)
    BY <1>0, <1>10, <2>2 DEF PersistPlan, Goto, OthersUntouched, TypeOK
  <2>8. /\ pc'[r] = "loop" /\ graph'[r] = graph[r] /\ ask'[r] = ask[r]
        /\ batch'[r].at = Len(proposals) + 1 /\ batch'[r].hi = Len(proposals) + Len(plan)
        /\ RequestSafe(r)
    BY <1>0, <1>10, <2>2 DEF PersistPlan, Goto, TypeOK, Authority
  <2>9. Answered(ask[r])' /\ Answered(graph[r].answer)' /\ Answered(checkpoint.answer)'
    BY <1>0, <1>10, <2>5, <2>8 DEF PersistPlan, Answered, RequestSafe, Authority, Grows
  <2>10. Authorised(r)' /\ LoopInBounds(r)'
    BY <2>1, <2>4, <2>8 DEF Authorised, LoopInBounds, InPolicyCheck
  <2> QED  BY <1>0, <2>5, <2>6, <2>7, <2>9, <2>10, OneRequest DEF RequestSafe
<1>11. ASSUME NEW r \in Requests, KeepForApproval(r) PROVE IInv'
  <2>1. OthersUntouched(r)
    BY <1>0, <1>11 DEF KeepForApproval, OthersUntouched, TypeOK
  <2>2. /\ pc'[r] = "loop" /\ graph' = graph /\ ask' = ask /\ RequestSafe(r)
        /\ batch'[r].at = batch[r].at + 1 /\ batch'[r].hi = batch[r].hi
        /\ batch[r].at \in Nat
    BY <1>0, <1>11 DEF KeepForApproval, At, TypeOK, Authority, NextTurn, Batches
  <2>3. RequestSafe(r)' /\ Answered(checkpoint.answer)'
    BY <1>0, <1>11, <2>2 DEF KeepForApproval, At, RequestSafe, Answered, Authorised,
                             LoopInBounds, Authority, InPolicyCheck
  <2> QED  BY <1>0, <1>11, <2>1, <2>3, OneRequest, NoRowChanged DEF KeepForApproval
<1>12. ASSUME NEW r \in Requests, AutoExecute(r) PROVE IInv'
  <2>1. OthersUntouched(r)
    BY <1>0, <1>12 DEF AutoExecute, Goto, OthersUntouched, TypeOK
  <2>2. /\ pc'[r] = "scoped" /\ graph' = graph /\ ask' = ask /\ batch' = batch
        /\ RequestSafe(r) /\ batch[r].at \in Nat /\ batch[r].hi \in Nat
        /\ proposals' = proposals /\ checkpoint' = checkpoint
    BY <1>0, <1>12 DEF AutoExecute, Goto, TypeOK, Authority, Batches
  <2>3. InPolicyCheck(r) /\ batch[r].at \in DOMAIN proposals
    BY <1>0, <1>12, <2>2 DEF AutoExecute, At, RequestSafe, LoopInBounds, TypeOK
  <2>4. Authorised(r)'
    BY <1>12, <2>2, <2>3 DEF AutoExecute, Authorised, Target, InPolicyCheck
  <2>5. Answered(ask[r])' /\ Answered(graph[r].answer)' /\ Answered(checkpoint.answer)'
    BY <1>0, <2>2 DEF RequestSafe, Answered, Authority
  <2>6. LoopInBounds(r)'
    BY <2>2 DEF RequestSafe, LoopInBounds
  <2> QED  BY <1>0, <2>1, <2>2, <2>4, <2>5, <2>6, OneRequest, NoRowChanged DEF RequestSafe
<1>13. ASSUME NEW r \in Requests, RoutePolicy(r) PROVE IInv'
  BY <1>0, <1>13, StaySafe DEF RoutePolicy, Goto
<1>14. ASSUME NEW r \in Requests, Interrupt(r) PROVE IInv'
  BY <1>0, <1>14, FinishSafe DEF Interrupt
<1>15. ASSUME NEW r \in Requests, ResumeInterrupt(r) PROVE IInv'
  <2> DEFINE run == [graph[r] EXCEPT !.answer = ask[r], !.next = "execute_action"]
  <2>1. run.answer = ask[r]
    BY <1>0 DEF TypeOK, Runs
  <2>2. Answered(run.answer)
    BY <1>0, <2>1 DEF Authority, RequestSafe
  <2> HIDE DEF run
  <2>3. /\ graph' = [graph EXCEPT ![r] = run] /\ pc' = [pc EXCEPT ![r] = "node"]
        /\ proposals' = proposals /\ checkpoint' = run /\ ask' = ask /\ batch' = batch
    BY <1>15 DEF ResumeInterrupt, ReturnAndPut, Goto, run
  <2> QED  BY <1>0, <2>2, <2>3, GotoSafe
<1>16. ASSUME NEW r \in Requests, DecisionMismatch(r) PROVE IInv'
  BY <1>0, <1>16, FinishSafe DEF DecisionMismatch
<1>17. ASSUME NEW r \in Requests, ApproveProposal(r) PROVE IInv'
  <2> DEFINE p == graph[r].pending
  <2>1. /\ p \in DOMAIN proposals /\ "approve" \in proposals[p].asked
        /\ ~InPolicyCheck(r) /\ RequestSafe(r)
    BY <1>0, <1>17 DEF ApproveProposal, AnswerIs, InNode, InPolicyCheck, Authority,
                       RequestSafe, Answered
  <2>2. /\ proposals' = [proposals EXCEPT ![p] = Decided(@, "approve")]
        /\ proposals \in Seq(Proposal) /\ "approve" \in Decision
        /\ proposals[p] \in Proposal
    BY <1>0, <1>17, <2>1 DEF ApproveProposal, TypeOK, Decision
  <2> HIDE DEF p
  <2>3. /\ Grows(proposals, proposals') /\ DOMAIN proposals' = DOMAIN proposals
        /\ Len(proposals') = Len(proposals)
        /\ proposals'[p] = Decided(proposals[p], "approve")
        /\ \A q \in DOMAIN proposals : q # p => proposals'[q] = proposals[q]
    <3>1. RowGrows(Decided(proposals[p], "approve"), proposals[p])
      BY <2>1, <2>2, CommitGrows
    <3>2. /\ p \in DOMAIN proposals /\ proposals \in Seq(Proposal)
          /\ proposals' = [proposals EXCEPT ![p] = Decided(proposals[p], "approve")]
      BY <2>1, <2>2
    <3> QED  BY <3>1, <3>2, RewriteGrows
  <2>4. AllJustified'
    BY <1>0, <2>1, <2>2, <2>3, RowJustified DEF AllJustified
  <2>5. OthersUntouched(r)
    BY <1>0, <1>17 DEF ApproveProposal, Goto, OthersUntouched, TypeOK
  <2>6. /\ pc'[r] = "scoped" /\ graph' = graph /\ ask' = ask /\ batch' = batch
        /\ checkpoint' = checkpoint
    BY <1>0, <1>17 DEF ApproveProposal, Goto, TypeOK
  <2>7. /\ Answered(ask[r])' /\ Answered(graph[r].answer)'
        /\ Answered(checkpoint.answer)'
    BY <1>0, <2>1, <2>3, <2>6 DEF Answered, RequestSafe, Authority, Grows
  <2>8. "approve" \in proposals'[p].asked \cap proposals'[p].decisions
    BY <2>1, <2>2, <2>3, RowFields
  <2>9. Authorised(r)'
    BY <2>1, <2>3, <2>6, <2>8 DEF Authorised, Target, InPolicyCheck, p
  <2>10. LoopInBounds(r)'
    BY <2>1, <2>3, <2>6 DEF RequestSafe, LoopInBounds
  <2>11. Len(proposals) <= Len(proposals')
    BY <2>2, <2>3
  <2> QED  BY <1>0, <2>3, <2>4, <2>5, <2>7, <2>9, <2>10, <2>11, OneRequest DEF RequestSafe
<1>18. ASSUME NEW r \in Requests, DeclineProposal(r) PROVE IInv'
  <2> DEFINE p == graph[r].pending
             act == graph[r].answer.act
  <2>1. /\ p \in DOMAIN proposals /\ act \in proposals[p].asked /\ act \in Decision
        /\ RequestSafe(r)
    BY <1>0, <1>18 DEF DeclineProposal, AnswerIs, InNode, Authority, RequestSafe, Answered,
                       Decision
  <2>2. /\ proposals' = [proposals EXCEPT ![p] = Decided(@, act)]
        /\ proposals \in Seq(Proposal) /\ proposals[p] \in Proposal
    BY <1>0, <1>18, <2>1 DEF DeclineProposal, TypeOK
  <2> HIDE DEF p, act
  <2>4. /\ Grows(proposals, proposals') /\ DOMAIN proposals' = DOMAIN proposals
        /\ Len(proposals') = Len(proposals)
        /\ proposals'[p] = Decided(proposals[p], act)
        /\ \A q \in DOMAIN proposals : q # p => proposals'[q] = proposals[q]
    <3>1. RowGrows(Decided(proposals[p], act), proposals[p])
      BY <2>1, <2>2, CommitGrows
    <3>2. /\ p \in DOMAIN proposals /\ proposals \in Seq(Proposal)
          /\ proposals' = [proposals EXCEPT ![p] = Decided(proposals[p], act)]
      BY <2>1, <2>2
    <3> QED  BY <3>1, <3>2, RewriteGrows
  <2>5. AllJustified'
    BY <1>0, <2>1, <2>2, <2>4, RowJustified DEF AllJustified
  <2>6. OthersUntouched(r)
    BY <1>0, <1>18 DEF DeclineProposal, Goto, OthersUntouched, TypeOK
  <2>7. /\ pc'[r] = "return" /\ ask' = ask /\ batch' = batch /\ graph' = graph
        /\ checkpoint' = checkpoint
    BY <1>0, <1>18 DEF DeclineProposal, Goto, TypeOK
  <2>8. /\ Answered(ask[r])' /\ Answered(graph[r].answer)'
        /\ Answered(checkpoint.answer)'
    BY <1>0, <2>1, <2>4, <2>7 DEF Answered, RequestSafe, Authority, Grows
  <2>9. Authorised(r)' /\ LoopInBounds(r)'
    BY <2>1, <2>4, <2>7 DEF Authorised, RequestSafe, LoopInBounds
  <2>10. Len(proposals) <= Len(proposals')
    BY <2>2, <2>4
  <2> QED  BY <1>0, <2>4, <2>5, <2>6, <2>8, <2>9, <2>10, OneRequest DEF RequestSafe
<1>19. ASSUME NEW r \in Requests, SettleApproval(r) PROVE IInv'
  BY <1>0, <1>19, StaySafe DEF SettleApproval, Goto
\* A step inside the executor that changes no row and stays in its caller.
<1>20. ASSUME NEW r \in Requests, ReturnExisting(r) PROVE IInv'
  <2>1. OthersUntouched(r)
    BY <1>0, <1>20 DEF ReturnExisting, BackToCaller, Goto, OthersUntouched, TypeOK
  <2>2. /\ graph' = graph /\ ask' = ask /\ proposals' = proposals
        /\ checkpoint' = checkpoint /\ RequestSafe(r)
    BY <1>0, <1>20 DEF ReturnExisting, Authority
  <2>3. /\ pc'[r] = IF InPolicyCheck(r) THEN "loop" ELSE "settle"
        /\ batch'[r].hi = batch[r].hi /\ batch'[r].at \in {batch[r].at, batch[r].at + 1}
        /\ batch[r].at \in Nat
    BY <1>0, <1>20 DEF ReturnExisting, BackToCaller, Goto, TypeOK, NextTurn, Batches
  <2>4. Authorised(r)' /\ LoopInBounds(r)'
    BY <2>2, <2>3 DEF RequestSafe, Authorised, LoopInBounds, InPolicyCheck
  <2>5. Answered(ask[r])' /\ Answered(graph[r].answer)' /\ Answered(checkpoint.answer)'
    BY <1>0, <2>2 DEF RequestSafe, Answered, Authority
  <2> QED  BY <1>0, <2>1, <2>2, <2>4, <2>5, OneRequest, NoRowChanged DEF RequestSafe
<1>21. ASSUME NEW r \in Requests, PassGuard(r) PROVE IInv'
  <2>1. OthersUntouched(r)
    BY <1>0, <1>21 DEF PassGuard, Goto, OthersUntouched, TypeOK
  <2>2. /\ pc[r] = "scoped" /\ pc'[r] = "apply" /\ graph' = graph /\ ask' = ask
        /\ batch' = batch /\ proposals' = proposals /\ checkpoint' = checkpoint
        /\ RequestSafe(r)
    BY <1>0, <1>21 DEF PassGuard, At, Goto, TypeOK, Authority
  <2>3. RequestSafe(r)' /\ Answered(checkpoint.answer)'
    BY <1>0, <2>2 DEF RequestSafe, Answered, Authorised, LoopInBounds, Target,
                      InPolicyCheck, Authority
  <2> QED  BY <1>0, <2>1, <2>2, <2>3, OneRequest, NoRowChanged
<1>22. ASSUME NEW r \in Requests, RefuseExecution(r) PROVE IInv'
  BY <1>0, <1>22, FinishSafe DEF RefuseExecution
<1>23. ASSUME NEW r \in Requests, ApplyHandler(r) PROVE IInv'
  <2> DEFINE p == Target(r)
  <2>1. /\ p \in DOMAIN proposals /\ RequestSafe(r) /\ pc[r] = "apply"
        /\ NeedsApproval(proposals[p].item)
             => "approve" \in proposals[p].asked \cap proposals[p].decisions
    BY <1>0, <1>23 DEF ApplyHandler, At, Authority, RequestSafe, Authorised
  <2>2. /\ proposals \in Seq(Proposal) /\ proposals[p] \in Proposal
        /\ proposals' \in {proposals, [proposals EXCEPT ![p] = Applied(@)]}
        /\ "approve" \in Decision
    BY <1>0, <1>23, <2>1 DEF ApplyHandler, TypeOK, Decision
  <2> HIDE DEF p
  <2>3. Grows(proposals, proposals') /\ Len(proposals') = Len(proposals) /\ AllJustified'
    <3>1. CASE proposals' = proposals
      BY <1>0, <3>1, NoRowChanged
    <3>2. CASE proposals' = [proposals EXCEPT ![p] = Applied(@)]
      <4>1. /\ Grows(proposals, proposals') /\ DOMAIN proposals' = DOMAIN proposals
            /\ Len(proposals') = Len(proposals) /\ proposals'[p] = Applied(proposals[p])
            /\ \A q \in DOMAIN proposals : q # p => proposals'[q] = proposals[q]
        <5>1. RowGrows(Applied(proposals[p]), proposals[p])
          BY <2>1, <2>2, CommitGrows
        <5>2. /\ p \in DOMAIN proposals /\ proposals \in Seq(Proposal)
              /\ proposals' = [proposals EXCEPT ![p] = Applied(proposals[p])]
          BY <2>1, <2>2, <3>2
        <5> QED  BY <5>1, <5>2, RewriteGrows
      <4>2. AllJustified'
        BY <1>0, <2>1, <2>2, <4>1, RowJustified DEF AllJustified
      <4> QED  BY <4>1, <4>2
    <3> QED  BY <2>2, <3>1, <3>2
  <2>4. OthersUntouched(r)
    BY <1>0, <1>23 DEF ApplyHandler, Goto, OthersUntouched, TypeOK
  <2>5. /\ pc'[r] = "record" /\ graph' = graph /\ ask' = ask /\ batch' = batch
        /\ checkpoint' = checkpoint
    BY <1>0, <1>23 DEF ApplyHandler, Goto, TypeOK
  <2>6. /\ Answered(ask[r])' /\ Answered(graph[r].answer)'
        /\ Answered(checkpoint.answer)'
    BY <1>0, <2>1, <2>3, <2>5 DEF Answered, RequestSafe, Authority, Grows
  <2>7. Authorised(r)'
    BY <2>1, <2>3, <2>5 DEF RequestSafe, Authorised, Target, InPolicyCheck, Grows
  <2>8. LoopInBounds(r)'
    BY <2>1, <2>3, <2>5 DEF RequestSafe, LoopInBounds
  <2>9. Len(proposals) <= Len(proposals')
    BY <2>2, <2>3
  <2> QED  BY <1>0, <2>3, <2>4, <2>6, <2>7, <2>8, <2>9, OneRequest DEF RequestSafe
<1>24. ASSUME NEW r \in Requests, RecordExecution(r) PROVE IInv'
  <2> DEFINE p == Target(r)
  <2>1. /\ p \in DOMAIN proposals /\ RequestSafe(r) /\ pc[r] = "record"
        /\ NeedsApproval(proposals[p].item)
             => "approve" \in proposals[p].asked \cap proposals[p].decisions
    BY <1>0, <1>24 DEF RecordExecution, At, Authority, RequestSafe, Authorised
  <2>2. /\ proposals \in Seq(Proposal) /\ proposals[p] \in Proposal
        /\ proposals' = [proposals EXCEPT ![p] = Recorded(@)] /\ "approve" \in Decision
    BY <1>0, <1>24, <2>1 DEF RecordExecution, TypeOK, Decision
  <2> HIDE DEF p
  <2>3. /\ Grows(proposals, proposals') /\ DOMAIN proposals' = DOMAIN proposals
        /\ Len(proposals') = Len(proposals) /\ proposals'[p] = Recorded(proposals[p])
        /\ \A q \in DOMAIN proposals : q # p => proposals'[q] = proposals[q]
    <3>1. RowGrows(Recorded(proposals[p]), proposals[p])
      BY <2>1, <2>2, CommitGrows
    <3>2. /\ p \in DOMAIN proposals /\ proposals \in Seq(Proposal)
          /\ proposals' = [proposals EXCEPT ![p] = Recorded(proposals[p])]
      BY <2>1, <2>2
    <3> QED  BY <3>1, <3>2, RewriteGrows
  <2>4. AllJustified'
    BY <1>0, <2>1, <2>2, <2>3, RowJustified DEF AllJustified
  <2>5. OthersUntouched(r)
    BY <1>0, <1>24 DEF RecordExecution, BackToCaller, Goto, OthersUntouched, TypeOK
  <2>6. /\ graph' = graph /\ ask' = ask /\ checkpoint' = checkpoint
        /\ pc'[r] = IF InPolicyCheck(r) THEN "loop" ELSE "settle"
        /\ batch'[r].hi = batch[r].hi /\ batch'[r].at \in {batch[r].at, batch[r].at + 1}
        /\ batch[r].at \in Nat
    BY <1>0, <1>24 DEF RecordExecution, BackToCaller, Goto, TypeOK, NextTurn, Batches
  <2>7. /\ Answered(ask[r])' /\ Answered(graph[r].answer)'
        /\ Answered(checkpoint.answer)'
    BY <1>0, <2>1, <2>3, <2>6 DEF Answered, RequestSafe, Authority, Grows
  <2>8. Authorised(r)' /\ LoopInBounds(r)'
    BY <2>1, <2>3, <2>6 DEF RequestSafe, Authorised, LoopInBounds, InPolicyCheck
  <2>9. Len(proposals) <= Len(proposals')
    BY <2>2, <2>3
  <2> QED  BY <1>0, <2>3, <2>4, <2>5, <2>7, <2>8, <2>9, OneRequest DEF RequestSafe
<1>25. ASSUME NEW r \in Requests, UpdateMemory(r) PROVE IInv'
  <2> DEFINE run == [graph[r] EXCEPT !.next = "END"]
  <2>1. Answered(run.answer)
    BY <1>0 DEF Authority, RequestSafe, TypeOK, Runs
  <2> HIDE DEF run
  <2>2. /\ graph' = [graph EXCEPT ![r] = run] /\ pc' = [pc EXCEPT ![r] = "put"]
        /\ proposals' = proposals /\ checkpoint' = checkpoint /\ ask' = ask
        /\ batch' = batch
    BY <1>25 DEF UpdateMemory, Return, Goto, run
  <2> QED  BY <1>0, <2>1, <2>2, GotoSafe
<1>26. ASSUME NEW r \in Requests, NodeFails(r) PROVE IInv'
  BY <1>0, <1>26, FinishSafe DEF NodeFails
<1>27. ASSUME NEW r \in Requests, Disconnect(r) PROVE IInv'
  BY <1>0, <1>27, FinishSafe DEF Disconnect
<1>28. CASE Restart
  <2>1. proposals' = proposals /\ checkpoint' = NoRun /\ AllJustified'
    BY <1>0, <1>28 DEF Restart, AllJustified
  <2>2. ASSUME NEW r \in Requests PROVE RequestSafe(r)'
    BY <1>0, <1>28 DEF Restart, RequestSafe, Answered, Authorised, LoopInBounds, NoRun,
                       NoAnswer, NoBatch, TypeOK
  <2>3. Answered(checkpoint.answer)'
    BY <2>1 DEF Answered, NoRun, NoAnswer
  <2> QED  BY <1>0, <2>1, <2>2, <2>3 DEF IInv, Authority
<1>30. ASSUME NEW r \in Requests, ReturnNode(r) PROVE IInv'
  <2>1. PICK pending \in Nat, answer \in {graph[r].answer, NoAnswer} :
          Return(r, [graph[r] EXCEPT !.pending = pending, !.answer = answer,
                                     !.next = Route(pending)])
    <3>1. batch[r].pending \in Nat /\ session.pending \in Nat
      BY <1>0 DEF TypeOK, Batches
    <3>2. CASE InPolicyCheck(r)
      <4>1. Return(r, [graph[r] EXCEPT !.pending = batch[r].pending,
                                       !.answer = graph[r].answer,
                                       !.next = Route(batch[r].pending)])
        BY <1>30, <3>2 DEF ReturnNode
      <4> QED  BY <3>1, <4>1
    <3>3. CASE ~InPolicyCheck(r)
      <4>1. Return(r, [graph[r] EXCEPT !.pending = session.pending, !.answer = NoAnswer,
                                       !.next = Route(session.pending)])
        BY <1>30, <3>3 DEF ReturnNode
      <4> QED  BY <3>1, <4>1
    <3> QED  BY <3>2, <3>3
  <2> DEFINE run == [graph[r] EXCEPT !.pending = pending, !.answer = answer,
                                     !.next = Route(pending)]
  <2>2. run.answer = answer
    BY <1>0 DEF TypeOK, Runs
  <2>3. Answered(run.answer)
    BY <1>0, <2>1, <2>2 DEF Authority, RequestSafe, Answered, NoAnswer
  <2> HIDE DEF run
  <2>4. /\ graph' = [graph EXCEPT ![r] = run] /\ pc' = [pc EXCEPT ![r] = "put"]
        /\ proposals' = proposals /\ checkpoint' = checkpoint /\ ask' = ask
        /\ batch' = [batch EXCEPT ![r] = NoBatch]
    BY <1>30, <2>1 DEF ReturnNode, Return, Goto, run
  <2> QED  BY <1>0, <2>3, <2>4, GotoSafe
<1>29. CASE NoMoreRequests \/ UNCHANGED vars
  <2>1. UNCHANGED vars
    BY <1>29 DEF NoMoreRequests
  <2> QED  BY <1>0, <2>1 DEF vars, IInv, Authority, AllJustified, RequestSafe, Answered,
                             Authorised, LoopInBounds, Target, InPolicyCheck
<1> QED
  BY <1>1, <1>2, <1>3, <1>4, <1>5, <1>6, <1>7, <1>8, <1>9, <1>10, <1>11, <1>12,
     <1>13, <1>14, <1>15, <1>16, <1>17, <1>18, <1>19, <1>20, <1>21, <1>22, <1>23,
     <1>24, <1>25, <1>26, <1>27, <1>28, <1>29, <1>30
  DEF Next, EnterStep, LoadStep, PolicyStep, ApprovalStep, ExecutorStep,
      RequestStep, FaultStep

LEMMA JustifiedMeans == IInv => ExecutedAsAsked /\ DecisionsWereAsked
  BY DEF IInv, AllJustified, Justified, ExecutedAsAsked, DecisionsWereAsked

LEMMA InvCorrect == Spec => []IInv
  BY InvInit, InvNext, PTL DEF Spec

\* A gated action never runs, and never touches customer data, unless a client
\* asked to approve that proposal and the decision row says so.
THEOREM ExecutionNeedsApproval == Spec => []ExecutedAsAsked
  BY InvCorrect, JustifiedMeans, PTL

\* No decision row was ever written for a proposal the client did not name.
THEOREM DecisionsAreTheClients == Spec => []DecisionsWereAsked
  BY InvCorrect, JustifiedMeans, PTL

\* The inductive part, which the runs check too.
THEOREM AuthorityHolds == Spec => []Authority
<1>1. IInv => Authority
  BY DEF IInv
<1> QED  BY <1>1, InvCorrect, PTL

=============================================================================
