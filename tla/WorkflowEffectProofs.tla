------------------------ MODULE WorkflowEffectProofs ------------------------
(***************************************************************************)
(* What the customer is asked about, and what the handlers leave behind,   *)
(* for any number of requests on the thread and any interleaving of their  *)
(* commits.                                                                *)
(***************************************************************************)
EXTENDS WorkflowProofs, FiniteSetTheorems

-----------------------------------------------------------------------------
(* What one step of the thread can do. *)

\* A step of one request leaves the locals of the others alone.
LEMMA StepIsOwn ==
  ASSUME TypeOK, NEW r \in Requests, EnterStep(r) \/ RequestStep(r) \/ FaultStep(r)
  PROVE  OthersUntouched(r)
<1> USE DEF OthersUntouched, TypeOK
<1>1. CASE EnterStep(r)
  BY <1>1 DEF EnterStep, TriggerEvent, SubmitDecision, Goto
<1>2. CASE LoadStep(r)
  BY <1>2 DEF LoadStep, LoadInput, LoadResume, LoadNothing, ReturnAndPut, Finish, Goto
<1>3. CASE PutCheckpoint(r)
  BY <1>3 DEF PutCheckpoint, Finish, Goto
<1>4. CASE AuditNode(r) \/ SpawnAgent(r) \/ AgentJobFails(r)
  BY <1>4 DEF AuditNode, SpawnAgent, AgentJobFails, ReturnAndPut, Finish, Goto
<1>10. CASE ReturnNode(r) \/ UpdateMemory(r)
  BY <1>10 DEF ReturnNode, UpdateMemory, Return, Goto
<1>5. CASE PolicyStep(r)
  BY <1>5 DEF PolicyStep, PersistPlan, KeepForApproval, AutoExecute, RoutePolicy, Goto
<1>6. CASE Interrupt(r) \/ ResumeInterrupt(r) \/ DecisionMismatch(r) \/ ApproveProposal(r)
  BY <1>6 DEF Interrupt, ResumeInterrupt, DecisionMismatch, ApproveProposal, ReturnAndPut,
              Finish, Goto
<1>7. CASE DeclineProposal(r) \/ SettleApproval(r)
  BY <1>7 DEF DeclineProposal, SettleApproval, Goto
<1>8. CASE ExecutorStep(r)
  BY <1>8 DEF ExecutorStep, ReturnExisting, PassGuard, RefuseExecution, ApplyHandler,
              RecordExecution, BackToCaller, Finish, Goto
<1>9. CASE FaultStep(r)
  BY <1>9 DEF FaultStep, NodeFails, Disconnect, Finish
<1> QED
  BY <1>1, <1>2, <1>3, <1>4, <1>5, <1>6, <1>7, <1>8, <1>9, <1>10
  DEF RequestStep, ApprovalStep

\* Rewriting a row keeps what is known of the others, and their number.
LEMMA RowCommit ==
  ASSUME TypeOK, NEW p \in DOMAIN proposals, NEW act \in Decision,
         \/ proposals' = [proposals EXCEPT ![p] = Asked(@, act)]
         \/ proposals' = [proposals EXCEPT ![p] = Decided(@, act)]
         \/ proposals' = [proposals EXCEPT ![p] = Applied(@)]
         \/ proposals' = [proposals EXCEPT ![p] = Recorded(@)]
  PROVE  /\ Grows(proposals, proposals') /\ DOMAIN proposals' = DOMAIN proposals
         /\ \A q \in DOMAIN proposals : q # p => proposals'[q] = proposals[q]
<1>1. proposals[p] \in Proposal /\ proposals \in Seq(Proposal)
  BY DEF TypeOK
<1>2. PICK row : RowGrows(row, proposals[p]) /\ proposals' = [proposals EXCEPT ![p] = row]
  BY <1>1, CommitGrows
<1> QED  BY <1>1, <1>2, RewriteGrows

\* No step drops a row or changes what it proposes.
LEMMA RowsGrow == IInv /\ [Next]_vars => Grows(proposals, proposals')
<1> SUFFICES ASSUME IInv, [Next]_vars PROVE Grows(proposals, proposals')
  OBVIOUS
<1>0. TypeOK /\ \A r \in Requests : RequestSafe(r)
  BY DEF IInv, Authority
<1>1. proposals' = proposals => Grows(proposals, proposals')
  BY <1>0 DEF Grows, TypeOK
<1>2. ASSUME NEW r \in Requests, SubmitDecision(r) PROVE Grows(proposals, proposals')
  BY <1>0, <1>2, RowCommit DEF SubmitDecision
<1>3. ASSUME NEW r \in Requests, PersistPlan(r) PROVE Grows(proposals, proposals')
  <2> DEFINE plan == graph[r].plan
  <2>1. plan \in Seq(Items)
    <3>1. graph[r].plan \in Plans \cup {<<>>} /\ <<>> \in Seq(Items)
      BY <1>0 DEF TypeOK, Runs
    <3> QED  BY <3>1, PlansAssumption
  <2>2. proposals' = proposals \o NewProposals(plan) /\ proposals \in Seq(Proposal)
    BY <1>0, <1>3 DEF PersistPlan, TypeOK
  <2> HIDE DEF plan
  <2>3. /\ DOMAIN proposals' = 1..(Len(proposals) + Len(plan))
        /\ \A p \in DOMAIN proposals : proposals'[p] = proposals[p]
    BY <2>1, <2>2, AppendPlan
  <2> QED  BY <2>1, <2>2, <2>3 DEF Grows
<1>4. ASSUME NEW r \in Requests, ApproveProposal(r) \/ DeclineProposal(r)
      PROVE Grows(proposals, proposals')
  <2>1. /\ graph[r].answer.act \in Decision /\ "approve" \in Decision
        /\ graph[r].pending \in DOMAIN proposals
    BY <1>0, <1>4 DEF ApproveProposal, DeclineProposal, AnswerIs, InNode, RequestSafe,
                      Answered, Decision
  <2> QED  BY <1>0, <1>4, <2>1, RowCommit DEF ApproveProposal, DeclineProposal
<1>5. ASSUME NEW r \in Requests, ApplyHandler(r) \/ RecordExecution(r)
      PROVE Grows(proposals, proposals')
  <2>1. Target(r) \in DOMAIN proposals /\ "approve" \in Decision
    BY <1>0, <1>5 DEF ApplyHandler, RecordExecution, At, RequestSafe, Authorised, Decision
  <2> QED  BY <1>0, <1>1, <1>5, <2>1, RowCommit DEF ApplyHandler, RecordExecution
<1>6. ASSUME NEW r \in Requests, TriggerEvent(r) \/ LoadStep(r) \/ PutCheckpoint(r)
      PROVE proposals' = proposals
  BY <1>6 DEF TriggerEvent, LoadStep, LoadInput, LoadResume, LoadNothing, PutCheckpoint,
              ReturnAndPut
<1>7. ASSUME NEW r \in Requests,
             \/ AuditNode(r) \/ SpawnAgent(r) \/ AgentJobFails(r)
             \/ ReturnNode(r) \/ UpdateMemory(r)
      PROVE proposals' = proposals
  BY <1>7 DEF AuditNode, SpawnAgent, AgentJobFails, ReturnNode, UpdateMemory, ReturnAndPut,
              Return
<1>8. ASSUME NEW r \in Requests, KeepForApproval(r) \/ AutoExecute(r) \/ RoutePolicy(r)
      PROVE proposals' = proposals
  BY <1>8 DEF KeepForApproval, AutoExecute, RoutePolicy
<1>9. ASSUME NEW r \in Requests,
             \/ Interrupt(r) \/ ResumeInterrupt(r) \/ DecisionMismatch(r)
             \/ SettleApproval(r)
      PROVE proposals' = proposals
  BY <1>9 DEF Interrupt, ResumeInterrupt, DecisionMismatch, SettleApproval, ReturnAndPut
<1>10. ASSUME NEW r \in Requests, ReturnExisting(r) \/ PassGuard(r) \/ RefuseExecution(r)
       PROVE proposals' = proposals
  BY <1>10 DEF ReturnExisting, PassGuard, RefuseExecution
<1>11. ASSUME NEW r \in Requests, FaultStep(r) PROVE proposals' = proposals
  BY <1>11 DEF FaultStep, NodeFails, Disconnect
<1>12. CASE Restart \/ NoMoreRequests \/ UNCHANGED vars
  BY <1>1, <1>12 DEF Restart, NoMoreRequests, vars
<1> QED
  BY <1>1, <1>2, <1>3, <1>4, <1>5, <1>6, <1>7, <1>8, <1>9, <1>10, <1>11, <1>12
  DEF Next, EnterStep, PolicyStep, ApprovalStep, ExecutorStep, RequestStep

-----------------------------------------------------------------------------
(* What the customer is asked about. *)

\* A proposal that may be offered, or none.
Offerable(p) == p # None => p \in DOMAIN proposals /\ NeedsApproval(proposals[p].item)

\* What the session row offers, and what a running policy_check is about to.
Offers == Offerable(session.pending) /\ \A r \in Requests : Offerable(batch[r].pending)

OfferInv == IInv /\ Offers

\* The oldest open proposal may be offered.
LEMMA NextIsOfferable ==
  ASSUME NEW nxt, IsNextPending(nxt, proposals)
  PROVE  Offerable(nxt)
  BY DEF IsNextPending, Open, Offerable

\* A step that offers nothing that was not offered already.
LEMMA OffersKept ==
  ASSUME Offers, Grows(proposals, proposals'), session'.pending = session.pending,
         \A q \in Requests : batch'[q].pending \in {None, batch[q].pending}
  PROVE  Offers'
<1>1. Offerable(session.pending)'
  BY DEF Offers, Offerable, Grows
<1>2. ASSUME NEW q \in Requests PROVE Offerable(batch[q].pending)'
  BY DEF Offers, Offerable, Grows
<1> QED  BY <1>1, <1>2 DEF Offers

LEMMA OfferNext == OfferInv /\ [Next]_vars => OfferInv'
<1> SUFFICES ASSUME OfferInv, [Next]_vars PROVE Offers'
  BY InvNext DEF OfferInv
<1>0. /\ TypeOK /\ IInv /\ Offers /\ Grows(proposals, proposals')
      /\ \A r \in Requests : RequestSafe(r)
  BY RowsGrow DEF OfferInv, IInv, Authority
<1>1. ASSUME session' = session,
             \A q \in Requests : batch'[q] \in {NoBatch, batch[q]}
      PROVE  Offers'
  BY <1>0, <1>1, OffersKept DEF NoBatch
<1>2. ASSUME NEW r \in Requests, EnterStep(r) PROVE Offers'
  BY <1>1, <1>2 DEF EnterStep, TriggerEvent, SubmitDecision
<1>3. ASSUME NEW r \in Requests, LoadStep(r) \/ PutCheckpoint(r) PROVE Offers'
  BY <1>0, <1>1, <1>3 DEF LoadStep, LoadInput, LoadResume, LoadNothing, PutCheckpoint,
                          ReturnAndPut, Finish, TypeOK
<1>4. ASSUME NEW r \in Requests, AuditNode(r) \/ SpawnAgent(r) \/ AgentJobFails(r)
      PROVE Offers'
  BY <1>0, <1>1, <1>4 DEF AuditNode, SpawnAgent, AgentJobFails, ReturnAndPut, Finish, TypeOK
<1>5. ASSUME NEW r \in Requests, PersistPlan(r) PROVE Offers'
  <2>1. session' = session /\ \A q \in Requests : batch'[q].pending \in {None, batch[q].pending}
    BY <1>0, <1>5 DEF PersistPlan, TypeOK
  <2> QED  BY <1>0, <2>1, OffersKept
<1>6. ASSUME NEW r \in Requests, KeepForApproval(r) PROVE Offers'
  <2>1. batch[r].at \in DOMAIN proposals /\ batch[r] \in Batches
    BY <1>0, <1>6 DEF KeepForApproval, RequestSafe, LoopInBounds, TypeOK, Batches
  <2>2. Offerable(FirstOf(batch[r].pending, batch[r].at))
    BY <1>0, <1>6, <2>1 DEF KeepForApproval, FirstOf, Offerable, Offers
  <2>3. /\ batch'[r].pending = FirstOf(batch[r].pending, batch[r].at)
        /\ \A q \in Requests \ {r} : batch'[q] = batch[q]
        /\ session' = session /\ proposals' = proposals
    BY <1>0, <1>6 DEF KeepForApproval, NextTurn, TypeOK
  <2> QED  BY <1>0, <2>2, <2>3 DEF Offers, Offerable
<1>7. ASSUME NEW r \in Requests, AutoExecute(r) PROVE Offers'
  BY <1>1, <1>7 DEF AutoExecute
<1>8. ASSUME NEW r \in Requests, RoutePolicy(r) PROVE Offers'
  <2>1. /\ session'.pending = batch[r].pending /\ proposals' = proposals
        /\ \A q \in Requests : batch'[q] \in {NoBatch, batch[q]}
    BY <1>0, <1>8 DEF RoutePolicy, TypeOK
  <2> QED  BY <1>0, <2>1 DEF Offers, Offerable, NoBatch
<1>9. ASSUME NEW r \in Requests,
             Interrupt(r) \/ ResumeInterrupt(r) \/ DecisionMismatch(r) \/ ApproveProposal(r)
      PROVE Offers'
  BY <1>0, <1>1, <1>9 DEF Interrupt, ResumeInterrupt, DecisionMismatch, ApproveProposal,
                          ReturnAndPut, Finish, TypeOK
<1>10. ASSUME NEW r \in Requests, DeclineProposal(r) PROVE Offers'
  <2>1. PICK nxt \in {None} \cup DOMAIN proposals :
          /\ IsNextPending(nxt, proposals')
          /\ session'.pending = IF nxt = ask[r].target THEN session.pending ELSE nxt
    BY <1>10 DEF DeclineProposal
  <2>2. nxt # None => nxt \in DOMAIN proposals' /\ NeedsApproval(proposals'[nxt].item)
    BY <2>1 DEF IsNextPending, Open
  <2>3. batch' = batch
    BY <1>10 DEF DeclineProposal
  <2> QED  BY <1>0, <2>1, <2>2, <2>3 DEF Offers, Offerable, Grows
<1>11. ASSUME NEW r \in Requests, SettleApproval(r) PROVE Offers'
  <2>1. PICK nxt \in {None} \cup DOMAIN proposals :
          IsNextPending(nxt, proposals) /\ session'.pending = nxt
    BY <1>11 DEF SettleApproval
  <2>2. batch' = batch /\ proposals' = proposals
    BY <1>11 DEF SettleApproval
  <2> QED  BY <1>0, <2>1, <2>2, NextIsOfferable DEF Offers, Offerable
<1>12. ASSUME NEW r \in Requests, ReturnExisting(r) \/ RecordExecution(r) PROVE Offers'
  <2>1. session' = session /\ \A q \in Requests : batch'[q].pending = batch[q].pending
    BY <1>0, <1>12 DEF ReturnExisting, RecordExecution, BackToCaller, NextTurn, TypeOK
  <2> QED  BY <1>0, <2>1, OffersKept
<1>13. ASSUME NEW r \in Requests, PassGuard(r) \/ RefuseExecution(r) \/ ApplyHandler(r)
       PROVE Offers'
  BY <1>0, <1>1, <1>13 DEF PassGuard, RefuseExecution, ApplyHandler, Finish, TypeOK
<1>14. ASSUME NEW r \in Requests, ReturnNode(r) \/ UpdateMemory(r) PROVE Offers'
  <2>1. /\ session'.pending = session.pending
        /\ \A q \in Requests : batch'[q] \in {NoBatch, batch[q]}
    BY <1>0, <1>14 DEF ReturnNode, UpdateMemory, TypeOK
  <2> QED  BY <1>0, <2>1, OffersKept DEF NoBatch
<1>15. ASSUME NEW r \in Requests, FaultStep(r) PROVE Offers'
  BY <1>0, <1>1, <1>15 DEF FaultStep, NodeFails, Disconnect, Finish, TypeOK
<1>16. CASE Restart
  BY <1>1, <1>16 DEF Restart
<1>17. CASE NoMoreRequests \/ UNCHANGED vars
  BY <1>1, <1>17 DEF NoMoreRequests, vars
<1> QED
  BY <1>2, <1>3, <1>4, <1>5, <1>6, <1>7, <1>8, <1>9, <1>10, <1>11, <1>12, <1>13, <1>14,
     <1>15, <1>16, <1>17
  DEF Next, PolicyStep, ApprovalStep, ExecutorStep, RequestStep

\* The customer is only ever asked about a stored proposal that needs approval,
\* whichever of several requests wrote the session row last and from however
\* old a copy (policy_check, execute_action).
THEOREM PendingIsGated == Spec => []PendingNeedsApproval
<1>1. Init => OfferInv
  BY InvInit DEF Init, OfferInv, Offers, Offerable, NoBatch
<1>2. OfferInv => PendingNeedsApproval
  BY DEF OfferInv, Offers, Offerable, PendingNeedsApproval
<1> QED  BY <1>1, <1>2, OfferNext, PTL DEF Spec

-----------------------------------------------------------------------------
(* No effect without its execution row. *)

\* The requests between the two commits of an execution of p.
Recording(p) == {r \in Requests : pc[r] = "record" /\ Target(r) = p}

\* What faults may have cut off, and what no execution row tells yet.
Lost == faults * Cardinality(Requests)
Missing(p) == Cardinality(Recording(p)) + Lost

\* Whatever an execution row does not tell, somebody is about to record, or a
\* fault came in between.
Accounted(p) == proposals[p].applied <= proposals[p].executions + Missing(p)

EffectInv == IInv /\ \A p \in DOMAIN proposals : Accounted(p)

LEMMA RecordingFinite ==
  ASSUME NEW p
  PROVE  /\ IsFiniteSet(Recording(p)) /\ Cardinality(Recording(p)) \in Nat
         /\ Cardinality(Recording(p)) <= Cardinality(Requests)
         /\ Cardinality(Requests) \in Nat
  BY RequestsAssumption, FS_Subset, FS_CardinalityType DEF Recording

LEMMA LostTyped == TypeOK => faults \in Nat /\ Lost \in Nat
<1>1. TypeOK => faults \in Nat
  BY BoundsAssumption DEF TypeOK
<1>2. Cardinality(Requests) \in Nat
  BY RequestsAssumption, FS_CardinalityType
<1> QED  BY <1>1, <1>2 DEF Lost

\* What the two commits count.
LEMMA RowCounts ==
  ASSUME NEW row \in Proposal
  PROVE  /\ Applied(row).applied = row.applied + 1
         /\ Applied(row).executions = row.executions
         /\ Recorded(row).applied = row.applied
         /\ Recorded(row).executions = row.executions + 1
         /\ row.applied \in Nat /\ row.executions \in Nat
<1>1. /\ Applied(row).applied = row.applied + 1
      /\ Applied(row).executions = row.executions
      /\ row.applied \in Nat /\ row.executions \in Nat
  BY DEF Applied, Proposal
<1>2. Recorded(row).applied = row.applied /\ Recorded(row).executions = row.executions + 1
  BY DEF Recorded, Proposal
<1> QED  BY <1>1, <1>2

\* Only a request that reaches or leaves "record" changes who is recording.
LEMMA RecordingKept ==
  ASSUME NEW r \in Requests, OthersUntouched(r), pc[r] # "record", pc'[r] # "record", NEW p
  PROVE  Recording(p)' = Recording(p)
  BY DEF OthersUntouched, Recording, Target, InPolicyCheck

LEMMA EffectKept ==
  ASSUME EffectInv, NEW r \in Requests, OthersUntouched(r),
         pc[r] # "record", pc'[r] # "record", faults' = faults,
         DOMAIN proposals' = DOMAIN proposals,
         \A p \in DOMAIN proposals : /\ proposals'[p].applied = proposals[p].applied
                                     /\ proposals'[p].executions = proposals[p].executions
  PROVE  (\A p \in DOMAIN proposals : Accounted(p))'
<1> SUFFICES ASSUME NEW p \in DOMAIN proposals PROVE Accounted(p)'
  OBVIOUS
<1>1. Recording(p)' = Recording(p) /\ Accounted(p)
  BY RecordingKept DEF EffectInv
<1> QED  BY <1>1 DEF Accounted, Missing, Lost

LEMMA EffectNext == EffectInv /\ [Next]_vars => EffectInv'
<1> DEFINE Goal == (\A p \in DOMAIN proposals : Accounted(p))'
<1> SUFFICES ASSUME EffectInv, [Next]_vars PROVE Goal
  BY InvNext DEF EffectInv
<1> USE DEF Goal
<1>0. /\ TypeOK /\ IInv /\ \A r \in Requests : RequestSafe(r)
      /\ faults \in Nat /\ proposals \in Seq(Proposal)
  BY BoundsAssumption DEF EffectInv, IInv, Authority, TypeOK
<1>1. ASSUME NEW r \in Requests, SubmitDecision(r) PROVE Goal
  <2>1. PICK act \in Decision :
          proposals' = [proposals EXCEPT ![session.pending] = Asked(@, act)]
    BY <1>1 DEF SubmitDecision
  <2>2. session.pending \in DOMAIN proposals /\ pc[r] = "idle" /\ pc'[r] = "load"
        /\ faults' = faults /\ OthersUntouched(r)
    BY <1>0, <1>1, StepIsOwn DEF SubmitDecision, At, Goto, TypeOK, EnterStep
  <2>3. \A p \in DOMAIN proposals : /\ proposals'[p].applied = proposals[p].applied
                                    /\ proposals'[p].executions = proposals[p].executions
    BY <1>0, <2>1, <2>2, RowFields
  <2>4. DOMAIN proposals' = DOMAIN proposals
    BY <2>1
  <2> HIDE DEF Goal
  <2> QED  BY <2>2, <2>3, <2>4, EffectKept DEF Goal
<1>2. ASSUME NEW r \in Requests, PersistPlan(r) PROVE Goal
  <2> DEFINE plan == graph[r].plan
  <2>1. plan \in Seq(Items)
    <3>1. graph[r].plan \in Plans \cup {<<>>} /\ <<>> \in Seq(Items)
      BY <1>0 DEF TypeOK, Runs
    <3> QED  BY <3>1, PlansAssumption
  <2>2. /\ proposals' = proposals \o NewProposals(plan) /\ pc[r] = "node"
        /\ pc'[r] = "loop" /\ faults' = faults /\ OthersUntouched(r)
    BY <1>0, <1>2, StepIsOwn DEF PersistPlan, InNode, At, Goto, TypeOK, RequestStep,
                                 PolicyStep
  <2> HIDE DEF plan
  <2>3. /\ \A p \in DOMAIN proposals : proposals'[p] = proposals[p]
        /\ \A p \in DOMAIN proposals' \ DOMAIN proposals :
             proposals'[p].applied = 0 /\ proposals'[p].executions = 0
    BY <1>0, <2>1, <2>2, AppendPlan
  <2> SUFFICES ASSUME NEW p \in DOMAIN proposals' PROVE Accounted(p)'
    BY <2>2
  <2>4. Recording(p)' = Recording(p)
    BY <2>2, RecordingKept
  <2>5. CASE p \in DOMAIN proposals
    BY <2>2, <2>3, <2>4, <2>5 DEF EffectInv, Accounted, Missing, Lost
  <2>6. CASE p \notin DOMAIN proposals
    <3>1. Recording(p) = {}
      BY <1>0, <2>6 DEF Recording, RequestSafe, Authorised
    <3>2. Cardinality(Recording(p)') = 0 /\ Lost' \in Nat
      BY <2>2, <2>4, <3>1, <1>0, FS_EmptySet, LostTyped DEF Lost
    <3> QED  BY <2>3, <2>6, <3>2 DEF Accounted, Missing
  <2> QED  BY <2>5, <2>6
<1>3. ASSUME NEW r \in Requests, ApproveProposal(r) \/ DeclineProposal(r) PROVE Goal
  <2> DEFINE p == graph[r].pending
  <2>1. PICK act \in Decision : proposals' = [proposals EXCEPT ![p] = Decided(@, act)]
    BY <1>3 DEF ApproveProposal, DeclineProposal, AnswerIs, Decision
  <2>2. /\ pc[r] = "node" /\ pc'[r] # "record" /\ faults' = faults /\ OthersUntouched(r)
    BY <1>0, <1>3, StepIsOwn DEF ApproveProposal, DeclineProposal, AnswerIs, InNode, At,
                                 Goto, TypeOK, RequestStep, ApprovalStep
  <2>3. \A q \in DOMAIN proposals : /\ proposals'[q].applied = proposals[q].applied
                                    /\ proposals'[q].executions = proposals[q].executions
    BY <1>0, <2>1, RowFields
  <2>4. DOMAIN proposals' = DOMAIN proposals
    BY <2>1
  <2> HIDE DEF Goal
  <2> QED  BY <2>2, <2>3, <2>4, EffectKept DEF Goal
\* The handler's commit: the request is now about to record it.
<1>4. ASSUME NEW r \in Requests, ApplyHandler(r) PROVE Goal
  <2>1. /\ pc[r] = "apply" /\ pc'[r] = "record" /\ graph' = graph /\ batch' = batch
        /\ faults' = faults /\ OthersUntouched(r)
    BY <1>0, <1>4, StepIsOwn DEF ApplyHandler, At, Goto, TypeOK, RequestStep, ExecutorStep
  <2>2. /\ Target(r) \in DOMAIN proposals /\ Target(r)' = Target(r)
    BY <1>0, <2>1 DEF RequestSafe, Authorised, Target, InPolicyCheck
  <2>3. /\ DOMAIN proposals' = DOMAIN proposals
        /\ \A p \in DOMAIN proposals : p # Target(r) => proposals'[p] = proposals[p]
        /\ proposals'[Target(r)].applied
             \in {proposals[Target(r)].applied, proposals[Target(r)].applied + 1}
        /\ proposals'[Target(r)].executions = proposals[Target(r)].executions
    BY <1>0, <1>4, <2>2, RowCounts DEF ApplyHandler
  <2>4. ASSUME NEW p
        PROVE  Recording(p)' = IF p = Target(r) THEN Recording(p) \cup {r} ELSE Recording(p)
    BY <2>1, <2>2 DEF OthersUntouched, Recording, Target, InPolicyCheck
  <2> SUFFICES ASSUME NEW p \in DOMAIN proposals PROVE Accounted(p)'
    BY <2>1, <2>3
  <2>5. Accounted(p) /\ r \notin Recording(p) /\ proposals[p] \in Proposal
    BY <1>0, <2>1 DEF EffectInv, Recording
  <2>6. CASE p = Target(r)
    <3>1. /\ Cardinality(Recording(p)') = Cardinality(Recording(p)) + 1
          /\ Cardinality(Recording(p)) \in Nat /\ Lost \in Nat /\ Lost' = Lost
      BY <1>0, <2>1, <2>4, <2>5, <2>6, FS_AddElement, RecordingFinite, LostTyped DEF Lost
    <3>2. /\ proposals[p].applied \in Nat /\ proposals[p].executions \in Nat
          /\ proposals'[p].applied \in {proposals[p].applied, proposals[p].applied + 1}
          /\ proposals'[p].executions = proposals[p].executions
      BY <2>3, <2>5, <2>6, RowCounts
    <3>3. proposals[p].applied <= proposals[p].executions + (Cardinality(Recording(p)) + Lost)
      BY <2>5 DEF Accounted, Missing
    <3>4. proposals'[p].applied
            <= proposals'[p].executions + (Cardinality(Recording(p)') + Lost')
      BY <3>1, <3>2, <3>3
    <3> QED  BY <3>4 DEF Accounted, Missing
  <2>7. CASE p # Target(r)
    BY <2>1, <2>3, <2>4, <2>5, <2>7 DEF Accounted, Missing, Lost
  <2> QED  BY <2>6, <2>7
\* The execution row: one effect less to account for.
<1>5. ASSUME NEW r \in Requests, RecordExecution(r) PROVE Goal
  <2>1. /\ pc[r] = "record" /\ pc'[r] # "record" /\ faults' = faults /\ OthersUntouched(r)
    BY <1>0, <1>5, StepIsOwn DEF RecordExecution, BackToCaller, At, Goto, TypeOK,
                                 RequestStep, ExecutorStep
  <2>2. Target(r) \in DOMAIN proposals
    BY <1>0, <2>1 DEF RequestSafe, Authorised
  <2>3. /\ DOMAIN proposals' = DOMAIN proposals
        /\ \A p \in DOMAIN proposals : p # Target(r) => proposals'[p] = proposals[p]
        /\ proposals'[Target(r)].applied = proposals[Target(r)].applied
        /\ proposals'[Target(r)].executions = proposals[Target(r)].executions + 1
    BY <1>0, <1>5, <2>2, RowCounts DEF RecordExecution
  <2>4. ASSUME NEW p
        PROVE  Recording(p)' = IF p = Target(r) THEN Recording(p) \ {r} ELSE Recording(p)
    BY <2>1, <2>2 DEF OthersUntouched, Recording, Target, InPolicyCheck
  <2> SUFFICES ASSUME NEW p \in DOMAIN proposals PROVE Accounted(p)'
    BY <2>1, <2>3
  <2>5. Accounted(p) /\ proposals[p] \in Proposal
    BY <1>0 DEF EffectInv
  <2>6. CASE p = Target(r)
    <3>1. r \in Recording(p)
      BY <2>1, <2>6 DEF Recording
    <3>2. /\ Cardinality(Recording(p)') = Cardinality(Recording(p)) - 1
          /\ Cardinality(Recording(p)) \in Nat /\ Lost \in Nat /\ Lost' = Lost
      BY <1>0, <2>1, <2>4, <2>6, <3>1, FS_RemoveElement, RecordingFinite, LostTyped DEF Lost
    <3> QED  BY <2>3, <2>5, <2>6, <3>2, RowCounts DEF Accounted, Missing
  <2>7. CASE p # Target(r)
    BY <2>1, <2>3, <2>4, <2>5, <2>7 DEF Accounted, Missing, Lost
  <2> QED  BY <2>6, <2>7
\* Every other step commits no execution and no effect.
<1>6. ASSUME NEW r \in Requests, OthersUntouched(r), proposals' = proposals,
             faults' = faults, pc[r] # "record", pc'[r] # "record"
      PROVE  Goal
  <2> HIDE DEF Goal
  <2> QED  BY <1>6, EffectKept DEF Goal
<1> HIDE DEF Goal
<1>7. ASSUME NEW r \in Requests, TriggerEvent(r) \/ LoadStep(r) \/ PutCheckpoint(r) PROVE Goal
  <2>1. OthersUntouched(r)
    BY <1>0, <1>7, StepIsOwn DEF EnterStep, RequestStep
  <2> QED  BY <1>0, <1>6, <1>7, <2>1
           DEF TypeOK, TriggerEvent, LoadStep, LoadInput, LoadResume, LoadNothing,
               PutCheckpoint, ReturnAndPut, Finish, Goto, At
<1>8. ASSUME NEW r \in Requests,
             \/ AuditNode(r) \/ SpawnAgent(r) \/ AgentJobFails(r)
             \/ ReturnNode(r) \/ UpdateMemory(r)
      PROVE Goal
  <2>1. OthersUntouched(r)
    BY <1>0, <1>8, StepIsOwn DEF RequestStep
  <2> QED  BY <1>0, <1>6, <1>8, <2>1
           DEF TypeOK, AuditNode, SpawnAgent, AgentJobFails, ReturnNode, UpdateMemory,
               ReturnAndPut, Return, Finish, Goto, At, InNode
<1>9. ASSUME NEW r \in Requests, KeepForApproval(r) \/ AutoExecute(r) \/ RoutePolicy(r)
      PROVE Goal
  <2>1. OthersUntouched(r)
    BY <1>0, <1>9, StepIsOwn DEF RequestStep, PolicyStep
  <2> QED  BY <1>0, <1>6, <1>9, <2>1
           DEF TypeOK, KeepForApproval, AutoExecute, RoutePolicy, Goto, At
<1>10. ASSUME NEW r \in Requests,
              \/ Interrupt(r) \/ ResumeInterrupt(r) \/ DecisionMismatch(r)
              \/ SettleApproval(r)
       PROVE Goal
  <2>1. OthersUntouched(r)
    BY <1>0, <1>10, StepIsOwn DEF RequestStep, ApprovalStep
  <2> QED  BY <1>0, <1>6, <1>10, <2>1
           DEF TypeOK, Interrupt, ResumeInterrupt, DecisionMismatch, SettleApproval,
               ReturnAndPut, Finish, Goto, At, InNode
<1>11. ASSUME NEW r \in Requests, ReturnExisting(r) \/ PassGuard(r) \/ RefuseExecution(r)
       PROVE Goal
  <2>1. OthersUntouched(r)
    BY <1>0, <1>11, StepIsOwn DEF RequestStep, ExecutorStep
  <2> QED  BY <1>0, <1>6, <1>11, <2>1
           DEF TypeOK, ReturnExisting, PassGuard, RefuseExecution, BackToCaller, Finish,
               Goto, At
\* A fault ends at most all the requests that were about to record.
<1>12. ASSUME faults' = faults + 1, proposals' = proposals, \A p : Recording(p)' \subseteq Recording(p)
       PROVE  Goal
  <2> SUFFICES ASSUME NEW p \in DOMAIN proposals PROVE Accounted(p)'
    BY <1>12 DEF Goal
  <2>1. Lost' = Lost + Cardinality(Requests)
    <3>1. \A n, m \in Nat : (n + 1) * m = n * m + m
      OBVIOUS
    <3>2. faults \in Nat /\ Cardinality(Requests) \in Nat
      BY <1>0, LostTyped, RecordingFinite
    <3>3. (faults + 1) * Cardinality(Requests) = faults * Cardinality(Requests) + Cardinality(Requests)
      BY <3>1, <3>2
    <3> QED  BY <1>12, <3>3 DEF Lost
  <2>2. /\ Cardinality(Recording(p)) <= Cardinality(Requests) /\ Cardinality(Requests) \in Nat
        /\ Cardinality(Recording(p)) \in Nat /\ Lost \in Nat
    BY <1>0, RecordingFinite, LostTyped
  <2>3. Cardinality(Recording(p)') \in Nat
    BY <1>12, RecordingFinite, FS_Subset, FS_CardinalityType
  <2>4. /\ proposals[p].applied <= proposals[p].executions + (Cardinality(Recording(p)) + Lost)
        /\ proposals[p].applied \in Nat /\ proposals[p].executions \in Nat
    BY <1>0, RowCounts DEF EffectInv, Accounted, Missing
  <2> QED  BY <1>12, <2>1, <2>2, <2>3, <2>4 DEF Accounted, Missing
<1>15. ASSUME NEW r \in Requests, FaultStep(r) PROVE Goal
  <2>1. OthersUntouched(r) /\ faults' = faults + 1 /\ proposals' = proposals /\ pc'[r] = "idle"
    BY <1>0, <1>15, StepIsOwn DEF FaultStep, NodeFails, Disconnect, Finish, TypeOK
  <2>2. \A p : Recording(p)' \subseteq Recording(p)
    BY <2>1 DEF OthersUntouched, Recording, Target, InPolicyCheck
  <2> QED  BY <1>12, <2>1, <2>2
<1>13. CASE Restart
  BY <1>12, <1>13 DEF Restart, Recording
<1>14. CASE NoMoreRequests \/ UNCHANGED vars
  <2>1. /\ proposals' = proposals /\ faults' = faults
        /\ pc' = pc /\ graph' = graph /\ batch' = batch
    BY <1>14 DEF NoMoreRequests, vars
  <2> QED  BY <2>1 DEF Goal, EffectInv, Accounted, Missing, Lost, Recording, Target,
                       InPolicyCheck
<1> QED
  BY <1>1, <1>2, <1>3, <1>4, <1>5, <1>7, <1>8, <1>9, <1>10, <1>11, <1>13, <1>14, <1>15
  DEF Next, EnterStep, PolicyStep, ApprovalStep, ExecutorStep, RequestStep

\* No handler changes customer data behind the back of the execution rows,
\* however many requests execute the same proposal: once all of them are over,
\* every effect has its row, but for what faults cut off between the two commits
\* of execute().
THEOREM EffectsAreRecorded == Spec => []NoSilentEffect
<1>1. Init => EffectInv
  BY InvInit DEF Init, EffectInv
<1>2. EffectInv => NoSilentEffect
  <2> SUFFICES ASSUME EffectInv, Quiet, NEW p \in DOMAIN proposals
               PROVE  proposals[p].applied <= proposals[p].executions + Lost
    BY DEF NoSilentEffect, Lost
  <2>1. Recording(p) = {}
    BY DEF Quiet, At, Recording
  <2>2. Cardinality(Recording(p)) = 0 /\ proposals[p] \in Proposal /\ Lost \in Nat
    BY <2>1, FS_EmptySet, LostTyped DEF EffectInv, IInv, TypeOK
  <2> QED  BY <2>2, RowCounts DEF EffectInv, Accounted, Missing
<1> QED  BY <1>1, <1>2, EffectNext, PTL DEF Spec

=============================================================================
