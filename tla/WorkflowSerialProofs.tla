------------------------ MODULE WorkflowSerialProofs ------------------------
(***************************************************************************)
(* What holds of a thread whose requests do not overlap: first with any    *)
(* number of failures, disconnects and restarts, then without them.        *)
(***************************************************************************)
EXTENDS WorkflowEffectProofs

\* The next request is accepted when the one before it is over.
OneAtATime == \E r : Requests = {r}

-----------------------------------------------------------------------------
(* The inductive invariant.                                                *)

InExecutor == {"scoped", "apply", "record"}
BeforeReturn == {"node", "resume", "loop", "settle"} \cup InExecutor
Inside == BeforeReturn \cup {"return"}

Waiting == session.state = "UserApproval"

\* A run and the session row fit together: the run that stops at the interrupt
\* stops there for what the session waits for; the session waits only while a
\* run stops there, holds an answer, or has to do policy_check again.
Agrees(run) ==
  /\ run.next # "none"
  /\ run.next = "approval_interrupt" => Waiting /\ run.pending = session.pending
  /\ Waiting => run.next \in {"approval_interrupt", "execute_action", "policy_check"}
  /\ run.next = "execute_action" =>
       run.answer.act # "none" /\ run.answer.target = run.pending

\* What a request may find when it starts: nothing after a restart.
Stopped(run) == run.next = "none" \/ Agrees(run)

\* Where the request is in its node.
Position(r) ==
  /\ pc[r] = "resume" => graph[r].next = "approval_interrupt"
  /\ pc[r] = "loop" => graph[r].next = "policy_check"
  /\ pc[r] \in InExecutor => graph[r].next \in {"policy_check", "execute_action"}
  /\ pc[r] = "settle" => graph[r].next = "execute_action"
  /\ pc[r] = "return" =>
       /\ graph[r].next \in {"policy_check", "execute_action"}
       /\ InPolicyCheck(r) => session.pending = batch[r].pending
  /\ pc[r] = "put" => graph[r].next # "execute_action"

\* An answer is on its way to the proposal, and the session still waits.
Answering(r) ==
  pc[r] = "resume" \/ (pc[r] \in BeforeReturn /\ graph[r].next = "execute_action")

\* How the run, the checkpoint, the answer carried and the session row hang
\* together.
Place(r) ==
  /\ Position(r)
  /\ pc[r] = "idle" => ask[r] = NoAnswer
  /\ ask[r] # NoAnswer => ask[r].act # "none"
  /\ pc[r] \in {"idle", "load"} => Stopped(checkpoint)
  /\ pc[r] = "load" => (Waiting <=> ask[r] # NoAnswer)
  /\ pc[r] \in Inside => checkpoint = graph[r]
  /\ pc[r] \in Inside \cup {"put"} => Agrees(graph[r])
  /\ Answering(r) => Waiting
  /\ pc[r] = "resume" => ask[r] # NoAnswer
  /\ (pc[r] = "load" /\ Waiting) \/ Answering(r) => ask[r].target = session.pending

\* The rows policy_check is looping over.
Turn(r) ==
  pc[r] \in {"loop"} \cup InExecutor /\ InPolicyCheck(r) =>
    /\ batch[r].pending # None =>
         /\ batch[r].pending < batch[r].at
         /\ proposals[batch[r].pending].status = "proposed"
    /\ \A p \in batch[r].at..batch[r].hi : proposals[p].status = "proposed"
    /\ pc[r] \in InExecutor => batch[r].at <= batch[r].hi

NoApproval == \A p \in DOMAIN proposals : proposals[p].status # "approved"

\* The row execute_action is working on, and what it leaves.
Answer(r) ==
  /\ pc[r] \in InExecutor /\ ~InPolicyCheck(r)
       => proposals[graph[r].pending].status = "approved"
  /\ pc[r] = "settle" => proposals[graph[r].pending].status \in {"executed", "failed"}
  /\ pc[r] \in {"return", "put"} => NoApproval

\* What is offered was not declined.
Declined(p) == proposals[p].status \in {"rejected", "deferred"}

OfferedRows == session.pending # None => ~Declined(session.pending)

\* An approval that was stored and not carried out is in the stored run.
Kept ==
  \A p \in DOMAIN proposals : proposals[p].status = "approved" =>
    /\ Waiting
    /\ checkpoint.next # "none" =>
         /\ checkpoint.next = "execute_action"
         /\ checkpoint.pending = p
         /\ checkpoint.answer = [act |-> "approve", target |-> p]

\* A stored answer repeats what was decided: it changes no declined status.
Repeats ==
  checkpoint.next = "execute_action" =>
    /\ checkpoint.answer.act # "none"
    /\ checkpoint.pending \in DOMAIN proposals
    /\ proposals[checkpoint.pending].status = "rejected" => checkpoint.answer.act = "reject"
    /\ proposals[checkpoint.pending].status = "deferred" => checkpoint.answer.act = "revise"

Rows == OfferedRows /\ Kept /\ Repeats

Serial(r) == Place(r) /\ Turn(r) /\ Answer(r)

SerialInv ==
  OfferInv /\ StateMatchesPending /\ Rows /\ \A r \in Requests : Serial(r)

-----------------------------------------------------------------------------
(* Steps that change no row and leave the session as it is. *)

LEMMA RowStatuses ==
  ASSUME NEW row \in Proposal, NEW act \in Decision
  PROVE  /\ Asked(row, act).status = row.status
         /\ Applied(row).status = row.status
         /\ Recorded(row).status \in {"executed", "failed"}
         /\ Decided(row, "approve").status = "approved"
         /\ act = "reject" => Decided(row, act).status = "rejected"
         /\ act = "revise" => Decided(row, act).status = "deferred"
<1>1. Asked(row, act).status = row.status
  BY DEF Asked, Proposal
<1>2. Applied(row).status = row.status
  BY DEF Applied, Proposal
<1>3. Recorded(row).status \in {"executed", "failed"}
  BY DEF Recorded, Proposal, OutcomeStatus
<1>4. Decided(row, "approve").status = "approved"
  BY DEF Decided, Proposal
<1>5. act = "reject" => Decided(row, act).status = "rejected"
  BY DEF Decided, Proposal
<1>6. act = "revise" => Decided(row, act).status = "deferred"
  BY DEF Decided, Proposal
<1> QED  BY <1>1, <1>2, <1>3, <1>4, <1>5, <1>6

\* Rows that keep their status, under the same session and checkpoint.
LEMMA SameRows ==
  ASSUME SerialInv, session' = session, checkpoint' = checkpoint,
         DOMAIN proposals' = DOMAIN proposals,
         \A p \in DOMAIN proposals : proposals'[p].status = proposals[p].status
  PROVE  Rows'
<1>1. Offers /\ OfferedRows /\ Kept /\ Repeats
  BY DEF SerialInv, OfferInv, Rows
<1>2. OfferedRows'
  BY <1>1 DEF Offers, Offerable, OfferedRows, Declined
<1>3. Kept'
  BY <1>1 DEF Kept, Waiting
<1>4. Repeats'
  BY <1>1 DEF Repeats
<1> QED  BY <1>2, <1>3, <1>4 DEF Rows

\* A request that is over leaves a checkpoint the next one can start from.
LEMMA FinishSerial ==
  ASSUME SerialInv, OneAtATime, OfferInv', NEW r \in Requests, Finish(r),
         session' = session, Rows', Stopped(checkpoint)'
  PROVE  SerialInv'
<1>0. TypeOK
  BY DEF SerialInv, OfferInv, IInv
<1>1. pc'[r] = "idle" /\ ask'[r] = NoAnswer
  BY <1>0 DEF Finish, TypeOK
<1>2. StateMatchesPending'
  BY DEF SerialInv, StateMatchesPending
<1>3. Serial(r)'
  BY <1>1 DEF Serial, Place, Position, Answering, Turn, Answer, Inside, BeforeReturn,
              InExecutor
<1> QED  BY <1>2, <1>3 DEF SerialInv, OneAtATime

\* A request in the graph that breaks off: its checkpoint is the run it had.
LEMMA BreakSerial ==
  ASSUME SerialInv, OneAtATime, OfferInv', NEW r \in Requests, Finish(r),
         session' = session, proposals' = proposals, checkpoint' = checkpoint,
         pc[r] \in Inside \cup {"idle", "load"}
  PROVE  SerialInv'
<1>1. Stopped(checkpoint)'
  BY DEF SerialInv, Serial, Place, Inside, BeforeReturn, InExecutor, Stopped, Agrees, Waiting
<1> QED  BY <1>1, SameRows, FinishSerial

\* A node whose return and checkpoint are one step.
LEMMA MoveSerial ==
  ASSUME SerialInv, OneAtATime, OfferInv', NEW r \in Requests, NEW run,
         ReturnAndPut(r, run), Agrees(run), NoApproval,
         run.next = "execute_action" =>
           /\ Waiting /\ ask[r].target = session.pending
           /\ run.pending = session.pending /\ session.pending # None
  PROVE  SerialInv'
<1>0. TypeOK /\ Offers
  BY DEF SerialInv, OfferInv, IInv
<1>1. /\ pc'[r] = "node" /\ graph'[r] = run /\ checkpoint' = run /\ ask' = ask
      /\ session' = session /\ proposals' = proposals /\ batch' = batch
  BY <1>0 DEF ReturnAndPut, Goto, TypeOK
<1>2. StateMatchesPending'
  BY <1>1 DEF SerialInv, StateMatchesPending
<1>3. Rows'
  <2>1. OfferedRows' /\ Kept'
    BY <1>1 DEF SerialInv, Rows, OfferedRows, Declined, Kept, NoApproval
  <2>2. Repeats'
    BY <1>0, <1>1 DEF SerialInv, Rows, OfferedRows, Declined, Repeats, Agrees, Offers,
                      Offerable
  <2> QED  BY <2>1, <2>2 DEF Rows
<1>4. Agrees(graph[r])'
  BY <1>1 DEF Agrees, Waiting
<1>5. Place(r)'
  BY <1>1, <1>4 DEF SerialInv, Serial, Place, Position, Answering, Inside, BeforeReturn,
                    InExecutor, Waiting
<1>6. Serial(r)'
  BY <1>1, <1>5 DEF Serial, Turn, Answer, InExecutor
<1> QED  BY <1>2, <1>3, <1>6 DEF SerialInv, OneAtATime

\* While the session does not wait, nothing is approved.
LEMMA NothingApproved ==
  ASSUME SerialInv, ~Waiting
  PROVE  NoApproval
  BY DEF SerialInv, Rows, Kept, NoApproval

-----------------------------------------------------------------------------
(* The other steps. *)

LEMMA SerialInit == Init => SerialInv
<1> SUFFICES ASSUME Init PROVE SerialInv
  OBVIOUS
<1>1. OfferInv
  BY InvInit DEF Init, OfferInv, Offers, Offerable, NoBatch
<1>2. StateMatchesPending /\ Rows
  BY DEF Init, StateMatchesPending, StateFor, Rows, OfferedRows, Kept, Repeats, NoRun
<1>3. ASSUME NEW r \in Requests PROVE Serial(r)
  <2>1. pc[r] = "idle" /\ checkpoint.next = "none" /\ ask[r] = NoAnswer
    BY DEF Init, NoRun
  <2> QED  BY <2>1 DEF Serial, Place, Position, Stopped, Answering, Turn, Answer, Inside,
                       BeforeReturn, InExecutor
<1> QED  BY <1>1, <1>2, <1>3 DEF SerialInv

\* Accepting a request.
LEMMA EnterSerial ==
  ASSUME SerialInv, OneAtATime, OfferInv', NEW r \in Requests, EnterStep(r)
  PROVE  SerialInv'
<1>0. TypeOK /\ TypeOK' /\ Serial(r)
  BY DEF SerialInv, OfferInv, IInv
<1>1. /\ session' = session /\ checkpoint' = checkpoint /\ graph' = graph /\ batch' = batch
      /\ pc[r] = "idle" /\ pc'[r] = "load"
  BY <1>0 DEF EnterStep, TriggerEvent, SubmitDecision, At, Goto, TypeOK
<1>2. /\ DOMAIN proposals' = DOMAIN proposals
      /\ \A p \in DOMAIN proposals : proposals'[p].status = proposals[p].status
  <2>1. CASE TriggerEvent(r)
    BY <2>1 DEF TriggerEvent
  <2>2. CASE SubmitDecision(r)
    <3>1. PICK act \in Decision :
            proposals' = [proposals EXCEPT ![session.pending] = Asked(@, act)]
      BY <2>2 DEF SubmitDecision
    <3>2. session.pending \in DOMAIN proposals /\ proposals \in Seq(Proposal)
      BY <1>0, <2>2 DEF SubmitDecision, TypeOK
    <3> QED  BY <3>1, <3>2, RowStatuses
  <2> QED  BY <2>1, <2>2 DEF EnterStep
<1>3. StateMatchesPending' /\ Rows'
  BY <1>1, <1>2, SameRows DEF SerialInv, StateMatchesPending
<1>4. /\ (Waiting <=> ask[r] # NoAnswer)' /\ (Waiting => ask[r].target = session.pending)'
      /\ (ask[r] # NoAnswer => ask[r].act # "none")'
  <2>1. CASE TriggerEvent(r)
    <3>1. ~Waiting' /\ ask'[r] = ask[r]
      BY <2>1 DEF TriggerEvent, Waiting
    <3>2. ask[r] = NoAnswer
      BY <1>0, <1>1 DEF Serial, Place
    <3> QED  BY <3>1, <3>2
  <2>2. CASE SubmitDecision(r)
    BY <1>0, <2>2 DEF SubmitDecision, Waiting, TypeOK, NoAnswer, Decision
  <2> QED  BY <2>1, <2>2 DEF EnterStep
<1>5. Stopped(checkpoint)'
  BY <1>0, <1>1 DEF Serial, Place, Stopped, Agrees, Waiting
<1>6. Serial(r)'
  BY <1>1, <1>4, <1>5 DEF Serial, Place, Position, Answering, Turn, Answer, Inside,
                          BeforeReturn, InExecutor
<1> QED  BY <1>3, <1>6 DEF SerialInv, OneAtATime

\* The checkpoint is read ...
LEMMA ResumeSerial ==
  ASSUME SerialInv, OneAtATime, OfferInv', NEW r \in Requests, LoadResume(r)
  PROVE  SerialInv'
<1>0. TypeOK /\ Serial(r)
  BY DEF SerialInv, OfferInv, IInv
<1>1. /\ session' = session /\ proposals' = proposals /\ checkpoint' = checkpoint
      /\ ask' = ask /\ graph'[r] = checkpoint /\ pc[r] = "load" /\ ask[r] # NoAnswer
      /\ pc'[r] = IF checkpoint.next = "approval_interrupt" THEN "resume" ELSE "node"
  BY <1>0 DEF LoadResume, At, Goto, TypeOK
<1>2. Waiting /\ Agrees(checkpoint) /\ ask[r].target = session.pending
  BY <1>0, <1>1, EdgeTyped DEF LoadResume, Serial, Place, Stopped, Nodes, AuditNodes
<1>3. StateMatchesPending' /\ Rows'
  BY <1>1, SameRows DEF SerialInv, StateMatchesPending
<1>4. Agrees(graph[r])' /\ Waiting'
  BY <1>1, <1>2 DEF Agrees, Waiting
<1>5. Place(r)'
  BY <1>0, <1>1, <1>2, <1>4 DEF Serial, Place, Position, Answering, Inside, BeforeReturn,
                                InExecutor
<1>6. Serial(r)'
  BY <1>1, <1>5 DEF Serial, Turn, Answer, InExecutor
<1> QED  BY <1>3, <1>6 DEF SerialInv, OneAtATime

\* ... and written.
LEMMA PutSerial ==
  ASSUME SerialInv, OneAtATime, OfferInv', NEW r \in Requests, PutCheckpoint(r)
  PROVE  SerialInv'
<1>0. TypeOK /\ Serial(r)
  BY DEF SerialInv, OfferInv, IInv
<1>1. /\ session' = session /\ proposals' = proposals /\ checkpoint' = graph[r]
      /\ pc[r] = "put"
  BY DEF PutCheckpoint, At
<1>2. Agrees(graph[r]) /\ graph[r].next # "execute_action" /\ NoApproval
  BY <1>0, <1>1 DEF Serial, Place, Position, Answer
<1>3. Rows'
  BY <1>1, <1>2 DEF SerialInv, Rows, OfferedRows, Declined, Kept, Repeats, NoApproval
<1>4. CASE graph[r].next = "END"
  <2>1. Stopped(checkpoint)'
    BY <1>1, <1>2 DEF Stopped, Agrees, Waiting
  <2>2. Finish(r)
    BY <1>4 DEF PutCheckpoint
  <2> QED  BY <1>1, <1>3, <2>1, <2>2, FinishSerial
<1>5. CASE graph[r].next # "END"
  <2>1. pc'[r] = "node" /\ graph'[r] = graph[r] /\ ask' = ask /\ batch' = batch
    BY <1>0, <1>5 DEF PutCheckpoint, Goto, TypeOK
  <2>2. StateMatchesPending'
    BY <1>1 DEF SerialInv, StateMatchesPending
  <2>3. Agrees(graph[r])'
    BY <1>1, <1>2, <2>1 DEF Agrees, Waiting
  <2>4. Serial(r)'
    BY <1>0, <1>1, <1>2, <2>1, <2>3
    DEF Serial, Place, Position, Answering, Turn, Answer, Inside, BeforeReturn, InExecutor
  <2> QED  BY <1>3, <2>2, <2>4 DEF SerialInv, OneAtATime
<1> QED  BY <1>4, <1>5

\* A step inside policy_check or execute_action that stays in its node.
LEMMA StaySerial ==
  ASSUME SerialInv, OneAtATime, OfferInv', NEW r \in Requests,
         pc[r] \in BeforeReturn, pc'[r] \in BeforeReturn, Position(r)', pc'[r] # "resume",
         session' = session, checkpoint' = checkpoint, graph' = graph, ask' = ask,
         Rows', Turn(r)', Answer(r)'
  PROVE  SerialInv'
<1>1. StateMatchesPending'
  BY DEF SerialInv, StateMatchesPending
<1>2. Serial(r)
  BY DEF SerialInv
<1>3. Agrees(graph[r])'
  BY <1>2 DEF Serial, Place, Agrees, Waiting, Inside
<1>4. Place(r)'
  BY <1>2, <1>3 DEF Serial, Place, Answering, Waiting, Inside, BeforeReturn, InExecutor
<1> QED  BY <1>1, <1>4 DEF SerialInv, Serial, OneAtATime

\* The last commit of policy_check or execute_action: only its return is left.
LEMMA LeaveSerial ==
  ASSUME SerialInv, OneAtATime, OfferInv', NEW r \in Requests,
         pc[r] \in BeforeReturn, pc'[r] = "return", Position(r)',
         StateMatchesPending', checkpoint' = checkpoint, graph' = graph, ask' = ask,
         OfferedRows', Repeats', NoApproval'
  PROVE  SerialInv'
<1>1. Serial(r)
  BY DEF SerialInv
<1>2. graph[r].next \in {"policy_check", "execute_action"} /\ Agrees(graph[r])
  BY <1>1 DEF Serial, Place, Position, Inside
<1>3. Agrees(graph[r])'
  BY <1>2 DEF Agrees
<1>4. Place(r)'
  BY <1>1, <1>3 DEF Serial, Place, Answering, Inside, BeforeReturn, InExecutor
<1>5. Turn(r)' /\ Answer(r)'
  BY DEF Turn, Answer, InExecutor
<1>6. Kept'
  BY DEF NoApproval, Kept
<1> QED  BY <1>4, <1>5, <1>6 DEF SerialInv, Rows, Serial, OneAtATime

\* policy_check.
LEMMA PolicySerial ==
  ASSUME SerialInv, OneAtATime, OfferInv', NEW r \in Requests, PolicyStep(r)
  PROVE  SerialInv'
<1>0. /\ TypeOK /\ Serial(r) /\ RequestSafe(r) /\ batch[r] \in Batches /\ Offers
      /\ proposals \in Seq(Proposal) /\ OfferedRows /\ Kept /\ Repeats
  BY DEF SerialInv, OfferInv, IInv, Authority, TypeOK, Rows
<1>1. CASE PersistPlan(r)
  <2> DEFINE plan == graph[r].plan
  <2>1. plan \in Seq(Items)
    <3>1. graph[r].plan \in Plans \cup {<<>>} /\ <<>> \in Seq(Items)
      BY <1>0 DEF TypeOK, Runs
    <3> QED  BY <3>1, PlansAssumption
  <2>2. /\ proposals' = proposals \o NewProposals(plan)
        /\ batch'[r] = [at |-> Len(proposals) + 1, hi |-> Len(proposals) + Len(plan),
                        pending |-> None]
        /\ session' = session /\ checkpoint' = checkpoint /\ graph' = graph /\ ask' = ask
        /\ pc[r] = "node" /\ pc'[r] = "loop" /\ graph[r].next = "policy_check"
    BY <1>0, <1>1 DEF PersistPlan, InNode, At, Goto, TypeOK
  <2> HIDE DEF plan
  <2>3. /\ DOMAIN proposals' = 1..(Len(proposals) + Len(plan))
        /\ \A p \in DOMAIN proposals : proposals'[p] = proposals[p]
        /\ \A p \in DOMAIN proposals' \ DOMAIN proposals : proposals'[p].status = "proposed"
        /\ DOMAIN proposals \subseteq DOMAIN proposals'
    BY <1>0, <2>1, <2>2, AppendPlan
  <2>4. Rows'
    <3>1. OfferedRows'
      BY <1>0, <2>2, <2>3 DEF OfferedRows, Declined, Offers, Offerable
    <3>2. Kept'
      BY <1>0, <2>2, <2>3 DEF Kept, Waiting
    <3>3. Repeats'
      BY <1>0, <2>2, <2>3 DEF Repeats
    <3> QED  BY <3>1, <3>2, <3>3 DEF Rows
  <2>5. Turn(r)' /\ Answer(r)'
    BY <1>0, <2>1, <2>2, <2>3 DEF Turn, Answer, InExecutor, InPolicyCheck
  <2> QED  BY <2>2, <2>4, <2>5, StaySerial DEF Position, BeforeReturn, InExecutor
<1>2. CASE KeepForApproval(r)
  <2>1. /\ session' = session /\ checkpoint' = checkpoint /\ graph' = graph /\ ask' = ask
        /\ proposals' = proposals /\ pc' = pc /\ pc[r] = "loop"
        /\ batch'[r] = NextTurn(batch[r], FirstOf(batch[r].pending, batch[r].at))
        /\ batch[r].at <= batch[r].hi
    BY <1>0, <1>2 DEF KeepForApproval, At, TypeOK
  <2>2. Rows' /\ Position(r)'
    BY <1>0, <2>1, SameRows DEF Serial, Place, Position, InExecutor
  <2>3. InPolicyCheck(r) /\ Turn(r)
    BY <1>0, <2>1 DEF Serial, Place, Position, InPolicyCheck
  <2>4. Turn(r)' /\ Answer(r)'
    BY <1>0, <2>1, <2>3 DEF Turn, Answer, InExecutor, InPolicyCheck, NextTurn, FirstOf,
                            Batches, None
  <2> QED  BY <2>1, <2>2, <2>4, StaySerial DEF BeforeReturn
<1>3. CASE AutoExecute(r)
  <2>1. /\ session' = session /\ checkpoint' = checkpoint /\ graph' = graph /\ ask' = ask
        /\ proposals' = proposals /\ pc[r] = "loop" /\ pc'[r] = "scoped"
        /\ batch' = batch /\ batch[r].at <= batch[r].hi
    BY <1>0, <1>3 DEF AutoExecute, At, Goto, TypeOK
  <2>2. InPolicyCheck(r) /\ Turn(r)
    BY <1>0, <2>1 DEF Serial, Place, Position, InPolicyCheck
  <2>3. Rows' /\ Position(r)'
    BY <1>0, <2>1, <2>2, SameRows DEF Position, InPolicyCheck, InExecutor
  <2>4. Turn(r)' /\ Answer(r)'
    BY <2>1, <2>2 DEF Turn, Answer, InExecutor, InPolicyCheck
  <2> QED  BY <2>1, <2>3, <2>4, StaySerial DEF BeforeReturn, InExecutor
<1>4. CASE RoutePolicy(r)
  <2> DEFINE b == batch[r].pending
  <2>1. /\ session' = [state |-> StateFor(b), pending |-> b]
        /\ pc[r] = "loop" /\ pc'[r] = "return" /\ proposals' = proposals
        /\ checkpoint' = checkpoint /\ graph' = graph /\ ask' = ask /\ batch' = batch
    BY <1>0, <1>4 DEF RoutePolicy, At, Goto, TypeOK
  <2>2. InPolicyCheck(r) /\ Turn(r) /\ checkpoint.next = "policy_check"
    BY <1>0, <2>1 DEF Serial, Place, Position, InPolicyCheck, Inside, BeforeReturn
  <2>3. StateMatchesPending' /\ Position(r)'
    BY <2>1, <2>2 DEF StateMatchesPending, Position, InPolicyCheck, InExecutor
  <2>4. NoApproval' /\ Repeats'
    BY <1>0, <2>1, <2>2 DEF Kept, NoApproval, Repeats
  <2>5. OfferedRows'
    BY <2>1, <2>2 DEF OfferedRows, Declined, Turn
  <2> QED  BY <2>1, <2>3, <2>4, <2>5, LeaveSerial DEF BeforeReturn
<1> QED  BY <1>1, <1>2, <1>3, <1>4 DEF PolicyStep

\* The values the node returns: the session row as it is by then.
LEMMA ReturnSerial ==
  ASSUME SerialInv, OneAtATime, OfferInv', NEW r \in Requests, ReturnNode(r)
  PROVE  SerialInv'
<1>0. TypeOK /\ Serial(r) /\ graph[r] \in Runs /\ StateMatchesPending
  BY DEF SerialInv, OfferInv, IInv, TypeOK
<1> DEFINE p == session.pending
<1>1. /\ pc[r] = "return" /\ pc'[r] = "put" /\ session' = session /\ proposals' = proposals
      /\ checkpoint' = checkpoint /\ ask' = ask
  BY <1>0 DEF ReturnNode, Return, At, Goto, TypeOK
<1>2. graph'[r].pending = p /\ graph'[r].next = Route(p)
  BY <1>0, <1>1 DEF ReturnNode, Return, TypeOK, Runs, Serial, Place, Position
<1>3. StateMatchesPending' /\ Rows'
  BY <1>1, SameRows DEF SerialInv, StateMatchesPending
<1>4. Agrees(graph[r])' /\ graph'[r].next # "execute_action"
  BY <1>0, <1>1, <1>2 DEF Agrees, Waiting, StateMatchesPending, StateFor, Route, None
<1>5. Place(r)'
  BY <1>0, <1>1, <1>4 DEF Serial, Place, Position, Answering, Inside, BeforeReturn,
                          InExecutor
<1>6. Turn(r)' /\ Answer(r)'
  BY <1>0, <1>1 DEF Serial, Turn, Answer, NoApproval, InExecutor
<1> QED  BY <1>3, <1>5, <1>6 DEF SerialInv, Serial, OneAtATime

\* The row an answer of the stored run is about.
LEMMA AnswersStored ==
  ASSUME SerialInv, NEW r \in Requests, NEW acts, AnswerIs(r, acts)
  PROVE  /\ graph[r].next = "execute_action" /\ pc[r] = "node" /\ checkpoint = graph[r]
         /\ graph[r].pending \in DOMAIN proposals
         /\ proposals[graph[r].pending] \in Proposal
         /\ Waiting /\ ask[r].target = session.pending
<1>0. Serial(r) /\ Repeats /\ proposals \in Seq(Proposal)
  BY DEF SerialInv, OfferInv, IInv, TypeOK, Rows
<1>1. /\ pc[r] = "node" /\ graph[r].next = "execute_action" /\ checkpoint = graph[r]
      /\ Waiting /\ ask[r].target = session.pending
  BY <1>0 DEF AnswerIs, InNode, At, Serial, Place, Answering, Inside, BeforeReturn
<1> QED  BY <1>0, <1>1 DEF Repeats

\* approval_interrupt and execute_action.
LEMMA ApprovalSerial ==
  ASSUME SerialInv, OneAtATime, OfferInv', NEW r \in Requests, ApprovalStep(r)
  PROVE  SerialInv'
<1>0. /\ TypeOK /\ Serial(r) /\ RequestSafe(r) /\ graph[r] \in Runs /\ Offers
      /\ proposals \in Seq(Proposal) /\ OfferedRows /\ Kept /\ Repeats
      /\ StateMatchesPending
  BY DEF SerialInv, OfferInv, IInv, Authority, TypeOK, Rows
<1>1. CASE Interrupt(r)
  BY <1>1, BreakSerial DEF Interrupt, InNode, At, Inside, BeforeReturn
<1>2. CASE ResumeInterrupt(r)
  <2> DEFINE run == [graph[r] EXCEPT !.answer = ask[r], !.next = "execute_action"]
  <2>1. /\ run.next = "execute_action" /\ run.pending = graph[r].pending
        /\ run.answer = ask[r]
    BY <1>0 DEF Runs
  <2>2. /\ pc[r] = "resume" /\ graph[r].next = "approval_interrupt"
        /\ checkpoint = graph[r] /\ Agrees(graph[r]) /\ Waiting
        /\ ask[r].target = session.pending /\ ask[r].act # "none"
    BY <1>0, <1>2 DEF ResumeInterrupt, At, Serial, Place, Position, Answering, Inside,
                      BeforeReturn
  <2>3. graph[r].pending = session.pending /\ session.pending # None
    BY <1>0, <2>2 DEF Agrees, StateMatchesPending, StateFor, Waiting
  <2>4. Agrees(run) /\ NoApproval
    BY <1>0, <2>1, <2>2, <2>3 DEF Agrees, NoApproval, Kept
  <2> HIDE DEF run
  <2>5. ReturnAndPut(r, run)
    BY <1>2 DEF ResumeInterrupt, run
  <2> QED  BY <2>1, <2>2, <2>3, <2>4, <2>5, MoveSerial
<1>3. CASE DecisionMismatch(r)
  BY <1>3, BreakSerial DEF DecisionMismatch, InNode, At, Inside, BeforeReturn
<1>4. CASE ApproveProposal(r)
  <2> DEFINE p == graph[r].pending
  <2>1. /\ graph[r].next = "execute_action" /\ pc[r] = "node" /\ checkpoint = graph[r]
        /\ p \in DOMAIN proposals /\ proposals[p] \in Proposal /\ Waiting
        /\ graph[r].answer.target = p /\ graph[r].answer.act = "approve"
    BY <1>4, AnswersStored DEF ApproveProposal, AnswerIs
  <2>2. graph[r].answer = [act |-> "approve", target |-> p]
    BY <1>0, <2>1 DEF Runs, Answers
  <2>3. /\ proposals' = [proposals EXCEPT ![p] = Decided(@, "approve")]
        /\ session' = session /\ checkpoint' = checkpoint /\ graph' = graph /\ ask' = ask
        /\ pc'[r] = "scoped" /\ batch' = batch
    BY <1>0, <1>4, <2>1 DEF ApproveProposal, Goto, TypeOK
  <2> HIDE DEF p
  <2>4. /\ DOMAIN proposals' = DOMAIN proposals /\ proposals'[p].status = "approved"
        /\ \A q \in DOMAIN proposals : q # p => proposals'[q] = proposals[q]
    BY <1>0, <2>1, <2>3, RowStatuses DEF Decision
  <2>5. Rows'
    <3>1. OfferedRows'
      BY <1>0, <2>3, <2>4 DEF OfferedRows, Declined, Offers, Offerable
    <3>2. Kept'
      BY <1>0, <2>1, <2>2, <2>3, <2>4 DEF Kept, Waiting, p
    <3>3. Repeats'
      BY <1>0, <2>1, <2>3, <2>4 DEF Repeats, p
    <3> QED  BY <3>1, <3>2, <3>3 DEF Rows
  <2>6. Turn(r)' /\ Answer(r)' /\ Position(r)'
    BY <2>1, <2>3, <2>4 DEF Turn, Answer, Position, InExecutor, InPolicyCheck, p
  <2> QED  BY <2>1, <2>3, <2>5, <2>6, StaySerial DEF BeforeReturn, InExecutor
<1>5. CASE DeclineProposal(r)
  <2> DEFINE p == graph[r].pending
             act == graph[r].answer.act
  <2>1. /\ graph[r].next = "execute_action" /\ pc[r] = "node" /\ checkpoint = graph[r]
        /\ p \in DOMAIN proposals /\ proposals[p] \in Proposal /\ Waiting
        /\ ask[r].target = session.pending
        /\ act \in {"reject", "revise"} /\ act \in Decision
    BY <1>5, AnswersStored DEF DeclineProposal, AnswerIs, Decision
  <2>2. /\ proposals' = [proposals EXCEPT ![p] = Decided(@, act)]
        /\ pc'[r] = "return" /\ checkpoint' = checkpoint /\ graph' = graph /\ ask' = ask
    BY <1>0, <1>5, <2>1 DEF DeclineProposal, Goto, TypeOK
  <2>3. PICK nxt \in {None} \cup DOMAIN proposals :
          /\ IsNextPending(nxt, proposals')
          /\ session' = [state |-> IF nxt = None THEN "Monitoring" ELSE session.state,
                         pending |-> IF nxt = ask[r].target THEN session.pending ELSE nxt]
    BY <1>5 DEF DeclineProposal
  <2> HIDE DEF p, act
  <2>4. /\ DOMAIN proposals' = DOMAIN proposals
        /\ act = "reject" => proposals'[p].status = "rejected"
        /\ act = "revise" => proposals'[p].status = "deferred"
        /\ \A q \in DOMAIN proposals : q # p => proposals'[q] = proposals[q]
    BY <1>0, <2>1, <2>2, RowStatuses
  <2>5. session' = [state |-> StateFor(nxt), pending |-> nxt]
    BY <2>1, <2>3 DEF StateFor, Waiting
  <2>6. StateMatchesPending' /\ Position(r)'
    BY <2>1, <2>2, <2>5 DEF StateMatchesPending, Position, InPolicyCheck, InExecutor
  <2>7. OfferedRows'
    BY <2>3, <2>5 DEF OfferedRows, Declined, IsNextPending, Open
  <2>8. NoApproval'
    <3>1. ASSUME NEW q \in DOMAIN proposals, proposals[q].status = "approved" PROVE q = p
      BY <1>0, <2>1, <3>1 DEF Kept, p
    <3>2. proposals'[p].status # "approved"
      BY <2>1, <2>4
    <3> QED  BY <2>4, <3>1, <3>2 DEF NoApproval
  <2>9. Repeats'
    BY <1>0, <2>1, <2>2, <2>4 DEF Repeats, p, act
  <2> QED  BY <2>1, <2>2, <2>6, <2>7, <2>8, <2>9, LeaveSerial DEF BeforeReturn
<1>6. CASE SettleApproval(r)
  <2>1. PICK nxt \in {None} \cup DOMAIN proposals :
          /\ IsNextPending(nxt, proposals)
          /\ session' = [state |-> StateFor(nxt), pending |-> nxt]
    BY <1>6 DEF SettleApproval
  <2>2. /\ pc[r] = "settle" /\ pc'[r] = "return" /\ proposals' = proposals
        /\ checkpoint' = checkpoint /\ graph' = graph /\ ask' = ask
    BY <1>0, <1>6 DEF SettleApproval, At, Goto, TypeOK
  <2>3. /\ graph[r].next = "execute_action" /\ checkpoint = graph[r]
        /\ proposals[graph[r].pending].status # "approved"
    BY <1>0, <2>2 DEF Serial, Place, Position, Answer, Inside, BeforeReturn
  <2>4. StateMatchesPending' /\ Position(r)'
    BY <2>1, <2>2, <2>3 DEF StateMatchesPending, Position, InPolicyCheck, InExecutor
  <2>5. OfferedRows'
    BY <2>1, <2>2 DEF OfferedRows, Declined, IsNextPending, Open
  <2>6. NoApproval' /\ Repeats'
    BY <1>0, <2>2, <2>3 DEF Kept, NoApproval, Repeats
  <2> QED  BY <2>2, <2>4, <2>5, <2>6, LeaveSerial DEF BeforeReturn
<1> QED  BY <1>1, <1>2, <1>3, <1>4, <1>5, <1>6 DEF ApprovalStep

\* execute_scoped and execute.
LEMMA ExecutorSerial ==
  ASSUME SerialInv, OneAtATime, OfferInv', NEW r \in Requests, ExecutorStep(r)
  PROVE  SerialInv'
<1>0. /\ TypeOK /\ Serial(r) /\ RequestSafe(r) /\ batch[r] \in Batches /\ Offers
      /\ proposals \in Seq(Proposal) /\ OfferedRows /\ Kept /\ Repeats
  BY DEF SerialInv, OfferInv, IInv, Authority, TypeOK, Rows
<1>1. ASSUME pc[r] \in InExecutor
      PROVE  /\ Target(r) \in DOMAIN proposals /\ proposals[Target(r)] \in Proposal
             /\ proposals[Target(r)].status \in {"proposed", "approved"}
             /\ graph[r].next \in {"policy_check", "execute_action"}
             /\ checkpoint = graph[r]
             /\ InPolicyCheck(r) => batch[r].at <= batch[r].hi
  <2>1. Target(r) \in DOMAIN proposals /\ proposals[Target(r)] \in Proposal
    BY <1>0, <1>1 DEF RequestSafe, Authorised, InExecutor
  <2>2. graph[r].next \in {"policy_check", "execute_action"} /\ checkpoint = graph[r]
    BY <1>0, <1>1 DEF Serial, Place, Position, Inside, BeforeReturn, InExecutor
  <2>3. CASE InPolicyCheck(r)
    BY <1>0, <1>1, <2>1, <2>2, <2>3 DEF Serial, Turn, Target, Batches
  <2>4. CASE ~InPolicyCheck(r)
    BY <1>0, <1>1, <2>1, <2>2, <2>4 DEF Serial, Answer, Target, InPolicyCheck
  <2> QED  BY <2>1, <2>2, <2>3, <2>4
<1>2. CASE ReturnExisting(r)
  BY <1>1, <1>2 DEF ReturnExisting, At, InExecutor
<1>3. CASE PassGuard(r)
  <2>1. /\ session' = session /\ checkpoint' = checkpoint /\ graph' = graph /\ ask' = ask
        /\ proposals' = proposals /\ batch' = batch /\ pc[r] = "scoped" /\ pc'[r] = "apply"
    BY <1>0, <1>3 DEF PassGuard, At, Goto, TypeOK
  <2>2. Rows' /\ Position(r)'
    BY <1>0, <2>1, SameRows DEF Serial, Place, Position, InExecutor
  <2>3. Turn(r)' /\ Answer(r)'
    BY <1>0, <2>1 DEF Serial, Turn, Answer, InPolicyCheck, InExecutor
  <2> QED  BY <2>1, <2>2, <2>3, StaySerial DEF BeforeReturn, InExecutor
<1>4. CASE RefuseExecution(r)
  BY <1>4, BreakSerial DEF RefuseExecution, At, Inside, BeforeReturn, InExecutor
<1>5. CASE ApplyHandler(r)
  <2>1. /\ session' = session /\ checkpoint' = checkpoint /\ graph' = graph /\ ask' = ask
        /\ batch' = batch /\ pc[r] = "apply" /\ pc'[r] = "record"
    BY <1>0, <1>5 DEF ApplyHandler, At, Goto, TypeOK
  <2>2. /\ DOMAIN proposals' = DOMAIN proposals
        /\ \A p \in DOMAIN proposals : proposals'[p].status = proposals[p].status
    <3>1. "approve" \in Decision /\ Target(r) \in DOMAIN proposals
      BY <1>1, <2>1 DEF Decision, InExecutor
    <3> QED  BY <1>0, <1>5, <3>1, RowStatuses DEF ApplyHandler
  <2>3. Rows' /\ Position(r)'
    BY <1>0, <2>1, <2>2, SameRows DEF Serial, Place, Position, InExecutor
  <2>4. Turn(r)'
    BY <1>0, <2>1, <2>2 DEF Serial, Turn, InPolicyCheck, InExecutor, RequestSafe,
                            LoopInBounds, Batches, Offers, Offerable
  <2>5. Answer(r)'
    BY <1>0, <1>1, <2>1, <2>2 DEF Serial, Answer, InPolicyCheck, InExecutor, Target
  <2> QED  BY <2>1, <2>3, <2>4, <2>5, StaySerial DEF BeforeReturn, InExecutor
<1>6. CASE RecordExecution(r)
  <2> DEFINE p == Target(r)
  <2>1. /\ session' = session /\ checkpoint' = checkpoint /\ graph' = graph /\ ask' = ask
        /\ proposals' = [proposals EXCEPT ![p] = Recorded(@)]
        /\ pc[r] = "record" /\ pc'[r] = IF InPolicyCheck(r) THEN "loop" ELSE "settle"
        /\ batch'[r] = IF InPolicyCheck(r) THEN NextTurn(batch[r], batch[r].pending)
                       ELSE batch[r]
    BY <1>0, <1>6 DEF RecordExecution, BackToCaller, At, Goto, TypeOK
  <2>2. /\ p \in DOMAIN proposals /\ proposals[p] \in Proposal
        /\ graph[r].next \in {"policy_check", "execute_action"}
        /\ checkpoint = graph[r]
        /\ InPolicyCheck(r) => batch[r].at <= batch[r].hi /\ p = batch[r].at
        /\ ~InPolicyCheck(r) => p = graph[r].pending
    BY <1>1, <2>1 DEF InExecutor, Target
  <2> HIDE DEF p
  <2>3. /\ DOMAIN proposals' = DOMAIN proposals
        /\ proposals'[p].status \in {"executed", "failed"}
        /\ \A q \in DOMAIN proposals : q # p => proposals'[q] = proposals[q]
    <3>1. "approve" \in Decision
      BY DEF Decision
    <3> QED  BY <1>0, <2>1, <2>2, <3>1, RowStatuses
  <2>4. Rows'
    <3>1. OfferedRows'
      BY <1>0, <2>1, <2>3 DEF OfferedRows, Declined, Offers, Offerable
    <3>2. Kept'
      BY <1>0, <2>1, <2>3 DEF Kept, Waiting
    <3>3. Repeats'
      BY <1>0, <2>1, <2>3 DEF Repeats
    <3> QED  BY <3>1, <3>2, <3>3 DEF Rows
  <2>5. Position(r)' /\ pc'[r] \in BeforeReturn /\ pc'[r] # "resume"
    BY <2>1, <2>2 DEF Position, InPolicyCheck, BeforeReturn, InExecutor
  <2>6. Turn(r)'
    <3>1. CASE InPolicyCheck(r)
      <4>1. /\ batch'[r].at = batch[r].at + 1 /\ batch'[r].hi = batch[r].hi
            /\ batch'[r].pending = batch[r].pending
            /\ batch[r].at \in Nat /\ batch[r].hi \in Nat /\ batch[r].pending \in Nat
            /\ batch[r].hi <= Len(proposals)
        BY <1>0, <2>1, <3>1 DEF NextTurn, Batches, RequestSafe, LoopInBounds
      <4>2. Turn(r)
        BY <1>0 DEF Serial
      <4>3. \A q \in batch[r].at + 1..batch[r].hi : q \in DOMAIN proposals /\ q # p
        BY <1>0, <2>2, <3>1, <4>1 DEF RequestSafe, LoopInBounds
      <4>4. \A q \in batch'[r].at..batch'[r].hi : proposals'[q].status = "proposed"
        BY <2>1, <2>3, <3>1, <4>1, <4>2, <4>3 DEF Turn, InExecutor
      <4>5. batch'[r].pending # None =>
              /\ batch'[r].pending < batch'[r].at
              /\ proposals'[batch'[r].pending].status = "proposed"
        BY <1>0, <2>1, <2>2, <2>3, <3>1, <4>1, <4>2 DEF Turn, InExecutor, Offers, Offerable
      <4> QED  BY <2>1, <3>1, <4>4, <4>5 DEF Turn, InExecutor
    <3>2. CASE ~InPolicyCheck(r)
      BY <2>1, <3>2 DEF Turn, InPolicyCheck
    <3> QED  BY <3>1, <3>2
  <2>7. Answer(r)'
    BY <2>1, <2>2, <2>3 DEF Answer, InExecutor, InPolicyCheck
  <2> QED  BY <2>1, <2>4, <2>5, <2>6, <2>7, StaySerial DEF BeforeReturn, InExecutor
<1> QED  BY <1>2, <1>3, <1>4, <1>5, <1>6 DEF ExecutorStep

LEMMA SerialNext == OneAtATime /\ SerialInv /\ [Next]_vars => SerialInv'
<1> SUFFICES ASSUME OneAtATime, SerialInv, [Next]_vars PROVE SerialInv'
  OBVIOUS
<1>0. /\ OfferInv' /\ TypeOK /\ \A r \in Requests : Serial(r) /\ graph[r] \in Runs
      /\ checkpoint \in Runs
  BY OfferNext DEF SerialInv, OfferInv, IInv, TypeOK
<1>1. ASSUME NEW r \in Requests, LoadInput(r) PROVE SerialInv'
  <2> DEFINE run == [checkpoint EXCEPT !.next = "data_refresh"]
  <2>1. ~Waiting
    BY <1>0, <1>1 DEF LoadInput, At, Serial, Place
  <2>2. run.next = "data_refresh"
    BY <1>0 DEF Runs
  <2>3. Agrees(run)
    BY <2>1, <2>2 DEF Agrees
  <2> HIDE DEF run
  <2>4. ReturnAndPut(r, run)
    BY <1>1 DEF LoadInput, run
  <2> QED  BY <1>0, <2>1, <2>2, <2>3, <2>4, NothingApproved, MoveSerial
<1>2. ASSUME NEW r \in Requests, LoadNothing(r) PROVE SerialInv'
  BY <1>0, <1>2, BreakSerial DEF LoadNothing, At
<1>3. ASSUME NEW r \in Requests, AuditNode(r) PROVE SerialInv'
  <2> DEFINE run == [graph[r] EXCEPT !.next = Edge[graph[r].next]]
  <2>1. Agrees(graph[r]) /\ graph[r].next \in AuditNodes
    BY <1>0, <1>3 DEF AuditNode, At, Serial, Place, Inside, BeforeReturn
  <2>2. run.next = Edge[graph[r].next]
    BY <1>0 DEF Runs
  <2>3. run.next \in {"signal_detect", "signal_gate", "build_context", "spawn_agent",
                      "policy_check", "update_memory"}
    BY <2>1, <2>2 DEF Edge, AuditNodes
  <2>4. Agrees(run) /\ ~Waiting
    BY <2>1, <2>3 DEF Agrees, AuditNodes
  <2> HIDE DEF run
  <2>5. ReturnAndPut(r, run)
    BY <1>3 DEF AuditNode, run
  <2> QED  BY <1>0, <2>3, <2>4, <2>5, NothingApproved, MoveSerial
<1>4. ASSUME NEW r \in Requests, SpawnAgent(r) PROVE SerialInv'
  <2>1. PICK plan \in Plans : ReturnAndPut(r,
          [graph[r] EXCEPT !.next = "validate_output", !.plan = plan])
    BY <1>4 DEF SpawnAgent
  <2> DEFINE run == [graph[r] EXCEPT !.next = "validate_output", !.plan = plan]
  <2>2. Agrees(graph[r]) /\ graph[r].next = "spawn_agent" /\ run.next = "validate_output"
    BY <1>0, <1>4 DEF SpawnAgent, InNode, At, Serial, Place, Inside, BeforeReturn, Runs
  <2>3. Agrees(run) /\ ~Waiting
    BY <2>2 DEF Agrees
  <2> HIDE DEF run
  <2>4. ReturnAndPut(r, run)
    BY <2>1 DEF run
  <2> QED  BY <1>0, <2>2, <2>3, <2>4, NothingApproved, MoveSerial
<1>5. ASSUME NEW r \in Requests, AgentJobFails(r) PROVE SerialInv'
  BY <1>0, <1>5, BreakSerial DEF AgentJobFails, InNode, At, Inside, BeforeReturn
<1>6. ASSUME NEW r \in Requests, UpdateMemory(r) PROVE SerialInv'
  <2>1. /\ pc[r] = "node" /\ pc'[r] = "put" /\ graph[r].next = "update_memory"
        /\ graph'[r] = [graph[r] EXCEPT !.next = "END"] /\ proposals' = proposals
        /\ checkpoint' = checkpoint /\ ask' = ask
    BY <1>0, <1>6 DEF UpdateMemory, InNode, At, Return, Goto, TypeOK
  <2>2. ~Waiting /\ session.pending = None
    BY <1>0, <2>1 DEF Serial, Place, Inside, BeforeReturn, Agrees, SerialInv,
                      StateMatchesPending, StateFor, Waiting
  <2>3. session' = session
    BY <1>0, <1>6, <2>2 DEF UpdateMemory, TypeOK, SerialInv, StateMatchesPending, StateFor
  <2>4. StateMatchesPending' /\ Rows'
    BY <2>1, <2>3, SameRows DEF SerialInv, StateMatchesPending
  <2>5. Agrees(graph[r])' /\ graph'[r].next = "END"
    BY <1>0, <2>1, <2>2, <2>3 DEF Agrees, Waiting, Runs
  <2>6. Place(r)'
    BY <1>0, <2>1, <2>5 DEF Serial, Place, Position, Answering, Inside, BeforeReturn,
                            InExecutor
  <2>7. Turn(r)' /\ Answer(r)'
    BY <2>1, <2>2, NothingApproved DEF Turn, Answer, NoApproval, InExecutor
  <2> QED  BY <1>0, <2>4, <2>6, <2>7 DEF SerialInv, Serial, OneAtATime
<1>7. ASSUME NEW r \in Requests, NodeFails(r) PROVE SerialInv'
  BY <1>0, <1>7, BreakSerial DEF NodeFails, Inside, BeforeReturn, InExecutor
<1>8. ASSUME NEW r \in Requests, Disconnect(r) PROVE SerialInv'
  BY <1>0, <1>8, BreakSerial DEF Disconnect, Inside, BeforeReturn
<1>9. CASE Restart
  <2>1. StateMatchesPending' /\ Rows'
    BY <1>9 DEF Restart, SerialInv, StateMatchesPending, Rows, OfferedRows, Declined, Kept,
                Waiting, Repeats, NoRun
  <2>2. ASSUME NEW r \in Requests PROVE Serial(r)'
    BY <1>9 DEF Restart, Serial, Place, Position, Stopped, NoRun, Answering, Turn, Answer,
                Inside, BeforeReturn, InExecutor
  <2> QED  BY <1>0, <2>1, <2>2 DEF SerialInv
<1>10. CASE NoMoreRequests \/ UNCHANGED vars
  <2>1. UNCHANGED vars
    BY <1>10 DEF NoMoreRequests
  <2>2. StateMatchesPending' /\ Rows'
    BY <2>1, SameRows DEF vars, SerialInv, StateMatchesPending
  <2>3. ASSUME NEW r \in Requests PROVE Serial(r)'
    <3>1. Place(r)'
      BY <1>0, <2>1 DEF vars, Serial, Place, Position, Stopped, Agrees, Waiting, Answering,
                        InPolicyCheck
    <3>2. Turn(r)' /\ Answer(r)'
      BY <1>0, <2>1 DEF vars, Serial, Turn, Answer, NoApproval, InPolicyCheck
    <3> QED  BY <3>1, <3>2 DEF Serial
  <2> QED  BY <1>0, <2>2, <2>3 DEF SerialInv
<1> QED
  BY <1>0, <1>1, <1>2, <1>3, <1>4, <1>5, <1>6, <1>7, <1>8, <1>9, <1>10, EnterSerial,
     ResumeSerial, PutSerial, PolicySerial, ApprovalSerial, ExecutorSerial, ReturnSerial
  DEF Next, LoadStep, RequestStep, FaultStep

LEMMA SerialCorrect == ASSUME OneAtATime PROVE Spec => []SerialInv
<1>1. SerialInv /\ [Next]_vars => SerialInv'
  BY SerialNext
<1> QED  BY <1>1, SerialInit, PTL DEF Spec

\* No step gives a declined proposal another status.
LEMMA DeclinedKept ==
  OneAtATime /\ SerialInv /\ [Next]_vars =>
    \A p \in DOMAIN proposals : Declined(p) => proposals'[p].status = proposals[p].status
<1> SUFFICES ASSUME OneAtATime, SerialInv, [Next]_vars,
                    NEW p \in DOMAIN proposals, Declined(p)
             PROVE  proposals'[p].status = proposals[p].status
  OBVIOUS
<1>0. /\ TypeOK /\ proposals \in Seq(Proposal) /\ proposals[p] \in Proposal /\ Repeats
      /\ \A r \in Requests : Serial(r) /\ RequestSafe(r) /\ batch[r] \in Batches
      /\ "approve" \in Decision
  BY DEF SerialInv, OfferInv, IInv, Authority, TypeOK, Decision, Rows
<1>1. ASSUME NEW r \in Requests, SubmitDecision(r)
      PROVE  proposals'[p].status = proposals[p].status
  BY <1>0, <1>1, RowStatuses DEF SubmitDecision
<1>2. ASSUME NEW r \in Requests, PersistPlan(r)
      PROVE  proposals'[p].status = proposals[p].status
  <2> DEFINE plan == graph[r].plan
  <2>1. plan \in Seq(Items)
    <3>1. graph[r].plan \in Plans \cup {<<>>} /\ <<>> \in Seq(Items)
      BY <1>0 DEF TypeOK, Runs
    <3> QED  BY <3>1, PlansAssumption
  <2>2. proposals' = proposals \o NewProposals(plan)
    BY <1>2 DEF PersistPlan
  <2> HIDE DEF plan
  <2> QED  BY <1>0, <2>1, <2>2, AppendPlan
\* The answer to a proposal that was declined can only be the same once more.
<1>3. ASSUME NEW r \in Requests, ApproveProposal(r)
      PROVE  proposals'[p].status = proposals[p].status
  <2>1. checkpoint = graph[r] /\ graph[r].next = "execute_action"
        /\ graph[r].answer.act = "approve"
    BY <1>3, AnswersStored DEF ApproveProposal, AnswerIs
  <2>2. p # graph[r].pending
    BY <1>0, <2>1 DEF Repeats, Declined
  <2> QED  BY <1>0, <1>3, <2>2 DEF ApproveProposal
<1>4. ASSUME NEW r \in Requests, DeclineProposal(r)
      PROVE  proposals'[p].status = proposals[p].status
  <2> DEFINE act == graph[r].answer.act
  <2>1. /\ checkpoint = graph[r] /\ graph[r].next = "execute_action"
        /\ act \in {"reject", "revise"} /\ act \in Decision
    BY <1>4, AnswersStored DEF DeclineProposal, AnswerIs, Decision
  <2>2. proposals' = [proposals EXCEPT ![graph[r].pending] = Decided(@, act)]
    BY <1>4 DEF DeclineProposal
  <2>3. CASE p # graph[r].pending
    BY <1>0, <2>2, <2>3
  <2>4. CASE p = graph[r].pending
    <3>1. /\ proposals[p].status = "rejected" => act = "reject"
          /\ proposals[p].status = "deferred" => act = "revise"
      BY <1>0, <2>1, <2>4 DEF Repeats
    <3>2. proposals'[p] = Decided(proposals[p], act)
      BY <1>0, <2>2, <2>4
    <3> HIDE DEF act
    <3> QED  BY <1>0, <2>1, <3>1, <3>2, RowStatuses DEF Declined
  <2> QED  BY <2>3, <2>4
<1>5. ASSUME NEW r \in Requests, ApplyHandler(r)
      PROVE  proposals'[p].status = proposals[p].status
  BY <1>0, <1>5, RowStatuses DEF ApplyHandler
\* What runs is fresh or approved.
<1>6. ASSUME NEW r \in Requests, RecordExecution(r)
      PROVE  proposals'[p].status = proposals[p].status
  <2>1. /\ pc[r] = "record" /\ graph[r].next \in {"policy_check", "execute_action"}
    BY <1>0, <1>6 DEF RecordExecution, At, Serial, Place, Position, InExecutor
  <2>2. proposals[Target(r)].status \in {"proposed", "approved"}
    BY <1>0, <2>1 DEF Serial, Turn, Answer, Target, InPolicyCheck, InExecutor, Batches
  <2>3. p # Target(r)
    BY <2>2 DEF Declined
  <2> QED  BY <1>0, <1>6, <2>3 DEF RecordExecution
<1>7. ASSUME NEW r \in Requests,
             \/ TriggerEvent(r) \/ LoadStep(r) \/ PutCheckpoint(r) \/ AuditNode(r)
             \/ SpawnAgent(r) \/ AgentJobFails(r) \/ UpdateMemory(r) \/ FaultStep(r)
             \/ ReturnNode(r)
      PROVE  proposals' = proposals
  BY <1>7 DEF TriggerEvent, LoadStep, LoadInput, LoadResume, LoadNothing, PutCheckpoint,
              AuditNode, SpawnAgent, AgentJobFails, UpdateMemory, FaultStep, NodeFails,
              Disconnect, ReturnAndPut, ReturnNode, Return
<1>8. ASSUME NEW r \in Requests,
             \/ KeepForApproval(r) \/ AutoExecute(r) \/ RoutePolicy(r)
             \/ Interrupt(r) \/ ResumeInterrupt(r) \/ DecisionMismatch(r)
             \/ SettleApproval(r) \/ ReturnExisting(r) \/ PassGuard(r) \/ RefuseExecution(r)
      PROVE  proposals' = proposals
  BY <1>8 DEF KeepForApproval, AutoExecute, RoutePolicy, Interrupt, ResumeInterrupt,
              DecisionMismatch, SettleApproval, ReturnExisting, PassGuard, RefuseExecution,
              ReturnAndPut
<1>9. CASE Restart \/ NoMoreRequests \/ UNCHANGED vars
  BY <1>9 DEF Restart, NoMoreRequests, vars
<1> QED
  BY <1>1, <1>2, <1>3, <1>4, <1>5, <1>6, <1>7, <1>8, <1>9
  DEF Next, EnterStep, PolicyStep, ApprovalStep, ExecutorStep, RequestStep

\* With requests that do not overlap the two columns of the session row never
\* disagree, whatever fails between two commits, although three nodes write
\* them and one of them writes only what it believes to have changed.
THEOREM ColumnsAgree ==
  ASSUME OneAtATime
  PROVE  Spec => []StateMatchesPending
<1>1. SerialInv => StateMatchesPending
  BY DEF SerialInv
<1>2. Spec => []SerialInv
  BY SerialCorrect
<1> QED  BY <1>1, <1>2, PTL

\* With requests that do not overlap an approval that broke off anywhere, after
\* the node's last commit included, is never lost but by a restart: the session
\* waits, and the next answer finds this approval in the stored run.
THEOREM ApprovalsAreNotOrphaned ==
  ASSUME OneAtATime
  PROVE  Spec => []ApprovalIsKept
<1>1. SerialInv => ApprovalIsKept
  BY DEF SerialInv, Rows, Kept, Waiting, ApprovalIsKept
<1>2. Spec => []SerialInv
  BY SerialCorrect
<1> QED  BY <1>1, <1>2, PTL

\* With requests that do not overlap a declined proposal stays declined,
\* although a stored answer is replayed after a fault and execute_action writes
\* the status without looking at it.
THEOREM DeclinedStayDeclined ==
  ASSUME OneAtATime
  PROVE  Spec => DeclinedStays
<1> DEFINE Stays ==
      \A p \in DOMAIN proposals : proposals[p].status \in {"rejected", "deferred"}
        => proposals'[p].status = proposals[p].status
<1>1. SerialInv /\ [Next]_vars => [Stays]_vars
  BY DeclinedKept DEF Declined
<1>2. Spec => []SerialInv
  BY SerialCorrect
<1>3. Spec => [][Stays]_vars
  <2> HIDE DEF Stays
  <2> QED  BY <1>1, <1>2, PTL DEF Spec
<1> QED  BY <1>3 DEF DeclinedStays

=============================================================================
