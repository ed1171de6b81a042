---------------------------- MODULE MC_Workflow ----------------------------
(***************************************************************************)
(* Values of Workflow's constants for TLC.                                 *)
(***************************************************************************)
EXTENDS WorkflowRefinement, TLC

Report == [kind |-> "report", external |-> FALSE]
Rebalance == [kind |-> "rebalance_portfolio", external |-> TRUE]
Insurance == [kind |-> "review_insurance", external |-> TRUE]

\* The plans of the local stub, shortened: nothing to do, a report only, a
\* report and one gated action, a report and two gated ones.
StubPlans ==
  { <<>>, <<Report>>, <<Report, Insurance>>, <<Report, Rebalance, Insurance>> }

\* A report between two actions that need approval.
ShortPlans == { <<>>, <<Rebalance, Report, Insurance>> }

\* Requests differ only in name.
RequestSymmetry == Permutations(Requests)

\* Every proposal of a behaviour: at most three for each signal.
ProposalIds == 1..(3 * MaxEvents)

\* An approval that was accepted is carried out (submit_decision to execute()).
ApprovalsHonoured == \A p \in ProposalIds : ApprovalHonoured(p)

\* Every accepted decision takes its proposal off the table, so that the
\* session moves to the next one or back to Monitoring.
DecisionsSettle == \A p \in ProposalIds : DecisionSettles(p)

=============================================================================
