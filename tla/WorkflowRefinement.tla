------------------------- MODULE WorkflowRefinement -------------------------
(***************************************************************************)
(* What a proposal's status and the session row mean to the customer: the  *)
(* mapping under which Workflow keeps the promise of Approval.             *)
(***************************************************************************)
EXTENDS Workflow

PhaseOf(row) ==
  CASE row.status = "proposed" /\ ~NeedsApproval(row.item) -> "auto"
    [] row.status = "proposed" /\ NeedsApproval(row.item) -> "open"
    [] row.status = "approved" -> "approved"
    [] row.status \in {"executed", "failed"} -> "done"
    [] row.status \in {"rejected", "deferred"} -> "declined"

Phases(ps) == [p \in DOMAIN ps |-> PhaseOf(ps[p])]
Counts(ps) == [p \in DOMAIN ps |-> ps[p].executions]

Promise == INSTANCE Approval WITH
  PlanSizes <- {Len(plan) : plan \in Plans},
  phase <- Phases(proposals),
  runs <- Counts(proposals),
  offer <- session.pending

\* One request at a time and no faults: every step the code takes is one the
\* customer was promised, and what must run does run.
KeepsPromise == Promise!Spec

\* The part of it that every single step must keep: no step shows the customer
\* anything that was not promised.
StepsArePromised == Promise!Init /\ [][Promise!Next]_(Promise!avars)

=============================================================================
