------------------------------- MODULE Policy -------------------------------
(***************************************************************************)
(* Which proposed actions need the customer's approval, and which of them  *)
(* change customer data when they run.  Translated from app/policy,        *)
(* app/planning/schemas.py and the dispatch of app/executor/handlers.py.   *)
(***************************************************************************)

\* The kinds a validated plan may name (ActionKind).
ActionKinds ==
  {"book_hospital", "review_insurance", "cashflow_plan",
   "rebalance_portfolio", "notify", "report"}

\* Two of the kinds the engine lists cannot appear in a validated plan.
HighRiskKinds ==
  {"book_hospital", "submit_claim", "transfer_money", "rebalance_portfolio"}

\* What a plan says of an action, reduced to what routing depends on.
Items == [kind : ActionKinds, external : BOOLEAN]

NeedsApproval(item) == item.external \/ item.kind \in HighRiskKinds

ExecutionModes == {"mock_apply", "external_request"}

\* The handlers that write customer data, in commits of their own.
WritesCustomerData(item, mode) ==
  mode = "mock_apply" /\ item.kind \in {"review_insurance", "rebalance_portfolio"}

\* The status execute() gives a proposal: no kind of a validated plan is
\* unsupported, so only the unimplemented external mode fails.
OutcomeStatus(mode) == IF mode = "mock_apply" THEN "executed" ELSE "failed"

=============================================================================
