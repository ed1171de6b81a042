-------------------------------- MODULE Advice --------------------------------
(***************************************************************************)
(* The closed loop over one customer's data: a run takes a snapshot of it, *)
(* a detector names a signal, the agent plans on the snapshot, and what is *)
(* executed changes the data the next snapshot is taken of.  The threads   *)
(* of the customer do this at the same time; an approval may come long     *)
(* after the snapshot.  Which of a thread's open proposals is asked first  *)
(* and how requests race for it is in Workflow.                            *)
(***************************************************************************)
EXTENDS Integers, SequencesExt, Policy

CONSTANTS
  Whole,       \* all the customer owns, in parts fine enough for every share
  Threads,     \* the customer's threads
  Customers,   \* the customers as they are seeded
  Planners,    \* the values of settings.agent_job_mode considered
  CodexPlans,  \* plans a codex job may return, where that is the mode
  Inputs,      \* the events and messages clients send
  MaxChecks,   \* bound: signals in one behaviour
  MaxFaults    \* bound: requests that break off inside a handler

ASSUME UnitAssumption == Whole \in Nat \ {0} /\ Whole % 100 = 0
ASSUME PlannersAssumption == Planners \subseteq {"local_stub", "codex_cli"}
ASSUME BoundsAssumption == {MaxChecks, MaxFaults} \subseteq Nat

VARIABLES
  planner,     \* settings.agent_job_mode, the same throughout
  customer,    \* holdings, policies, and the balances no code changes
  pc,          \* where each thread is
  input,       \* what each run was started with
  snapshot,    \* the DataSnapshot of each run
  signal,      \* the kind of signal each run detected
  todo,        \* the proposals policy_check has still to look at
  held,        \* whether policy_check found one that needs approval
  open,        \* the other proposals of the thread's session that are "proposed"
  work,        \* the proposal a handler runs for: its index in open, or 0
  seen,        \* what a handler has read
  checks,
  faults,
  rebalances,  \* history: rebalances written
  shares,      \* history: the high-risk shares they gave, in percent
  reviews,     \* history: insurance reviews carried out
  torn         \* history: the tables where a handler wrote over an older read

vars == <<planner, customer, pc, input, snapshot, signal, todo, held, open, work, seen,
          checks, faults, rebalances, shares, reviews, torn>>

-----------------------------------------------------------------------------
(* Holdings.  Amounts are in parts of which the customer owns Whole, and   *)
(* Whole is the weight 100% as well.                                       *)

Percent(p) == (Whole \div 100) * p

HoldingRow == [grade : {"high", "mid", "low"}, amount : Int, weight : Int]

IsHigh(h) == h.grade = "high"

SumOf(s) ==
  LET upTo[n \in 0..Len(s)] == IF n = 0 THEN 0 ELSE upTo[n - 1] + s[n]
  IN  upTo[Len(s)]

Total(hs) == SumOf([i \in DOMAIN hs |-> hs[i].amount])

HighAmount(hs) == SumOf([i \in DOMAIN hs |-> IF IsHigh(hs[i]) THEN hs[i].amount ELSE 0])

\* high_risk_weight sums the stored weights; no amount is looked at.
HighWeight(hs) == SumOf([i \in DOMAIN hs |-> IF IsHigh(hs[i]) THEN hs[i].weight ELSE 0])

\* How many holdings share what goes to h's side of the portfolio.
Sharers(h, hs) == Cardinality({i \in DOMAIN hs : IsHigh(hs[i]) = IsHigh(h)})

\* Mutant: the proposal's number is taken for the low-risk share.
TargetOfLow(t) == 100 - t

\* target_high: a target of 0 is falsy and gives way to the default.
TargetHigh(t) == IF t = 0 THEN 45 ELSE t

\* Mutant: the low-risk share is what the proposal's number leaves.
TargetLowPlain(t) == 100 - t

\* target_low is no less than nothing; target_high is any number a plan gives.
TargetLow(t) == IF TargetHigh(t) > 100 THEN 0 ELSE 100 - TargetHigh(t)

SideTarget(h, t) == IF IsHigh(h) THEN TargetHigh(t) ELSE TargetLow(t)

\* The amounts say what the weights say, and nothing is missing.  A first start
\* that was cut short leaves a customer without a holding.
Balanced(hs) ==
  /\ hs = <<>> \/ Total(hs) = Whole
  /\ \A i \in DOMAIN hs : hs[i].amount = hs[i].weight

\* The Decimals of the code are divided exactly; so are the parts of Whole here.
Divides(hs, t) ==
  \A i \in DOMAIN hs : Percent(SideTarget(hs[i], t)) % Sharers(hs[i], hs) = 0

\* Mutants: the weights are left as they were; no side is divided up.
RebalancedAmounts(hs, t) ==
  [i \in DOMAIN hs |->
     [hs[i] EXCEPT !.amount = (Total(hs) * SideTarget(hs[i], t))
                                \div (100 * Sharers(hs[i], hs))]]
RebalancedUndivided(hs, t) ==
  [i \in DOMAIN hs |->
     [hs[i] EXCEPT !.amount = (Total(hs) * SideTarget(hs[i], t)) \div 100,
                   !.weight = Percent(SideTarget(hs[i], t))]]

\* Either side is divided evenly among its holdings.
Rebalanced(hs, t) ==
  [i \in DOMAIN hs |->
     [hs[i] EXCEPT !.amount = (Total(hs) * SideTarget(hs[i], t))
                                \div (100 * Sharers(hs[i], hs)),
                   !.weight = Percent(SideTarget(hs[i], t)) \div Sharers(hs[i], hs)]]

\* The UPDATE of a holding names the columns whose value the handler changed;
\* the others keep what is stored by then.
Updated(stored, read, new) ==
  [i \in DOMAIN stored |->
     [stored[i] EXCEPT
        !.amount = IF new[i].amount = read[i].amount THEN @ ELSE new[i].amount,
        !.weight = IF new[i].weight = read[i].weight THEN @ ELSE new[i].weight]]

-----------------------------------------------------------------------------
(* Policies: the rank of the product_name, whether the policy is active,   *)
(* how many active coverages named cardio rider (심혈관특약) it has, and    *)
(* whether one that is named cardio (심혈관).                               *)

PolicyRow == [name : Nat, active : BOOLEAN, riders : Nat, cardio : BOOLEAN]

\* Mutant: only the name the seed uses counts.
HasCardioByName(ps) == \E i \in DOMAIN ps : ps[i].cardio

HasCardio(ps) == \E i \in DOMAIN ps : ps[i].cardio \/ ps[i].riders > 0

ActivePolicies(ps) == {i \in DOMAIN ps : ps[i].active}

\* The policies a review may find first: more than one where names are the same.
FirstPolicies(ps) ==
  {i \in ActivePolicies(ps) : \A k \in ActivePolicies(ps) : ps[i].name <= ps[k].name}

\* "JB 보장점검 결과", which a review gives a customer who has no active policy.
ReviewPolicy == [name |-> 0, active |-> TRUE, riders |-> 0, cardio |-> FALSE]

-----------------------------------------------------------------------------
(* From the data to a plan. *)

\* What build_context says of the customer, reduced to what is decided on.
Context(c) ==
  [high |-> HighWeight(c.holdings), total |-> Total(c.holdings),
   gap |-> ~HasCardio(c.policies),
   cash |-> c.cash, card |-> c.card, repayment |-> c.repayment,
   rebalances |-> rebalances]

TopicKind == [insurance |-> "insurance_gap", portfolio |-> "portfolio_loss",
              card |-> "upcoming_card_payment_pressure"]
AssetKinds == {"portfolio_loss", "upcoming_card_payment_pressure", "spending_spike"}
SignalKinds == AssetKinds \cup {"insurance_gap", "routine_check", "other"}

\* The markers of a text are looked for in this order.
KindOfText(topics) ==
  IF "insurance" \in topics THEN TopicKind.insurance
  ELSE IF "portfolio" \in topics THEN TopicKind.portfolio
  ELSE IF "card" \in topics THEN TopicKind.card
  ELSE "none"

ExplicitKind(in) ==
  IF in.source = "user_utterance" /\ in.kind = "none" THEN KindOfText(in.topics) ELSE in.kind

\* available_cash 0 is taken for "not known".
CashPressure(ctx) == ctx.cash # 0 /\ 2 * (ctx.card + ctx.repayment) > ctx.cash

\* Mutant: a text without a known word is a signal of its own.
DetectExplicit(in, ctx) == ExplicitKind(in)

\* detect_signal
Detect(in, ctx) ==
  CASE ExplicitKind(in) # "none" -> ExplicitKind(in)
    [] ExplicitKind(in) = "none" /\ ctx.high >= Percent(65) -> "portfolio_loss"
    [] ExplicitKind(in) = "none" /\ ctx.high < Percent(65) ->
         IF CashPressure(ctx) THEN "upcoming_card_payment_pressure" ELSE "routine_check"

Item(kind, external) == [kind |-> kind, external |-> external, target |-> 0, amount |-> 0]

Report == Item("report", FALSE)
CashflowPlan == Item("cashflow_plan", FALSE)
Review == Item("review_insurance", TRUE)

\* amount: what the execution step tells the customer will be sold.
Rebalance(ctx) ==
  [kind |-> "rebalance_portfolio", external |-> TRUE, target |-> 45,
   amount |-> (ctx.total * ctx.high) \div Whole - (ctx.total * 45) \div 100]

AssetPlan(ctx) ==
  <<Report, CashflowPlan>>
    \o (IF ctx.high >= Percent(55) THEN <<Rebalance(ctx)>> ELSE <<>>)
    \o (IF ctx.gap THEN <<Review>> ELSE <<>>)

InsurancePlan == <<Report, Review>>

\* build_local_stub_output
StubPlan(kind, ctx) ==
  CASE kind \in AssetKinds -> AssetPlan(ctx)
    [] kind = "insurance_gap" \/ (kind \notin AssetKinds /\ ctx.gap) -> InsurancePlan
    [] kind \notin AssetKinds \cup {"insurance_gap"} /\ ~ctx.gap -> <<>>

PlansFor(kind, ctx) == IF planner = "local_stub" THEN {StubPlan(kind, ctx)} ELSE CodexPlans

-----------------------------------------------------------------------------
(* States. *)

At(t, place) == pc[t] = place
Goto(t, place) == pc' = [pc EXCEPT ![t] = place]

Nothing == <<>>
Unread == [holdings |-> <<>>, policy |-> 0, missing |-> FALSE]
NoInput == [source |-> "event", kind |-> "none", topics |-> {}]

\* detect .. record: inside a request.  idle: the thread is monitoring.
\* approval: it waits for the customer.
Places == {"idle", "detect", "spawn", "policy", "approval",
           "holdings", "rebalance", "review", "newpolicy", "coverage", "insert", "record"}

\* target: any share, in percent; nothing refuses one below 0 or above 100.
PlanItems == [kind : ActionKinds, external : BOOLEAN, target : Int, amount : Int]
Offers == [item : PlanItems, after : Nat]

\* What a handler has read: the holdings, or a policy and whether it lacks the rider.
Readings == [holdings : Seq(HoldingRow), policy : Nat, missing : BOOLEAN]

Profiles == [holdings : Seq(HoldingRow), policies : Seq(PolicyRow),
             cash : Nat, card : Nat, repayment : Nat]

\* A customer of the seed holds something on either side, or nothing where the first
\* start was cut short.  No two policies of his have one name, and no one has the
\* rider the handler adds.
ASSUME CustomersAssumption ==
  \A c \in Customers :
    /\ c \in Profiles
    /\ Balanced(c.holdings)
    /\ \A i \in DOMAIN c.holdings : c.holdings[i].amount >= 0
    /\ c.holdings # <<>> =>
         \E i, k \in DOMAIN c.holdings : IsHigh(c.holdings[i]) /\ ~IsHigh(c.holdings[k])
    /\ \A i, k \in DOMAIN c.policies : c.policies[i].name = c.policies[k].name => i = k
    /\ \A i \in DOMAIN c.policies : c.policies[i].riders = 0

ASSUME InputsAssumption ==
  Inputs \subseteq [source : {"event", "user_utterance"}, kind : SignalKinds \cup {"none"},
                     topics : SUBSET DOMAIN TopicKind]

ASSUME PlansAssumption == CodexPlans \subseteq Seq(PlanItems)

\* The shares a rebalance may be asked for.
Targets == {45} \cup UNION {{plan[i].target : i \in DOMAIN plan} : plan \in CodexPlans}

ASSUME SharesAssumption == \A c \in Customers, t \in Targets : Divides(c.holdings, t)

TypeOK ==
  /\ planner \in Planners
  /\ customer \in Profiles
  /\ pc \in [Threads -> Places]
  /\ input \in [Threads -> Inputs \cup {NoInput}]
  /\ \A t \in Threads : signal[t] \in IF At(t, "spawn") THEN SignalKinds ELSE {"none"}
  /\ \A t \in Threads : todo[t] \in Seq(Offers) /\ open[t] \in Seq(Offers)
  /\ held \in [Threads -> BOOLEAN]
  /\ work \in [Threads -> Nat]
  /\ seen \in [Threads -> Readings]
  /\ checks \in 0..MaxChecks
  /\ faults \in 0..MaxFaults
  /\ {rebalances, reviews} \subseteq Nat /\ shares \subseteq Int
  /\ torn \subseteq {"holdings", "policies"}

Init ==
  /\ planner \in Planners
  /\ customer \in Customers
  /\ pc = [t \in Threads |-> "idle"]
  /\ input = [t \in Threads |-> NoInput]
  /\ snapshot = [t \in Threads |-> Nothing]
  /\ signal = [t \in Threads |-> "none"]
  /\ todo = [t \in Threads |-> <<>>]
  /\ held = [t \in Threads |-> FALSE]
  /\ open = [t \in Threads |-> <<>>]
  /\ work = [t \in Threads |-> 0]
  /\ seen = [t \in Threads |-> Unread]
  /\ checks = 0
  /\ faults = 0
  /\ rebalances = 0 /\ shares = {}
  /\ reviews = 0
  /\ torn = {}

-----------------------------------------------------------------------------
(* The run up to its proposals. *)

\* An accepted event or message; data_refresh stores the snapshot.
Refresh(t) ==
  /\ At(t, "idle")
  /\ checks < MaxChecks
  /\ \E in \in Inputs : input' = [input EXCEPT ![t] = in]
  /\ snapshot' = [snapshot EXCEPT ![t] = Context(customer)]
  /\ Goto(t, "detect")
  /\ checks' = checks + 1
  /\ UNCHANGED <<customer, signal, todo, held, open, work, seen, faults,
                 rebalances, shares, reviews, torn>>

\* signal_detect, then signal_gate, which lets every signal pass.
DetectSignal(t) ==
  /\ At(t, "detect")
  /\ signal' = [signal EXCEPT ![t] = Detect(input[t], snapshot[t])]
  /\ input' = [input EXCEPT ![t] = NoInput]
  /\ Goto(t, "spawn")
  /\ UNCHANGED <<customer, snapshot, todo, held, open, work, seen, checks, faults,
                 rebalances, shares, reviews, torn>>

\* The agent plans on the snapshot, not on the data; _persist_plan stores all it
\* proposes.
SpawnAgent(t) ==
  /\ At(t, "spawn")
  /\ \E plan \in PlansFor(signal[t], snapshot[t]) :
       todo' = [todo EXCEPT ![t] = [i \in DOMAIN plan |->
                  [item |-> plan[i], after |-> snapshot[t].rebalances]]]
  /\ signal' = [signal EXCEPT ![t] = "none"]
  /\ snapshot' = [snapshot EXCEPT ![t] = Nothing]
  /\ Goto(t, "policy")
  /\ UNCHANGED <<customer, input, held, open, work, seen, checks, faults,
                 rebalances, shares, reviews, torn>>

\* Where the handler of a proposal starts.
HandlerOf(item) ==
  CASE item.kind = "rebalance_portfolio" -> "holdings"
    [] item.kind = "review_insurance" -> "review"
    [] item.kind \notin {"rebalance_portfolio", "review_insurance"} -> "record"

Gated(o) == NeedsApproval(o.item)

\* policy_check: the proposals that need approval are left for the customer ...
KeepForApproval(t) ==
  /\ At(t, "policy") /\ todo[t] # <<>>
  /\ Gated(Head(todo[t]))
  /\ open' = [open EXCEPT ![t] = Append(@, Head(todo[t]))]
  /\ todo' = [todo EXCEPT ![t] = Tail(@)]
  /\ held' = [held EXCEPT ![t] = TRUE]
  /\ UNCHANGED <<customer, pc, input, snapshot, signal, work, seen, checks, faults,
                 rebalances, shares, reviews, torn>>

\* ... and the others are executed at once.
AutoExecute(t) ==
  /\ At(t, "policy") /\ todo[t] # <<>>
  /\ ~Gated(Head(todo[t]))
  /\ Goto(t, HandlerOf(Head(todo[t]).item))
  /\ UNCHANGED <<customer, input, snapshot, signal, todo, held, open, work, seen, checks,
                 faults, rebalances, shares, reviews, torn>>

\* What an earlier plan left open does not count here.
PolicyDone(t) ==
  /\ At(t, "policy") /\ todo[t] = <<>>
  /\ Goto(t, IF held[t] THEN "approval" ELSE "idle")
  /\ held' = [held EXCEPT ![t] = FALSE]
  /\ UNCHANGED <<customer, input, snapshot, signal, todo, open, work, seen, checks,
                 faults, rebalances, shares, reviews, torn>>

-----------------------------------------------------------------------------
(* Decisions and handlers. *)

Approve(t) ==
  /\ At(t, "approval")
  /\ \E i \in DOMAIN open[t] :
       /\ Gated(open[t][i])
       /\ work' = [work EXCEPT ![t] = i]
       /\ Goto(t, HandlerOf(open[t][i].item))
  /\ UNCHANGED <<customer, input, snapshot, signal, todo, held, open, seen, checks, faults,
                 rebalances, shares, reviews, torn>>

\* The request goes on to _next_pending_proposal, if there is one.
Closed(t, i) ==
  LET left == RemoveAt(open[t], i)
  IN  /\ open' = [open EXCEPT ![t] = left]
      /\ Goto(t, IF \E k \in DOMAIN left : Gated(left[k]) THEN "approval" ELSE "idle")

\* reject, revise
Decline(t) ==
  /\ At(t, "approval")
  /\ \E i \in DOMAIN open[t] : Gated(open[t][i]) /\ Closed(t, i)
  /\ UNCHANGED <<customer, input, snapshot, signal, todo, held, work, seen, checks, faults,
                 rebalances, shares, reviews, torn>>

\* The proposal t's handler runs for.
Offer(t) == IF work[t] = 0 THEN Head(todo[t]) ELSE open[t][work[t]]

\* A handler has done what it does; execute() has not recorded it yet.
Handled(t) ==
  /\ seen' = [seen EXCEPT ![t] = Unread]
  /\ Goto(t, "record")
  /\ UNCHANGED <<input, snapshot, signal, todo, held, open, work, checks, faults>>

\* execute() records the outcome, which is all that report, cashflow_plan,
\* notify and book_hospital do, and the request goes on to what is left.
Record(t) ==
  /\ At(t, "record")
  /\ IF work[t] = 0
       THEN /\ todo' = [todo EXCEPT ![t] = Tail(@)]
            /\ Goto(t, "policy")
            /\ UNCHANGED open
       ELSE Closed(t, work[t]) /\ UNCHANGED todo
  /\ work' = [work EXCEPT ![t] = 0]
  /\ UNCHANGED <<customer, input, snapshot, signal, held, seen, checks, faults,
                 rebalances, shares, reviews, torn>>

ReadHoldings(t) ==
  /\ At(t, "holdings")
  /\ Total(customer.holdings) > 0
  /\ seen' = [seen EXCEPT ![t].holdings = customer.holdings]
  /\ Goto(t, "rebalance")
  /\ UNCHANGED <<customer, input, snapshot, signal, todo, held, open, work, checks, faults,
                 rebalances, shares, reviews, torn>>

\* Nothing to rebalance: the proposal is recorded as executed all the same.
ReadNothing(t) ==
  /\ At(t, "holdings")
  /\ Total(customer.holdings) <= 0
  /\ Handled(t)
  /\ UNCHANGED <<customer, rebalances, shares, reviews, torn>>

\* _apply_mock_rebalance, its commit.
CommitRebalance(t) ==
  LET target == Offer(t).item.target
  IN /\ At(t, "rebalance")
     /\ customer' = [customer EXCEPT !.holdings =
                       Updated(@, seen[t].holdings, Rebalanced(seen[t].holdings, target))]
     /\ torn' = IF seen[t].holdings = customer.holdings THEN torn ELSE torn \cup {"holdings"}
     /\ rebalances' = rebalances + 1
     /\ shares' = shares \cup {TargetHigh(target)}
     /\ Handled(t)
     /\ UNCHANGED reviews

\* _apply_mock_insurance_review: it looks for a policy ...
LookForPolicy(t) ==
  /\ At(t, "review")
  /\ \E i \in FirstPolicies(customer.policies) : seen' = [seen EXCEPT ![t].policy = i]
  /\ Goto(t, "coverage")
  /\ UNCHANGED <<customer, input, snapshot, signal, todo, held, open, work, checks, faults,
                 rebalances, shares, reviews, torn>>

LookInVain(t) ==
  /\ At(t, "review")
  /\ ActivePolicies(customer.policies) = {}
  /\ Goto(t, "newpolicy")
  /\ UNCHANGED <<customer, input, snapshot, signal, todo, held, open, work, seen, checks,
                 faults, rebalances, shares, reviews, torn>>

\* ... makes one where there was none, in a commit of its own, ...
InsertPolicy(t) ==
  /\ At(t, "newpolicy")
  /\ customer' = [customer EXCEPT !.policies = Append(@, ReviewPolicy)]
  /\ torn' = IF ActivePolicies(customer.policies) = {} THEN torn ELSE torn \cup {"policies"}
  /\ seen' = [seen EXCEPT ![t].policy = Len(customer.policies) + 1]
  /\ Goto(t, "coverage")
  /\ UNCHANGED <<input, snapshot, signal, todo, held, open, work, checks, faults,
                 rebalances, shares, reviews>>

\* ... and then for the rider on it.
LookForCoverage(t) ==
  /\ At(t, "coverage")
  /\ seen' = [seen EXCEPT ![t].missing = customer.policies[seen[t].policy].riders = 0]
  /\ Goto(t, "insert")
  /\ UNCHANGED <<customer, input, snapshot, signal, todo, held, open, work, checks, faults,
                 rebalances, shares, reviews, torn>>

\* Mutant: the rider is added without a look.
InsertAlways(t) ==
  LET i == seen[t].policy
  IN /\ At(t, "insert")
     /\ customer' = [customer EXCEPT !.policies[i].riders = @ + 1]
     /\ torn' = IF seen[t].missing /\ customer.policies[i].riders > 0
                  THEN torn \cup {"policies"} ELSE torn
     /\ reviews' = reviews + 1
     /\ Handled(t)
     /\ UNCHANGED <<rebalances, shares>>

\* The rider is added unless the look found one, and committed.
InsertCoverage(t) ==
  LET i == seen[t].policy
      missing == seen[t].missing
  IN /\ At(t, "insert")
     /\ customer' = [customer EXCEPT !.policies[i].riders = IF missing THEN @ + 1 ELSE @]
     /\ torn' = IF missing /\ customer.policies[i].riders > 0
                  THEN torn \cup {"policies"} ELSE torn
     /\ reviews' = reviews + 1
     /\ Handled(t)
     /\ UNCHANGED <<rebalances, shares>>

\* The request ends before its next commit.  What _persist_plan stored stays
\* "proposed": it is offered later if it needs approval, and never looked at again
\* if it does not.  The session row still waits for the same proposal, or, up to
\* the end of policy_check, is still monitoring.
BreakOff(t) ==
  /\ ~At(t, "idle") /\ ~At(t, "approval")
  /\ faults < MaxFaults
  /\ faults' = faults + 1
  /\ Goto(t, IF work[t] = 0 THEN "idle" ELSE "approval")
  /\ input' = [input EXCEPT ![t] = NoInput]
  /\ snapshot' = [snapshot EXCEPT ![t] = Nothing]
  /\ signal' = [signal EXCEPT ![t] = "none"]
  /\ open' = [open EXCEPT ![t] = @ \o todo[t]]
  /\ todo' = [todo EXCEPT ![t] = <<>>]
  /\ held' = [held EXCEPT ![t] = FALSE]
  /\ work' = [work EXCEPT ![t] = 0]
  /\ seen' = [seen EXCEPT ![t] = Unread]
  /\ UNCHANGED <<customer, checks, rebalances, shares, reviews, torn>>

-----------------------------------------------------------------------------
(* The specification. *)

ThreadStep(t) ==
  \/ Refresh(t) \/ DetectSignal(t) \/ SpawnAgent(t)
  \/ KeepForApproval(t) \/ AutoExecute(t) \/ PolicyDone(t)
  \/ Approve(t) \/ Decline(t)
  \/ ReadHoldings(t) \/ ReadNothing(t) \/ CommitRebalance(t)
  \/ LookForPolicy(t) \/ LookInVain(t) \/ InsertPolicy(t)
  \/ LookForCoverage(t) \/ InsertCoverage(t)
  \/ Record(t) \/ BreakOff(t)

Next == (\E t \in Threads : ThreadStep(t)) /\ UNCHANGED planner

Spec == Init /\ [][Next]_vars

-----------------------------------------------------------------------------
(* Properties. *)

\* As long as no share above all there is was given, rebalancing loses and makes
\* nothing, however often it is retried, and the weights the next snapshot is
\* judged by still say what the amounts say; with no share below nothing either,
\* no holding is in the red.  Under codex_cli handlers that overlapped are left
\* out, whose rows need not add up; under the stub they are not
\* (handlers.py _apply_mock_rebalance computes from amounts,
\* data_tools.get_portfolio_summary sums weights).
Conserved ==
  planner = "local_stub" \/ "holdings" \notin torn =>
    /\ (\A share \in shares : share <= 100) => Balanced(customer.holdings)
    /\ shares \subseteq 0..100 =>
         \A i \in DOMAIN customer.holdings : customer.holdings[i].amount >= 0

Offered(t) == ToSet(todo[t]) \cup ToSet(open[t])

\* The loop closes: once a rebalance was written, no plan made on a later
\* snapshot offers one again, whatever the signal and also where handlers
\* overlapped (the detector's 65%, the stub's 55% and the handler's 45% are in
\* three files).
NoRepeat ==
  planner = "local_stub" =>
    \A t \in Threads : \A o \in Offered(t) :
      o.item.kind = "rebalance_portfolio" => o.after = 0

\* Once a review was carried out, no later snapshot shows the gap: the name the
\* handler inserts is one the context looks for, and it lands where the context
\* looks.
GapClosed == reviews > 0 => HasCardio(customer.policies)

\* A retry, a second proposal or what is left of a plan adds no second policy and
\* no second rider; only handlers that both looked before either inserted do.
CoverOnce ==
  "policies" \notin torn =>
    \A i, k \in DOMAIN customer.policies :
      /\ customer.policies[i].riders <= 1
      /\ customer.policies[i].riders > 0 /\ customer.policies[k].riders > 0 => i = k

\* What the handler sells for a proposal of the stub is what the proposal told the
\* customer, however old; and nothing where another rebalance was written since the
\* snapshot it was computed from.
SoldAsAnnounced ==
  [][\A t \in Threads :
       /\ planner = "local_stub"
       /\ At(t, "rebalance") /\ rebalances' = rebalances + 1 /\ pc'[t] = "record"
       => HighAmount(customer.holdings) - HighAmount(customer'.holdings)
            = IF Offer(t).after = rebalances THEN Offer(t).item.amount ELSE 0]_vars

=============================================================================
