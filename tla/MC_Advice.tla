----------------------------- MODULE MC_Advice -----------------------------
(***************************************************************************)
(* Advice for TLC: four of the seeded customers, one per way the seed can  *)
(* start the loop, one whose seeding was cut short, and the inputs and     *)
(* plans that take different branches.                                     *)
(***************************************************************************)
EXTENDS Advice, TLC

Held(grade, percent) == [grade |-> grade, amount |-> Percent(percent), weight |-> Percent(percent)]

PolicyOf(name, cardio) == [name |-> name, active |-> TRUE, riders |-> 0, cardio |-> cardio]
Policy1(cardio) == PolicyOf(1, cardio)

\* Balances are in 100,000 won.
Seeded(holdings, policies, cash, card, repayment) ==
  [holdings |-> holdings, policies |-> policies,
   cash |-> cash, card |-> card, repayment |-> repayment]

\* Above the detector's threshold, with a gap.
Yoonjae ==
  Seeded(<<Held("high", 42), Held("high", 26), Held("low", 22), Held("low", 10)>>,
         <<Policy1(FALSE)>>, 166, 6, 7)

\* Covered: at the stub's threshold, and between the two with two policies.
Gaeun ==
  Seeded(<<Held("high", 32), Held("high", 23), Held("low", 32), Held("low", 13)>>,
         <<Policy1(TRUE)>>, 214, 9, 8)
Minsu ==
  Seeded(<<Held("high", 38), Held("high", 24), Held("low", 25), Held("low", 13)>>,
         <<PolicyOf(2, TRUE), PolicyOf(1, FALSE)>>, 206, 7, 6)

\* Below both, with a gap.
Jeonghee ==
  Seeded(<<Held("high", 35), Held("low", 45), Held("low", 20)>>,
         <<Policy1(FALSE)>>, 259, 5, 4)

\* Stored, with nothing of his yet.
CutShort == Seeded(<<>>, <<>>, 0, 0, 0)

MCCustomers == {Yoonjae, Gaeun, Minsu, Jeonghee, CutShort}

Event(kind) == [source |-> "event", kind |-> kind, topics |-> {}]
Text(topics) == [source |-> "user_utterance", kind |-> "none", topics |-> topics]

MCInputs ==
  {Event("none"), Event("spending_spike"), Event("other"),
   Text({"insurance", "portfolio"}), Text({"portfolio", "card"}), Text({"card"}), Text({})}

Sell(target) ==
  [kind |-> "rebalance_portfolio", external |-> TRUE, target |-> target, amount |-> 0]
QuietReview == [Review EXCEPT !.external = FALSE]

\* 52 leaves one of Yoonjae's holdings as it is; nothing refuses the last two.
MCCodexPlans ==
  {<<Sell(0), Review>>, <<Sell(52)>>, <<QuietReview, Sell(30)>>,
   <<Sell(-10), Sell(200)>>}

\* Two plans of codex are enough to meet one another; the stub is followed on to
\* the advice after both effects.
WorthExploring == planner = "codex_cli" => checks < MaxChecks

Symmetry == Permutations(Threads)

=============================================================================
