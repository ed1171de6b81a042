----------------------------- MODULE MC_Threads -----------------------------
(***************************************************************************)
(* Values of Threads' constants for TLC: two customers with an account     *)
(* each, an operator, and an account that was closed.                      *)
(***************************************************************************)
EXTENDS Threads, TLC

TwoCustomers == {"c1", "c2"}
DemoAccounts == {"ann", "op", "old"}

DemoAccount ==
  [ann |-> [role |-> "customer", customer |-> "c1", active |-> TRUE],
   op |-> [role |-> "operator", customer |-> Nobody, active |-> TRUE],
   old |-> [role |-> "customer", customer |-> "c2", active |-> FALSE]]

RequestSymmetry == Permutations(Requests)

\* A step that only shows something or stores a reply changes nothing that a
\* later step reads: its result is checked, but not explored any further.
WorthExploring == deed.what \notin {"view", "debug", "reply"}

=============================================================================
