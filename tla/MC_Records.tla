---------------------------- MODULE MC_Records ----------------------------
(***************************************************************************)
(* Records for TLC: the first customer and two of the further ones.        *)
(***************************************************************************)
EXTENDS Records, TLC

ThreeCustomers == <<"c1", "c2", "c3">>
TwoCustomers == <<"c1", "c2">>

Symmetry == Permutations(Requests)

=============================================================================
