-------------------------- MODULE BillingPeriodsMC --------------------------
(* A client with two services. *)
EXTENDS BillingPeriods, TLC
CONSTANTS s1, s2, c1
OneClient == s1 :> c1 @@ s2 :> c1
Symmetry  == Permutations(Services)
=============================================================================
