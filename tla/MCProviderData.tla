----------------------------- MODULE MCProviderData -----------------------------
(* Addresses are alike, and so are analyses. *)
EXTENDS ProviderData, TLC

MCSymmetry == Permutations(Keys) \cup Permutations(Analyses)
=============================================================================
