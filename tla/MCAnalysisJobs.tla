---------------------------- MODULE MCAnalysisJobs ----------------------------
(* Small instances of AnalysisJobs for TLC. *)
EXTENDS AnalysisJobs, TLC

CONSTANTS j1, j2, d1, d2, k1, c1, c2, w1, w2

\* Nothing tells two domains, two children or two clients apart, nor two create
\* calls: each asks for any domain and key.
Symmetry == Permutations(Jobs) \cup Permutations(Clients)
                \cup Permutations(Children) \cup Permutations(Domains)
=============================================================================
