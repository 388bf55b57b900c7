------------------------------- MODULE MCHTTPProbe -------------------------------
(* Three URLs on two hosts. *)
EXTENDS HTTPProbe, TLC

CONSTANTS u1, u2, u3, h1, h2

MCHostOf == (u1 :> h1) @@ (u2 :> h1) @@ (u3 :> h2)
=============================================================================
