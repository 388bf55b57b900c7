----------------------------- MODULE MCRDAPLookup -----------------------------
(* A small instance of RDAPLookup: every domain has two servers. *)
EXTENDS RDAPLookup

CONSTANTS s1, s2

MCServersOf == [d \in Domains |-> <<s1, s2>>]
=============================================================================
