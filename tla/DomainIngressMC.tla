-------------------------- MODULE DomainIngressMC ---------------------------
(* Small instances of DomainIngress for TLC: domains of one service. *)
EXTENDS DomainIngress

CONSTANTS n1, n2, d1, d2, web

AllWeb == [d \in Domains |-> web]
OnFirst == [s \in Services |-> n1]

\* bound: what happens before a domain is asked for leaves the tables empty
BeginsWithRequest == used.calls = 0 => Total = 0
=============================================================================
