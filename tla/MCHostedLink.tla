---------------------------- MODULE MCHostedLink ----------------------------
(* Model-checking instance of HostedLink; requests are interchangeable.      *)
EXTENDS HostedLink, TLC

Symmetry == Permutations(Req)
=============================================================================
