---------------------------- MODULE MCAttribution ----------------------------
(***************************************************************************)
(* One upstream, two principals: one with a session and a stateless       *)
(* client, the other with a session; one record for each principal.        *)
(***************************************************************************)
EXTENDS Attribution, TLC

CONSTANTS c1, c2, h1

MCPrincipalOf == [k \in Keys |-> IF k = "s2" THEN "q" ELSE "p"]

MCSymmetry == Permutations(Calls)
=============================================================================
