------------------------------- MODULE MCHttp -------------------------------
(***************************************************************************)
(* HttpSessions on small instances, in scenarios chosen at the start, so   *)
(* that no behaviour pays for interleavings another one has: the requests, *)
(* DELETEs and calls of one principal, beside Proxy.Close; and POSTs and   *)
(* GETs of two principals.                                                 *)
(***************************************************************************)
EXTENDS HttpSessions, TLC

CONSTANTS s1, s2, p1, p2, q1, q2, c1

VARIABLE scenario  \* the one principal there is, or "two"

\* Sessions, principals and requests are told apart by nothing else.
MCSymmetry == Permutations(Sids) \cup Permutations(Principals) \cup Permutations(Reqs)

\* Proxy.Close begins while at most one session has been opened; MCHttpLive
\* has the rest.
CloseEarly == closing # "no" => \E s \in Sids : sdk[s] = "unused"

MCNext ==
  /\ Next
  /\ UNCHANGED scenario
  /\ scenario # "two" =>
       \A q \in Reqs : req'[q].principal \in {scenario, NoPrincipal} /\ req'[q].kind # "get"
  /\ scenario = "two" =>
       /\ call' = call /\ closing' = "no"
       /\ \A s \in Sids : <<s, "delete">> \notin closers'

MCInit == Init /\ scenario \in Principals \cup {"two"}

MCSpec == MCInit /\ [][MCNext]_<<vars, scenario>>
=============================================================================
