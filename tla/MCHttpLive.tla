----------------------------- MODULE MCHttpLive -----------------------------
(***************************************************************************)
(* Liveness of HttpSessions, in three scenarios: sessions that are opened, *)
(* used, evicted and expire while Proxy.Close may begin, with one request  *)
(* at a time; one session that a second request to open one may evict at   *)
(* any stage and that may be deleted, while Proxy.Close may begin; and one *)
(* session that may be deleted, with two requests.  Session ids are        *)
(* random: the first one issued is called s1.                              *)
(***************************************************************************)
EXTENDS MCHttp

LiveNext ==
  /\ Next
  /\ UNCHANGED scenario
  /\ sdk'[s2] # "unused" => sdk[s1] # "unused"
  /\ scenario = "close" =>
       /\ req'[q2] = req[q2] /\ (req'[q1].kind = "post" => req'[q1].sid = s1)
       /\ \A s \in Sids : <<s, "delete">> \notin closers'
  /\ scenario = "settle" =>
       /\ sdk'[s2] = "unused" /\ \A q \in Reqs : req'[q].kind \in {"idle", "open"}
  /\ scenario = "delete" => closing' = "no" /\ sdk'[s2] = "unused" /\ req'[q2].kind # "open"

LiveInit == Init /\ scenario \in {"close", "settle", "delete"}

LiveSpec == LiveInit /\ [][LiveNext]_<<vars, scenario>> /\ Fairness
=============================================================================
