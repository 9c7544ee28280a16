------------------------------- MODULE MCServe -------------------------------
(***************************************************************************)
(* `fathomgate serve` on a small instance.  The whole is explored in three *)
(* parts that share their states where they meet: binding, for every       *)
(* address asked for; the connect, with every fault, on the stdio path;    *)
(* and the listener, from one binding and a connect without faults.  A     *)
(* Run's sessions are explored with the upstream at rest, and Close after a *)
(* Run without requests.                                                   *)
(***************************************************************************)
EXTENDS Serve

OneBinding == asked.host = "v4" /\ asked.port # AnyPort /\ missing = {} /\ foreign = {}

MCInit == ServeInit /\ asked.port \in {AnyPort, 1} /\ (mode = "stdio" => OneBinding)

Calm == child'[1] = {} /\ proc'[1] # "hung" /\ att' = 1 /\ bound' # "expired" /\ ctxUp'

Fresh == sdk.how = "discover" /\ proc[1] = "up" /\ tclose[1] = "open" /\ ~settled

MCNext ==
  /\ ServeNext
  /\ serve = "bind" /\ serve' = "new" => OneBinding
  /\ mode = "listen" => Calm
  /\ serve = "new" /\ serve' \in {"serving", "run"} => Calm /\ Fresh
  /\ serve # "bind" /\ foreign' # foreign => serve = "serving" /\ foreign' \subseteq {lport} \X (Families \cup {"any"})
  /\ serve = "run" /\ serve' = "run" => UNCHANGED vars
  /\ serve = "run" /\ serve' = "close" => \A q \in Requests : request[q].pc = "none"

Up(A) == A /\ Settles /\ UNCHANGED <<serveVars, listenVars, localVars>>
Ls(A) == A /\ UNCHANGED <<serveVars, vars, localVars>>
Lc(A) == A /\ serve = "run" /\ UNCHANGED <<serveVars, vars, listenVars>>

(***************************************************************************)
(* Fairness: the scheduler runs every goroutine that can run, go-sdk's and *)
(* net/http's included, and every timer runs out; nothing is assumed of    *)
(* agents and of the upstream.  Each of the three groups only makes        *)
(* progress and cannot run for ever, so fairness of the group is fairness  *)
(* of its members.                                                         *)
(***************************************************************************)
MCFairness ==
  /\ WF_allVars(Up(New \/ Sdk \/ Watching \/ Closing \/ BoundExpires \/ CtxEnds
                  \/ ListTools \/ ExitWatch \/ CloseSession \/ Closed))
  /\ WF_allVars(Lc((\E r \in Runs : RunSteps(r)) \/ (\E q \in Requests : KeySteps(q))))
  /\ WF_allVars(\/ Ls(HookWaits \/ HookWakes \/ GraceOver)
                \/ \E f \in Families : Ls(AcceptSeesClose(f) \/ (f \notin lns /\ AcceptFails(f)))
                \/ OnSignal \/ OnUpstreamExit \/ OnServeError \/ ShutdownEnds
                \/ HookCloses \/ HookEnds \/ HookDone \/ ServedDone \/ CloseReturned)
  /\ \A c \in Conns : WF_allVars(Ls(TimerFires(c) \/ FirstHeaderFires(c)))

MCSpec == MCInit /\ [][MCNext]_allVars

\* What is waited for does not depend on a launched child, on other programs,
\* on whether a failed session is a hang-up or a
\* close slow, nor the second attempt on what the connection of the first one
\* met: no guard of a step that is waited for reads them.
LiveNext ==
  /\ MCNext
  /\ foreign' = {} /\ \A a \in Attempts : child'[a] = {} /\ ~hungUp'[a] /\ ~slow'[a]
  /\ att = 1 /\ att' = 2 => broken[1] = "no"

LiveSpec == MCInit /\ [][LiveNext]_allVars /\ MCFairness
=============================================================================
