---------------------------- MODULE LocalSessions ----------------------------
(***************************************************************************)
(* The attribution keys of local agent sessions (Proxy.Run, localKey in    *)
(* internal/proxy/proxy.go; agentSessionKey, requestKey in input.go).  A   *)
(* Run registers itself as connecting, connects, records its session with  *)
(* a key of its own and then releases whoever waits for it.  go-sdk may    *)
(* dispatch a request on the session before Connect has returned.          *)
(***************************************************************************)
EXTENDS Naturals, FiniteSets

CONSTANTS
  Runs,       \* calls of Run; each has the session it serves
  Requests,   \* tools/call requests
  NoRun

ASSUME RunsAssumption == IsFiniteSet(Runs)

VARIABLES
  run,        \* run[r]: where Run is
  connecting, \* the Runs between registration and release
  ready,      \* the Runs whose ready channel is closed
  locals,     \* locals[r]: the number of the key recorded for r's session; 0 for none
  runs,       \* p.runs
  request,    \* request[q]: [pc, sess, waits, key]
  cancelled   \* the requests whose context has ended

localVars == <<run, connecting, ready, locals, runs, request, cancelled>>

RunStates == {"off", "connecting", "connected", "recorded", "serving", "failing", "failed", "ended"}
OwnKey == 0   \* a key no other call has (requestKey), or the id of an HTTP session

LocalTypeOK ==
  /\ run \in [Runs -> RunStates]
  /\ connecting \subseteq Runs /\ ready \subseteq Runs
  /\ locals \in [Runs -> 0..Cardinality(Runs)] /\ runs \in 0..Cardinality(Runs)
  /\ request \in [Requests -> [pc : {"none", "lookup", "waiting", "keyed"},
                               sess : Runs \cup {NoRun}, waits : Runs \cup {NoRun},
                               key : 0..Cardinality(Runs)]]
  /\ cancelled \subseteq Requests

(***************************************************************************)
(* Run.                                                                    *)
(***************************************************************************)
RunRegisters(r) ==
  /\ run[r] = "off"
  /\ run' = [run EXCEPT ![r] = "connecting"]
  /\ connecting' = connecting \cup {r}
  /\ UNCHANGED <<ready, locals, runs, request, cancelled>>

\* server.Connect returns (external).
RunConnects(r) ==
  /\ run[r] = "connecting"
  /\ \E s \in {"connected", "failing"} : run' = [run EXCEPT ![r] = s]
  /\ UNCHANGED <<connecting, ready, locals, runs, request, cancelled>>

RunRecords(r) ==
  /\ run[r] = "connected"
  /\ run' = [run EXCEPT ![r] = "recorded"]
  /\ runs' = runs + 1
  /\ locals' = [locals EXCEPT ![r] = runs + 1]
  /\ UNCHANGED <<connecting, ready, request, cancelled>>

\* release: out of connecting, and the waiters are woken.
RunReleases(r) ==
  /\ run[r] \in {"recorded", "failing"}
  /\ run' = [run EXCEPT ![r] = IF run[r] = "recorded" THEN "serving" ELSE "failed"]
  /\ connecting' = connecting \ {r}
  /\ ready' = ready \cup {r}
  /\ UNCHANGED <<locals, runs, request, cancelled>>

\* The agent disconnects or ctx is cancelled: the deferred delete.
RunEnds(r) ==
  /\ run[r] = "serving"
  /\ run' = [run EXCEPT ![r] = "ended"]
  /\ locals' = [locals EXCEPT ![r] = 0]
  /\ UNCHANGED <<connecting, ready, runs, request, cancelled>>

(***************************************************************************)
(* agentSessionKey and localKey.                                           *)
(***************************************************************************)
\* A call with a stateful session id, or with a principal, came over the
\* listener and is keyed without asking localKey; only a call with neither,
\* on the session of a Run, can be a local agent's.
AgentSessionKey(q, s) ==
  /\ request[q].pc = "none"
  /\ s # NoRun => run[s] \in {"connecting", "connected", "recorded", "serving"}
  /\ request' = [request EXCEPT ![q].sess = s,
                                ![q].pc = IF s = NoRun THEN "keyed" ELSE "lookup"]
  /\ UNCHANGED <<run, connecting, ready, locals, runs, cancelled>>

\* localKey does not wait for a connecting Run.
LocalKeyUnwaited(q) ==
  /\ request[q].pc = "lookup"
  /\ LET r == request[q].sess
     IN request' = [request EXCEPT ![q].pc = "keyed",
                                   ![q].key = IF locals[r] # 0 THEN locals[r] ELSE OwnKey]
  /\ UNCHANGED <<run, connecting, ready, locals, runs, cancelled>>

\* localKey, under localMu: the recorded key; else wait for any one of the
\* connecting Runs; else a key of its own.
LocalKey(q) ==
  /\ request[q].pc = "lookup"
  /\ LET r == request[q].sess
     IN \/ /\ locals[r] # 0
           /\ request' = [request EXCEPT ![q].pc = "keyed", ![q].key = locals[r]]
        \/ /\ locals[r] = 0 /\ connecting = {}
           /\ request' = [request EXCEPT ![q].pc = "keyed", ![q].key = OwnKey]
        \/ /\ locals[r] = 0
           /\ \E w \in connecting :
                request' = [request EXCEPT ![q].pc = "waiting", ![q].waits = w]
  /\ UNCHANGED <<run, connecting, ready, locals, runs, cancelled>>

KeyWaitEnds(q) ==
  /\ request[q].pc = "waiting"
  /\ \/ /\ request[q].waits \in ready
        /\ request' = [request EXCEPT ![q].pc = "lookup", ![q].waits = NoRun]
     \/ /\ q \in cancelled
        /\ request' = [request EXCEPT ![q].pc = "keyed", ![q].waits = NoRun, ![q].key = OwnKey]
  /\ UNCHANGED <<run, connecting, ready, locals, runs, cancelled>>

RequestCancelled(q) ==
  /\ request[q].pc \in {"lookup", "waiting"} /\ q \notin cancelled
  /\ cancelled' = cancelled \cup {q}
  /\ UNCHANGED <<run, connecting, ready, locals, runs, request>>

LocalInit ==
  /\ run = [r \in Runs |-> "off"]
  /\ connecting = {} /\ ready = {} /\ runs = 0 /\ cancelled = {}
  /\ locals = [r \in Runs |-> 0]
  /\ request = [q \in Requests |-> [pc |-> "none", sess |-> NoRun, waits |-> NoRun, key |-> OwnKey]]

RunSteps(r) == RunConnects(r) \/ RunRecords(r) \/ RunReleases(r)
KeySteps(q) == LocalKey(q) \/ KeyWaitEnds(q)

LocalNext ==
  \/ \E r \in Runs : RunSteps(r) \/ RunEnds(r)
  \/ \E q \in Requests : KeySteps(q) \/ RequestCancelled(q)
  \/ \E q \in Requests, s \in Runs \cup {NoRun} : AgentSessionKey(q, s)

LocalFairness ==
  /\ \A r \in Runs : WF_localVars(RunSteps(r))
  /\ \A q \in Requests : WF_localVars(KeySteps(q))

(***************************************************************************)
(* Properties.                                                             *)
(***************************************************************************)
\* A local request whose context stands is never keyed as a stranger while
\* its Run serves its session: it waits out the window in which go-sdk has
\* dispatched it and Run has not recorded the session.
LocalCallIsKnown ==
  \A q \in Requests :
    request[q].pc = "keyed" /\ request[q].sess # NoRun /\ request[q].key = OwnKey =>
      q \in cancelled \/ run[request[q].sess] \in {"failed", "ended"}

\* Requests of two sessions never get the same local key, so no agent's call
\* is taken for another's, across Runs that end and Runs that start.
KeysAreOneSession ==
  \A p, q \in Requests :
    /\ request[p].pc = "keyed" /\ request[q].pc = "keyed"
    /\ request[p].key = request[q].key /\ request[p].key \in 1..Cardinality(Runs)
    => request[p].sess = request[q].sess

\* Every request gets a key: nobody waits for a Run that never wakes it.
EveryCallIsKeyed ==
  \A q \in Requests : (request[q].pc = "lookup") ~> (request[q].pc = "keyed")

\* A call of a local agent has the key of its own session and of no other
\* (localKey, Run).
LocalKeysHold == LocalCallIsKnown /\ KeysAreOneSession
=============================================================================
