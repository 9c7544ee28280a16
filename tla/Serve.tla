-------------------------------- MODULE Serve --------------------------------
(***************************************************************************)
(* `fathomgate serve` (cmd/fathomgate/serve.go, listen.go): with --listen  *)
(* the loopback addresses are bound first, then the upstream is connected  *)
(* (proxy.New), then runListener serves until a signal, the upstream's     *)
(* exit or a listener error; on stdio one Run serves the agent.  Either    *)
(* way Proxy.Close ends the upstream before serve returns.                 *)
(***************************************************************************)
EXTENDS UpstreamLife, ListenServer, LocalSessions

VARIABLES
  mode,    \* "listen" or "stdio"
  serve,   \* serveBinding, runListener and the stdio path
  signal,  \* SIGINT or SIGTERM has come
  code     \* the exit code; 9 until serve returns

serveVars == <<mode, serve, signal, code>>
allVars == <<serveVars, vars, listenVars, localVars>>

ServeTypeOK ==
  /\ TypeOK /\ ListenTypeOK /\ LocalTypeOK
  /\ mode \in {"listen", "stdio"}
  /\ serve \in {"start", "bind", "new", "serving", "shutdown", "hook", "served", "run", "close",
                "returned"}
  /\ signal \in BOOLEAN /\ code \in {0, 1, 2, 9}

(***************************************************************************)
(* serveBinding.                                                           *)
(***************************************************************************)
ServeBegins ==
  /\ serve = "start"
  /\ \/ mode = "listen" /\ serve' = "bind" /\ BindBegins /\ UNCHANGED vars
     \/ mode = "stdio" /\ serve' = "new" /\ Start /\ Settles /\ UNCHANGED listenVars
  /\ UNCHANGED <<mode, signal, code, localVars>>

ServeBound ==
  /\ serve = "bind"
  /\ \/ /\ bind = "refused" /\ serve' = "returned" /\ code' = 1
        /\ UNCHANGED vars
     \/ /\ Bound /\ serve' = "new" /\ Start /\ Settles
        /\ UNCHANGED code
  /\ UNCHANGED <<mode, signal, listenVars, localVars>>

\* New has failed: the listeners it was started behind are closed.
ServeNewFails ==
  /\ serve = "new" /\ main = "failed"
  /\ lns' = {} /\ held' = FALSE
  /\ serve' = "returned" /\ code' = 1
  /\ UNCHANGED <<mode, signal, vars, asked, missing, foreign, bind, inner, outer, lport,
                 connVars, trackVars, hook, graceOver, localVars>>

ServeNewReady ==
  /\ serve = "new" /\ main = "ready"
  /\ \/ /\ mode = "listen" /\ serve' = "serving"
        /\ acc' = [f \in Families |-> IF f \in lns THEN "slot" ELSE "off"]
        /\ UNCHANGED localVars
     \/ /\ mode = "stdio" /\ serve' = "run"
        /\ \E r \in Runs : RunRegisters(r)
        /\ UNCHANGED acc
  /\ UNCHANGED <<mode, signal, code, vars, bindVars, lns, sem, conn, timer, released,
                 trackVars, hook, graceOver>>

\* runListener: HTTPHandler fails, and the listeners and the proxy are closed.
ServeNoHandler ==
  /\ serve = "new" /\ main = "ready" /\ mode = "listen"
  /\ lns' = {} /\ held' = FALSE
  /\ Close /\ Settles
  /\ serve' = "close" /\ code' = 2
  /\ UNCHANGED <<mode, signal, asked, missing, foreign, bind, inner, outer, lport,
                 connVars, trackVars, hook, graceOver, localVars>>

(***************************************************************************)
(* runListener.                                                            *)
(***************************************************************************)
\* The select, and Shutdown's first act: the listeners and what they hold
\* are closed and the hook is started.
StopServing(c) ==
  /\ serve = "serving"
  /\ code' = c
  /\ serve' = "shutdown"
  /\ lns' = {} /\ held' = FALSE
  /\ hook' = "start"
  /\ old' = {x \in Conns : conn[x] = "request"}
  /\ UNCHANGED <<mode, signal, vars, asked, missing, foreign, bind, inner, outer, lport,
                 connVars, n, idle, graceOver, localVars>>

OnSignal == signal /\ StopServing(0)

OnUpstreamExit == exited /\ StopServing(1)
OnServeError == (\E f \in Families : acc[f] = "ended") /\ StopServing(1)

\* Every connection is gone, or Shutdown's context is done first and the
\* server closes them all.
ShutdownEnds ==
  /\ serve = "shutdown"
  /\ \/ /\ \A c \in Conns : conn[c] = "none"
        /\ UNCHANGED connVars
     \/ /\ graceOver
        /\ conn' = [c \in Conns |-> CASE conn[c] = "request" -> "cut"
                                      [] conn[c] \in OpenConn \ {"request"} -> "broken"
                                      [] OTHER -> conn[c]]
        /\ sem' = sem - Cardinality({c \in Conns : conn[c] \in OpenConn})
        /\ released' = [c \in Conns |-> released[c] \/ conn[c] \in OpenConn]
        /\ UNCHANGED <<acc, timer>>
  /\ serve' = "hook"
  /\ UNCHANGED <<mode, signal, code, vars, bindVars, lns, trackVars, hook, graceOver, localVars>>

\* The hook's Proxy.Close; what it waits for is the upstream's Close.
HookCloses ==
  /\ hook = "close"
  /\ Close /\ Settles
  /\ hook' = "closing"
  /\ UNCHANGED <<serveVars, bindVars, lns, connVars, trackVars, graceOver, localVars>>

HookEnds ==
  /\ hook = "closing" /\ main = "closed"
  /\ hook' = "ended"
  /\ UNCHANGED <<serveVars, vars, bindVars, lns, connVars, trackVars, graceOver, localVars>>

HookDone ==
  /\ serve = "hook" /\ hook = "ended"
  /\ serve' = "served"
  /\ UNCHANGED <<mode, signal, code, vars, listenVars, localVars>>

ServedDone ==
  /\ serve = "served" /\ \A f \in Families : acc[f] \in {"off", "ended"}
  /\ serve' = "returned"
  /\ UNCHANGED <<mode, signal, code, vars, listenVars, localVars>>

(***************************************************************************)
(* The stdio path.                                                         *)
(***************************************************************************)
\* The Run's session has ended, with or without an error, or never began.
RunReturns ==
  /\ serve = "run"
  /\ \E r \in Runs : run[r] = "ended" \/ (run[r] = "failed" /\ code' = 1)
  /\ code' \in {0, 1}
  /\ Close /\ Settles
  /\ serve' = "close"
  /\ UNCHANGED <<mode, signal, listenVars, localVars>>

CloseReturned ==
  /\ serve = "close" /\ main = "closed"
  /\ serve' = "returned"
  /\ UNCHANGED <<mode, signal, code, vars, listenVars, localVars>>

\* SIGINT or SIGTERM: it ends the startup context too.
Signalled ==
  /\ ~signal /\ serve = "serving"
  /\ signal' = TRUE
  /\ UNCHANGED <<mode, serve, code, vars, listenVars, localVars>>

ServeInit ==
  /\ Init /\ ListenInit /\ LocalInit
  /\ mode \in {"listen", "stdio"} /\ serve = "start" /\ signal = FALSE /\ code = 9

(***************************************************************************)
(* The composition.  Close and Start are taken by serve alone.             *)
(***************************************************************************)
UpstreamStep ==
  /\ \/ New \/ ListTools \/ Sdk \/ SdkAnswered \/ Watching \/ Closing \/ UpstreamActs
     \/ ReadEnds \/ ReadBad \/ WriteFails \/ BoundExpires \/ CtxEnds \/ ExitWatch \/ CloseSession \/ Closed
  /\ Settles
  /\ UNCHANGED <<serveVars, listenVars, localVars>>

ListenStep ==
  /\ \/ BindNext /\ serve = "bind"
     \/ Elsewhere
     \/ AcceptNext \/ ConnNext \/ HookWaits \/ HookWakes \/ GraceOver
  /\ UNCHANGED <<serveVars, vars, localVars>>

LocalStep ==
  /\ serve = "run"
  /\ LocalNext \/ \E r \in Runs : RunRegisters(r)
  /\ UNCHANGED <<serveVars, vars, listenVars>>

ServeStep ==
  \/ ServeBegins \/ ServeBound \/ ServeNewFails \/ ServeNewReady \/ ServeNoHandler
  \/ OnSignal \/ OnUpstreamExit \/ OnServeError \/ ShutdownEnds
  \/ HookCloses \/ HookEnds \/ HookDone \/ ServedDone
  \/ RunReturns \/ CloseReturned \/ Signalled

ServeNext == UpstreamStep \/ ListenStep \/ LocalStep \/ ServeStep

(***************************************************************************)
(* Properties.                                                             *)
(***************************************************************************)
\* serve returns with nothing left of it: no bound address, no open
\* connection, and nothing of the upstream but what a child of another user
\* is (ADR 0021 residual), whichever way it ended.
NothingLeftServing ==
  serve = "returned" =>
    /\ lns = {} /\ ~held
    /\ \A c \in Conns : conn[c] \notin OpenConn
    /\ \A a \in Attempts : NothingSignallable(a)

\* The listener exits with 0 only for a signal: a dead upstream or listener is
\* an error to the supervisor.
ExitCodeTells == serve = "returned" /\ mode = "listen" /\ code = 0 => signal

\* Once the listener stops, for whatever reason, serve returns, whatever its
\* connections and its upstream do.
ServeReturns == (serve = "shutdown") ~> (serve = "returned")

\* An upstream session that fails, and a listener that fails, bring serve
\* down: fathomgate does not stay up for a dead upstream, nor on one address
\* while the other is free for anyone to take.
FailureStopsServe ==
  (serve = "serving" /\ (broken[att] # "no" \/ \E f \in Families : acc[f] = "ended"))
    ~> (serve = "returned")

\* The listener from bind to return: no foreign program beside it, exact
\* slots, requests served out, nothing left.
ListenerHolds == ServeTypeOK /\ NoForeignTwin /\ SlotsExact /\ GraceIsKept /\ NothingLeftServing

\* What is said about an end is true: the exit status in an error and the
\* exited signal are the upstream's own, and exit code 0 is a signal's.
ExitsTell == ExitIsItsOwn /\ ExitedOnItsOwn /\ ExitCodeTells

\* Everything that is waited for comes: New returns, silent connections end,
\* every local call gets its key, and a listener that stops or fails, or
\* whose upstream dies, brings serve to its end.
ServeEnds ==
  /\ NewReturns /\ SilentConnectionEnds /\ EveryCallIsKeyed
  /\ ServeReturns /\ FailureStopsServe
=============================================================================
