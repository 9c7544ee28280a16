---------------------------- MODULE ListenServer ----------------------------
(***************************************************************************)
(* The Streamable HTTP listener of `fathomgate serve --listen`             *)
(* (cmd/fathomgate/listen.go): binding both loopback addresses of a port,  *)
(* the connection slots the two listeners share, the timer of a            *)
(* connection's first request, the tracker of requests in flight, and the  *)
(* shutdown.  net/http (external) accepts, dispatches and shuts down.      *)
(* Serve composes this with the life of the upstream.                      *)
(***************************************************************************)
EXTENDS Naturals, FiniteSets

CONSTANTS
  Ports,        \* the ports there are
  BindAttempts, \* bindAttempts
  Holds,        \* the wildcard addresses are held too (Windows)
  Conns,        \* connections
  MaxConns      \* maxConnections

ASSUME ListenAssumption ==
  /\ IsFiniteSet(Conns) /\ MaxConns \in Nat
  /\ BindAttempts \in Nat \ {0} /\ Holds \in BOOLEAN

Families == {"v4", "v6"}
Other(f) == IF f = "v4" THEN "v6" ELSE "v4"
AnyPort == 0

VARIABLES
  asked,      \* --listen: [host, port]
  missing,    \* the families this host has no loopback address of
  foreign,    \* the addresses other programs hold: <<port, family or "any">>
  bind,       \* where bindLoopback is
  inner, outer, \* its attempts, and those of bindLoopbackFamilies
  lport, lns, held, \* the bound port, its listeners, and the held wildcards
  acc,        \* acc[f]: the accept loop of a listener
  sem,        \* the slots taken
  conn,       \* conn[c]: a connection
  timer,      \* its first-request timer: armed, or fired and about to close it
  released,   \* its slot has been given back
  n, idle,    \* requestTracker: the count and the idle channel
  old,        \* history: the requests in flight when the shutdown began
  hook,       \* the function registered on shutdown
  graceOver   \* the shutdown grace is over

bindVars == <<asked, missing, foreign, bind, inner, outer, lport, held>>
connVars == <<acc, sem, conn, timer, released>>
trackVars == <<n, idle, old>>
listenVars == <<bindVars, lns, connVars, trackVars, hook, graceOver>>

Bound == bind = "bound"
OpenConn == {"new", "idle", "request", "stream"}

ListenTypeOK ==
  /\ asked \in [host : Families, port : Ports \cup {AnyPort}]
  /\ missing \subseteq {"v6"} /\ foreign \subseteq Ports \X (Families \cup {"any"})
  /\ bind \in {"off", "first", "second", "hold", "bound", "refused"}
  /\ inner \in 1..BindAttempts /\ outer \in 1..BindAttempts
  /\ lport \in Ports \cup {AnyPort} /\ lns \subseteq Families /\ held \in BOOLEAN
  /\ acc \in [Families -> {"off", "slot", "accept", "ended"}]
  /\ sem \in 0..MaxConns
  /\ conn \in [Conns -> OpenConn \cup {"none", "broken", "cut"}]
  /\ timer \in [Conns -> {"off", "armed", "fired"}] /\ released \in [Conns -> BOOLEAN]
  /\ n \in 0..Cardinality(Conns) /\ idle \in {"none", "made", "closed"}
  /\ old \subseteq Conns
  /\ hook \in {"off", "start", "waiting", "close", "closing", "ended"}
  /\ graceOver \in BOOLEAN

(***************************************************************************)
(* bindLoopback and bindLoopbackFamilies.                                  *)
(***************************************************************************)
Free(p, f) == <<p, f>> \notin foreign /\ f \notin missing

BindBegins ==
  /\ bind = "off"
  /\ bind' = "first"
  /\ UNCHANGED <<asked, missing, foreign, inner, outer, lport, lns, held, connVars,
                 trackVars, hook, graceOver>>

\* listen on the address asked for; the system picks a free port for port 0.
BindFirst ==
  /\ bind = "first"
  /\ LET can == {p \in IF asked.port = AnyPort THEN Ports ELSE {asked.port} : Free(p, asked.host)}
     IN \/ /\ can = {} /\ bind' = "refused"
           /\ UNCHANGED <<lport, lns>>
        \/ \E p \in can :
             /\ bind' = "second" /\ lport' = p /\ lns' = {asked.host}
  /\ UNCHANGED <<asked, missing, foreign, inner, outer, held, connVars, trackVars, hook, graceOver>>

\* listen on the other address of the same port: bound, or missing on this
\* host, or held by another program, and then the first is closed, and
\* another port tried if the system picked this one.
BindSecond ==
  /\ bind = "second"
  /\ LET twin == Other(asked.host)
     IN \/ /\ Free(lport, twin) \/ twin \in missing
           /\ lns' = IF twin \in missing THEN lns ELSE Families
           /\ bind' = "hold"
           /\ UNCHANGED <<inner, lport>>
        \/ /\ <<lport, twin>> \in foreign /\ twin \notin missing
           /\ lns' = {} /\ lport' = AnyPort
           /\ \/ /\ asked.port = AnyPort /\ inner < BindAttempts
                 /\ inner' = inner + 1 /\ bind' = "first"
              \/ /\ ~(asked.port = AnyPort /\ inner < BindAttempts)
                 /\ bind' = "refused" /\ UNCHANGED inner
  /\ UNCHANGED <<asked, missing, foreign, outer, held, connVars, trackVars, hook, graceOver>>

\* hold the wildcard addresses of the port, where that is done.
BindHold ==
  /\ bind = "hold"
  /\ \/ /\ ~Holds \/ <<lport, "any">> \notin foreign
        /\ bind' = "bound" /\ held' = Holds
        /\ UNCHANGED <<inner, outer, lport, lns>>
     \/ /\ Holds /\ <<lport, "any">> \in foreign
        /\ lns' = {} /\ lport' = AnyPort
        /\ UNCHANGED held
        /\ \/ /\ asked.port = AnyPort /\ outer < BindAttempts
              /\ outer' = outer + 1 /\ inner' = 1 /\ bind' = "first"
           \/ /\ ~(asked.port = AnyPort /\ outer < BindAttempts)
              /\ bind' = "refused" /\ UNCHANGED <<inner, outer>>
  /\ UNCHANGED <<asked, missing, foreign, connVars, trackVars, hook, graceOver>>

\* Another program takes an address nobody holds (external).
OtherProgram(p, f) ==
  /\ bind \in {"first", "second", "hold", "bound"}
  /\ <<p, f>> \notin foreign /\ f \notin missing
  /\ ~(p = lport /\ (f \in lns \/ (f = "any" /\ held)))
  /\ foreign' = foreign \cup {<<p, f>>}
  /\ UNCHANGED <<asked, missing, bind, inner, outer, lport, lns, held, connVars, trackVars,
                 hook, graceOver>>

BindNext == BindFirst \/ BindSecond \/ BindHold

Elsewhere == \E p \in Ports, f \in Families \cup {"any"} : OtherProgram(p, f)

(***************************************************************************)
(* limitedListener.Accept and limitedConn.Close.                           *)
(***************************************************************************)

\* limitedConn.Close gives the slot back once, however often it is called.
Release(c) ==
  /\ sem' = IF released[c] THEN sem ELSE sem - 1
  /\ released' = [released EXCEPT ![c] = TRUE]

AcceptTakesSlot(f) ==
  /\ acc[f] = "slot" /\ sem < MaxConns
  /\ sem' = sem + 1
  /\ acc' = [acc EXCEPT ![f] = "accept"]
  /\ UNCHANGED <<bindVars, lns, conn, timer, released, trackVars, hook, graceOver>>

AcceptSeesClose(f) ==
  /\ acc[f] = "slot" /\ f \notin lns
  /\ acc' = [acc EXCEPT ![f] = "ended"]
  /\ UNCHANGED <<bindVars, lns, sem, conn, timer, released, trackVars, hook, graceOver>>

\* ConnContext arms the first-request timer.  A name is used again once the
\* timer of the last connection of that name is done.
Accepts(f, c) ==
  /\ acc[f] = "accept" /\ f \in lns /\ conn[c] = "none" /\ timer[c] = "off"
  /\ acc' = [acc EXCEPT ![f] = "slot"]
  /\ conn' = [conn EXCEPT ![c] = "new"]
  /\ timer' = [timer EXCEPT ![c] = "armed"]
  /\ released' = [released EXCEPT ![c] = FALSE]
  /\ UNCHANGED <<bindVars, lns, sem, trackVars, hook, graceOver>>

\* A temporary error of Accept: the slot is given back, and net/http's Serve
\* (external) calls Accept again.
AcceptRetries(f) ==
  /\ acc[f] = "accept" /\ f \in lns
  /\ sem' = sem - 1
  /\ acc' = [acc EXCEPT ![f] = "slot"]
  /\ UNCHANGED <<bindVars, lns, conn, timer, released, trackVars, hook, graceOver>>

\* Accept fails, on a closed listener or for good by itself: the slot is given
\* back, and Serve returns and closes its listener.  The first heldListener
\* closed lets go of the held wildcards.
AcceptFails(f) ==
  /\ acc[f] = "accept"
  /\ sem' = sem - 1
  /\ acc' = [acc EXCEPT ![f] = "ended"]
  /\ lns' = lns \ {f} /\ held' = FALSE
  /\ UNCHANGED <<asked, missing, foreign, bind, inner, outer, lport, conn, timer, released,
                 trackVars, hook, graceOver>>

(***************************************************************************)
(* A connection: requests, the tracker, the timer.                         *)
(***************************************************************************)
\* firstRequestSeen and requestTracker.wrap: the timer is stopped unless it
\* has fired; a GET or a subscription is not counted.
Request(c, long) ==
  /\ conn[c] \in {"new", "idle"}
  /\ timer' = IF timer[c] = "armed" THEN [timer EXCEPT ![c] = "off"] ELSE timer
  /\ conn' = [conn EXCEPT ![c] = IF long THEN "stream" ELSE "request"]
  /\ n' = IF long THEN n ELSE n + 1
  /\ UNCHANGED <<bindVars, lns, acc, sem, released, idle, old, hook, graceOver>>

\* requestTracker.add(-1): the last one out closes the idle channel.
Leave ==
  /\ n' = n - 1
  /\ idle' = IF n - 1 = 0 /\ idle = "made" THEN "closed" ELSE idle

RequestEnds(c) ==
  /\ \/ conn[c] = "request" /\ conn' = [conn EXCEPT ![c] = "idle"] /\ Leave
     \/ conn[c] = "cut" /\ conn' = [conn EXCEPT ![c] = "broken"] /\ Leave
     \/ conn[c] = "stream" /\ conn' = [conn EXCEPT ![c] = "idle"] /\ UNCHANGED <<n, idle>>
  /\ old' = old \ {c}
  /\ UNCHANGED <<bindVars, lns, acc, sem, timer, released, hook, graceOver>>

\* firstHeaderTimeout is over, and nothing stops the AfterFunc any more.
TimerFires(c) ==
  /\ timer[c] = "armed"
  /\ timer' = [timer EXCEPT ![c] = "fired"]
  /\ UNCHANGED <<bindVars, lns, acc, sem, conn, released, trackVars, hook, graceOver>>

\* The AfterFunc closes the connection, whatever it is doing by now: one that
\* has sent no request, a first request just begun, or nothing any more.
FirstHeaderFires(c) ==
  /\ timer[c] = "fired"
  /\ timer' = [timer EXCEPT ![c] = "off"]
  /\ conn' = [conn EXCEPT ![c] = CASE @ = "request" -> "cut"
                                    [] @ \in OpenConn \ {"request"} -> "broken"
                                    [] OTHER -> @]
  /\ Release(c)
  /\ UNCHANGED <<bindVars, lns, acc, trackVars, hook, graceOver>>

\* net/http closes the connection: the peer left, or a Close came before.
ServerCloses(c) ==
  /\ conn[c] \in {"new", "idle", "broken"}
  /\ conn' = [conn EXCEPT ![c] = "none"]
  /\ Release(c)
  /\ UNCHANGED <<bindVars, lns, acc, timer, trackVars, hook, graceOver>>

(***************************************************************************)
(* Shutdown: the hook newHTTPServer registers.                             *)
(***************************************************************************)
\* The hook closes the proxy without waiting for the requests in flight.
HookWaitsForNone ==
  /\ hook = "start"
  /\ hook' = "close"
  /\ UNCHANGED <<bindVars, lns, connVars, trackVars, graceOver>>

\* requestTracker.wait.
HookWaits ==
  /\ hook = "start"
  /\ \/ n = 0 /\ hook' = "close" /\ UNCHANGED idle
     \/ n > 0 /\ hook' = "waiting" /\ idle' = "made"
  /\ UNCHANGED <<bindVars, lns, connVars, n, old, graceOver>>

\* The wait has no limit.
HookWakesIdle ==
  /\ hook = "waiting" /\ idle = "closed"
  /\ hook' = "close"
  /\ UNCHANGED <<bindVars, lns, connVars, trackVars, graceOver>>

HookWakes ==
  /\ hook = "waiting" /\ (idle = "closed" \/ graceOver)
  /\ hook' = "close"
  /\ UNCHANGED <<bindVars, lns, connVars, trackVars, graceOver>>

\* The hook's grace, and the slightly longer context of Shutdown.
GraceOver ==
  /\ hook # "off" /\ ~graceOver
  /\ graceOver' = TRUE
  /\ UNCHANGED <<bindVars, lns, connVars, trackVars, hook>>

ListenInit ==
  /\ asked \in [host : Families, port : Ports \cup {AnyPort}]
  /\ missing \in SUBSET {"v6"} /\ foreign = {}
  /\ bind = "off" /\ inner = 1 /\ outer = 1
  /\ lport = AnyPort /\ lns = {} /\ held = FALSE
  /\ acc = [f \in Families |-> "off"] /\ sem = 0
  /\ conn = [c \in Conns |-> "none"] /\ timer = [c \in Conns |-> "off"]
  /\ released = [c \in Conns |-> FALSE]
  /\ n = 0 /\ idle = "none" /\ old = {}
  /\ hook = "off" /\ graceOver = FALSE

AcceptNext ==
  \E f \in Families :
    \/ AcceptTakesSlot(f) \/ AcceptSeesClose(f) \/ AcceptRetries(f) \/ AcceptFails(f)
    \/ \E c \in Conns : Accepts(f, c)

ConnNext ==
  \E c \in Conns :
    \/ \E long \in BOOLEAN : Request(c, long)
    \/ RequestEnds(c) \/ TimerFires(c) \/ FirstHeaderFires(c) \/ ServerCloses(c)

(***************************************************************************)
(* Properties.                                                             *)
(***************************************************************************)
\* Every listener that was bound is still up.
Listening == Bound /\ lns # {} /\ \A f \in Families : acc[f] # "ended"

\* While fathomgate listens, no other program holds the other loopback
\* address of its port, where a client that resolves localhost differently
\* would send its token, nor, where they are held, its wildcard addresses.
\* Only a listener that fails lets them go, and then serve ends
\* (FailureStopsServe).  A refused start leaves nothing bound.
NoForeignTwin ==
  /\ Listening => \A f \in Families \cup {"any"} : <<lport, f>> \in foreign => f = "any" /\ ~Holds
  /\ bind = "refused" => lns = {} /\ ~held

\* The slots taken are exactly the open connections and the accepts under
\* way, however a connection ends and however often it is closed.
SlotsExact ==
  sem = Cardinality({f \in Families : acc[f] = "accept"})
        + Cardinality({c \in Conns : conn[c] \in OpenConn})

\* A request in flight when the shutdown begins is not cut off by it before
\* the grace is over.
GraceIsKept ==
  hook \in {"close", "closing", "ended"} /\ ~graceOver => old = {}

\* A connection that sends no request gives its slot back.
SilentConnectionEnds == \A c \in Conns : (conn[c] = "new") ~> (conn[c] # "new")
=============================================================================
