---------------------------- MODULE HttpSessions ----------------------------
(***************************************************************************)
(* internal/proxy/http.go and calls.go: the stateful (2025-era) sessions   *)
(* of the HTTP listener.  Requests of the agents, the idle clocks, the     *)
(* session watchers, the goroutines closing evicted sessions, the tool     *)
(* calls and Proxy.Close all run at once; each action is one critical      *)
(* section of httpHandler.mu, liveSession.mu or callLimits.mu.             *)
(*                                                                         *)
(* A session id is used once.  go-sdk's side of a session (external) goes  *)
(* unused, open, closing (Close was called; it waits for the calls it has  *)
(* delivered), closed (Wait returns), gone (the id is forgotten and Close  *)
(* returns).                                                               *)
(*                                                                         *)
(* A request is idle, or one of                                            *)
(*   open        a POST without a session id: "admitted", "reserved",      *)
(*               "served", "registered", "tracked", "untracked"            *)
(*   post, get   a POST or GET on session sid, "begun"; counted says where *)
(*               ("live", "early" or "none", another principal's session)  *)
(* A call is idle, delivered by go-sdk, or running once admit let it in.   *)
(***************************************************************************)
EXTENDS Integers, Sequences, FiniteSets, SequencesExt

CONSTANTS
  Sids, Principals,
  Reqs,                 \* HTTP requests under way at once
  Calls,                \* tool calls under way at once
  NoSid, NoPrincipal,
  Events,               \* what may happen: "post", "get" and "delete" requests on a
                        \* session, and "close", Proxy.Close
  MaxSessions, MaxSessionsPerPrincipal,
  MaxCallsPerSession, MaxCallsPerPrincipal

ASSUME HttpAssumption ==
  /\ NoSid \notin Sids /\ NoPrincipal \notin Principals
  /\ IsFiniteSet(Sids) /\ IsFiniteSet(Reqs)
  /\ Events \subseteq {"post", "get", "delete", "close"}
  /\ {MaxSessions, MaxSessionsPerPrincipal, MaxCallsPerSession, MaxCallsPerPrincipal}
       \subseteq Nat \ {0}

VARIABLES
  req,        \* request -> [kind, stage, principal, sid, counted]
  call,       \* call -> [stage, sid, cancelled]
  sdk,        \* session -> go-sdk's state of it
  owner,      \* session -> the principal that opened it
  live,       \* httpHandler.live
  evicted,    \* liveSession.evicted
  used,       \* the live sessions in the order of their last use
  timer,      \* session -> "none", "running", "out", "paused", "stopped"
  fired,      \* session -> an expire waiting for liveSession.mu: "no", "pending",
              \*            or "overtaken" by a POST that has started since
  active,     \* session -> POSTs in progress
  gets,       \* session -> GET streams open
  early,      \* <<session, principal>> -> POSTs begun before it was registered
  earlyGets,  \* the same for GETs
  slot,       \* session -> its sessionSlot: "none", "held", "released"
  slots,      \* principal -> sessionsPerPrincipal
  sessions,   \* httpHandler.sessions
  retired,    \* callLimits.retired
  watcher,    \* session -> "none", "waiting", "stopped", "forgotten", "done"
  evictor,    \* session -> "none", "starting", "closing", "done"
  closers,    \* <<session, who>>: whose call of its go-sdk Close is under way
              \* ("delete", "expire", "evict", "settle" or "proxy")
  closing,    \* Proxy.Close: "no", "limits", "sessions", "done"
  snapshot    \* the sessions Proxy.Close closes

life     == <<sdk, owner>>
book     == <<live, evicted, used>>
clock    == <<timer, fired>>
counts   == <<active, gets, early, earlyGets>>
places   == <<slot, slots, sessions>>
helpers  == <<watcher, evictor>>
shutdown == <<closers, closing, snapshot>>

vars == <<req, call, life, book, clock, counts, places, retired, helpers, shutdown>>

Idle == [kind |-> "idle", stage |-> "idle", principal |-> NoPrincipal, sid |-> NoSid,
         counted |-> "none"]

NoCall == [stage |-> "idle", sid |-> NoSid, cancelled |-> FALSE]

Init ==
  /\ req = [q \in Reqs |-> Idle]
  /\ call = [c \in Calls |-> NoCall]
  /\ sdk = [s \in Sids |-> "unused"]
  /\ owner = [s \in Sids |-> NoPrincipal]
  /\ live = {} /\ evicted = {} /\ used = <<>>
  /\ timer = [s \in Sids |-> "none"]
  /\ fired = [s \in Sids |-> "no"]
  /\ active = [s \in Sids |-> 0]
  /\ gets = [s \in Sids |-> 0]
  /\ early = [k \in Sids \X Principals |-> 0]
  /\ earlyGets = [k \in Sids \X Principals |-> 0]
  /\ slot = [s \in Sids |-> "none"]
  /\ slots = [p \in Principals |-> 0]
  /\ sessions = 0
  /\ retired = {}
  /\ watcher = [s \in Sids |-> "none"]
  /\ evictor = [s \in Sids |-> "none"]
  /\ closers = {} /\ closing = "no" /\ snapshot = {}

-----------------------------------------------------------------------------
(* Shared state by name *)

LimitsClosed == closing # "no"

RunningOn(s) == {c \in Calls : call[c].stage = "running" /\ call[c].sid = s}

RunningFor(p) == {c \in Calls : call[c].stage = "running" /\ owner[call[c].sid] = p}

\* Mutant: caps that let one session too many in.
FullBeyond(p) ==
  \/ slots[p] > MaxSessionsPerPrincipal
  \/ sessions > MaxSessions

Full(p) ==
  \/ slots[p] >= MaxSessionsPerPrincipal
  \/ sessions >= MaxSessions

\* sessionSlot.release
Release(s) ==
  /\ slot' = [slot EXCEPT ![s] = "released"]
  /\ IF slot[s] = "held"
     THEN slots' = [slots EXCEPT ![owner[s]] = @ - 1] /\ sessions' = sessions - 1
     ELSE UNCHANGED <<slots, sessions>>

\* The order of last use without session s.
Without(s) ==
  IF s \in live THEN RemoveAt(used, CHOOSE i \in DOMAIN used : used[i] = s) ELSE used

\* touchLocked; the order matters for sessions in live only.
Touched(s) == Append(Without(s), s)

\* Session s leaves live.
Forget(s) ==
  /\ live' = live \ {s}
  /\ used' = Without(s)
  /\ UNCHANGED evicted

CancelOn(S) ==
  [c \in Calls |-> IF call[c].stage = "running" /\ call[c].sid \in S
                   THEN [call[c] EXCEPT !.cancelled = TRUE] ELSE call[c]]

-----------------------------------------------------------------------------
(* Opening a session: reserveSession, the stateful handler, settleSession *)

OpenPost(q, p) ==
  /\ req[q] = Idle
  /\ req' = [req EXCEPT ![q] = [kind |-> "open", stage |-> "admitted", principal |-> p,
                                sid |-> NoSid, counted |-> "none"]]
  /\ UNCHANGED <<call, life, book, clock, counts, places, retired, helpers, shutdown>>

ReserveFree(q) ==
  /\ req[q].stage = "admitted" /\ ~Full(req[q].principal)
  /\ slots' = [slots EXCEPT ![req[q].principal] = @ + 1]
  /\ sessions' = sessions + 1
  /\ req' = [req EXCEPT ![q].stage = "reserved"]
  /\ UNCHANGED <<call, life, book, clock, counts, slot, retired, helpers, shutdown>>

\* Mutant: the candidates of every principal: whose session it is is not asked.
EvictableAnyones(p) ==
  {s \in live \ evicted : /\ active[s] = 0 /\ gets[s] = 0 /\ timer[s] # "stopped"
                          /\ RunningOn(s) = {}}

\* claimEvictableLocked's candidates that claimIdle lets go: idle sessions of
\* the principal itself with no call in flight.
Evictable(p) ==
  {s \in live \ evicted : /\ owner[s] = p
                          /\ active[s] = 0 /\ gets[s] = 0 /\ timer[s] # "stopped"
                          /\ RunningOn(s) = {}}

LeastRecentlyUsed(S) ==
  used[CHOOSE i \in DOMAIN used : used[i] \in S /\ \A j \in 1..(i - 1) : used[j] \notin S]

\* Evictions until there is a free place: each frees one of the principal's
\* own, so one eviction is enough, and slots and sessions are as before.  An
\* expire that is due can still run between the victim's idleState and its
\* stop, as it takes no httpHandler.mu: then both of them close the session.
ReserveByEviction(q) ==
  LET p == req[q].principal
      v == LeastRecentlyUsed(Evictable(p))
  IN /\ req[q].stage = "admitted" /\ Full(p) /\ Evictable(p) # {}
     /\ evicted' = evicted \cup {v}
     /\ retired' = retired \cup {v}
     /\ timer' = [timer EXCEPT ![v] = "stopped"]
     /\ slot' = [slot EXCEPT ![v] = "released"]
     /\ evictor' = [evictor EXCEPT ![v] = "starting"]
     /\ req' = [req EXCEPT ![q].stage = "reserved"]
     /\ \/ UNCHANGED <<fired, closers>>
        \/ /\ fired[v] # "no"
           /\ fired' = [fired EXCEPT ![v] = "no"]
           /\ closers' = closers \cup {<<v, "expire">>}
     /\ UNCHANGED <<call, life, live, used, counts, slots, sessions, watcher, closing, snapshot>>

\* 503
ReserveRefused(q) ==
  /\ req[q].stage = "admitted" /\ Full(req[q].principal) /\ Evictable(req[q].principal) = {}
  /\ req' = [req EXCEPT ![q] = Idle]
  /\ UNCHANGED <<call, life, book, clock, counts, places, retired, helpers, shutdown>>

\* go-sdk keeps a session for an initialise and names it in the response.
ServeInitialise(q, s) ==
  /\ req[q].stage = "reserved" /\ sdk[s] = "unused"
  /\ sdk' = [sdk EXCEPT ![s] = "open"]
  /\ owner' = [owner EXCEPT ![s] = req[q].principal]
  /\ req' = [req EXCEPT ![q].stage = "served", ![q].sid = s]
  /\ UNCHANGED <<call, book, clock, counts, places, retired, helpers, shutdown>>

\* For anything else it closes the session again, or it has ended before
\* settleSession looked for it.
SettleNone(q) ==
  /\ \/ req[q].stage = "reserved"
     \/ req[q].stage = "served" /\ sdk[req[q].sid] \in {"closed", "gone"}
  /\ slots' = [slots EXCEPT ![req[q].principal] = @ - 1]
  /\ sessions' = sessions - 1
  /\ req' = [req EXCEPT ![q] = Idle]
  /\ UNCHANGED <<call, life, book, clock, counts, slot, retired, helpers, shutdown>>

\* register: requests already in progress on the id count on the session.
Register(q) ==
  LET s == req[q].sid
      k == <<s, req[q].principal>>
  IN /\ req[q].stage = "served" /\ sdk[s] \in {"open", "closing"}
     /\ live' = live \cup {s}
     /\ active' = [active EXCEPT ![s] = @ + early[k]]
     /\ gets' = [gets EXCEPT ![s] = @ + earlyGets[k]]
     /\ early' = [early EXCEPT ![k] = 0]
     /\ earlyGets' = [earlyGets EXCEPT ![k] = 0]
     /\ used' = Touched(s)
     /\ slot' = [slot EXCEPT ![s] = "held"]
     /\ req' = [req EXCEPT ![q].stage = "registered"]
     /\ UNCHANGED <<call, life, evicted, clock, slots, sessions, retired, helpers, shutdown>>

\* track starts the session's watcher, unless the proxy is closing: then the
\* session is closed here and its slot given back once that has returned.
Track(q) ==
  LET s == req[q].sid
  IN /\ req[q].stage = "registered"
     /\ \/ /\ LimitsClosed
           /\ Forget(s)
           /\ closers' = closers \cup {<<s, "settle">>}
           /\ req' = [req EXCEPT ![q].stage = "untracked"]
           /\ UNCHANGED watcher
        \/ /\ ~LimitsClosed
           /\ watcher' = [watcher EXCEPT ![s] = "waiting"]
           /\ req' = [req EXCEPT ![q].stage = "tracked"]
           /\ UNCHANGED <<book, closers>>
     /\ UNCHANGED <<call, life, clock, counts, places, retired, evictor, closing, snapshot>>

SettleUntracked(q) ==
  /\ req[q].stage = "untracked" /\ sdk[req[q].sid] \in {"closed", "gone"}
  /\ Release(req[q].sid)
  /\ req' = [req EXCEPT ![q] = Idle]
  /\ UNCHANGED <<call, life, book, clock, counts, retired, helpers, shutdown>>

Arm(q) ==
  LET s == req[q].sid
  IN /\ req[q].stage = "tracked"
     /\ timer' = IF timer[s] # "none" THEN timer
                 ELSE [timer EXCEPT ![s] = IF active[s] > 0 THEN "paused" ELSE "running"]
     /\ req' = [req EXCEPT ![q] = Idle]
     /\ UNCHANGED <<call, life, book, fired, counts, places, retired, helpers, shutdown>>

-----------------------------------------------------------------------------
(* POST and GET on a session *)

\* A request on a session id an agent has been told.  Left out are the ones on
\* an id that neither side knows any more: counted early, answered 404 by
\* go-sdk, and taken back.
Begun(q, kind, p, s, counted) ==
  /\ req[q] = Idle /\ kind \in Events
  /\ sdk[s] # "unused" /\ (sdk[s] # "gone" \/ s \in live)
  /\ req' = [req EXCEPT ![q] = [kind |-> kind, stage |-> "begun", principal |-> p,
                                sid |-> s, counted |-> counted]]

\* Another principal's request on a live session: go-sdk answers 403.
BeginForeign(q, p, s) ==
  /\ s \in live /\ owner[s] # p
  /\ \E kind \in {"post", "get"} : Begun(q, kind, p, s, "none")
  /\ UNCHANGED <<call, life, book, clock, counts, places, retired, helpers, shutdown>>

\* beginPOST; on an evicted session its owner gets 404 at once.
BeginPost(q, p, s) ==
  \/ /\ s \in live \ evicted /\ owner[s] = p
     /\ Begun(q, "post", p, s, "live")
     /\ active' = [active EXCEPT ![s] = @ + 1]
     /\ timer' = IF timer[s] \in {"running", "out"} THEN [timer EXCEPT ![s] = "paused"]
                 ELSE timer
     /\ fired' = IF fired[s] = "pending" THEN [fired EXCEPT ![s] = "overtaken"] ELSE fired
     /\ UNCHANGED <<call, life, book, gets, early, earlyGets, places, retired, helpers, shutdown>>
  \/ /\ s \notin live
     /\ Begun(q, "post", p, s, "early")
     /\ early' = [early EXCEPT ![<<s, p>>] = @ + 1]
     /\ UNCHANGED <<call, life, book, clock, active, gets, earlyGets, places, retired,
                    helpers, shutdown>>

\* liveSession.endPOST
LiveEndPost(s) ==
  /\ active' = [active EXCEPT ![s] = @ - 1]
  /\ used' = IF s \in live THEN Touched(s) ELSE used
  /\ timer' = IF active[s] = 1 /\ timer[s] = "paused" THEN [timer EXCEPT ![s] = "running"]
              ELSE timer
  /\ UNCHANGED early

\* Mutant: the count of a POST begun early is always sought in early.
EndPostWhereBegun(q) ==
  LET s == req[q].sid
      k == <<s, req[q].principal>>
  IN /\ req[q].kind = "post"
     /\ req' = [req EXCEPT ![q] = Idle]
     /\ \/ req[q].counted = "live" /\ LiveEndPost(s)
        \/ /\ req[q].counted = "early"
           /\ early' = [early EXCEPT ![k] = IF @ > 0 THEN @ - 1 ELSE 0]
           /\ UNCHANGED <<active, used, timer>>
        \/ req[q].counted = "none" /\ UNCHANGED <<active, used, timer, early>>
     /\ UNCHANGED <<call, life, live, evicted, fired, gets, earlyGets, places, retired,
                    helpers, shutdown>>

\* The end function beginPOST returned.  An agent may drop its POST any time;
\* the call it carried goes on.
EndPost(q) ==
  LET s == req[q].sid
      k == <<s, req[q].principal>>
      takenOver == s \in live /\ owner[s] = req[q].principal
  IN /\ req[q].kind = "post"
     /\ req' = [req EXCEPT ![q] = Idle]
     /\ \/ /\ req[q].counted = "live" \/ (req[q].counted = "early" /\ takenOver)
           /\ LiveEndPost(s)
        \/ /\ req[q].counted = "early" /\ ~takenOver
           /\ early' = [early EXCEPT ![k] = IF @ > 0 THEN @ - 1 ELSE 0]
           /\ UNCHANGED <<active, used, timer>>
        \/ req[q].counted = "none" /\ UNCHANGED <<active, used, timer, early>>
     /\ UNCHANGED <<call, life, live, evicted, fired, gets, earlyGets, places, retired,
                    helpers, shutdown>>

\* beginGET: the idle clock runs on under a GET stream.
BeginGet(q, p, s) ==
  \/ /\ s \in live \ evicted /\ owner[s] = p
     /\ Begun(q, "get", p, s, "live")
     /\ gets' = [gets EXCEPT ![s] = @ + 1]
     /\ UNCHANGED <<call, life, book, clock, active, early, earlyGets, places, retired,
                    helpers, shutdown>>
  \/ /\ s \notin live
     /\ Begun(q, "get", p, s, "early")
     /\ earlyGets' = [earlyGets EXCEPT ![<<s, p>>] = @ + 1]
     /\ UNCHANGED <<call, life, book, clock, active, gets, early, places, retired,
                    helpers, shutdown>>

EndGet(q) ==
  LET s == req[q].sid
      k == <<s, req[q].principal>>
      takenOver == s \in live /\ owner[s] = req[q].principal
  IN /\ req[q].kind = "get"
     /\ req' = [req EXCEPT ![q] = Idle]
     /\ \/ /\ req[q].counted = "live" \/ (req[q].counted = "early" /\ takenOver)
           /\ gets' = [gets EXCEPT ![s] = @ - 1]
           /\ used' = IF s \in live THEN Touched(s) ELSE used
           /\ UNCHANGED earlyGets
        \/ /\ req[q].counted = "early" /\ ~takenOver
           /\ earlyGets' = [earlyGets EXCEPT ![k] = IF @ > 0 THEN @ - 1 ELSE 0]
           /\ UNCHANGED <<gets, used>>
        \/ req[q].counted = "none" /\ UNCHANGED <<gets, used, earlyGets>>
     /\ UNCHANGED <<call, life, live, evicted, clock, active, early, places, retired,
                    helpers, shutdown>>

-----------------------------------------------------------------------------
(* Tool calls *)

\* go-sdk hands a call in a POST of the session's principal to the handler.
Deliver(q, c) ==
  /\ req[q].kind = "post" /\ call[c] = NoCall
  /\ sdk[req[q].sid] = "open" /\ owner[req[q].sid] = req[q].principal
  /\ call' = [call EXCEPT ![c] = [stage |-> "delivered", sid |-> req[q].sid,
                                  cancelled |-> FALSE]]
  /\ UNCHANGED <<req, life, book, clock, counts, places, retired, helpers, shutdown>>

\* Mutant: admission asks about the caps alone.
AdmitByCaps(c) ==
  LET s == call[c].sid
      refused == \/ LimitsClosed
                 \/ Cardinality(RunningOn(s)) >= MaxCallsPerSession
                 \/ Cardinality(RunningFor(owner[s])) >= MaxCallsPerPrincipal
  IN /\ call[c].stage = "delivered"
     /\ call' = [call EXCEPT ![c] = IF refused THEN NoCall ELSE [@ EXCEPT !.stage = "running"]]
     /\ UNCHANGED <<req, life, book, clock, counts, places, retired, helpers, shutdown>>

Admit(c) ==
  LET s == call[c].sid
      refused == \/ LimitsClosed
                 \/ s \in retired
                 \/ Cardinality(RunningOn(s)) >= MaxCallsPerSession
                 \/ Cardinality(RunningFor(owner[s])) >= MaxCallsPerPrincipal
  IN /\ call[c].stage = "delivered"
     /\ call' = [call EXCEPT ![c] = IF refused THEN NoCall ELSE [@ EXCEPT !.stage = "running"]]
     /\ UNCHANGED <<req, life, book, clock, counts, places, retired, helpers, shutdown>>

\* The upstream answers, or dispatch returns because the call was cancelled.
Finish(c) ==
  /\ call[c].stage = "running"
  /\ call' = [call EXCEPT ![c] = NoCall]
  /\ UNCHANGED <<req, life, book, clock, counts, places, retired, helpers, shutdown>>

-----------------------------------------------------------------------------
(* The end of a session: DELETE, the idle clock, eviction *)

\* cancelSession, then go-sdk's Close.
Delete(s) ==
  /\ "delete" \in Events
  /\ sdk[s] \in {"open", "closing"} /\ <<s, "delete">> \notin closers
  /\ call' = CancelOn({s})
  /\ closers' = closers \cup {<<s, "delete">>}
  /\ UNCHANGED <<req, life, book, clock, counts, places, retired, helpers, closing, snapshot>>

\* The timer starts expire on a goroutine of its own; one at a time.
Fire(s) ==
  /\ timer[s] = "running" /\ fired[s] = "no"
  /\ timer' = [timer EXCEPT ![s] = "out"]
  /\ fired' = [fired EXCEPT ![s] = "pending"]
  /\ UNCHANGED <<req, call, life, book, counts, places, retired, helpers, shutdown>>

Expires(s) == fired[s] # "no" /\ timer[s] # "stopped" /\ active[s] = 0

\* expire: retire cancels the session's calls under liveSession.mu.
Expire(s) ==
  /\ Expires(s)
  /\ timer' = [timer EXCEPT ![s] = "stopped"]
  /\ fired' = [fired EXCEPT ![s] = "no"]
  /\ retired' = retired \cup {s}
  /\ call' = CancelOn({s})
  /\ closers' = closers \cup {<<s, "expire">>}
  /\ UNCHANGED <<req, life, book, counts, places, helpers, closing, snapshot>>

ExpireTooLate(s) ==
  /\ fired[s] # "no" /\ ~Expires(s)
  /\ fired' = [fired EXCEPT ![s] = "no"]
  /\ UNCHANGED <<req, call, life, book, timer, counts, places, retired, helpers, shutdown>>

\* closeEvicted: a goroutine that track started, or the tombstone goes at once
\* when the proxy is closing.
StartEvictor(s) ==
  /\ evictor[s] = "starting"
  /\ \/ /\ ~LimitsClosed
        /\ evictor' = [evictor EXCEPT ![s] = "closing"]
        /\ closers' = closers \cup {<<s, "evict">>}
        /\ UNCHANGED book
     \/ /\ LimitsClosed
        /\ evictor' = [evictor EXCEPT ![s] = "done"]
        /\ Forget(s)
        /\ UNCHANGED closers
  /\ UNCHANGED <<req, call, life, clock, counts, places, retired, watcher, closing, snapshot>>

\* forgetEvicted, once go-sdk's Close returned.  Only the Close that came
\* first waits for the id to be forgotten.
EvictorForget(s) ==
  /\ evictor[s] = "closing"
  /\ \/ sdk[s] = "gone"
     \/ sdk[s] = "closed" /\ \E who \in {"delete", "expire", "proxy"} : <<s, who>> \in closers
  /\ Forget(s)
  /\ evictor' = [evictor EXCEPT ![s] = "done"]
  /\ UNCHANGED <<req, call, life, clock, counts, places, retired, watcher, shutdown>>

-----------------------------------------------------------------------------
(* go-sdk's session (external) *)

\* Who has called Close.  go-sdk's own idle timeout, a backstop that runs as
\* long as fathomgate's clock and waits for the calls, is left out.
Closable(s) == \E who \in {"delete", "expire", "evict", "settle", "proxy"} : <<s, who>> \in closers

SdkClose(s) ==
  /\ sdk[s] = "open" /\ Closable(s)
  /\ sdk' = [sdk EXCEPT ![s] = "closing"]
  /\ UNCHANGED <<req, call, owner, book, clock, counts, places, retired, helpers, shutdown>>

\* Close waits for the calls go-sdk has delivered.
SdkDrained(s) ==
  /\ sdk[s] = "closing" /\ \A c \in Calls : call[c].sid # s
  /\ sdk' = [sdk EXCEPT ![s] = "closed"]
  /\ UNCHANGED <<req, call, owner, book, clock, counts, places, retired, helpers, shutdown>>

\* The id is forgotten: every Close has returned.
SdkGone(s) ==
  /\ sdk[s] = "closed"
  /\ sdk' = [sdk EXCEPT ![s] = "gone"]
  /\ closers' = {x \in closers : x[1] # s}
  /\ UNCHANGED <<req, call, owner, book, clock, counts, places, retired, helpers, closing,
                 snapshot>>

-----------------------------------------------------------------------------
(* The session's watcher: Wait, stop, forget, release *)

\* Mutant: a watcher that leaves the idle clock as it is.
WatcherStopLeavingClock(s) ==
  /\ watcher[s] = "waiting" /\ sdk[s] \in {"closed", "gone"}
  /\ watcher' = [watcher EXCEPT ![s] = "stopped"]
  /\ UNCHANGED <<req, call, life, book, clock, counts, places, retired, evictor, shutdown>>

WatcherStop(s) ==
  /\ watcher[s] = "waiting" /\ sdk[s] \in {"closed", "gone"}
  /\ timer' = [timer EXCEPT ![s] = "stopped"]
  /\ watcher' = [watcher EXCEPT ![s] = "stopped"]
  /\ UNCHANGED <<req, call, life, book, fired, counts, places, retired, evictor, shutdown>>

WatcherForget(s) ==
  /\ watcher[s] = "stopped"
  /\ IF s \in evicted THEN UNCHANGED book ELSE Forget(s)
  /\ retired' = retired \ {s}
  /\ watcher' = [watcher EXCEPT ![s] = "forgotten"]
  /\ UNCHANGED <<req, call, life, clock, counts, places, evictor, shutdown>>

WatcherRelease(s) ==
  /\ watcher[s] = "forgotten"
  /\ Release(s)
  /\ watcher' = [watcher EXCEPT ![s] = "done"]
  /\ UNCHANGED <<req, call, life, book, clock, counts, retired, evictor, shutdown>>

-----------------------------------------------------------------------------
(* Proxy.Close *)

\* Mutant: new calls are refused, and those in flight are left alone.
CloseLimitsUncancelled ==
  /\ "close" \in Events /\ closing = "no"
  /\ closing' = "limits"
  /\ UNCHANGED <<req, call, life, book, clock, counts, places, retired, helpers, closers, snapshot>>

CloseLimits ==
  /\ "close" \in Events /\ closing = "no"
  /\ closing' = "limits"
  /\ call' = CancelOn(Sids)
  /\ UNCHANGED <<req, life, book, clock, counts, places, retired, helpers, closers, snapshot>>

CloseSessions ==
  LET open == {s \in Sids : sdk[s] \in {"open", "closing"}}
  IN /\ closing = "limits"
     /\ closing' = "sessions"
     /\ snapshot' = open
     /\ closers' = closers \cup (open \X {"proxy"})
     /\ UNCHANGED <<req, call, life, book, clock, counts, places, retired, helpers>>

\* Every Close has returned and the goroutines of track have ended.
CloseWait ==
  /\ closing = "sessions"
  /\ \A s \in snapshot : sdk[s] \in {"closed", "gone"}
  /\ \A s \in Sids : watcher[s] \in {"none", "done"} /\ evictor[s] # "closing"
  /\ closing' = "done"
  /\ UNCHANGED <<req, call, life, book, clock, counts, places, retired, helpers, closers, snapshot>>

-----------------------------------------------------------------------------
\* The handler of a session-less POST, from reserveSession to the end.
OpenStep(q) ==
  \/ ReserveFree(q) \/ ReserveByEviction(q) \/ ReserveRefused(q)
  \/ (\E s \in Sids : ServeInitialise(q, s)) \/ SettleNone(q)
  \/ Register(q) \/ Track(q) \/ SettleUntracked(q) \/ Arm(q)

\* What agents do.
AgentStep ==
  \/ \E q \in Reqs, p \in Principals :
       \/ OpenPost(q, p)
       \/ \E s \in Sids : BeginForeign(q, p, s) \/ BeginPost(q, p, s) \/ BeginGet(q, p, s)
  \/ \E q \in Reqs : EndPost(q) \/ EndGet(q) \/ (\E c \in Calls : Deliver(q, c))
  \/ \E s \in Sids : Delete(s)

\* The goroutines and timers of one session.
SessionStep(s) ==
  \/ Fire(s) \/ Expire(s) \/ ExpireTooLate(s)
  \/ StartEvictor(s) \/ EvictorForget(s)
  \/ SdkClose(s) \/ SdkDrained(s) \/ SdkGone(s)
  \/ WatcherStop(s) \/ WatcherForget(s) \/ WatcherRelease(s)

CloseStep == CloseSessions \/ CloseWait

Next ==
  \/ AgentStep
  \/ \E q \in Reqs : OpenStep(q)
  \/ \E c \in Calls : Admit(c) \/ Finish(c)
  \/ \E s \in Sids : SessionStep(s)
  \/ CloseLimits \/ CloseStep

Spec == Init /\ [][Next]_vars

\* Goroutines run, timers fire, Proxy.Close goes on once it has begun, and a
\* cancelled call returns.  Nothing is asked of agents or of the upstream.
Fairness ==
  /\ \A q \in Reqs : WF_vars(OpenStep(q))
  /\ \A c \in Calls : WF_vars(Admit(c)) /\ WF_vars(call[c].cancelled /\ Finish(c))
  /\ \A s \in Sids :
       /\ WF_vars(Fire(s)) /\ WF_vars(Expire(s) \/ ExpireTooLate(s))
       /\ WF_vars(StartEvictor(s) \/ EvictorForget(s))
       /\ WF_vars(SdkClose(s) \/ SdkDrained(s) \/ SdkGone(s))
       /\ WF_vars(WatcherStop(s) \/ WatcherForget(s) \/ WatcherRelease(s))
  /\ WF_vars(CloseStep)

FairSpec == Spec /\ Fairness

-----------------------------------------------------------------------------
(* Properties *)

OwnRequests(kind, s) == {q \in Reqs : req[q].kind = kind /\ req[q].sid = s /\ req[q].principal = owner[s]}

\* Every variable has its type; no counter of httpHandler or liveSession ever
\* goes below zero, or counts more requests than are under way.
TypeOK ==
  /\ req \in [Reqs -> [kind : {"idle", "open", "post", "get"},
                       stage : {"idle", "admitted", "reserved", "served", "registered",
                                "tracked", "untracked", "begun"},
                       principal : Principals \cup {NoPrincipal},
                       sid : Sids \cup {NoSid},
                       counted : {"none", "live", "early"}]]
  /\ call \in [Calls -> [stage : {"idle", "delivered", "running"},
                         sid : Sids \cup {NoSid}, cancelled : BOOLEAN]]
  /\ sdk \in [Sids -> {"unused", "open", "closing", "closed", "gone"}]
  /\ owner \in [Sids -> Principals \cup {NoPrincipal}]
  /\ live \subseteq Sids /\ evicted \subseteq Sids /\ retired \subseteq Sids
  /\ snapshot \subseteq Sids
  /\ used \in Seq(live) /\ Len(used) = Cardinality(live) /\ IsInjective(used)
  /\ timer \in [Sids -> {"none", "running", "out", "paused", "stopped"}]
  /\ fired \in [Sids -> {"no", "pending", "overtaken"}]
  /\ active \in [Sids -> 0..Cardinality(Reqs)]
  /\ gets \in [Sids -> 0..Cardinality(Reqs)]
  /\ early \in [Sids \X Principals -> 0..Cardinality(Reqs)]
  /\ earlyGets \in [Sids \X Principals -> 0..Cardinality(Reqs)]
  /\ slot \in [Sids -> {"none", "held", "released"}]
  /\ slots \in [Principals -> 0..MaxSessionsPerPrincipal] /\ sessions \in 0..MaxSessions
  /\ watcher \in [Sids -> {"none", "waiting", "stopped", "forgotten", "done"}]
  /\ evictor \in [Sids -> {"none", "starting", "closing", "done"}]
  /\ closers \subseteq Sids \X {"delete", "expire", "evict", "settle", "proxy"}
  /\ closing \in {"no", "limits", "sessions", "done"}

\* The sessions go-sdk holds open that are not evicted are within both session
\* caps, whoever opens, deletes, loses or is evicted from sessions and in
\* whatever order the slots come back: what reserveSession is for.
OpenSessionsBounded ==
  LET InUse == {s \in Sids : sdk[s] \in {"open", "closing"} /\ s \notin evicted}
  IN /\ Cardinality(InUse) <= MaxSessions
     /\ \A p \in Principals :
          Cardinality({s \in InUse : owner[s] = p}) <= MaxSessionsPerPrincipal

\* A live session counts exactly the POSTs its principal has in progress on
\* its id, those that began before it was registered included: too low cancels
\* a call that is running, too high stops the idle clock for good.
ActiveIsExact == \A s \in live : active[s] = Cardinality(OwnRequests("post", s))

\* A session is taken from its principal only when it is idle: the clock
\* never expires one with a POST of its own in progress, and eviction never
\* one with a POST, a GET stream or a running call, and only for a request of
\* the same principal.
TakenOnlyWhenIdle ==
  [][\A s \in Sids :
       /\ s \in retired' \ retired => OwnRequests("post", s) = {}
       /\ s \in evicted' \ evicted =>
            /\ OwnRequests("get", s) = {} /\ RunningOn(s) = {}
            /\ \E q \in Reqs : /\ req[q].stage = "admitted" /\ req'[q].stage = "reserved"
                               /\ req[q].principal = owner[s]]_vars

\* A call on a session fathomgate is closing has been cancelled, and there is
\* none at all on an evicted one: a call delivered before the retirement is
\* refused by admit after it.
NoCallOutlivesRetirement ==
  \A c \in Calls : call[c].stage = "running" /\ call[c].sid \in retired =>
     call[c].cancelled /\ call[c].sid \notin evicted

\* Once its watcher has forgotten a session it never comes back to the retired
\* set, whatever expire or eviction was under way.
RetiredIsTransient ==
  \A s \in Sids : watcher[s] \in {"forgotten", "done"} => s \notin retired

\* While go-sdk still knows the id of an evicted session that has ended, its
\* tombstone answers 404, so no client is told 200 with an empty body; unless
\* another Close of it was under way at the same time.
TombstoneStays ==
  \A s \in evicted :
    /\ sdk[s] = "closed" /\ ~LimitsClosed
    /\ <<s, "delete">> \notin closers /\ <<s, "expire">> \notin closers
    => s \in live

\* After Proxy.Close no call runs, and a session that is still open is one a
\* request is just settling, which closes it itself.
NothingSurvivesClose ==
  closing = "done" =>
    /\ \A c \in Calls : call[c].stage # "running"
    /\ \A s \in Sids : sdk[s] \in {"open", "closing"} =>
         \E q \in Reqs : req[q].sid = s /\ req[q].stage \in {"served", "registered", "untracked"}

\* Session s was never given a watcher, because Proxy.Close came between its
\* registration and track (settleSession's untracked path).
NeverTracked(s) == LimitsClosed /\ watcher[s] = "none"

\* A session that expired or was evicted ends, its place is given back and it
\* leaves the retired set, even with a call stuck upstream: again and again no
\* session is left retired, or ended with its place still taken.  Only one
\* that was evicted before it was tracked, as the proxy closed, may stay in the
\* set, and it ends and gives its place back too.
RetiredSessionEnds ==
  []<>(\A s \in Sids :
         /\ s \in retired => NeverTracked(s) /\ sdk[s] = "gone"
         /\ sdk[s] = "gone" => slot[s] # "held")

\* Proxy.Close returns, whatever sessions are being opened, evicted, expired
\* or deleted as it starts.
CloseReturns == closing = "limits" ~> closing = "done"

\* A deleted session ends once its agent keeps no POST open on it, also when a
\* call was admitted after the DELETE had cancelled the session's calls.
DeletedSessionEnds ==
  \A s \in Sids :
    <>[](<<s, "delete">> \in closers /\ OwnRequests("post", s) = {}) => <>(sdk[s] = "gone")

\* Places are taken and given back once (reserveSession, releaseSlot): the caps
\* bound what is open, and no count goes below zero or past its requests.
SlotsAccounted == TypeOK /\ OpenSessionsBounded

\* retire, forget and the tombstone around the end of a session: no call gets
\* past the first, no entry outlives the second, and the third answers until
\* go-sdk has forgotten the id.
RetirementHolds == NoCallOutlivesRetirement /\ RetiredIsTransient /\ TombstoneStays

\* Sessions that expired, were evicted or were deleted end, with nothing asked
\* of the upstream.
EndedSessionsGo == RetiredSessionEnds /\ DeletedSessionEnds

\* Proxy.Close returns, and nothing goes on after it.
CloseEnds == CloseReturns /\ []NothingSurvivesClose
=============================================================================
