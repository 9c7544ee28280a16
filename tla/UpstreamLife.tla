---------------------------- MODULE UpstreamLife ----------------------------
(***************************************************************************)
(* The life of one upstream process, from proxy.New to Proxy.Close         *)
(* (internal/proxy/proxy.go, era.go, tree.go, tree_unix.go).  New connects *)
(* it in at most two attempts, lists its tools, and serves; four           *)
(* goroutines race over an attempt: New's own (main), go-sdk inside        *)
(* Client.Connect (sdk, external), the watcher of the probe's bound, and   *)
(* the AfterFunc that kills the process when the attempt's context ends.   *)
(*                                                                         *)
(* An attempt's trackedTransport, process and process group are functions  *)
(* of the attempt.  A process that is "hung" has closed its stdout and not *)
(* yet ended.  child is the processes the upstream launched in its group:  *)
(* one of fathomgate's own user, and one of another user (a setuid         *)
(* launcher such as sudo), which no signal of fathomgate's reaches.        *)
(***************************************************************************)
EXTENDS Naturals

Attempts == 1..2

VARIABLES
  main,     \* New, connect, connectAttempt, kill and Close: where they are
  att,      \* the attempt in progress, or the one the session is on
  ctxUp,    \* the startup context is not done
  bound,    \* discoverProbeTimeout has not run out
  cause,    \* context.Cause of the attempt's context, "none" while it is live
  sdk,      \* go-sdk inside Connect: [pc, err, how]
  watcher,  \* the watcher: "off", "on", "seen" (flags read, not cancelled), "ended"
  didExpire, closedFirst,
  again,    \* connect restarts the upstream once the first process is stopped
  reaper,   \* the AfterFunc: marked "early" or "late", before or after a process is recorded
  killed, closeRequested, hungUp, reapedUnkilled, slow, \* trackedTransport
  tconn,    \* tt.conn and tt.proc are recorded
  tclose,   \* the connection's Close: "open", "closing", "reaped", "swept"
  broken,   \* go-sdk has met a read or write error: "first", or "late" after a kill
  proc, child, \* the process and the children it launched in its group
  signalled,   \* history: fathomgate or go-sdk has signalled the process
  closing,  \* up.closing
  exitWatch,\* connectUpstream's goroutine: "off", "waiting", "ended"
  exited,   \* p.exited is closed
  exitText, \* the exit status added to New's error, by attempt; 0 for none
  settled   \* history: the first attempt was refused or being closed before its bound

ttVars == <<killed, closeRequested, hungUp, reapedUnkilled, slow, tconn, tclose, broken>>
procVars == <<proc, child, signalled>>
attemptVars == <<cause, sdk, watcher, didExpire, closedFirst, reaper, again>>
afterVars == <<closing, exitWatch, exited, exitText>>
vars == <<main, att, ctxUp, bound, attemptVars, ttVars, procVars, afterVars, settled>>

MainStates == {"off", "attempt", "stop", "join", "lost", "decide", "respawn",
               "kill", "killMark", "killClose", "killWait", "abandon", "newClose",
               "listing", "ready", "closeSession", "closeWait", "failed", "closed"}
SdkStates == {"off", "spawn", "attach", "record", "recordKill", "discover", "init",
              "hybrid", "close", "wait", "ok", "error", "ended"}

TypeOK ==
  /\ main \in MainStates /\ att \in Attempts
  /\ ctxUp \in BOOLEAN /\ bound \in {"off", "running", "expired"}
  /\ cause \in {"none", "parent", "expired", "hybrid"}
  /\ sdk \in [pc : SdkStates, how : {"none", "discover", "initialize"}]
  /\ watcher \in {"off", "on", "seen", "ended"}
  /\ didExpire \in BOOLEAN /\ closedFirst \in BOOLEAN /\ again \in BOOLEAN /\ settled \in BOOLEAN
  /\ reaper \in {"off", "armed", "due", "early", "late", "ran"}
  /\ \A f \in {killed, closeRequested, hungUp, reapedUnkilled, slow, tconn, signalled} :
       f \in [Attempts -> BOOLEAN]
  /\ child \in [Attempts -> SUBSET {"own", "foreign"}]
  /\ broken \in [Attempts -> {"no", "first", "late"}]
  /\ tclose \in [Attempts -> {"open", "closing", "reaped", "swept"}]
  /\ proc \in [Attempts -> {"none", "up", "hung", "exited", "reaped"}]
  /\ closing \in BOOLEAN /\ exited \in BOOLEAN
  /\ exitWatch \in {"off", "waiting", "ended"}
  /\ exitText \in Attempts \cup {0}

Set(f, v) == [f EXCEPT ![att] = v]
Alive == {"up", "hung"}

(***************************************************************************)
(* The process (external) and what ends it.                                *)
(***************************************************************************)
\* SIGKILL to the process and to its group: killProcess and tree.kill.  A
\* member of another user is not reached (EPERM), and stays.
Kill ==
  /\ proc' = IF proc[att] \in Alive THEN Set(proc, "exited") ELSE proc
  /\ signalled' = IF proc[att] \in Alive THEN Set(signalled, TRUE) ELSE signalled
  /\ child' = IF tclose[att] = "swept" THEN child ELSE Set(child, child[att] \ {"own"})

\* The upstream ends, closes its stdout, or launches a child, by itself.
UpstreamActs ==
  /\ proc[att] \in Alive
  /\ \/ proc' = Set(proc, "exited") /\ UNCHANGED child
     \/ proc[att] = "up" /\ proc' = Set(proc, "hung") /\ UNCHANGED child
     \/ \E u \in {"own", "foreign"} :
          /\ proc[att] = "up" /\ tconn[att] /\ u \notin child[att]
          /\ child' = Set(child, child[att] \cup {u}) /\ UNCHANGED proc
  /\ UNCHANGED <<main, att, ctxUp, bound, attemptVars, ttVars, signalled, afterVars>>

\* trackedTransport.failed: a hang-up only when nobody had asked for a close
\* or a kill.  go-sdk's connection is broken from here on.
Failed ==
  /\ hungUp' = IF closeRequested[att] \/ killed[att] THEN hungUp ELSE Set(hungUp, TRUE)
  /\ broken' = IF broken[att] # "no" THEN broken ELSE Set(broken, IF killed[att] THEN "late" ELSE "first")

\* trackedConn.Read meets the end of the upstream's stdout.
ReadEnds ==
  /\ proc[att] \in {"hung", "exited"} /\ tconn[att]
  /\ tclose[att] = "open" /\ broken[att] = "no"
  /\ Failed
  /\ UNCHANGED <<main, att, ctxUp, bound, attemptVars, killed, closeRequested, reapedUnkilled, slow,
                 tconn, tclose, procVars, afterVars>>

\* trackedConn.Read meets any other error, a line that is not JSON-RPC say:
\* the upstream is still there, and this is no hang-up.
ReadBad ==
  /\ proc[att] \in Alive \cup {"exited"} /\ tconn[att]
  /\ tclose[att] = "open" /\ broken[att] = "no"
  /\ broken' = Set(broken, IF killed[att] THEN "late" ELSE "first")
  /\ UNCHANGED <<main, att, ctxUp, bound, attemptVars, killed, closeRequested, hungUp,
                 reapedUnkilled, slow, tconn, tclose, procVars, afterVars>>

\* trackedConn.Write: the pipe to the upstream's stdin is gone.
WriteFails ==
  /\ proc[att] \in Alive \cup {"exited"} /\ tconn[att]
  /\ tclose[att] = "open" /\ ~hungUp[att]
  /\ Failed
  /\ UNCHANGED <<main, att, ctxUp, bound, attemptVars, killed, closeRequested, reapedUnkilled, slow,
                 tconn, tclose, procVars, afterVars>>

(***************************************************************************)
(* trackedConn.Close.  The inner Close runs once and a second caller waits *)
(* for it, so one state machine serves every caller.                       *)
(***************************************************************************)
RequestClose ==
  /\ closeRequested' = Set(closeRequested, TRUE)
  /\ tclose' = IF tclose[att] = "open" THEN Set(tclose, "closing") ELSE tclose

\* go-sdk (external) closes a connection that is broken.
SdkDrops ==
  /\ broken[att] # "no" /\ tclose[att] = "open"
  /\ RequestClose
  /\ UNCHANGED <<main, att, ctxUp, bound, attemptVars, killed, hungUp, reapedUnkilled, slow,
                 tconn, broken, procVars, afterVars>>

\* The inner Close (external): stdin is closed and the process ends by itself,
\* or after go-sdk's SIGTERM and kill, longer than exitGrace later.
CloseEnds ==
  /\ tclose[att] = "closing" /\ proc[att] \in Alive
  /\ proc' = Set(proc, "exited")
  /\ \/ UNCHANGED <<signalled, slow>>
     \/ signalled' = Set(signalled, TRUE) /\ slow' = Set(slow, TRUE)
  /\ UNCHANGED <<main, att, ctxUp, bound, attemptVars, killed, closeRequested, hungUp, broken,
                 reapedUnkilled, tconn, tclose, child, afterVars>>

\* The process is waited for; the first Close to return records whether a
\* kill had been asked for.
CloseReaps ==
  /\ tclose[att] = "closing" /\ proc[att] = "exited"
  /\ proc' = Set(proc, "reaped")
  /\ reapedUnkilled' = Set(reapedUnkilled, ~killed[att])
  /\ tclose' = Set(tclose, "reaped")
  /\ UNCHANGED <<main, att, ctxUp, bound, attemptVars, killed, closeRequested, hungUp, broken,
                 slow, tconn, child, signalled, afterVars>>

\* tree.sweep: SIGKILL to the group at once after a kill, else SIGTERM, and
\* SIGKILL to what is left after the grace; what fathomgate may not signal
\* (EPERM) is left.  The group is not signalled again.
Sweep ==
  /\ tclose[att] = "reaped"
  /\ child' = Set(child, child[att] \ {"own"})
  /\ tclose' = Set(tclose, "swept")
  /\ UNCHANGED <<main, att, ctxUp, bound, attemptVars, killed, closeRequested, hungUp, broken,
                 reapedUnkilled, slow, tconn, proc, signalled, afterVars>>

(***************************************************************************)
(* go-sdk's Client.Connect (external), with trackedTransport.Connect and   *)
(* the handshake middleware inside it.                                     *)
(***************************************************************************)
SdkSpawn ==
  /\ sdk.pc = "spawn"
  /\ \/ sdk' = [sdk EXCEPT !.pc = "error"] /\ UNCHANGED proc
     \/ sdk' = [sdk EXCEPT !.pc = "attach"] /\ proc' = Set(proc, "up")
  /\ UNCHANGED <<again, main, att, ctxUp, bound, cause, watcher, didExpire, closedFirst, reaper,
                 ttVars, child, signalled, afterVars>>

\* attachTree: when it fails the process is killed and reaped, and Connect
\* fails with nothing recorded.
SdkAttach ==
  /\ sdk.pc = "attach"
  /\ \/ /\ sdk' = [sdk EXCEPT !.pc = "error"]
        /\ proc' = Set(proc, "reaped") /\ signalled' = Set(signalled, TRUE)
     \/ /\ sdk' = [sdk EXCEPT !.pc = "record"]
        /\ UNCHANGED <<proc, signalled>>
  /\ UNCHANGED <<again, main, att, ctxUp, bound, cause, watcher, didExpire, closedFirst, reaper,
                 ttVars, child, afterVars>>

\* conn and proc are recorded; a kill that came first is done here.
SdkRecord ==
  /\ sdk.pc = "record"
  /\ tconn' = Set(tconn, TRUE)
  /\ sdk' = [sdk EXCEPT !.pc = IF killed[att] THEN "recordKill"
                               ELSE IF att = 1 THEN "discover" ELSE "init"]
  /\ UNCHANGED <<again, main, att, ctxUp, bound, cause, watcher, didExpire, closedFirst, reaper,
                 killed, closeRequested, hungUp, broken, reapedUnkilled, slow, tclose, procVars, afterVars>>

SdkRecordKill ==
  /\ sdk.pc = "recordKill"
  /\ Kill
  /\ sdk' = [sdk EXCEPT !.pc = IF att = 1 THEN "discover" ELSE "init"]
  /\ UNCHANGED <<again, main, att, ctxUp, bound, cause, watcher, didExpire, closedFirst, reaper,
                 ttVars, afterVars>>

\* The upstream's answer to server/discover or to initialize.
SdkAnswered ==
  /\ sdk.pc \in {"discover", "init"} /\ proc[att] = "up" /\ tclose[att] = "open"
  /\ \/ sdk.pc = "discover" /\ \/ sdk' = [pc |-> "ok", how |-> "discover"]
                               \/ sdk' = [sdk EXCEPT !.pc = "init"]
     \/ sdk.pc = "init" /\ \/ sdk' = [pc |-> "ok", how |-> "initialize"]
                           \/ sdk' = [sdk EXCEPT !.pc = "hybrid"]
     \/ sdk' = [sdk EXCEPT !.pc = "close"]
  /\ UNCHANGED <<again, main, att, ctxUp, bound, cause, watcher, didExpire, closedFirst, reaper,
                 ttVars, procVars, afterVars>>

\* handshakes.middleware: a later or stateless version in answer to
\* initialize aborts the attempt; the first cause stays.
SdkRefusesHybrid ==
  /\ sdk.pc = "hybrid"
  /\ cause' = IF cause = "none" THEN "hybrid" ELSE cause
  /\ sdk' = [sdk EXCEPT !.pc = "close"]
  /\ UNCHANGED <<again, main, att, ctxUp, bound, watcher, didExpire, closedFirst, reaper,
                 ttVars, procVars, afterVars>>

\* The attempt's context or the connection ends while go-sdk waits.
SdkFails ==
  /\ sdk.pc \in {"discover", "init"}
  /\ cause # "none" \/ tclose[att] # "open" \/ broken[att] # "no"
  /\ sdk' = [sdk EXCEPT !.pc = "close"]
  /\ UNCHANGED <<again, main, att, ctxUp, bound, cause, watcher, didExpire, closedFirst, reaper,
                 ttVars, procVars, afterVars>>

\* go-sdk closes the connection on its way out, or leaves that to the caller.
SdkCloses ==
  /\ sdk.pc = "close"
  /\ \/ RequestClose /\ sdk' = [sdk EXCEPT !.pc = "wait"]
     \/ sdk' = [sdk EXCEPT !.pc = "error"] /\ UNCHANGED <<closeRequested, tclose>>
  /\ UNCHANGED <<again, main, att, ctxUp, bound, cause, watcher, didExpire, closedFirst, reaper,
                 killed, hungUp, broken, reapedUnkilled, slow, tconn, procVars, afterVars>>

SdkClosed ==
  /\ sdk.pc = "wait" /\ tclose[att] = "swept"
  /\ sdk' = [sdk EXCEPT !.pc = "error"]
  /\ UNCHANGED <<again, main, att, ctxUp, bound, cause, watcher, didExpire, closedFirst, reaper,
                 ttVars, procVars, afterVars>>

(***************************************************************************)
(* The watcher of the bound and the AfterFunc.                             *)
(***************************************************************************)
\* The bound has run out: whether a close was requested is read first.
WatcherExpires ==
  /\ watcher = "on" /\ att = 1 /\ bound = "expired"
  /\ watcher' = "seen"
  /\ didExpire' = TRUE
  /\ closedFirst' = closeRequested[att]
  /\ UNCHANGED <<again, main, att, ctxUp, bound, cause, sdk, reaper, ttVars, procVars, afterVars>>

WatcherCancels ==
  /\ watcher = "seen"
  /\ cause' = IF cause = "none" THEN "expired" ELSE cause
  /\ watcher' = "ended"
  /\ UNCHANGED <<again, main, att, ctxUp, bound, sdk, didExpire, closedFirst, reaper, ttVars,
                 procVars, afterVars>>

WatcherConnected ==
  /\ watcher = "on" /\ main = "join"
  /\ watcher' = "ended"
  /\ UNCHANGED <<again, main, att, ctxUp, bound, cause, sdk, didExpire, closedFirst, reaper,
                 ttVars, procVars, afterVars>>

\* killProcess in the AfterFunc: the flag and the pointers under mu, then the
\* signal, unless Connect had recorded no process yet.
ReaperMarks ==
  /\ reaper = "due" \/ (reaper = "armed" /\ cause # "none")
  /\ killed' = Set(killed, TRUE)
  /\ reaper' = IF tconn[att] THEN "late" ELSE "early"
  /\ UNCHANGED <<again, main, att, ctxUp, bound, cause, sdk, watcher, didExpire, closedFirst,
                 closeRequested, hungUp, broken, reapedUnkilled, slow, tconn, tclose, procVars, afterVars>>

ReaperKills ==
  /\ reaper \in {"early", "late"}
  /\ IF reaper = "late" THEN Kill ELSE UNCHANGED procVars
  /\ reaper' = "ran"
  /\ UNCHANGED <<again, main, att, ctxUp, bound, cause, sdk, watcher, didExpire, closedFirst,
                 ttVars, afterVars>>

BoundExpires ==
  /\ bound = "running"
  /\ bound' = "expired"
  /\ UNCHANGED <<main, att, ctxUp, attemptVars, ttVars, procVars, afterVars>>

\* SIGINT, SIGTERM or the startup budget; it ends the attempt's context too.
CtxEnds ==
  /\ ctxUp /\ main \notin {"off", "ready", "closeSession", "closeWait", "failed", "closed"}
  /\ ctxUp' = FALSE
  /\ cause' = IF cause = "none" /\ main \in {"attempt", "stop", "join"} THEN "parent" ELSE cause
  /\ UNCHANGED <<again, main, att, bound, sdk, watcher, didExpire, closedFirst, reaper, ttVars,
                 procVars, afterVars>>

(***************************************************************************)
(* New: connect and connectAttempt.                                        *)
(***************************************************************************)
StartAttempt(a) ==
  /\ att' = a
  /\ main' = "attempt"
  /\ cause' = IF ctxUp THEN "none" ELSE "parent"
  /\ sdk' = [pc |-> "spawn", how |-> "none"]
  /\ watcher' = "on"
  /\ reaper' = "armed"
  /\ didExpire' = FALSE /\ closedFirst' = FALSE /\ again' = FALSE

Start ==
  /\ main = "off"
  /\ StartAttempt(1)
  /\ bound' = "running"
  /\ UNCHANGED <<ctxUp, ttVars, procVars, afterVars>>

\* Connect has returned: stopKill says whether the AfterFunc was started.
StopKill ==
  /\ main = "attempt" /\ sdk.pc \in {"ok", "error"}
  /\ main' = "stop"
  /\ reaper' = IF cause = "none" THEN "off" ELSE IF reaper = "armed" THEN "due" ELSE reaper
  /\ UNCHANGED <<again, att, ctxUp, bound, cause, sdk, watcher, didExpire, closedFirst, ttVars,
                 procVars, afterVars>>

\* connected is closed and the watcher joined; a session Connect returned as
\* the context ended is lost, and is closed.
Join ==
  /\ main = "stop"
  /\ main' = "join"
  /\ UNCHANGED <<att, ctxUp, bound, attemptVars, ttVars, procVars, afterVars>>

Joined ==
  /\ main = "join" /\ watcher = "ended"
  /\ IF sdk.pc = "ok" /\ reaper # "off"
       THEN RequestClose /\ main' = "lost"
       ELSE main' = "decide" /\ UNCHANGED <<closeRequested, tclose>>
  /\ UNCHANGED <<att, ctxUp, bound, attemptVars, killed, hungUp, broken, reapedUnkilled, slow, tconn,
                 procVars, afterVars>>

Lost ==
  /\ main = "lost" /\ tclose[att] = "swept"
  /\ main' = "decide"
  /\ sdk' = [sdk EXCEPT !.pc = "error"]
  /\ UNCHANGED <<again, att, ctxUp, bound, cause, watcher, didExpire, closedFirst, reaper, ttVars,
                 procVars, afterVars>>

\* A connection already closing when the bound ran out counts as unanswered.
TimedOutAnyhow == ctxUp /\ didExpire /\ cause = "expired"

TimedOut == ctxUp /\ didExpire /\ cause = "expired" /\ ~closedFirst

\* connectAttempt's results, and connect's next step.  The second attempt has
\* no bound: its failure is never retried.
Decide ==
  /\ main = "decide"
  /\ \/ /\ sdk.pc = "ok"
        /\ main' = "listing" /\ exitWatch' = "waiting"
        /\ again' = FALSE
     \/ /\ sdk.pc = "error"
        /\ main' = "kill"
        /\ again' = (att = 1 /\ TimedOut)
        /\ UNCHANGED exitWatch
  /\ sdk' = [sdk EXCEPT !.pc = "ended"]
  /\ cause' = "none" /\ watcher' = "off" /\ didExpire' = FALSE /\ closedFirst' = FALSE
  /\ reaper' = IF reaper = "ran" THEN "off" ELSE reaper
  /\ bound' = IF sdk.pc = "ok" THEN "off" ELSE bound
  /\ UNCHANGED <<att, ctxUp, ttVars, procVars, closing, exited, exitText>>

\* trackedTransport.kill: with no grace left (the restart, or the startup
\* context done) the process is killed first; else it is closed, and killed
\* only when the grace is over.
KillBegins ==
  /\ main = "kill"
  /\ \/ ~tconn[att] /\ main' = IF again THEN "respawn" ELSE "failed"
     \/ tconn[att] /\ main' = IF again \/ ~ctxUp THEN "killMark" ELSE "killClose"
  /\ UNCHANGED <<att, ctxUp, bound, attemptVars, ttVars, procVars, afterVars>>

KillMarks ==
  /\ main = "killMark"
  /\ killed' = Set(killed, TRUE)
  /\ Kill
  /\ main' = IF tclose[att] = "open" THEN "killClose" ELSE "killWait"
  /\ UNCHANGED <<att, ctxUp, bound, attemptVars, closeRequested, hungUp, broken, reapedUnkilled, slow,
                 tconn, tclose, afterVars>>

KillCloses ==
  /\ main = "killClose"
  /\ RequestClose
  /\ main' = "killWait"
  /\ UNCHANGED <<att, ctxUp, bound, attemptVars, killed, hungUp, broken, reapedUnkilled, slow, tconn,
                 procVars, afterVars>>

KillGraceOver ==
  /\ main = "killWait" /\ tclose[att] # "swept" /\ ~killed[att]
  /\ main' = "killMark"
  /\ UNCHANGED <<att, ctxUp, bound, attemptVars, ttVars, procVars, afterVars>>

\* A hang-up is enough, though a kill came after it.
EndedAfterHangUp == hungUp[att]

EndedOnItsOwn == hungUp[att] /\ reapedUnkilled[att] /\ ~slow[att]

\* The exit status joins New's error; the restart's kill discards it.
KillEnds ==
  /\ main = "killWait" /\ tclose[att] = "swept"
  /\ main' = IF again THEN "respawn" ELSE IF exitWatch = "off" THEN "failed" ELSE "newClose"
  /\ exitText' = IF EndedOnItsOwn /\ ~again THEN att ELSE 0
  /\ UNCHANGED <<att, ctxUp, bound, attemptVars, ttVars, procVars, closing, exitWatch, exited>>

\* New's deferred Close finds the upstream stopped, or has closed its session
\* (abandon), and waits for its watcher.
NewCloses ==
  /\ main = "newClose" /\ exitWatch = "ended"
  /\ main' = "failed"
  /\ UNCHANGED <<att, ctxUp, bound, attemptVars, ttVars, procVars, afterVars>>

\* connect, after the first process has been stopped: no second process for a
\* start that has already failed.
Respawn ==
  /\ main = "respawn"
  /\ \/ ~ctxUp /\ main' = "failed" /\ UNCHANGED <<att, attemptVars>>
     \/ ctxUp /\ StartAttempt(2)
  /\ UNCHANGED <<ctxUp, bound, ttVars, procVars, afterVars>>

(***************************************************************************)
(* New after the connect, the exit watcher, and Close.                     *)
(***************************************************************************)

\* listTools fails: the upstream, marked closing first, is stopped by kill.
\* addUpstreamTools fails (abandon): New's deferred Close closes the session.
ListTools ==
  /\ main = "listing"
  /\ \/ /\ tclose[att] = "open"
        /\ main' = "ready" /\ UNCHANGED closing
     \/ closing' = TRUE /\ main' \in {"kill", "abandon"}
  /\ UNCHANGED <<att, ctxUp, bound, attemptVars, ttVars, procVars, exitWatch, exited, exitText>>

\* connectUpstream's goroutine: the session has ended.
ExitWatch ==
  /\ exitWatch = "waiting" /\ tclose[att] = "swept"
  /\ exitWatch' = "ended"
  /\ exited' = (exited \/ ~closing)
  /\ UNCHANGED <<main, att, ctxUp, bound, attemptVars, ttVars, procVars, closing, exitText>>

Close ==
  /\ main = "ready"
  /\ closing' = TRUE
  /\ main' = "closeSession"
  /\ UNCHANGED <<att, ctxUp, bound, attemptVars, ttVars, procVars, exitWatch, exited, exitText>>

CloseSession ==
  /\ main \in {"closeSession", "abandon"}
  /\ RequestClose
  /\ main' = IF main = "abandon" THEN "newClose" ELSE "closeWait"
  /\ UNCHANGED <<att, ctxUp, bound, attemptVars, killed, hungUp, broken, reapedUnkilled, slow, tconn,
                 procVars, afterVars>>

Closed ==
  /\ main = "closeWait" /\ exitWatch = "ended"
  /\ main' = "closed"
  /\ UNCHANGED <<att, ctxUp, bound, attemptVars, ttVars, procVars, afterVars>>

None == [a \in Attempts |-> FALSE]

Init ==
  /\ main = "off" /\ att = 1 /\ ctxUp = TRUE /\ bound = "off"
  /\ cause = "none" /\ sdk = [pc |-> "off", how |-> "none"]
  /\ watcher = "off" /\ didExpire = FALSE /\ closedFirst = FALSE /\ reaper = "off"
  /\ again = FALSE /\ settled = FALSE
  /\ killed = None /\ closeRequested = None /\ hungUp = None /\ reapedUnkilled = None
  /\ slow = None /\ tconn = None /\ signalled = None
  /\ child = [a \in Attempts |-> {}] /\ broken = [a \in Attempts |-> "no"]
  /\ tclose = [a \in Attempts |-> "open"] /\ proc = [a \in Attempts |-> "none"]
  /\ closing = FALSE /\ exitWatch = "off" /\ exited = FALSE /\ exitText = 0

Closing == CloseEnds \/ CloseReaps \/ Sweep
Sdk == SdkSpawn \/ SdkAttach \/ SdkRecord \/ SdkRecordKill \/ SdkRefusesHybrid \/ SdkFails
       \/ SdkCloses \/ SdkClosed \/ SdkDrops
Watching == WatcherExpires \/ WatcherCancels \/ WatcherConnected \/ ReaperMarks \/ ReaperKills
New == StopKill \/ Join \/ Joined \/ Lost \/ Decide \/ KillBegins \/ KillMarks \/ KillCloses
       \/ KillGraceOver \/ KillEnds \/ NewCloses \/ Respawn

Step ==
  \/ Start \/ New \/ ListTools
  \/ Sdk \/ SdkAnswered \/ Watching \/ Closing
  \/ UpstreamActs \/ ReadEnds \/ ReadBad \/ WriteFails \/ BoundExpires \/ CtxEnds
  \/ ExitWatch \/ Close \/ CloseSession \/ Closed

\* The history: a close of the first connection, or a hybrid's refusal, came
\* while the bound was running.
Settles ==
  settled' = (settled \/ (bound = "running" /\ (closeRequested'[1] \/ cause' = "hybrid")))

Next == Step /\ Settles

\* Every goroutine that can run runs, go-sdk's included; the probe's timer
\* and the startup budget run out.  Nothing is assumed of the upstream,
\* nor that the end of its stdout is ever read: a child may hold it open.
Fairness ==
  /\ WF_vars(New /\ Settles) /\ WF_vars(Sdk /\ Settles) /\ WF_vars(Closing /\ Settles)
  /\ WF_vars((ReaperMarks \/ ReaperKills) /\ Settles)
  /\ WF_vars((WatcherExpires \/ WatcherCancels \/ WatcherConnected) /\ Settles)
  /\ WF_vars(BoundExpires /\ Settles) /\ WF_vars(CtxEnds /\ Settles)
  /\ WF_vars(ListTools /\ Settles) /\ WF_vars(ExitWatch /\ Settles)
  /\ WF_vars((CloseSession \/ Closed) /\ Settles)

Spec == Init /\ [][Next]_vars /\ Fairness

(***************************************************************************)
(* Properties.                                                             *)
(***************************************************************************)
\* Nothing that fathomgate may signal is left of an attempt.  A launched
\* process of another user may be (signal's EPERM, ADR 0021 residual).
NothingSignallable(a) == proc[a] \in {"none", "reaped"} /\ "own" \notin child[a]

\* The second process is started only when the first has been waited for and
\* its group swept of all that fathomgate may signal: two upstreams never
\* hold the credentials at once, but for a child of another user.
OneProcess == proc[2] # "none" => NothingSignallable(1)

\* A start that fails, and a Close that returns, leave no process and no
\* launched child behind, but for a child of another user.
NothingLeft == main \in {"failed", "closed"} => \A a \in Attempts : NothingSignallable(a)

\* A session connect returns has not been and will not be killed by the
\* attempt's own context.
SessionNotKilled ==
  main \in {"listing", "ready"} => ~killed[att] /\ reaper = "off"

\* The exit status in New's error is one no signal of fathomgate's or
\* go-sdk's produced.
ExitIsItsOwn == exitText # 0 => ~signalled[exitText]

\* An upstream refused for a hybrid answer, or whose connection go-sdk was
\* already closing, before the bound ran out is not started again, however
\* late the watcher sees the bound.
OnlyUnansweredRestarts == att = 2 => ~settled

\* p.exited, which stops the listener, is closed only for an upstream that
\* exited or hung up, or whose session failed, before anyone asked for its
\* end: never by Close, by a failed start or by a kill (UpstreamExited).
ExitedOnItsOwn == exited => broken[att] = "first"

\* New returns, whatever the upstream does: no attempt, no watcher and no kill
\* is waited for in vain.
NewReturns == (main = "attempt") ~> main \in {"ready", "failed"}

\* One upstream process at a time, none left behind that may be signalled,
\* none killed under a session, and a second one only for an upstream that
\* did not answer (connect, killTree, sweep, Close).
ProcessesHold == OneProcess /\ NothingLeft /\ SessionNotKilled /\ OnlyUnansweredRestarts
=============================================================================
