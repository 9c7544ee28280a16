----------------------------- MODULE ServeProofs -----------------------------
(***************************************************************************)
(* Proofs about `fathomgate serve` (Serve), for any number of connections, *)
(* ports, Runs and requests: the life of the upstream process, the keys of *)
(* local agents, the listener from bind to return, and what is left when   *)
(* serve returns.                                                          *)
(*                                                                         *)
(* The first part is about UpstreamLife alone: one process at a time and   *)
(* none left behind, no session killed by its own attempt, a restart only  *)
(* for an upstream that had not answered, and truth in what is said of an  *)
(* exit.  Its inductive invariant UpInv says, for each of New's phases,    *)
(* what go-sdk, the watcher, the AfterFunc and the transport of the        *)
(* attempt can have done.  Liveness is left to TLC.                        *)
(***************************************************************************)
EXTENDS MCServe, FiniteSetTheorems, TLAPS

USE DEF Set, Alive, ttVars, procVars, attemptVars, afterVars

(***************************************************************************)
(* The inductive invariant.  Its first two parts are TypeOK.               *)
(***************************************************************************)
UpScalars ==
  /\ main \in MainStates /\ att \in {1, 2}
  /\ ctxUp \in BOOLEAN /\ bound \in {"off", "running", "expired"}
  /\ cause \in {"none", "parent", "expired", "hybrid"}
  /\ sdk \in [pc : SdkStates, how : {"none", "discover", "initialize"}]
  /\ watcher \in {"off", "on", "seen", "ended"}
  /\ didExpire \in BOOLEAN /\ closedFirst \in BOOLEAN /\ again \in BOOLEAN /\ settled \in BOOLEAN
  /\ reaper \in {"off", "armed", "due", "early", "late", "ran"}
  /\ closing \in BOOLEAN /\ exited \in BOOLEAN
  /\ exitWatch \in {"off", "waiting", "ended"}
  /\ exitText \in {0, 1, 2}

UpFlags ==
  /\ killed \in [{1, 2} -> BOOLEAN] /\ closeRequested \in [{1, 2} -> BOOLEAN]
  /\ hungUp \in [{1, 2} -> BOOLEAN] /\ reapedUnkilled \in [{1, 2} -> BOOLEAN]
  /\ slow \in [{1, 2} -> BOOLEAN] /\ tconn \in [{1, 2} -> BOOLEAN]
  /\ child \in [{1, 2} -> SUBSET {"own", "foreign"}] /\ signalled \in [{1, 2} -> BOOLEAN]
  /\ broken \in [{1, 2} -> {"no", "first", "late"}]
  /\ tclose \in [{1, 2} -> {"open", "closing", "reaped", "swept"}]
  /\ proc \in [{1, 2} -> {"none", "up", "hung", "exited", "reaped"}]


\* Nothing of an attempt is left that fathomgate may signal.
Gone(a) == proc[a] \in {"none", "reaped"} /\ "own" \notin child[a]

\* connectAttempt runs; trackedTransport.kill runs.
Starting == {"attempt", "stop", "join", "lost", "decide"}
Killing == {"killMark", "killClose", "killWait"}

\* Where New is and where go-sdk inside Connect is.
Phases ==
  /\ main = "off" => sdk.pc = "off" /\ att = 1
  /\ main = "attempt" => sdk.pc \notin {"off", "ended"}
  /\ main \in {"stop", "join", "decide"} => sdk.pc \in {"ok", "error"}
  /\ main = "lost" => sdk.pc = "ok"
  /\ main \notin Starting \cup {"off"} => sdk.pc = "ended"

\* What the connection of an attempt says of its process.
Transport(a) ==
  /\ closeRequested[a] <=> tclose[a] # "open"
  /\ tclose[a] # "open" => tconn[a]
  /\ tconn[a] /\ tclose[a] \in {"open", "closing"} => proc[a] \in {"up", "hung", "exited"}
  /\ tclose[a] \in {"reaped", "swept"} => proc[a] = "reaped"
  /\ tclose[a] = "swept" => "own" \notin child[a]
  /\ ~tconn[a] => child[a] = {}
  /\ broken[a] # "no" => tconn[a]
  /\ broken[a] = "late" => killed[a]

\* A signal to a recorded process is on record: the close was slow, or a
\* kill was asked for before the process was waited for.
SignalsKnown(a) ==
  tconn[a] /\ signalled[a] =>
    slow[a] \/ (IF tclose[a] \in {"reaped", "swept"} THEN ~reapedUnkilled[a] ELSE killed[a])

\* How far Connect of the attempt in progress has come.
Connecting ==
  /\ sdk.pc \in {"off", "spawn"} => proc[att] = "none" /\ ~tconn[att] /\ ~signalled[att]
  /\ sdk.pc \in {"attach", "record"} =>
       ~tconn[att] /\ proc[att] \in {"up", "hung", "exited"} /\ ~signalled[att]
  /\ sdk.pc \in {"recordKill", "discover", "init", "hybrid", "close", "wait", "ok"} => tconn[att]
  /\ sdk.pc = "recordKill" => killed[att]
  /\ sdk.pc \in {"error", "ended"} => tconn[att] \/ proc[att] \in {"none", "reaped"}

\* An attempt that has not begun.
Untouched(a) ==
  /\ proc[a] = "none" /\ tclose[a] = "open"
  /\ child[a] = {} /\ broken[a] = "no" /\ ~tconn[a] /\ ~killed[a] /\ ~closeRequested[a] /\ ~signalled[a]

\* The attempt not in progress has not begun, or is gone.
OtherAttempt ==
  /\ att = 1 => Untouched(2)
  /\ att = 2 => Gone(1) /\ tclose[1] # "closing"
  /\ main = "off" => ~killed[1]

\* A restart is decided in the first attempt, before there is a session.
Restarts ==
  /\ again => att = 1 /\ main \in Killing \cup {"kill", "respawn", "failed"}
  /\ main = "respawn" => again
  /\ again \/ main \in Starting \cup {"off"} => exitWatch = "off" /\ ~closing

\* What holds where New and Close end.
Endings ==
  /\ main \in {"respawn", "failed"} => Gone(att)
  /\ main \in Killing \cup {"abandon", "listing", "ready", "closeSession", "closeWait", "closed"} => tconn[att]
  /\ exitWatch = "ended" => tclose[att] = "swept"
  /\ main = "closed" => exitWatch = "ended"
  /\ exitText # 0 => /\ exitText = att /\ main \in {"newClose", "failed"}
                     /\ proc[att] = "reaped" /\ ~signalled[att]

\* The AfterFunc marks a kill only when the context of an attempt has ended;
\* a session is returned only when the AfterFunc never started.
Reaping ==
  /\ main \in {"off", "listing", "ready"} => reaper = "off" /\ ~killed[att]
  /\ main = "attempt" =>
       /\ reaper \in {"armed", "early", "late", "ran"}
       /\ cause = "none" => reaper = "armed"
       /\ reaper = "armed" => ~killed[att]
  /\ main # "attempt" => reaper # "armed"
  /\ main \in {"stop", "join", "lost", "decide"} /\ reaper = "off" => ~killed[att]
  /\ main = "decide" /\ sdk.pc = "ok" => reaper = "off"
  /\ reaper = "late" => killed[att] /\ tconn[att]

\* Under a session, and before one, the connection is closed only after a
\* read or write error or a kill.
HangUps ==
  /\ \/ main \in {"listing", "ready"}
     \/ main # "lost" /\ sdk.pc \in {"recordKill", "discover", "init", "hybrid", "close", "ok"}
     => tclose[att] = "open" \/ killed[att] \/ broken[att] = "first"
  /\ exitWatch = "waiting" /\ ~closing => main \in {"listing", "ready"}
  /\ exited => exitWatch = "ended" /\ broken[att] = "first"

\* The bound, the watcher and the history of the first attempt.
Bounds ==
  /\ att = 2 => bound # "running" /\ ~settled
  /\ main = "off" => ~settled /\ bound = "off"
  /\ watcher # "off" => main \in Starting
  /\ didExpire => bound = "expired" /\ main \in Starting
  /\ again => bound = "expired" /\ ~settled
  /\ att = 1 /\ settled /\ main \in Starting => closeRequested[1] \/ cause = "hybrid"
  /\ att = 1 /\ settled /\ didExpire /\ ~closedFirst => cause = "hybrid"

\* The inductive invariant.
UpInv ==
  /\ UpScalars /\ UpFlags /\ Phases /\ Connecting /\ OtherAttempt /\ Restarts /\ Endings /\ Reaping
  /\ HangUps /\ Bounds
  /\ \A a \in {1, 2} : Transport(a) /\ SignalsKnown(a)

(***************************************************************************)
(* One lemma per action.                                                   *)
(***************************************************************************)
\* Setting a flag of an attempt keeps its type.
LEMMA FlagSet ==
  ASSUME NEW f \in [{1, 2} -> BOOLEAN], NEW a \in {1, 2}, NEW b \in BOOLEAN
  PROVE  [f EXCEPT ![a] = b] \in [{1, 2} -> BOOLEAN]
  OBVIOUS

\* Changing the launched children of an attempt keeps their type.
LEMMA ChildSet ==
  ASSUME NEW f \in [{1, 2} -> SUBSET {"own", "foreign"}], NEW a \in {1, 2},
         NEW S \in SUBSET {"own", "foreign"}
  PROVE  [f EXCEPT ![a] = S] \in [{1, 2} -> SUBSET {"own", "foreign"}]
  OBVIOUS

\* The upstream ends, closes its stdout or launches a child.
LEMMA StepUpstreamActs == ASSUME UpInv, UpstreamActs, Settles PROVE UpInv'
<1> USE DEF UpstreamActs, UpInv
<1>1. UpScalars'
  BY DEF UpScalars, MainStates, SdkStates, Settles
<1>2. UpFlags'
  <2>2. child' \in [{1, 2} -> SUBSET {"own", "foreign"}]
    <3>1. child \in [{1, 2} -> SUBSET {"own", "foreign"}] /\ att \in {1, 2}
      BY DEF UpScalars, UpFlags
    <3>2. PICK S \in SUBSET {"own", "foreign"} : child' = child \/ child' = [child EXCEPT ![att] = S]
      BY <3>1
    <3> HIDE DEF UpstreamActs, UpInv
    <3> QED BY <3>1, <3>2, ChildSet
  <2>3. proc' \in [{1, 2} -> {"none", "up", "hung", "exited", "reaped"}]
    BY DEF UpScalars, UpFlags
  <2>4. UNCHANGED <<killed, closeRequested, hungUp, broken, reapedUnkilled, slow, tconn, signalled, tclose>>
    OBVIOUS
  <2> QED BY <2>2, <2>3, <2>4 DEF UpFlags
<1> USE DEF UpScalars, UpFlags, Gone, Starting, Killing
<1>3. (Phases /\ Connecting /\ OtherAttempt)'
  BY DEF Phases, Connecting, Endings, OtherAttempt, Restarts, Reaping, Untouched, Transport
<1>4. (Restarts /\ Endings)'
  BY DEF Phases, Connecting, OtherAttempt, Restarts, Endings, Transport, SignalsKnown, Untouched
<1>5. (Reaping /\ HangUps)'
  BY DEF Phases, Connecting, OtherAttempt, Restarts, Endings, Reaping, HangUps, Transport, Untouched
<1>6. Bounds'
  BY DEF Phases, OtherAttempt, Restarts, Bounds, Transport, Untouched, Settles
<1>7. (\A a \in {1, 2} : Transport(a) /\ SignalsKnown(a))'
  BY DEF Phases, Connecting, OtherAttempt, Endings, Reaping, Transport, SignalsKnown, Untouched
<1> QED BY <1>1, <1>2, <1>3, <1>4, <1>5, <1>6, <1>7

\* The end of stdout is a hang-up unless a kill came first.
LEMMA StepReadEnds == ASSUME UpInv, ReadEnds, Settles PROVE UpInv'
<1> USE DEF ReadEnds, Failed, UpInv
<1>1. UpScalars'
  BY DEF UpScalars, MainStates, SdkStates, Settles
<1>2. UpFlags'
  BY DEF UpScalars, UpFlags
<1> USE DEF UpScalars, UpFlags, Gone, Starting, Killing
<1>3. (Phases /\ Connecting /\ OtherAttempt)'
  BY DEF Phases, Connecting, Endings, OtherAttempt, Restarts, Reaping, Untouched, Transport
<1>4. (Restarts /\ Endings)'
  BY DEF Phases, Connecting, OtherAttempt, Restarts, Endings, Transport, SignalsKnown, Untouched
<1>5. (Reaping /\ HangUps)'
  BY DEF Phases, Connecting, OtherAttempt, Restarts, Endings, Reaping, HangUps, Transport, Untouched
<1>6. Bounds'
  BY DEF Phases, OtherAttempt, Restarts, Bounds, Transport, Untouched, Settles
<1>7. (\A a \in {1, 2} : Transport(a) /\ SignalsKnown(a))'
  BY DEF Phases, Connecting, OtherAttempt, Endings, Reaping, Transport, SignalsKnown, Untouched
<1> QED BY <1>1, <1>2, <1>3, <1>4, <1>5, <1>6, <1>7

\* A read error that is not the end of stdout.
LEMMA StepReadBad == ASSUME UpInv, ReadBad, Settles PROVE UpInv'
<1> USE DEF ReadBad, UpInv
<1>1. UpScalars'
  BY DEF UpScalars, MainStates, SdkStates, Settles
<1>2. UpFlags'
  BY DEF UpScalars, UpFlags
<1> USE DEF UpScalars, UpFlags, Gone, Starting, Killing
<1>3. (Phases /\ Connecting /\ OtherAttempt)'
  BY DEF Phases, Connecting, Endings, OtherAttempt, Restarts, Reaping, Untouched, Transport
<1>4. (Restarts /\ Endings)'
  BY DEF Phases, Connecting, OtherAttempt, Restarts, Endings, Transport, SignalsKnown, Untouched
<1>5. (Reaping /\ HangUps)'
  BY DEF Phases, Connecting, OtherAttempt, Restarts, Endings, Reaping, HangUps, Transport, Untouched
<1>6. Bounds'
  BY DEF Phases, OtherAttempt, Restarts, Bounds, Transport, Untouched, Settles
<1>7. (\A a \in {1, 2} : Transport(a) /\ SignalsKnown(a))'
  BY DEF Phases, Connecting, OtherAttempt, Endings, Reaping, Transport, SignalsKnown, Untouched
<1> QED BY <1>1, <1>2, <1>3, <1>4, <1>5, <1>6, <1>7

\* A write that fails is a hang-up unless a kill came first.
LEMMA StepWriteFails == ASSUME UpInv, WriteFails, Settles PROVE UpInv'
<1> USE DEF WriteFails, Failed, UpInv
<1>1. UpScalars'
  BY DEF UpScalars, MainStates, SdkStates, Settles
<1>2. UpFlags'
  BY DEF UpScalars, UpFlags
<1> USE DEF UpScalars, UpFlags, Gone, Starting, Killing
<1>3. (Phases /\ Connecting /\ OtherAttempt)'
  BY DEF Phases, Connecting, Endings, OtherAttempt, Restarts, Reaping, Untouched, Transport
<1>4. (Restarts /\ Endings)'
  BY DEF Phases, Connecting, OtherAttempt, Restarts, Endings, Transport, SignalsKnown, Untouched
<1>5. (Reaping /\ HangUps)'
  BY DEF Phases, Connecting, OtherAttempt, Restarts, Endings, Reaping, HangUps, Transport, Untouched
<1>6. Bounds'
  BY DEF Phases, OtherAttempt, Restarts, Bounds, Transport, Untouched, Settles
<1>7. (\A a \in {1, 2} : Transport(a) /\ SignalsKnown(a))'
  BY DEF Phases, Connecting, OtherAttempt, Endings, Reaping, Transport, SignalsKnown, Untouched
<1> QED BY <1>1, <1>2, <1>3, <1>4, <1>5, <1>6, <1>7

\* go-sdk closes a broken connection.
LEMMA StepSdkDrops == ASSUME UpInv, SdkDrops, Settles PROVE UpInv'
<1> USE DEF SdkDrops, RequestClose, UpInv
<1>1. UpScalars'
  BY DEF UpScalars, MainStates, SdkStates, Settles
<1>2. UpFlags'
  BY DEF UpScalars, UpFlags
<1> USE DEF UpScalars, UpFlags, Gone, Starting, Killing
<1>3. (Phases /\ Connecting /\ OtherAttempt)'
  BY DEF Phases, Connecting, Endings, OtherAttempt, Restarts, Reaping, Untouched, Transport
<1>4. (Restarts /\ Endings)'
  BY DEF Phases, Connecting, OtherAttempt, Restarts, Endings, Transport, SignalsKnown, Untouched
<1>5. (Reaping /\ HangUps)'
  BY DEF Phases, Connecting, OtherAttempt, Restarts, Endings, Reaping, HangUps, Transport, Untouched
<1>6. Bounds'
  BY DEF Phases, OtherAttempt, Restarts, Bounds, Transport, Untouched, Settles
<1>7. (\A a \in {1, 2} : Transport(a) /\ SignalsKnown(a))'
  <2>1. ASSUME NEW a \in {1, 2} PROVE Transport(a)'
    BY <2>1 DEF Transport
  <2>2. ASSUME NEW a \in {1, 2} PROVE SignalsKnown(a)'
    BY <2>2 DEF SignalsKnown
  <2> QED BY <2>1, <2>2
<1> QED BY <1>1, <1>2, <1>3, <1>4, <1>5, <1>6, <1>7

\* The inner Close ends the process, with a signal only when it is slow.
LEMMA StepCloseEnds == ASSUME UpInv, CloseEnds, Settles PROVE UpInv'
<1> USE DEF CloseEnds, UpInv
<1>1. UpScalars'
  BY DEF UpScalars, MainStates, SdkStates, Settles
<1>2. UpFlags'
  <2>1. slow' = slow \/ slow' = [slow EXCEPT ![att] = TRUE]
    OBVIOUS
  <2>2. slow' \in [{1, 2} -> BOOLEAN]
    <3>1. slow \in [{1, 2} -> BOOLEAN] /\ att \in {1, 2}
      BY DEF UpScalars, UpFlags
    <3> HIDE DEF CloseEnds, UpInv
    <3> QED BY <2>1, <3>1, FlagSet
  <2>3. signalled' = signalled \/ signalled' = [signalled EXCEPT ![att] = TRUE]
    OBVIOUS
  <2>4. signalled' \in [{1, 2} -> BOOLEAN]
    <3>1. signalled \in [{1, 2} -> BOOLEAN] /\ att \in {1, 2}
      BY DEF UpScalars, UpFlags
    <3> HIDE DEF CloseEnds, UpInv
    <3> QED BY <2>3, <3>1, FlagSet
  <2>5. proc' \in [{1, 2} -> {"none", "up", "hung", "exited", "reaped"}]
    BY DEF UpScalars, UpFlags
  <2>6. UNCHANGED <<killed, closeRequested, hungUp, broken, reapedUnkilled, tconn, child, tclose>>
    OBVIOUS
  <2> QED BY <2>2, <2>4, <2>5, <2>6 DEF UpFlags
<1> USE DEF UpScalars, UpFlags, Gone, Starting, Killing
<1>3. (Phases /\ Connecting /\ OtherAttempt)'
  BY DEF Phases, Connecting, Endings, OtherAttempt, Restarts, Reaping, Untouched, Transport
<1>4. (Restarts /\ Endings)'
  BY DEF Phases, Connecting, OtherAttempt, Restarts, Endings, Transport, SignalsKnown, Untouched
<1>5. (Reaping /\ HangUps)'
  BY DEF Phases, Connecting, OtherAttempt, Restarts, Endings, Reaping, HangUps, Transport, Untouched
<1>6. Bounds'
  BY DEF Phases, OtherAttempt, Restarts, Bounds, Transport, Untouched, Settles
<1>7. (\A a \in {1, 2} : Transport(a) /\ SignalsKnown(a))'
  BY DEF Phases, Connecting, OtherAttempt, Endings, Reaping, Transport, SignalsKnown, Untouched
<1> QED BY <1>1, <1>2, <1>3, <1>4, <1>5, <1>6, <1>7

\* The process is waited for.
LEMMA StepCloseReaps == ASSUME UpInv, CloseReaps, Settles PROVE UpInv'
<1> USE DEF CloseReaps, UpInv
<1>1. UpScalars'
  BY DEF UpScalars, MainStates, SdkStates, Settles
<1>2. UpFlags'
  BY DEF UpScalars, UpFlags
<1> USE DEF UpScalars, UpFlags, Gone, Starting, Killing
<1>3. (Phases /\ Connecting /\ OtherAttempt)'
  BY DEF Phases, Connecting, Endings, OtherAttempt, Restarts, Reaping, Untouched, Transport
<1>4. (Restarts /\ Endings)'
  BY DEF Phases, Connecting, OtherAttempt, Restarts, Endings, Transport, SignalsKnown, Untouched
<1>5. (Reaping /\ HangUps)'
  BY DEF Phases, Connecting, OtherAttempt, Restarts, Endings, Reaping, HangUps, Transport, Untouched
<1>6. Bounds'
  BY DEF Phases, OtherAttempt, Restarts, Bounds, Transport, Untouched, Settles
<1>7. (\A a \in {1, 2} : Transport(a) /\ SignalsKnown(a))'
  BY DEF Phases, Connecting, OtherAttempt, Endings, Reaping, Transport, SignalsKnown, Untouched
<1> QED BY <1>1, <1>2, <1>3, <1>4, <1>5, <1>6, <1>7

\* The group is swept.
LEMMA StepSweep == ASSUME UpInv, Sweep, Settles PROVE UpInv'
<1> USE DEF Sweep, UpInv
<1>1. UpScalars'
  BY DEF UpScalars, MainStates, SdkStates, Settles
<1>2. UpFlags'
  BY DEF UpScalars, UpFlags
<1> USE DEF UpScalars, UpFlags, Gone, Starting, Killing
<1>3. (Phases /\ Connecting /\ OtherAttempt)'
  BY DEF Phases, Connecting, Endings, OtherAttempt, Restarts, Reaping, Untouched, Transport
<1>4. (Restarts /\ Endings)'
  BY DEF Phases, Connecting, OtherAttempt, Restarts, Endings, Transport, SignalsKnown, Untouched
<1>5. (Reaping /\ HangUps)'
  BY DEF Phases, Connecting, OtherAttempt, Restarts, Endings, Reaping, HangUps, Transport, Untouched
<1>6. Bounds'
  BY DEF Phases, OtherAttempt, Restarts, Bounds, Transport, Untouched, Settles
<1>7. (\A a \in {1, 2} : Transport(a) /\ SignalsKnown(a))'
  BY DEF Phases, Connecting, OtherAttempt, Endings, Reaping, Transport, SignalsKnown, Untouched
<1> QED BY <1>1, <1>2, <1>3, <1>4, <1>5, <1>6, <1>7

\* Connect starts the process, or fails.
LEMMA StepSdkSpawn == ASSUME UpInv, SdkSpawn, Settles PROVE UpInv'
<1> USE DEF SdkSpawn, UpInv
<1>1. UpScalars'
  BY DEF UpScalars, MainStates, SdkStates, Settles
<1>2. UpFlags'
  BY DEF UpScalars, UpFlags
<1> USE DEF UpScalars, UpFlags, Gone, Starting, Killing
<1>3. (Phases /\ Connecting /\ OtherAttempt)'
  BY DEF Phases, Connecting, Endings, OtherAttempt, Restarts, Reaping, Untouched, Transport
<1>4. (Restarts /\ Endings)'
  BY DEF Phases, Connecting, OtherAttempt, Restarts, Endings, Transport, SignalsKnown, Untouched
<1>5. (Reaping /\ HangUps)'
  BY DEF Phases, Connecting, OtherAttempt, Restarts, Endings, Reaping, HangUps, Transport, Untouched
<1>6. Bounds'
  BY DEF Phases, OtherAttempt, Restarts, Bounds, Transport, Untouched, Settles
<1>7. (\A a \in {1, 2} : Transport(a) /\ SignalsKnown(a))'
  BY DEF Phases, Connecting, OtherAttempt, Endings, Reaping, Transport, SignalsKnown, Untouched
<1> QED BY <1>1, <1>2, <1>3, <1>4, <1>5, <1>6, <1>7

\* attachTree, or its failure.
LEMMA StepSdkAttach == ASSUME UpInv, SdkAttach, Settles PROVE UpInv'
<1> USE DEF SdkAttach, UpInv
<1>1. UpScalars'
  BY DEF UpScalars, MainStates, SdkStates, Settles
<1>2. UpFlags'
  <2>1. signalled' = signalled \/ signalled' = [signalled EXCEPT ![att] = TRUE]
    OBVIOUS
  <2>2. signalled' \in [{1, 2} -> BOOLEAN]
    <3>1. signalled \in [{1, 2} -> BOOLEAN] /\ att \in {1, 2}
      BY DEF UpScalars, UpFlags
    <3> HIDE DEF SdkAttach, UpInv
    <3> QED BY <2>1, <3>1, FlagSet
  <2>3. proc' \in [{1, 2} -> {"none", "up", "hung", "exited", "reaped"}]
    BY DEF UpScalars, UpFlags
  <2>4. UNCHANGED <<killed, closeRequested, hungUp, broken, reapedUnkilled, slow, tconn, child, tclose>>
    OBVIOUS
  <2> QED BY <2>2, <2>3, <2>4 DEF UpFlags
<1> USE DEF UpScalars, UpFlags, Gone, Starting, Killing
<1>3. (Phases /\ Connecting /\ OtherAttempt)'
  BY DEF Phases, Connecting, Endings, OtherAttempt, Restarts, Reaping, Untouched, Transport
<1>4. (Restarts /\ Endings)'
  BY DEF Phases, Connecting, OtherAttempt, Restarts, Endings, Transport, SignalsKnown, Untouched
<1>5. (Reaping /\ HangUps)'
  BY DEF Phases, Connecting, OtherAttempt, Restarts, Endings, Reaping, HangUps, Transport, Untouched
<1>6. Bounds'
  BY DEF Phases, OtherAttempt, Restarts, Bounds, Transport, Untouched, Settles
<1>7. (\A a \in {1, 2} : Transport(a) /\ SignalsKnown(a))'
  BY DEF Phases, Connecting, OtherAttempt, Endings, Reaping, Transport, SignalsKnown, Untouched
<1> QED BY <1>1, <1>2, <1>3, <1>4, <1>5, <1>6, <1>7

\* The connection and the process are recorded.
LEMMA StepSdkRecord == ASSUME UpInv, SdkRecord, Settles PROVE UpInv'
<1> USE DEF SdkRecord, UpInv
<1>1. UpScalars'
  BY DEF UpScalars, MainStates, SdkStates, Settles
<1>2. UpFlags'
  BY DEF UpScalars, UpFlags
<1> USE DEF UpScalars, UpFlags, Gone, Starting, Killing
<1>3. (Phases /\ Connecting /\ OtherAttempt)'
  BY DEF Phases, Connecting, Endings, OtherAttempt, Restarts, Reaping, Untouched, Transport
<1>4. (Restarts /\ Endings)'
  BY DEF Phases, Connecting, OtherAttempt, Restarts, Endings, Transport, SignalsKnown, Untouched
<1>5. (Reaping /\ HangUps)'
  BY DEF Phases, Connecting, OtherAttempt, Restarts, Endings, Reaping, HangUps, Transport, Untouched
<1>6. Bounds'
  BY DEF Phases, OtherAttempt, Restarts, Bounds, Transport, Untouched, Settles
<1>7. (\A a \in {1, 2} : Transport(a) /\ SignalsKnown(a))'
  BY DEF Phases, Connecting, OtherAttempt, Endings, Reaping, Transport, SignalsKnown, Untouched
<1> QED BY <1>1, <1>2, <1>3, <1>4, <1>5, <1>6, <1>7

\* A kill that came before the record is done.
LEMMA StepSdkRecordKill == ASSUME UpInv, SdkRecordKill, Settles PROVE UpInv'
<1> USE DEF SdkRecordKill, Kill, UpInv
<1>1. UpScalars'
  BY DEF UpScalars, MainStates, SdkStates, Settles
<1>2. UpFlags'
  BY DEF UpScalars, UpFlags
<1> USE DEF UpScalars, UpFlags, Gone, Starting, Killing
<1>3. (Phases /\ Connecting /\ OtherAttempt)'
  BY DEF Phases, Connecting, Endings, OtherAttempt, Restarts, Reaping, Untouched, Transport
<1>4. (Restarts /\ Endings)'
  BY DEF Phases, Connecting, OtherAttempt, Restarts, Endings, Transport, SignalsKnown, Untouched
<1>5. (Reaping /\ HangUps)'
  BY DEF Phases, Connecting, OtherAttempt, Restarts, Endings, Reaping, HangUps, Transport, Untouched
<1>6. Bounds'
  BY DEF Phases, OtherAttempt, Restarts, Bounds, Transport, Untouched, Settles
<1>7. (\A a \in {1, 2} : Transport(a) /\ SignalsKnown(a))'
  BY DEF Phases, Connecting, OtherAttempt, Endings, Reaping, Transport, SignalsKnown, Untouched
<1> QED BY <1>1, <1>2, <1>3, <1>4, <1>5, <1>6, <1>7

\* The upstream answers the handshake.
LEMMA StepSdkAnswered == ASSUME UpInv, SdkAnswered, Settles PROVE UpInv'
<1> USE DEF SdkAnswered, UpInv
<1>1. UpScalars'
  BY DEF UpScalars, MainStates, SdkStates, Settles
<1>2. UpFlags'
  BY DEF UpScalars, UpFlags
<1> USE DEF UpScalars, UpFlags, Gone, Starting, Killing
<1>3. (Phases /\ Connecting /\ OtherAttempt)'
  BY DEF Phases, Connecting, Endings, OtherAttempt, Restarts, Reaping, Untouched, Transport
<1>4. (Restarts /\ Endings)'
  BY DEF Phases, Connecting, OtherAttempt, Restarts, Endings, Transport, SignalsKnown, Untouched
<1>5. (Reaping /\ HangUps)'
  BY DEF Phases, Connecting, OtherAttempt, Restarts, Endings, Reaping, HangUps, Transport, Untouched
<1>6. Bounds'
  BY DEF Phases, OtherAttempt, Restarts, Bounds, Transport, Untouched, Settles
<1>7. (\A a \in {1, 2} : Transport(a) /\ SignalsKnown(a))'
  BY DEF Phases, Connecting, OtherAttempt, Endings, Reaping, Transport, SignalsKnown, Untouched
<1> QED BY <1>1, <1>2, <1>3, <1>4, <1>5, <1>6, <1>7

\* The middleware refuses a hybrid answer.
LEMMA StepSdkRefusesHybrid == ASSUME UpInv, SdkRefusesHybrid, Settles PROVE UpInv'
<1> USE DEF SdkRefusesHybrid, UpInv
<1>1. UpScalars'
  BY DEF UpScalars, MainStates, SdkStates, Settles
<1>2. UpFlags'
  BY DEF UpScalars, UpFlags
<1> USE DEF UpScalars, UpFlags, Gone, Starting, Killing
<1>3. (Phases /\ Connecting /\ OtherAttempt)'
  BY DEF Phases, Connecting, Endings, OtherAttempt, Restarts, Reaping, Untouched, Transport
<1>4. (Restarts /\ Endings)'
  BY DEF Phases, Connecting, OtherAttempt, Restarts, Endings, Transport, SignalsKnown, Untouched
<1>5. (Reaping /\ HangUps)'
  BY DEF Phases, Connecting, OtherAttempt, Restarts, Endings, Reaping, HangUps, Transport, Untouched
<1>6. Bounds'
  BY DEF Phases, OtherAttempt, Restarts, Bounds, Transport, Untouched, Settles
<1>7. (\A a \in {1, 2} : Transport(a) /\ SignalsKnown(a))'
  BY DEF Phases, Connecting, OtherAttempt, Endings, Reaping, Transport, SignalsKnown, Untouched
<1> QED BY <1>1, <1>2, <1>3, <1>4, <1>5, <1>6, <1>7

\* The context or the connection ends under the handshake.
LEMMA StepSdkFails == ASSUME UpInv, SdkFails, Settles PROVE UpInv'
<1> USE DEF SdkFails, UpInv
<1>1. UpScalars'
  BY DEF UpScalars, MainStates, SdkStates, Settles
<1>2. UpFlags'
  BY DEF UpScalars, UpFlags
<1> USE DEF UpScalars, UpFlags, Gone, Starting, Killing
<1>3. (Phases /\ Connecting /\ OtherAttempt)'
  BY DEF Phases, Connecting, Endings, OtherAttempt, Restarts, Reaping, Untouched, Transport
<1>4. (Restarts /\ Endings)'
  BY DEF Phases, Connecting, OtherAttempt, Restarts, Endings, Transport, SignalsKnown, Untouched
<1>5. (Reaping /\ HangUps)'
  BY DEF Phases, Connecting, OtherAttempt, Restarts, Endings, Reaping, HangUps, Transport, Untouched
<1>6. Bounds'
  BY DEF Phases, OtherAttempt, Restarts, Bounds, Transport, Untouched, Settles
<1>7. (\A a \in {1, 2} : Transport(a) /\ SignalsKnown(a))'
  BY DEF Phases, Connecting, OtherAttempt, Endings, Reaping, Transport, SignalsKnown, Untouched
<1> QED BY <1>1, <1>2, <1>3, <1>4, <1>5, <1>6, <1>7

\* go-sdk closes on its way out.
LEMMA StepSdkCloses == ASSUME UpInv, SdkCloses, Settles PROVE UpInv'
<1> USE DEF SdkCloses, RequestClose, UpInv
<1>1. UpScalars'
  BY DEF UpScalars, MainStates, SdkStates, Settles
<1>2. UpFlags'
  <2>1. closeRequested' = closeRequested \/ closeRequested' = [closeRequested EXCEPT ![att] = TRUE]
    OBVIOUS
  <2>2. closeRequested' \in [{1, 2} -> BOOLEAN]
    <3>1. closeRequested \in [{1, 2} -> BOOLEAN] /\ att \in {1, 2}
      BY DEF UpScalars, UpFlags
    <3> HIDE DEF SdkCloses, RequestClose, UpInv
    <3> QED BY <2>1, <3>1, FlagSet
  <2>3. tclose' \in [{1, 2} -> {"open", "closing", "reaped", "swept"}]
    BY DEF UpScalars, UpFlags
  <2>4. UNCHANGED <<killed, hungUp, broken, reapedUnkilled, slow, tconn, child, signalled, proc>>
    OBVIOUS
  <2> QED BY <2>2, <2>3, <2>4 DEF UpFlags
<1> USE DEF UpScalars, UpFlags, Gone, Starting, Killing
<1>3. (Phases /\ Connecting /\ OtherAttempt)'
  BY DEF Phases, Connecting, Endings, OtherAttempt, Restarts, Reaping, Untouched, Transport
<1>4. (Restarts /\ Endings)'
  BY DEF Phases, Connecting, OtherAttempt, Restarts, Endings, Transport, SignalsKnown, Untouched
<1>5. (Reaping /\ HangUps)'
  BY DEF Phases, Connecting, OtherAttempt, Restarts, Endings, Reaping, HangUps, Transport, Untouched
<1>6. Bounds'
  BY DEF Phases, OtherAttempt, Restarts, Bounds, Transport, Untouched, Settles
<1>7. (\A a \in {1, 2} : Transport(a) /\ SignalsKnown(a))'
  BY DEF Phases, Connecting, OtherAttempt, Endings, Reaping, Transport, SignalsKnown, Untouched
<1> QED BY <1>1, <1>2, <1>3, <1>4, <1>5, <1>6, <1>7

\* go-sdk's close has returned.
LEMMA StepSdkClosed == ASSUME UpInv, SdkClosed, Settles PROVE UpInv'
<1> USE DEF SdkClosed, UpInv
<1>1. UpScalars'
  BY DEF UpScalars, MainStates, SdkStates, Settles
<1>2. UpFlags'
  BY DEF UpScalars, UpFlags
<1> USE DEF UpScalars, UpFlags, Gone, Starting, Killing
<1>3. (Phases /\ Connecting /\ OtherAttempt)'
  BY DEF Phases, Connecting, Endings, OtherAttempt, Restarts, Reaping, Untouched, Transport
<1>4. (Restarts /\ Endings)'
  BY DEF Phases, Connecting, OtherAttempt, Restarts, Endings, Transport, SignalsKnown, Untouched
<1>5. (Reaping /\ HangUps)'
  BY DEF Phases, Connecting, OtherAttempt, Restarts, Endings, Reaping, HangUps, Transport, Untouched
<1>6. Bounds'
  BY DEF Phases, OtherAttempt, Restarts, Bounds, Transport, Untouched, Settles
<1>7. (\A a \in {1, 2} : Transport(a) /\ SignalsKnown(a))'
  BY DEF Phases, Connecting, OtherAttempt, Endings, Reaping, Transport, SignalsKnown, Untouched
<1> QED BY <1>1, <1>2, <1>3, <1>4, <1>5, <1>6, <1>7

\* The watcher reads the flags.
LEMMA StepWatcherExpires == ASSUME UpInv, WatcherExpires, Settles PROVE UpInv'
<1> USE DEF WatcherExpires, UpInv
<1>1. UpScalars'
  <2>1. closedFirst' \in BOOLEAN
    BY DEF UpScalars, UpFlags
  <2>2. settled' \in BOOLEAN
    BY DEF Settles
  <2>3. watcher' = "seen" /\ didExpire' = TRUE
        /\ UNCHANGED <<main, att, ctxUp, bound, cause, sdk, again, reaper, closing, exited, exitWatch, exitText>>
    OBVIOUS
  <2> QED BY <2>1, <2>2, <2>3 DEF UpScalars
<1>2. UpFlags'
  BY DEF UpScalars, UpFlags
<1> USE DEF UpScalars, UpFlags, Gone, Starting, Killing
<1>3. (Phases /\ Connecting /\ OtherAttempt)'
  BY DEF Phases, Connecting, Endings, OtherAttempt, Restarts, Reaping, Untouched, Transport
<1>4. (Restarts /\ Endings)'
  BY DEF Phases, Connecting, OtherAttempt, Restarts, Endings, Transport, SignalsKnown, Untouched
<1>5. (Reaping /\ HangUps)'
  BY DEF Phases, Connecting, OtherAttempt, Restarts, Endings, Reaping, HangUps, Transport, Untouched
<1>6. Bounds'
  BY DEF Phases, OtherAttempt, Restarts, Bounds, Transport, Untouched, Settles
<1>7. (\A a \in {1, 2} : Transport(a) /\ SignalsKnown(a))'
  BY DEF Phases, Connecting, OtherAttempt, Endings, Reaping, Transport, SignalsKnown, Untouched
<1> QED BY <1>1, <1>2, <1>3, <1>4, <1>5, <1>6, <1>7

\* The watcher cancels the attempt.
LEMMA StepWatcherCancels == ASSUME UpInv, WatcherCancels, Settles PROVE UpInv'
<1> USE DEF WatcherCancels, UpInv
<1>1. UpScalars'
  BY DEF UpScalars, MainStates, SdkStates, Settles
<1>2. UpFlags'
  BY DEF UpScalars, UpFlags
<1> USE DEF UpScalars, UpFlags, Gone, Starting, Killing
<1>3. (Phases /\ Connecting /\ OtherAttempt)'
  BY DEF Phases, Connecting, Endings, OtherAttempt, Restarts, Reaping, Untouched, Transport
<1>4. (Restarts /\ Endings)'
  BY DEF Phases, Connecting, OtherAttempt, Restarts, Endings, Transport, SignalsKnown, Untouched
<1>5. (Reaping /\ HangUps)'
  BY DEF Phases, Connecting, OtherAttempt, Restarts, Endings, Reaping, HangUps, Transport, Untouched
<1>6. Bounds'
  BY DEF Phases, OtherAttempt, Restarts, Bounds, Transport, Untouched, Settles
<1>7. (\A a \in {1, 2} : Transport(a) /\ SignalsKnown(a))'
  BY DEF Phases, Connecting, OtherAttempt, Endings, Reaping, Transport, SignalsKnown, Untouched
<1> QED BY <1>1, <1>2, <1>3, <1>4, <1>5, <1>6, <1>7

\* The watcher sees the connect end.
LEMMA StepWatcherConnected == ASSUME UpInv, WatcherConnected, Settles PROVE UpInv'
<1> USE DEF WatcherConnected, UpInv
<1>1. UpScalars'
  BY DEF UpScalars, MainStates, SdkStates, Settles
<1>2. UpFlags'
  BY DEF UpScalars, UpFlags
<1> USE DEF UpScalars, UpFlags, Gone, Starting, Killing
<1>3. (Phases /\ Connecting /\ OtherAttempt)'
  BY DEF Phases, Connecting, Endings, OtherAttempt, Restarts, Reaping, Untouched, Transport
<1>4. (Restarts /\ Endings)'
  BY DEF Phases, Connecting, OtherAttempt, Restarts, Endings, Transport, SignalsKnown, Untouched
<1>5. (Reaping /\ HangUps)'
  BY DEF Phases, Connecting, OtherAttempt, Restarts, Endings, Reaping, HangUps, Transport, Untouched
<1>6. Bounds'
  BY DEF Phases, OtherAttempt, Restarts, Bounds, Transport, Untouched, Settles
<1>7. (\A a \in {1, 2} : Transport(a) /\ SignalsKnown(a))'
  BY DEF Phases, Connecting, OtherAttempt, Endings, Reaping, Transport, SignalsKnown, Untouched
<1> QED BY <1>1, <1>2, <1>3, <1>4, <1>5, <1>6, <1>7

\* The AfterFunc marks the kill.
LEMMA StepReaperMarks == ASSUME UpInv, ReaperMarks, Settles PROVE UpInv'
<1> USE DEF ReaperMarks, UpInv
<1>1. UpScalars'
  BY DEF UpScalars, MainStates, SdkStates, Settles
<1>2. UpFlags'
  BY DEF UpScalars, UpFlags
<1> USE DEF UpScalars, UpFlags, Gone, Starting, Killing
<1>3. (Phases /\ Connecting /\ OtherAttempt)'
  BY DEF Phases, Connecting, Endings, OtherAttempt, Restarts, Reaping, Untouched, Transport
<1>4. (Restarts /\ Endings)'
  BY DEF Phases, Connecting, OtherAttempt, Restarts, Endings, Transport, SignalsKnown, Untouched
<1>5. (Reaping /\ HangUps)'
  BY DEF Phases, Connecting, OtherAttempt, Restarts, Endings, Reaping, HangUps, Transport, Untouched
<1>6. Bounds'
  BY DEF Phases, OtherAttempt, Restarts, Bounds, Transport, Untouched, Settles
<1>7. (\A a \in {1, 2} : Transport(a) /\ SignalsKnown(a))'
  BY DEF Phases, Connecting, OtherAttempt, Endings, Reaping, Transport, SignalsKnown, Untouched
<1> QED BY <1>1, <1>2, <1>3, <1>4, <1>5, <1>6, <1>7

\* The AfterFunc kills.
LEMMA StepReaperKills == ASSUME UpInv, ReaperKills, Settles PROVE UpInv'
<1> USE DEF ReaperKills, Kill, UpInv
<1>1. UpScalars'
  BY DEF UpScalars, MainStates, SdkStates, Settles
<1>2. UpFlags'
  <2>2. child' \in [{1, 2} -> SUBSET {"own", "foreign"}]
    <3>1. child \in [{1, 2} -> SUBSET {"own", "foreign"}] /\ att \in {1, 2}
      BY DEF UpScalars, UpFlags
    <3>2. PICK S \in SUBSET {"own", "foreign"} : child' = child \/ child' = [child EXCEPT ![att] = S]
      BY <3>1
    <3> HIDE DEF ReaperKills, Kill, UpInv
    <3> QED BY <3>1, <3>2, ChildSet
  <2>3. signalled' = signalled \/ signalled' = [signalled EXCEPT ![att] = TRUE]
    OBVIOUS
  <2>4. signalled' \in [{1, 2} -> BOOLEAN]
    <3>1. signalled \in [{1, 2} -> BOOLEAN] /\ att \in {1, 2}
      BY DEF UpScalars, UpFlags
    <3> HIDE DEF ReaperKills, Kill, UpInv
    <3> QED BY <2>3, <3>1, FlagSet
  <2>5. proc' \in [{1, 2} -> {"none", "up", "hung", "exited", "reaped"}]
    BY DEF UpScalars, UpFlags
  <2>6. UNCHANGED <<killed, closeRequested, hungUp, broken, reapedUnkilled, slow, tconn, tclose>>
    OBVIOUS
  <2> QED BY <2>2, <2>4, <2>5, <2>6 DEF UpFlags
<1> USE DEF UpScalars, UpFlags, Gone, Starting, Killing
<1>3. (Phases /\ Connecting /\ OtherAttempt)'
  BY DEF Phases, Connecting, Endings, OtherAttempt, Restarts, Reaping, Untouched, Transport
<1>4. (Restarts /\ Endings)'
  BY DEF Phases, Connecting, OtherAttempt, Restarts, Endings, Transport, SignalsKnown, Untouched
<1>5. (Reaping /\ HangUps)'
  BY DEF Phases, Connecting, OtherAttempt, Restarts, Endings, Reaping, HangUps, Transport, Untouched
<1>6. Bounds'
  BY DEF Phases, OtherAttempt, Restarts, Bounds, Transport, Untouched, Settles
<1>7. (\A a \in {1, 2} : Transport(a) /\ SignalsKnown(a))'
  BY DEF Phases, Connecting, OtherAttempt, Endings, Reaping, Transport, SignalsKnown, Untouched
<1> QED BY <1>1, <1>2, <1>3, <1>4, <1>5, <1>6, <1>7

\* The bound runs out.
LEMMA StepBoundExpires == ASSUME UpInv, BoundExpires, Settles PROVE UpInv'
<1> USE DEF BoundExpires, UpInv
<1>1. UpScalars'
  BY DEF UpScalars, MainStates, SdkStates, Settles
<1>2. UpFlags'
  BY DEF UpScalars, UpFlags
<1> USE DEF UpScalars, UpFlags, Gone, Starting, Killing
<1>3. (Phases /\ Connecting /\ OtherAttempt)'
  BY DEF Phases, Connecting, Endings, OtherAttempt, Restarts, Reaping, Untouched, Transport
<1>4. (Restarts /\ Endings)'
  BY DEF Phases, Connecting, OtherAttempt, Restarts, Endings, Transport, SignalsKnown, Untouched
<1>5. (Reaping /\ HangUps)'
  BY DEF Phases, Connecting, OtherAttempt, Restarts, Endings, Reaping, HangUps, Transport, Untouched
<1>6. Bounds'
  BY DEF Phases, OtherAttempt, Restarts, Bounds, Transport, Untouched, Settles
<1>7. (\A a \in {1, 2} : Transport(a) /\ SignalsKnown(a))'
  BY DEF Phases, Connecting, OtherAttempt, Endings, Reaping, Transport, SignalsKnown, Untouched
<1> QED BY <1>1, <1>2, <1>3, <1>4, <1>5, <1>6, <1>7

\* The startup context ends.
LEMMA StepCtxEnds == ASSUME UpInv, CtxEnds, Settles PROVE UpInv'
<1> USE DEF CtxEnds, UpInv
<1>1. UpScalars'
  <2>1. ctxUp' \in BOOLEAN /\ cause' \in {"none", "parent", "expired", "hybrid"}
    BY DEF UpScalars
  <2>2. settled' \in BOOLEAN
    BY DEF Settles
  <2>3. UNCHANGED <<main, att, bound, sdk, watcher, didExpire, closedFirst,
                    again, reaper, closing, exited, exitWatch, exitText>>
    OBVIOUS
  <2> QED BY <2>1, <2>2, <2>3 DEF UpScalars
<1>2. UpFlags'
  BY DEF UpScalars, UpFlags
<1> USE DEF UpScalars, UpFlags, Gone, Starting, Killing
<1>3. (Phases /\ Connecting /\ OtherAttempt)'
  BY DEF Phases, Connecting, Endings, OtherAttempt, Restarts, Reaping, Untouched, Transport
<1>4. (Restarts /\ Endings)'
  BY DEF Phases, Connecting, OtherAttempt, Restarts, Endings, Transport, SignalsKnown, Untouched
<1>5. (Reaping /\ HangUps)'
  BY DEF Phases, Connecting, OtherAttempt, Restarts, Endings, Reaping, HangUps, Transport, Untouched
<1>6. Bounds'
  BY DEF Phases, OtherAttempt, Restarts, Bounds, Transport, Untouched, Settles
<1>7. (\A a \in {1, 2} : Transport(a) /\ SignalsKnown(a))'
  BY DEF Phases, Connecting, OtherAttempt, Endings, Reaping, Transport, SignalsKnown, Untouched
<1> QED BY <1>1, <1>2, <1>3, <1>4, <1>5, <1>6, <1>7

\* New begins the first attempt.
LEMMA StepStart == ASSUME UpInv, Start, Settles PROVE UpInv'
<1> USE DEF Start, StartAttempt, UpInv
<1>1. UpScalars'
  BY DEF UpScalars, MainStates, SdkStates, Settles
<1>2. UpFlags'
  BY DEF UpScalars, UpFlags
<1> USE DEF UpScalars, UpFlags, Gone, Starting, Killing
<1>3. (Phases /\ Connecting /\ OtherAttempt)'
  BY DEF Phases, Connecting, Endings, OtherAttempt, Restarts, Reaping, Untouched, Transport
<1>4. (Restarts /\ Endings)'
  BY DEF Phases, Connecting, OtherAttempt, Restarts, Endings, Transport, SignalsKnown, Untouched
<1>5. (Reaping /\ HangUps)'
  BY DEF Phases, Connecting, OtherAttempt, Restarts, Endings, Reaping, HangUps, Transport, Untouched
<1>6. Bounds'
  BY DEF Phases, OtherAttempt, Restarts, Bounds, Transport, Untouched, Settles
<1>7. (\A a \in {1, 2} : Transport(a) /\ SignalsKnown(a))'
  BY DEF Phases, Connecting, OtherAttempt, Endings, Reaping, Transport, SignalsKnown, Untouched
<1> QED BY <1>1, <1>2, <1>3, <1>4, <1>5, <1>6, <1>7

\* The AfterFunc is stopped, or is due.
LEMMA StepStopKill == ASSUME UpInv, StopKill, Settles PROVE UpInv'
<1> USE DEF StopKill, UpInv
<1>1. UpScalars'
  BY DEF UpScalars, MainStates, SdkStates, Settles
<1>2. UpFlags'
  BY DEF UpScalars, UpFlags
<1> USE DEF UpScalars, UpFlags, Gone, Starting, Killing
<1>3. (Phases /\ Connecting /\ OtherAttempt)'
  BY DEF Phases, Connecting, Endings, OtherAttempt, Restarts, Reaping, Untouched, Transport
<1>4. (Restarts /\ Endings)'
  BY DEF Phases, Connecting, OtherAttempt, Restarts, Endings, Transport, SignalsKnown, Untouched
<1>5. (Reaping /\ HangUps)'
  BY DEF Phases, Connecting, OtherAttempt, Restarts, Endings, Reaping, HangUps, Transport, Untouched
<1>6. Bounds'
  BY DEF Phases, OtherAttempt, Restarts, Bounds, Transport, Untouched, Settles
<1>7. (\A a \in {1, 2} : Transport(a) /\ SignalsKnown(a))'
  BY DEF Phases, Connecting, OtherAttempt, Endings, Reaping, Transport, SignalsKnown, Untouched
<1> QED BY <1>1, <1>2, <1>3, <1>4, <1>5, <1>6, <1>7

\* The watcher is told.
LEMMA StepJoin == ASSUME UpInv, Join, Settles PROVE UpInv'
<1> USE DEF Join, UpInv
<1>1. UpScalars'
  BY DEF UpScalars, MainStates, SdkStates, Settles
<1>2. UpFlags'
  BY DEF UpScalars, UpFlags
<1> USE DEF UpScalars, UpFlags, Gone, Starting, Killing
<1>3. (Phases /\ Connecting /\ OtherAttempt)'
  BY DEF Phases, Connecting, Endings, OtherAttempt, Restarts, Reaping, Untouched, Transport
<1>4. (Restarts /\ Endings)'
  BY DEF Phases, Connecting, OtherAttempt, Restarts, Endings, Transport, SignalsKnown, Untouched
<1>5. (Reaping /\ HangUps)'
  BY DEF Phases, Connecting, OtherAttempt, Restarts, Endings, Reaping, HangUps, Transport, Untouched
<1>6. Bounds'
  BY DEF Phases, OtherAttempt, Restarts, Bounds, Transport, Untouched, Settles
<1>7. (\A a \in {1, 2} : Transport(a) /\ SignalsKnown(a))'
  BY DEF Phases, Connecting, OtherAttempt, Endings, Reaping, Transport, SignalsKnown, Untouched
<1> QED BY <1>1, <1>2, <1>3, <1>4, <1>5, <1>6, <1>7

\* The watcher is joined; a lost session is closed.
LEMMA StepJoined == ASSUME UpInv, Joined, Settles PROVE UpInv'
<1> USE DEF Joined, RequestClose, UpInv
<1>1. UpScalars'
  BY DEF UpScalars, MainStates, SdkStates, Settles
<1>2. UpFlags'
  <2>1. closeRequested' = closeRequested \/ closeRequested' = [closeRequested EXCEPT ![att] = TRUE]
    OBVIOUS
  <2>2. closeRequested' \in [{1, 2} -> BOOLEAN]
    <3>1. closeRequested \in [{1, 2} -> BOOLEAN] /\ att \in {1, 2}
      BY DEF UpScalars, UpFlags
    <3> HIDE DEF Joined, RequestClose, UpInv
    <3> QED BY <2>1, <3>1, FlagSet
  <2>3. tclose' \in [{1, 2} -> {"open", "closing", "reaped", "swept"}]
    BY DEF UpScalars, UpFlags
  <2>4. UNCHANGED <<killed, hungUp, broken, reapedUnkilled, slow, tconn, child, signalled, proc>>
    OBVIOUS
  <2> QED BY <2>2, <2>3, <2>4 DEF UpFlags
<1> USE DEF UpScalars, UpFlags, Gone, Starting, Killing
<1>3. (Phases /\ Connecting /\ OtherAttempt)'
  BY DEF Phases, Connecting, Endings, OtherAttempt, Restarts, Reaping, Untouched, Transport
<1>4. (Restarts /\ Endings)'
  BY DEF Phases, Connecting, OtherAttempt, Restarts, Endings, Transport, SignalsKnown, Untouched
<1>5. (Reaping /\ HangUps)'
  BY DEF Phases, Connecting, OtherAttempt, Restarts, Endings, Reaping, HangUps, Transport, Untouched
<1>6. Bounds'
  BY DEF Phases, OtherAttempt, Restarts, Bounds, Transport, Untouched, Settles
<1>7. (\A a \in {1, 2} : Transport(a) /\ SignalsKnown(a))'
  BY DEF Phases, Connecting, OtherAttempt, Endings, Reaping, Transport, SignalsKnown, Untouched
<1> QED BY <1>1, <1>2, <1>3, <1>4, <1>5, <1>6, <1>7

\* The lost session is closed.
LEMMA StepLost == ASSUME UpInv, Lost, Settles PROVE UpInv'
<1> USE DEF Lost, UpInv
<1>1. UpScalars'
  BY DEF UpScalars, MainStates, SdkStates, Settles
<1>2. UpFlags'
  BY DEF UpScalars, UpFlags
<1> USE DEF UpScalars, UpFlags, Gone, Starting, Killing
<1>3. (Phases /\ Connecting /\ OtherAttempt)'
  BY DEF Phases, Connecting, Endings, OtherAttempt, Restarts, Reaping, Untouched, Transport
<1>4. (Restarts /\ Endings)'
  BY DEF Phases, Connecting, OtherAttempt, Restarts, Endings, Transport, SignalsKnown, Untouched
<1>5. (Reaping /\ HangUps)'
  BY DEF Phases, Connecting, OtherAttempt, Restarts, Endings, Reaping, HangUps, Transport, Untouched
<1>6. Bounds'
  BY DEF Phases, OtherAttempt, Restarts, Bounds, Transport, Untouched, Settles
<1>7. (\A a \in {1, 2} : Transport(a) /\ SignalsKnown(a))'
  BY DEF Phases, Connecting, OtherAttempt, Endings, Reaping, Transport, SignalsKnown, Untouched
<1> QED BY <1>1, <1>2, <1>3, <1>4, <1>5, <1>6, <1>7

\* connectAttempt's result.
LEMMA StepDecide == ASSUME UpInv, Decide, Settles PROVE UpInv'
<1> USE DEF Decide, TimedOut, UpInv
<1>1. UpScalars'
  BY DEF UpScalars, MainStates, SdkStates, Settles
<1>2. UpFlags'
  BY DEF UpScalars, UpFlags
<1> USE DEF UpScalars, UpFlags, Gone, Starting, Killing
<1>3. (Phases /\ Connecting /\ OtherAttempt)'
  BY DEF Phases, Connecting, Endings, OtherAttempt, Restarts, Reaping, Untouched, Transport
<1>4. (Restarts /\ Endings)'
  BY DEF Phases, Connecting, OtherAttempt, Restarts, Endings, Transport, SignalsKnown, Untouched
<1>5. (Reaping /\ HangUps)'
  BY DEF Phases, Connecting, OtherAttempt, Restarts, Endings, Reaping, HangUps, Transport, Untouched
<1>6. Bounds'
  BY DEF Phases, OtherAttempt, Restarts, Bounds, Transport, Untouched, Settles
<1>7. (\A a \in {1, 2} : Transport(a) /\ SignalsKnown(a))'
  BY DEF Phases, Connecting, OtherAttempt, Endings, Reaping, Transport, SignalsKnown, Untouched
<1> QED BY <1>1, <1>2, <1>3, <1>4, <1>5, <1>6, <1>7

\* kill, with or without a process.
LEMMA StepKillBegins == ASSUME UpInv, KillBegins, Settles PROVE UpInv'
<1> USE DEF KillBegins, UpInv
<1>1. UpScalars'
  BY DEF UpScalars, MainStates, SdkStates, Settles
<1>2. UpFlags'
  BY DEF UpScalars, UpFlags
<1> USE DEF UpScalars, UpFlags, Gone, Starting, Killing
<1>3. (Phases /\ Connecting /\ OtherAttempt)'
  BY DEF Phases, Connecting, Endings, OtherAttempt, Restarts, Reaping, Untouched, Transport
<1>4. (Restarts /\ Endings)'
  BY DEF Phases, Connecting, OtherAttempt, Restarts, Endings, Transport, SignalsKnown, Untouched
<1>5. (Reaping /\ HangUps)'
  BY DEF Phases, Connecting, OtherAttempt, Restarts, Endings, Reaping, HangUps, Transport, Untouched
<1>6. Bounds'
  BY DEF Phases, OtherAttempt, Restarts, Bounds, Transport, Untouched, Settles
<1>7. (\A a \in {1, 2} : Transport(a) /\ SignalsKnown(a))'
  BY DEF Phases, Connecting, OtherAttempt, Endings, Reaping, Transport, SignalsKnown, Untouched
<1> QED BY <1>1, <1>2, <1>3, <1>4, <1>5, <1>6, <1>7

\* The process is killed first.
LEMMA StepKillMarks == ASSUME UpInv, KillMarks, Settles PROVE UpInv'
<1> USE DEF KillMarks, Kill, UpInv
<1>1. UpScalars'
  BY DEF UpScalars, MainStates, SdkStates, Settles
<1>2. UpFlags'
  BY DEF UpScalars, UpFlags
<1> USE DEF UpScalars, UpFlags, Gone, Starting, Killing
<1>3. (Phases /\ Connecting /\ OtherAttempt)'
  BY DEF Phases, Connecting, Endings, OtherAttempt, Restarts, Reaping, Untouched, Transport
<1>4. (Restarts /\ Endings)'
  BY DEF Phases, Connecting, OtherAttempt, Restarts, Endings, Transport, SignalsKnown, Untouched
<1>5. (Reaping /\ HangUps)'
  BY DEF Phases, Connecting, OtherAttempt, Restarts, Endings, Reaping, HangUps, Transport, Untouched
<1>6. Bounds'
  BY DEF Phases, OtherAttempt, Restarts, Bounds, Transport, Untouched, Settles
<1>7. (\A a \in {1, 2} : Transport(a) /\ SignalsKnown(a))'
  BY DEF Phases, Connecting, OtherAttempt, Endings, Reaping, Transport, SignalsKnown, Untouched
<1> QED BY <1>1, <1>2, <1>3, <1>4, <1>5, <1>6, <1>7

\* The connection is closed.
LEMMA StepKillCloses == ASSUME UpInv, KillCloses, Settles PROVE UpInv'
<1> USE DEF KillCloses, RequestClose, UpInv
<1>1. UpScalars'
  BY DEF UpScalars, MainStates, SdkStates, Settles
<1>2. UpFlags'
  BY DEF UpScalars, UpFlags
<1> USE DEF UpScalars, UpFlags, Gone, Starting, Killing
<1>3. (Phases /\ Connecting /\ OtherAttempt)'
  BY DEF Phases, Connecting, Endings, OtherAttempt, Restarts, Reaping, Untouched, Transport
<1>4. (Restarts /\ Endings)'
  BY DEF Phases, Connecting, OtherAttempt, Restarts, Endings, Transport, SignalsKnown, Untouched
<1>5. (Reaping /\ HangUps)'
  BY DEF Phases, Connecting, OtherAttempt, Restarts, Endings, Reaping, HangUps, Transport, Untouched
<1>6. Bounds'
  BY DEF Phases, OtherAttempt, Restarts, Bounds, Transport, Untouched, Settles
<1>7. (\A a \in {1, 2} : Transport(a) /\ SignalsKnown(a))'
  BY DEF Phases, Connecting, OtherAttempt, Endings, Reaping, Transport, SignalsKnown, Untouched
<1> QED BY <1>1, <1>2, <1>3, <1>4, <1>5, <1>6, <1>7

\* The grace of a close is over.
LEMMA StepKillGraceOver == ASSUME UpInv, KillGraceOver, Settles PROVE UpInv'
<1> USE DEF KillGraceOver, UpInv
<1>1. UpScalars'
  BY DEF UpScalars, MainStates, SdkStates, Settles
<1>2. UpFlags'
  BY DEF UpScalars, UpFlags
<1> USE DEF UpScalars, UpFlags, Gone, Starting, Killing
<1>3. (Phases /\ Connecting /\ OtherAttempt)'
  BY DEF Phases, Connecting, Endings, OtherAttempt, Restarts, Reaping, Untouched, Transport
<1>4. (Restarts /\ Endings)'
  BY DEF Phases, Connecting, OtherAttempt, Restarts, Endings, Transport, SignalsKnown, Untouched
<1>5. (Reaping /\ HangUps)'
  BY DEF Phases, Connecting, OtherAttempt, Restarts, Endings, Reaping, HangUps, Transport, Untouched
<1>6. Bounds'
  BY DEF Phases, OtherAttempt, Restarts, Bounds, Transport, Untouched, Settles
<1>7. (\A a \in {1, 2} : Transport(a) /\ SignalsKnown(a))'
  BY DEF Phases, Connecting, OtherAttempt, Endings, Reaping, Transport, SignalsKnown, Untouched
<1> QED BY <1>1, <1>2, <1>3, <1>4, <1>5, <1>6, <1>7

\* kill has returned.
LEMMA StepKillEnds == ASSUME UpInv, KillEnds, Settles PROVE UpInv'
<1> USE DEF KillEnds, EndedOnItsOwn, UpInv
<1>1. UpScalars'
  BY DEF UpScalars, MainStates, SdkStates, Settles
<1>2. UpFlags'
  BY DEF UpScalars, UpFlags
<1> USE DEF UpScalars, UpFlags, Gone, Starting, Killing
<1>3. (Phases /\ Connecting /\ OtherAttempt)'
  BY DEF Phases, Connecting, Endings, OtherAttempt, Restarts, Reaping, Untouched, Transport
<1>4. (Restarts /\ Endings)'
  BY DEF Phases, Connecting, OtherAttempt, Restarts, Endings, Transport, SignalsKnown, Untouched
<1>5. (Reaping /\ HangUps)'
  BY DEF Phases, Connecting, OtherAttempt, Restarts, Endings, Reaping, HangUps, Transport, Untouched
<1>6. Bounds'
  BY DEF Phases, OtherAttempt, Restarts, Bounds, Transport, Untouched, Settles
<1>7. (\A a \in {1, 2} : Transport(a) /\ SignalsKnown(a))'
  BY DEF Phases, Connecting, OtherAttempt, Endings, Reaping, Transport, SignalsKnown, Untouched
<1> QED BY <1>1, <1>2, <1>3, <1>4, <1>5, <1>6, <1>7

\* New's deferred Close.
LEMMA StepNewCloses == ASSUME UpInv, NewCloses, Settles PROVE UpInv'
<1> USE DEF NewCloses, UpInv
<1>1. UpScalars'
  BY DEF UpScalars, MainStates, SdkStates, Settles
<1>2. UpFlags'
  BY DEF UpScalars, UpFlags
<1> USE DEF UpScalars, UpFlags, Gone, Starting, Killing
<1>3. (Phases /\ Connecting /\ OtherAttempt)'
  BY DEF Phases, Connecting, Endings, OtherAttempt, Restarts, Reaping, Untouched, Transport
<1>4. (Restarts /\ Endings)'
  BY DEF Phases, Connecting, OtherAttempt, Restarts, Endings, Transport, SignalsKnown, Untouched
<1>5. (Reaping /\ HangUps)'
  BY DEF Phases, Connecting, OtherAttempt, Restarts, Endings, Reaping, HangUps, Transport, Untouched
<1>6. Bounds'
  BY DEF Phases, OtherAttempt, Restarts, Bounds, Transport, Untouched, Settles
<1>7. (\A a \in {1, 2} : Transport(a) /\ SignalsKnown(a))'
  BY DEF Phases, Connecting, OtherAttempt, Endings, Reaping, Transport, SignalsKnown, Untouched
<1> QED BY <1>1, <1>2, <1>3, <1>4, <1>5, <1>6, <1>7

\* The second attempt, or none.
LEMMA StepRespawn == ASSUME UpInv, Respawn, Settles PROVE UpInv'
<1> USE DEF UpInv
<1>1. att = 1 /\ again /\ bound = "expired" /\ ~settled /\ Gone(1) /\ Untouched(2)
  BY DEF Respawn, Restarts, Bounds, Endings, OtherAttempt
<1>2. UNCHANGED <<ctxUp, bound, ttVars, procVars, afterVars>> /\ ~settled'
        /\ settled' \in BOOLEAN
  BY <1>1 DEF Respawn, Settles
<1>3. UpFlags'
  BY <1>2 DEF UpFlags
<1> USE DEF UpScalars, UpFlags, Gone, Starting, Killing
<1>4. CASE ~ctxUp /\ main' = "failed" /\ UNCHANGED <<att, attemptVars>>
  <2>1. UpScalars'
    BY <1>2, <1>4 DEF MainStates
  <2>2. (Phases /\ Connecting /\ OtherAttempt /\ Restarts /\ Endings /\ Reaping /\ HangUps /\ Bounds)'
    BY <1>1, <1>2, <1>4 DEF Respawn, Phases, Connecting, OtherAttempt, Restarts, Endings, Reaping, HangUps,
                            Bounds, Untouched
  <2>3. (\A a \in {1, 2} : Transport(a) /\ SignalsKnown(a))'
    BY <1>2 DEF Transport, SignalsKnown
  <2> QED BY <1>3, <2>1, <2>2, <2>3
<1>5. CASE ctxUp /\ StartAttempt(2)
  <2>1. /\ att' = 2 /\ main' = "attempt" /\ cause' = "none" /\ sdk' = [pc |-> "spawn", how |-> "none"]
        /\ watcher' = "on" /\ reaper' = "armed" /\ ~didExpire' /\ ~closedFirst' /\ ~again'
    BY <1>5 DEF StartAttempt
  <2>2. didExpire' \in BOOLEAN /\ closedFirst' \in BOOLEAN /\ again' \in BOOLEAN /\ settled' \in BOOLEAN
    BY <1>5 DEF StartAttempt, Settles
  <2>3. UpScalars'
    BY <1>2, <2>1, <2>2 DEF MainStates, SdkStates
  <2>4. exitWatch = "off" /\ ~closing /\ ~exited /\ exitText = 0
    BY <1>1 DEF Respawn, Restarts, HangUps, Endings
  <2>5. (Phases /\ Connecting /\ OtherAttempt /\ Restarts /\ Endings /\ Reaping /\ HangUps /\ Bounds)'
    BY <1>1, <1>2, <2>1, <2>4 DEF Phases, Connecting, OtherAttempt, Restarts, Endings, Reaping, HangUps,
                                  Bounds, Untouched, Transport
  <2>6. (\A a \in {1, 2} : Transport(a) /\ SignalsKnown(a))'
    BY <1>2 DEF Transport, SignalsKnown
  <2> QED BY <1>3, <2>3, <2>5, <2>6
<1> QED BY <1>4, <1>5 DEF Respawn

\* The listing succeeds or fails.
LEMMA StepListTools == ASSUME UpInv, ListTools, Settles PROVE UpInv'
<1> USE DEF ListTools, UpInv
<1>1. UpScalars'
  <2>1. closing' \in BOOLEAN
    BY DEF UpScalars
  <2>2. settled' \in BOOLEAN
    BY DEF Settles
  <2>3. main' \in MainStates /\ UNCHANGED <<att, ctxUp, bound, cause, sdk, watcher, didExpire, closedFirst,
                                            again, reaper, exited, exitWatch, exitText>>
    BY DEF MainStates
  <2> QED BY <2>1, <2>2, <2>3 DEF UpScalars
<1>2. UpFlags'
  BY DEF UpScalars, UpFlags
<1> USE DEF UpScalars, UpFlags, Gone, Starting, Killing
<1>3. (Phases /\ Connecting /\ OtherAttempt)'
  BY DEF Phases, Connecting, Endings, OtherAttempt, Restarts, Reaping, Untouched, Transport
<1>4. (Restarts /\ Endings)'
  BY DEF Phases, Connecting, OtherAttempt, Restarts, Endings, Transport, SignalsKnown, Untouched
<1>5. (Reaping /\ HangUps)'
  BY DEF Phases, Connecting, OtherAttempt, Restarts, Endings, Reaping, HangUps, Transport, Untouched
<1>6. Bounds'
  BY DEF Phases, OtherAttempt, Restarts, Bounds, Transport, Untouched, Settles
<1>7. (\A a \in {1, 2} : Transport(a) /\ SignalsKnown(a))'
  BY DEF Phases, Connecting, OtherAttempt, Endings, Reaping, Transport, SignalsKnown, Untouched
<1> QED BY <1>1, <1>2, <1>3, <1>4, <1>5, <1>6, <1>7

\* The session has ended.
LEMMA StepExitWatch == ASSUME UpInv, ExitWatch, Settles PROVE UpInv'
<1> USE DEF ExitWatch, UpInv
<1>1. UpScalars'
  BY DEF UpScalars, MainStates, SdkStates, Settles
<1>2. UpFlags'
  BY DEF UpScalars, UpFlags
<1> USE DEF UpScalars, UpFlags, Gone, Starting, Killing
<1>3. (Phases /\ Connecting /\ OtherAttempt)'
  BY DEF Phases, Connecting, Endings, OtherAttempt, Restarts, Reaping, Untouched, Transport
<1>4. (Restarts /\ Endings)'
  BY DEF Phases, Connecting, OtherAttempt, Restarts, Endings, Transport, SignalsKnown, Untouched
<1>5. (Reaping /\ HangUps)'
  BY DEF Phases, Connecting, OtherAttempt, Restarts, Endings, Reaping, HangUps, Transport, Untouched
<1>6. Bounds'
  BY DEF Phases, OtherAttempt, Restarts, Bounds, Transport, Untouched, Settles
<1>7. (\A a \in {1, 2} : Transport(a) /\ SignalsKnown(a))'
  BY DEF Phases, Connecting, OtherAttempt, Endings, Reaping, Transport, SignalsKnown, Untouched
<1> QED BY <1>1, <1>2, <1>3, <1>4, <1>5, <1>6, <1>7

\* Proxy.Close begins.
LEMMA StepClose == ASSUME UpInv, Close, Settles PROVE UpInv'
<1> USE DEF Close, UpInv
<1>1. UpScalars'
  BY DEF UpScalars, MainStates, SdkStates, Settles
<1>2. UpFlags'
  BY DEF UpScalars, UpFlags
<1> USE DEF UpScalars, UpFlags, Gone, Starting, Killing
<1>3. (Phases /\ Connecting /\ OtherAttempt)'
  BY DEF Phases, Connecting, Endings, OtherAttempt, Restarts, Reaping, Untouched, Transport
<1>4. (Restarts /\ Endings)'
  BY DEF Phases, Connecting, OtherAttempt, Restarts, Endings, Transport, SignalsKnown, Untouched
<1>5. (Reaping /\ HangUps)'
  BY DEF Phases, Connecting, OtherAttempt, Restarts, Endings, Reaping, HangUps, Transport, Untouched
<1>6. Bounds'
  BY DEF Phases, OtherAttempt, Restarts, Bounds, Transport, Untouched, Settles
<1>7. (\A a \in {1, 2} : Transport(a) /\ SignalsKnown(a))'
  BY DEF Phases, Connecting, OtherAttempt, Endings, Reaping, Transport, SignalsKnown, Untouched
<1> QED BY <1>1, <1>2, <1>3, <1>4, <1>5, <1>6, <1>7

\* The session is closed.
LEMMA StepCloseSession == ASSUME UpInv, CloseSession, Settles PROVE UpInv'
<1> USE DEF CloseSession, RequestClose, UpInv
<1>1. UpScalars'
  BY DEF UpScalars, MainStates, SdkStates, Settles
<1>2. UpFlags'
  BY DEF UpScalars, UpFlags
<1> USE DEF UpScalars, UpFlags, Gone, Starting, Killing
<1>3. (Phases /\ Connecting /\ OtherAttempt)'
  BY DEF Phases, Connecting, Endings, OtherAttempt, Restarts, Reaping, Untouched, Transport
<1>4. (Restarts /\ Endings)'
  BY DEF Phases, Connecting, OtherAttempt, Restarts, Endings, Transport, SignalsKnown, Untouched
<1>5. (Reaping /\ HangUps)'
  BY DEF Phases, Connecting, OtherAttempt, Restarts, Endings, Reaping, HangUps, Transport, Untouched
<1>6. Bounds'
  BY DEF Phases, OtherAttempt, Restarts, Bounds, Transport, Untouched, Settles
<1>7. (\A a \in {1, 2} : Transport(a) /\ SignalsKnown(a))'
  BY DEF Phases, Connecting, OtherAttempt, Endings, Reaping, Transport, SignalsKnown, Untouched
<1> QED BY <1>1, <1>2, <1>3, <1>4, <1>5, <1>6, <1>7

\* Close returns.
LEMMA StepClosed == ASSUME UpInv, Closed, Settles PROVE UpInv'
<1> USE DEF Closed, UpInv
<1>1. UpScalars'
  BY DEF UpScalars, MainStates, SdkStates, Settles
<1>2. UpFlags'
  BY DEF UpScalars, UpFlags
<1> USE DEF UpScalars, UpFlags, Gone, Starting, Killing
<1>3. (Phases /\ Connecting /\ OtherAttempt)'
  BY DEF Phases, Connecting, Endings, OtherAttempt, Restarts, Reaping, Untouched, Transport
<1>4. (Restarts /\ Endings)'
  BY DEF Phases, Connecting, OtherAttempt, Restarts, Endings, Transport, SignalsKnown, Untouched
<1>5. (Reaping /\ HangUps)'
  BY DEF Phases, Connecting, OtherAttempt, Restarts, Endings, Reaping, HangUps, Transport, Untouched
<1>6. Bounds'
  BY DEF Phases, OtherAttempt, Restarts, Bounds, Transport, Untouched, Settles
<1>7. (\A a \in {1, 2} : Transport(a) /\ SignalsKnown(a))'
  BY DEF Phases, Connecting, OtherAttempt, Endings, Reaping, Transport, SignalsKnown, Untouched
<1> QED BY <1>1, <1>2, <1>3, <1>4, <1>5, <1>6, <1>7

(***************************************************************************)
(* The invariant holds initially and is kept.                              *)
(***************************************************************************)
\* UpInv holds of a proxy that has not been started.
LEMMA UpInitially == Init => UpInv
<1> SUFFICES ASSUME Init PROVE UpInv
  OBVIOUS
<1>1. UpScalars
  BY DEF Init, UpScalars, MainStates, SdkStates
<1>2. UpFlags
  BY DEF Init, UpFlags, None, Attempts
<1>3. \A a \in {1, 2} : Untouched(a)
  BY DEF Init, None, Attempts, Untouched
<1>6. att = 1 /\ main = "off" /\ sdk.pc = "off" /\ Untouched(att) /\ Untouched(2)
  BY <1>3 DEF Init
<1>4. /\ Phases /\ Connecting /\ OtherAttempt
      /\ Restarts /\ Endings /\ Reaping /\ HangUps /\ Bounds
  <2>1. Phases /\ Connecting /\ OtherAttempt
    BY <1>6 DEF Phases, Connecting, OtherAttempt, Untouched, Starting
  <2>2. Restarts /\ Endings /\ Reaping
    BY <1>6 DEF Init, Restarts, Endings, Reaping, Untouched, Starting, Killing
  <2>3. HangUps /\ Bounds
    BY <1>6 DEF Init, HangUps, Bounds, Untouched, Starting
  <2> QED BY <2>1, <2>2, <2>3
<1>5. \A a \in {1, 2} : Transport(a) /\ SignalsKnown(a)
  BY <1>3 DEF Untouched, Transport, SignalsKnown
<1> QED BY <1>1, <1>2, <1>4, <1>5 DEF UpInv

\* Every step of New, go-sdk, the watcher, the AfterFunc, the upstream and
\* Close keeps UpInv, with the history it is recorded in.
LEMMA UpStepKeeps == ASSUME UpInv, Step, Settles PROVE UpInv'
  BY StepUpstreamActs, StepReadEnds, StepReadBad, StepWriteFails, StepSdkDrops, StepCloseEnds, StepCloseReaps, StepSweep,
     StepSdkSpawn, StepSdkAttach, StepSdkRecord, StepSdkRecordKill, StepSdkAnswered,
     StepSdkRefusesHybrid, StepSdkFails, StepSdkCloses, StepSdkClosed, StepWatcherExpires,
     StepWatcherCancels, StepWatcherConnected, StepReaperMarks, StepReaperKills, StepBoundExpires,
     StepCtxEnds, StepStart, StepStopKill, StepJoin, StepJoined,
     StepLost, StepDecide, StepKillBegins, StepKillMarks, StepKillCloses,
     StepKillGraceOver, StepKillEnds, StepNewCloses, StepRespawn, StepListTools,
     StepExitWatch, StepClose, StepCloseSession, StepClosed
  DEF Step, New, Sdk, Watching, Closing

\* UpInv is about vars alone.
LEMMA UpStutters == ASSUME UpInv, UNCHANGED vars PROVE UpInv'
  BY DEF vars, UpInv, UpScalars, UpFlags, Phases, Connecting, OtherAttempt, Restarts, Endings, Reaping, HangUps,
         Bounds, Transport, SignalsKnown, Untouched, Gone

\* UpInv is kept by every step of the specification.
LEMMA UpInvariant == Init /\ [][Next]_vars => []UpInv
<1>1. UpInv /\ [Next]_vars => UpInv'
  BY UpStepKeeps, UpStutters DEF Next
<1> QED BY UpInitially, <1>1, PTL

\* The types of UpInv are the type invariant.
LEMMA UpTypesFollow == ASSUME UpInv PROVE TypeOK
<1>1. Attempts = {1, 2}
  BY DEF Attempts
<1>2. Attempts \cup {0} = {0, 1, 2}
  BY <1>1
<1>3. \A f \in {killed, closeRequested, hungUp, reapedUnkilled, slow, tconn, signalled} :
        f \in [Attempts -> BOOLEAN]
  BY <1>1 DEF UpInv, UpFlags
<1> QED BY <1>1, <1>2, <1>3 DEF UpInv, UpScalars, UpFlags, TypeOK

\* A proxy that failed to start, or is closed, has left nothing.
LEMMA NothingLeftFollows == ASSUME UpInv PROVE NothingLeft
<1> SUFFICES ASSUME main \in {"failed", "closed"}, NEW a \in Attempts PROVE NothingSignallable(a)
  BY Zenon DEF NothingLeft
<1>1. a \in {1, 2} /\ att \in {1, 2}
  BY DEF Attempts, UpInv, UpScalars
<1>2. Gone(att)
  BY <1>1 DEF UpInv, Endings, Transport, Gone
<1>3. a # att => Gone(a)
  BY <1>1 DEF UpInv, OtherAttempt, Untouched, Gone
<1> QED BY <1>2, <1>3 DEF Gone, NothingSignallable

\* UpInv gives the properties of the processes.
LEMMA ProcessesFollow == ASSUME UpInv PROVE ProcessesHold
<1>1. att \in {1, 2}
  BY DEF UpInv, UpScalars
<1>2. OneProcess
  BY <1>1 DEF UpInv, OtherAttempt, Untouched, Gone, OneProcess, NothingSignallable
<1>3. SessionNotKilled /\ OnlyUnansweredRestarts
  BY DEF UpInv, Reaping, Bounds, SessionNotKilled, OnlyUnansweredRestarts
<1> QED BY <1>2, <1>3, NothingLeftFollows DEF ProcessesHold

\* UpInv gives the truth of what is said about an exit.
LEMMA ExitsFollow == ASSUME UpInv PROVE ExitIsItsOwn /\ ExitedOnItsOwn
  BY DEF UpInv, Endings, HangUps, ExitIsItsOwn, ExitedOnItsOwn

(***************************************************************************)
(* The theorems.                                                           *)
(***************************************************************************)
\* From New to Close, with every fault of the upstream and every order of the
\* four goroutines: one process at a time, none left behind by a failed start
\* or a Close but a launched one of another user, which cannot be signalled,
\* no session killed by its own attempt, no restart of an upstream that had
\* answered or was being closed.
THEOREM ProcessesAlwaysHold == Spec => []ProcessesHold
  BY UpInvariant, ProcessesFollow, PTL DEF Spec

\* The exit status in New's error is one no signal of fathomgate's or go-sdk's
\* made, and the exited signal that stops the listener stands for a session
\* that failed before anyone asked for its end.
THEOREM ExitsAreItsOwn == Spec => [](ExitIsItsOwn /\ ExitedOnItsOwn)
  BY UpInvariant, ExitsFollow, PTL DEF Spec

HIDE DEF Set, Alive, ttVars, procVars, attemptVars, afterVars

(***************************************************************************)
(* The local sessions.                                                     *)
(***************************************************************************)
\* The Runs that have recorded their session.
Recorded == {r \in Runs : run[r] \in {"recorded", "serving", "ended"}}

\* The types, with the keys not yet bounded.
LocalTypes ==
  /\ run \in [Runs -> RunStates]
  /\ connecting \subseteq Runs /\ ready \subseteq Runs
  /\ locals \in [Runs -> Nat] /\ runs \in Nat
  /\ request \in [Requests -> [pc : {"none", "lookup", "waiting", "keyed"},
                               sess : Runs \cup {NoRun}, waits : Runs \cup {NoRun},
                               key : Nat]]
  /\ cancelled \subseteq Requests

\* p.runs counts the Runs that have recorded.
RunsCounted == runs = Cardinality(Recorded)

\* Where a Run is, whether it is connecting and whether it has a key; no two
\* have the same key, and none a key not yet given out.
KeysOfRuns ==
  \A r \in Runs :
    /\ run[r] \in {"connecting", "connected", "recorded", "failing"} <=> r \in connecting
    /\ locals[r] # 0 <=> run[r] \in {"recorded", "serving"}
    /\ locals[r] <= runs
    /\ \A s \in Runs : locals[r] = locals[s] /\ locals[r] # 0 => r = s

\* A request that looks for its key has a session; the key it finds was that
\* of its own session and is no other's.
KeysOfRequests ==
  \A q \in Requests :
    /\ request[q].pc \in {"lookup", "waiting"} =>
         request[q].sess \in Runs /\ run[request[q].sess] # "off"
    /\ request[q].pc # "keyed" => request[q].key = 0
    /\ request[q].key <= runs
    /\ request[q].key # 0 =>
         /\ request[q].sess \in Runs
         /\ \A r \in Runs : locals[r] = request[q].key => r = request[q].sess

\* Equal keys, equal sessions.
KeyedAlike ==
  \A p, q \in Requests :
    request[p].key = request[q].key /\ request[p].key # 0 => request[p].sess = request[q].sess

\* The inductive invariant of the local sessions.
LocalInv == LocalTypes /\ RunsCounted /\ KeysOfRuns /\ KeysOfRequests /\ KeyedAlike /\ LocalCallIsKnown

\* LocalInv holds before the first Run.
LEMMA LocalInitially == LocalInit => LocalInv
<1> SUFFICES ASSUME LocalInit PROVE LocalInv
  OBVIOUS
<1>1. LocalTypes /\ KeysOfRuns /\ KeysOfRequests /\ KeyedAlike /\ LocalCallIsKnown
  BY DEF LocalInit, LocalTypes, RunStates, OwnKey, KeysOfRuns, KeysOfRequests, KeyedAlike, LocalCallIsKnown
<1>2. Recorded = {}
  BY DEF Recorded, LocalInit
<1>3. RunsCounted
  BY <1>2, FS_EmptySet DEF RunsCounted, LocalInit
<1> QED BY <1>1, <1>3 DEF LocalInv

\* Run keeps LocalInv: registering, connecting, recording, releasing, ending.
LEMMA RunStep ==
  ASSUME LocalInv, NEW r \in Runs, RunSteps(r) \/ RunEnds(r) \/ RunRegisters(r)
  PROVE  LocalInv'
<1> USE DEF LocalInv
<1>0. LocalTypes'
  BY DEF LocalTypes, RunStates, RunSteps, RunEnds, RunRegisters, RunConnects, RunRecords, RunReleases
<1>1. UNCHANGED <<request>>
  BY DEF RunSteps, RunEnds, RunRegisters, RunConnects, RunRecords, RunReleases
<1>2. CASE RunRegisters(r) \/ RunConnects(r)
  <2>1. UNCHANGED <<ready, locals, runs, cancelled>>
    BY <1>2 DEF RunRegisters, RunConnects
  <2>2. KeysOfRuns'
    BY <1>2, <2>1 DEF KeysOfRuns, RunRegisters, RunConnects, LocalTypes
  <2>3. KeysOfRequests'
    BY <1>1, <1>2, <2>1 DEF KeysOfRequests, RunRegisters, RunConnects, LocalTypes
  <2>4. KeyedAlike' /\ LocalCallIsKnown'
    BY <1>1, <1>2, <2>1 DEF KeyedAlike, LocalCallIsKnown, RunRegisters, RunConnects, LocalTypes
  <2>5. Recorded' = Recorded
    BY <1>2 DEF Recorded, RunRegisters, RunConnects, LocalTypes
  <2> QED BY <1>0, <2>1, <2>2, <2>3, <2>4, <2>5 DEF RunsCounted
<1>3. CASE RunRecords(r)
  <2>1. UNCHANGED <<connecting, ready, cancelled>> /\ runs' = runs + 1
    BY <1>3 DEF RunRecords
  <2>2. KeysOfRuns'
    BY <1>3, <2>1 DEF KeysOfRuns, RunRecords, LocalTypes
  <2>3. KeysOfRequests'
    BY <1>1, <1>3, <2>1 DEF KeysOfRequests, RunRecords, LocalTypes
  <2>4. KeyedAlike' /\ LocalCallIsKnown'
    BY <1>1, <1>3, <2>1 DEF KeyedAlike, LocalCallIsKnown, RunRecords, LocalTypes
  <2>5. Recorded' = Recorded \cup {r} /\ r \notin Recorded
    BY <1>3 DEF Recorded, RunRecords, LocalTypes
  <2>6. IsFiniteSet(Recorded)
    BY RunsAssumption, FS_Subset DEF Recorded
  <2>7. Cardinality(Recorded') = Cardinality(Recorded) + 1
    BY <2>5, <2>6, FS_AddElement
  <2> QED BY <1>0, <2>1, <2>2, <2>3, <2>4, <2>7 DEF RunsCounted
<1>4. CASE RunReleases(r)
  <2>1. UNCHANGED <<locals, runs, cancelled>>
    BY <1>4 DEF RunReleases
  <2>2. KeysOfRuns'
    BY <1>4, <2>1 DEF KeysOfRuns, RunReleases, LocalTypes
  <2>3. KeysOfRequests'
    BY <1>1, <1>4, <2>1 DEF KeysOfRequests, RunReleases, LocalTypes
  <2>4. KeyedAlike' /\ LocalCallIsKnown'
    BY <1>1, <1>4, <2>1 DEF KeyedAlike, LocalCallIsKnown, RunReleases, LocalTypes
  <2>5. Recorded' = Recorded
    BY <1>4 DEF Recorded, RunReleases, LocalTypes
  <2> QED BY <1>0, <2>1, <2>2, <2>3, <2>4, <2>5 DEF RunsCounted
<1>5. CASE RunEnds(r)
  <2>1. UNCHANGED <<connecting, ready, runs, cancelled>>
    BY <1>5 DEF RunEnds
  <2>2. KeysOfRuns'
    BY <1>5, <2>1 DEF KeysOfRuns, RunEnds, LocalTypes
  <2>3. KeysOfRequests'
    BY <1>1, <1>5, <2>1 DEF KeysOfRequests, RunEnds, LocalTypes
  <2>4. KeyedAlike' /\ LocalCallIsKnown'
    BY <1>1, <1>5, <2>1 DEF KeyedAlike, LocalCallIsKnown, RunEnds, LocalTypes
  <2>5. Recorded' = Recorded
    BY <1>5 DEF Recorded, RunEnds, LocalTypes
  <2> QED BY <1>0, <2>1, <2>2, <2>3, <2>4, <2>5 DEF RunsCounted
<1> QED BY <1>2, <1>3, <1>4, <1>5 DEF RunSteps

\* A request that is keyed, waits or is cancelled keeps LocalInv.
LEMMA KeyStep ==
  ASSUME LocalInv, NEW q \in Requests,
         KeySteps(q) \/ RequestCancelled(q) \/ \E s \in Runs \cup {NoRun} : AgentSessionKey(q, s)
  PROVE  LocalInv'
<1> USE DEF LocalInv
<1>1. UNCHANGED <<run, connecting, ready, locals, runs>>
  BY DEF KeySteps, LocalKey, KeyWaitEnds, RequestCancelled, AgentSessionKey
<1> DEFINE Req == [pc : {"none", "lookup", "waiting", "keyed"},
                   sess : Runs \cup {NoRun}, waits : Runs \cup {NoRun}, key : Nat]
<1>a. ASSUME request' \in [Requests -> Req], cancelled' \subseteq Requests PROVE LocalTypes'
  BY <1>1, <1>a DEF LocalTypes
<1>b. request \in [Requests -> Req] /\ request[q] \in Req /\ cancelled \subseteq Requests
  BY DEF LocalTypes
<1>0. LocalTypes'
  <2>1. CASE RequestCancelled(q)
    BY <1>a, <1>b, <2>1 DEF RequestCancelled
  <2>2. CASE LocalKey(q)
    <3>1. UNCHANGED cancelled
      BY <2>2 DEF LocalKey
    <3>2. \/ \E k \in Nat : request' = [request EXCEPT ![q].pc = "keyed", ![q].key = k]
          \/ \E w \in Runs : request' = [request EXCEPT ![q].pc = "waiting", ![q].waits = w]
      BY <1>b, <2>2 DEF LocalKey, LocalTypes, KeysOfRequests, OwnKey
    <3>3. request' \in [Requests -> Req]
      BY <1>b, <3>2
    <3> QED BY <1>a, <1>b, <3>1, <3>3
  <2>3. CASE KeyWaitEnds(q)
    <3>1. UNCHANGED cancelled
      BY <2>3 DEF KeyWaitEnds
    <3>2. request' \in [Requests -> Req]
      BY <1>b, <2>3 DEF KeyWaitEnds, OwnKey
    <3> QED BY <1>a, <1>b, <3>1, <3>2
  <2>4. CASE \E s \in Runs \cup {NoRun} : AgentSessionKey(q, s)
    <3>1. UNCHANGED cancelled
      BY <2>4 DEF AgentSessionKey
    <3>2. \E s \in Runs \cup {NoRun}, c \in {"keyed", "lookup"} :
            request' = [request EXCEPT ![q].sess = s, ![q].pc = c]
      BY <2>4 DEF AgentSessionKey
    <3>3. PICK s \in Runs \cup {NoRun}, c \in {"keyed", "lookup"} :
            request' = [request EXCEPT ![q] = [request[q] EXCEPT !.sess = s, !.pc = c]]
      BY <1>b, <3>2
    <3>4. [request[q] EXCEPT !.sess = s, !.pc = c] \in Req
      BY <1>b
    <3>5. request' \in [Requests -> Req]
      BY <1>b, <3>3, <3>4
    <3> QED BY <1>a, <1>b, <3>1, <3>5
  <2> QED BY <2>1, <2>2, <2>3, <2>4 DEF KeySteps
<1>2. RunsCounted' /\ KeysOfRuns'
  BY <1>1 DEF RunsCounted, KeysOfRuns, Recorded
<1>3. CASE RequestCancelled(q)
  BY <1>0, <1>1, <1>2, <1>3 DEF RequestCancelled, KeysOfRequests, KeyedAlike, LocalCallIsKnown, LocalTypes
<1>4. CASE LocalKey(q)
  <2>1. KeysOfRequests'
    BY <1>1, <1>4 DEF LocalKey, KeysOfRequests, KeysOfRuns, LocalTypes, OwnKey
  <2>2. KeyedAlike'
    BY <1>1, <1>4 DEF LocalKey, KeysOfRequests, KeysOfRuns, KeyedAlike, LocalTypes, OwnKey
  <2>3. LocalCallIsKnown'
    BY <1>1, <1>4 DEF LocalKey, KeysOfRequests, KeysOfRuns, LocalCallIsKnown, LocalTypes, OwnKey, RunStates
  <2> QED BY <1>0, <1>2, <2>1, <2>2, <2>3
<1>5. CASE KeyWaitEnds(q)
  <2>1. KeysOfRequests'
    BY <1>1, <1>5 DEF KeyWaitEnds, KeysOfRequests, LocalTypes, OwnKey
  <2>2. KeyedAlike'
    BY <1>1, <1>5 DEF KeyWaitEnds, KeysOfRequests, KeyedAlike, LocalTypes, OwnKey
  <2>3. LocalCallIsKnown'
    BY <1>1, <1>5 DEF KeyWaitEnds, KeysOfRequests, LocalCallIsKnown, LocalTypes, OwnKey
  <2> QED BY <1>0, <1>2, <2>1, <2>2, <2>3
<1>6. CASE \E s \in Runs \cup {NoRun} : AgentSessionKey(q, s)
  <2>1. PICK s \in Runs \cup {NoRun} : AgentSessionKey(q, s)
    BY <1>6
  <2>2. request[q].pc = "none" /\ UNCHANGED cancelled
    BY <2>1 DEF AgentSessionKey
  <2>3. CASE s = NoRun
    <3>1. request' = [request EXCEPT ![q].sess = NoRun, ![q].pc = "keyed"]
      BY <2>1, <2>3 DEF AgentSessionKey
    <3>2. KeysOfRequests' /\ KeyedAlike' /\ LocalCallIsKnown'
      BY <1>1, <2>2, <3>1 DEF KeysOfRequests, KeyedAlike, LocalCallIsKnown, LocalTypes, OwnKey
    <3> QED BY <1>0, <1>2, <3>2
  <2>4. CASE s # NoRun
    <3>1. request' = [request EXCEPT ![q].sess = s, ![q].pc = "lookup"] /\ s \in Runs
      BY <2>1, <2>4 DEF AgentSessionKey
    <3>2. run[s] # "off"
      BY <2>1, <2>4 DEF AgentSessionKey
    <3>3. KeysOfRequests' /\ KeyedAlike' /\ LocalCallIsKnown'
      BY <1>1, <2>2, <3>1, <3>2 DEF KeysOfRequests, KeyedAlike, LocalCallIsKnown, LocalTypes, OwnKey
    <3> QED BY <1>0, <1>2, <3>3
  <2> QED BY <2>3, <2>4
<1> QED BY <1>3, <1>4, <1>5, <1>6 DEF KeySteps

\* LocalInv is about localVars alone.
LEMMA LocalStutters == ASSUME LocalInv, UNCHANGED localVars PROVE LocalInv'
  BY DEF LocalInv, localVars, LocalTypes, RunsCounted, Recorded, KeysOfRuns, KeysOfRequests, KeyedAlike, LocalCallIsKnown

\* LocalInv gives the property of the keys, and the types with their bound.
LEMMA LocalKeysFollow == ASSUME LocalInv PROVE LocalKeysHold /\ LocalTypeOK
<1> USE DEF LocalInv
<1>1. LocalKeysHold
  BY DEF LocalKeysHold, KeysAreOneSession, KeyedAlike
<1>2. IsFiniteSet(Recorded) /\ Cardinality(Recorded) <= Cardinality(Runs) /\ Cardinality(Runs) \in Nat
  <2>1. Recorded \subseteq Runs
    BY DEF Recorded
  <2> QED BY <2>1, RunsAssumption, FS_Subset, FS_CardinalityType
<1>3. runs <= Cardinality(Runs)
  BY <1>2 DEF RunsCounted
<1>4. locals \in [Runs -> 0..Cardinality(Runs)]
  BY <1>2, <1>3 DEF LocalTypes, KeysOfRuns
<1>5. request \in [Requests -> [pc : {"none", "lookup", "waiting", "keyed"},
                               sess : Runs \cup {NoRun}, waits : Runs \cup {NoRun},
                               key : 0..Cardinality(Runs)]]
  BY <1>2, <1>3 DEF LocalTypes, KeysOfRequests
<1> QED BY <1>1, <1>2, <1>3, <1>4, <1>5 DEF LocalTypeOK, LocalTypes

(***************************************************************************)
(* The listener.                                                           *)
(***************************************************************************)
\* The types; sem and n are bounded by what they count.
ListenTypes ==
  /\ asked \in [host : Families, port : Ports \cup {AnyPort}]
  /\ missing \subseteq {"v6"} /\ foreign \subseteq Ports \X (Families \cup {"any"})
  /\ bind \in {"off", "first", "second", "hold", "bound", "refused"}
  /\ inner \in 1..BindAttempts /\ outer \in 1..BindAttempts
  /\ lport \in Ports \cup {AnyPort} /\ lns \subseteq Families /\ held \in BOOLEAN
  /\ acc \in [Families -> {"off", "slot", "accept", "ended"}]
  /\ conn \in [Conns -> OpenConn \cup {"none", "broken", "cut"}]
  /\ timer \in [Conns -> {"off", "armed", "fired"}] /\ released \in [Conns -> BOOLEAN]
  /\ idle \in {"none", "made", "closed"}
  /\ hook \in {"off", "start", "waiting", "close", "closing", "ended"}
  /\ graceOver \in BOOLEAN

\* The types of serve's own variables.
ServeTypes ==
  /\ mode \in {"listen", "stdio"}
  /\ serve \in {"start", "bind", "new", "serving", "shutdown", "hook", "served", "run", "close",
                "returned"}
  /\ signal \in BOOLEAN /\ code \in {0, 1, 2, 9}

\* What is bound at each step of bindLoopback and until a listener fails, and
\* that nothing bound, nothing held and nothing this host lacks is another
\* program's.
Binding ==
  /\ bind \in {"off", "first", "refused"} => lns = {}
  /\ bind # "bound" => ~held /\ \A f \in Families : acc[f] = "off"
  /\ bind = "second" => lns = {asked.host} /\ asked.host \notin missing
  /\ bind = "hold" => Families \subseteq lns \cup missing
  /\ bind = "bound" /\ lns # {} => \A f \in Families : f \in lns \cup missing \/ acc[f] = "ended"
  /\ bind = "bound" /\ lns # {} /\ Holds => held \/ \E f \in Families : acc[f] = "ended"
  /\ held => <<lport, "any">> \notin foreign
  /\ \A f \in lns : <<lport, f>> \notin foreign
  /\ \A f \in missing, p \in Ports : <<p, f>> \notin foreign

\* The requests the tracker counts.
InFlight == {c \in Conns : conn[c] \in {"request", "cut"}}
\* The tracker counts the requests in flight; those of before the shutdown
\* are among them, and an idle channel that is closed means none is left.
Tracked ==
  /\ n = Cardinality(InFlight) /\ old \subseteq InFlight
  /\ hook = "off" => old = {}
  /\ hook \in {"off", "start"} => idle = "none"
  /\ idle = "closed" => old = {}
  /\ GraceIsKept

\* The accept loops that hold a slot.
Accepting == {f \in Families : acc[f] = "accept"}
\* The connections that hold a slot.
OpenConns == {c \in Conns : conn[c] \in OpenConn}
\* Every slot taken is one of theirs, and a slot is given back when, and only
\* when, its connection is no longer open.
Slots ==
  /\ sem <= MaxConns
  /\ sem = Cardinality(Accepting) + Cardinality(OpenConns)
  /\ \A c \in Conns : /\ conn[c] \in OpenConn => ~released[c]
                      /\ conn[c] \in {"broken", "cut"} => released[c]
                      /\ conn[c] = "none" /\ timer[c] # "off" => released[c]

\* serve has not begun to serve, or will not.
Before == {"start", "bind", "new", "close"}
\* What serve has and what it has left, at each of its steps.
Phase ==
  /\ serve = "start" => bind = "off"
  /\ serve \in {"start", "bind"} => main = "off"
  /\ mode = "stdio" => bind = "off"
  /\ serve \in {"new", "serving"} /\ mode = "listen" => bind = "bound"
  /\ serve \in Before \/ mode = "stdio" =>
        (\A f \in Families : acc[f] = "off") /\ (\A c \in Conns : conn[c] = "none")
  /\ serve = "run" => mode = "stdio"
  /\ serve \in {"bind", "serving", "shutdown", "hook", "served"} => mode = "listen"
  /\ hook # "off" => serve \in {"shutdown", "hook", "served", "returned"}
  /\ serve \in {"shutdown", "hook", "served", "close", "returned"} => lns = {} /\ ~held
  /\ serve \in {"hook", "served", "returned"} => OpenConns = {}
  /\ serve = "served" => hook = "ended"
  /\ hook = "ended" => main = "closed"
  /\ serve = "returned" => main \in {"off", "failed", "closed"}
  /\ mode = "listen" /\ code = 0 => signal

\* The inductive invariant of the listener.
Listener == ListenTypes /\ Binding /\ Tracked /\ Slots

\* Sets of connections and of addresses are finite.
LEMMA FewFinite ==
  ASSUME NEW S, S \subseteq Conns \/ S \subseteq Families
  PROVE  IsFiniteSet(S) /\ Cardinality(S) \in Nat
<1>1. IsFiniteSet({"v4"}) /\ IsFiniteSet({"v4"} \cup {"v6"})
  BY FS_EmptySet, FS_AddElement, FS_Singleton
<1>2. Families = {"v4"} \cup {"v6"}
  BY DEF Families
<1>3. IsFiniteSet(Families) /\ IsFiniteSet(Conns)
  BY <1>1, <1>2, ListenAssumption
<1> QED BY <1>3, FS_Subset, FS_CardinalityType

\* One more is counted once.
LEMMA AddOne ==
  ASSUME NEW S, S \subseteq Conns \/ S \subseteq Families, NEW x, x \notin S
  PROVE  Cardinality(S \cup {x}) = Cardinality(S) + 1
  BY FewFinite, FS_AddElement

\* One less is counted once.
LEMMA DropOne ==
  ASSUME NEW S, S \subseteq Conns \/ S \subseteq Families, NEW x, x \in S
  PROVE  Cardinality(S \ {x}) = Cardinality(S) - 1
  BY FewFinite, FS_RemoveElement

\* The sets that are counted have numbers.
LEMMA Counted ==
  /\ InFlight \subseteq Conns /\ Accepting \subseteq Families /\ OpenConns \subseteq Conns
  /\ Cardinality(InFlight) \in Nat /\ Cardinality(Accepting) \in Nat /\ Cardinality(OpenConns) \in Nat
<1>1. InFlight \subseteq Conns /\ Accepting \subseteq Families /\ OpenConns \subseteq Conns
  BY DEF InFlight, Accepting, OpenConns
<1> QED BY <1>1, FewFinite

\* So have they after a step.
LEMMA CountedNext ==
  /\ InFlight' \subseteq Conns /\ Accepting' \subseteq Families /\ OpenConns' \subseteq Conns
  /\ Cardinality(InFlight') \in Nat /\ Cardinality(Accepting') \in Nat /\ Cardinality(OpenConns') \in Nat
<1>1. InFlight' \subseteq Conns /\ Accepting' \subseteq Families /\ OpenConns' \subseteq Conns
  BY DEF InFlight, Accepting, OpenConns
<1> QED BY <1>1, FewFinite

\* Listener is about listenVars alone.
LEMMA ListenStutters == ASSUME Listener, UNCHANGED listenVars PROVE Listener'
  BY DEF Listener, listenVars, bindVars, connVars, trackVars, ListenTypes, Binding, Tracked, Slots, InFlight, Accepting, OpenConns, GraceIsKept

\* What the tracker's part is about.
LEMMA TrackStutters ==
  ASSUME Tracked, UNCHANGED <<conn, trackVars, hook, graceOver>> PROVE Tracked'
  BY DEF Tracked, trackVars, InFlight, GraceIsKept

\* What the slots' part is about.
LEMMA SlotStutters == ASSUME Slots, UNCHANGED connVars PROVE Slots'
  BY DEF Slots, connVars, Accepting, OpenConns

\* What the binding's part is about; an accept loop that has ended stays so.
LEMMA BindStutters ==
  ASSUME Binding, UNCHANGED <<bindVars, lns>>,
         \A f \in Families : acc[f] = "ended" => acc'[f] = "ended",
         bind # "bound" => acc' = acc
  PROVE  Binding'
  BY DEF Binding, bindVars

\* bindLoopback keeps Listener, whatever addresses other programs take.
LEMMA BindStep ==
  ASSUME Listener, BindBegins \/ BindNext \/ Elsewhere
  PROVE  Listener'
<1> USE DEF Listener, BindNext, Elsewhere
<1>1. UNCHANGED <<asked, missing, connVars, trackVars, hook, graceOver>>
  BY DEF BindBegins, BindFirst, BindSecond, BindHold, OtherProgram
<1>2. Tracked' /\ Slots'
  BY <1>1, TrackStutters, SlotStutters DEF connVars
<1>8. acc' = acc
  BY <1>1 DEF connVars
<1> USE ListenAssumption
<1>3. CASE BindBegins
  <2>1. ListenTypes'
    BY <1>3 DEF BindBegins, ListenTypes, connVars, trackVars
  <2>2. Binding'
    BY <1>3, <1>8 DEF BindBegins, Binding
  <2> QED BY <1>2, <2>1, <2>2
<1>4. CASE BindFirst
  <2>1. /\ UNCHANGED <<foreign, inner, outer, held>> /\ bind = "first"
        /\ \/ bind' = "refused" /\ UNCHANGED <<lport, lns>>
           \/ /\ bind' = "second" /\ lport' \in Ports \cup {AnyPort} /\ lns' = {asked.host}
              /\ Free(lport', asked.host)
    BY <1>4 DEF BindFirst, ListenTypes
  <2>2. ListenTypes'
    BY <1>1, <2>1 DEF ListenTypes, connVars, trackVars
  <2>3. Binding'
    BY <1>1, <1>8, <2>1 DEF Binding, Free
  <2> QED BY <1>2, <2>2, <2>3
<1>5. CASE BindSecond
  <2> DEFINE twin == Other(asked.host)
  <2>0. Families = {asked.host, twin} /\ asked.host \in Families /\ twin \in Families
    BY DEF ListenTypes, Other, Families
  <2> HIDE DEF twin
  <2>1. /\ UNCHANGED <<foreign, outer, held>> /\ bind = "second"
        /\ \/ /\ bind' = "hold" /\ UNCHANGED <<inner, lport>>
              /\ \/ twin \in missing /\ lns' = lns
                 \/ lns' = Families /\ Free(lport, twin)
           \/ /\ lns' = {} /\ lport' = AnyPort
              /\ \/ inner < BindAttempts /\ inner' = inner + 1 /\ bind' = "first"
                 \/ inner' = inner /\ bind' = "refused"
    BY <1>5 DEF BindSecond, twin
  <2>2. ListenTypes'
    BY <1>1, <2>1 DEF ListenTypes, connVars, trackVars
  <2>3. Binding'
    BY <1>1, <1>8, <2>0, <2>1 DEF Binding, Free
  <2> QED BY <1>2, <2>2, <2>3
<1>6. CASE BindHold
  <2>1. /\ UNCHANGED <<foreign>> /\ bind = "hold"
        /\ \/ /\ bind' = "bound" /\ held' = Holds /\ UNCHANGED <<inner, outer, lport, lns>>
              /\ Holds => <<lport, "any">> \notin foreign
           \/ /\ lns' = {} /\ lport' = AnyPort /\ held' = held
              /\ \/ outer < BindAttempts /\ outer' = outer + 1 /\ inner' = 1 /\ bind' = "first"
                 \/ UNCHANGED <<inner, outer>> /\ bind' = "refused"
    BY <1>6 DEF BindHold
  <2>2. ListenTypes'
    BY <1>1, <2>1 DEF ListenTypes, connVars, trackVars
  <2>3. Binding'
    BY <1>1, <1>8, <2>1 DEF Binding
  <2> QED BY <1>2, <2>2, <2>3
<1>7. ASSUME NEW p \in Ports, NEW f \in Families \cup {"any"}, OtherProgram(p, f) PROVE Listener'
  <2>1. UNCHANGED <<bind, inner, outer, lport, lns, held>> /\ foreign' = foreign \cup {<<p, f>>}
    BY <1>7 DEF OtherProgram
  <2>2. f \notin missing /\ ~(p = lport /\ f \in lns) /\ ~(p = lport /\ f = "any" /\ held)
    BY <1>7 DEF OtherProgram
  <2>3. ListenTypes'
    BY <1>1, <1>7, <2>1 DEF ListenTypes, connVars, trackVars
  <2>4. Binding'
    BY <1>1, <1>7, <1>8, <2>1, <2>2 DEF Binding
  <2> QED BY <1>2, <2>3, <2>4
<1> QED BY <1>3, <1>4, <1>5, <1>6, <1>7

\* limitedListener.Accept keeps Listener.
LEMMA AcceptStep == ASSUME Listener, AcceptNext PROVE Listener'
<1> USE DEF Listener
<1>3. PICK f \in Families :
        \/ AcceptTakesSlot(f) \/ AcceptSeesClose(f) \/ AcceptRetries(f) \/ AcceptFails(f)
        \/ \E c \in Conns : Accepts(f, c)
  BY DEF AcceptNext
<1>1. UNCHANGED <<asked, missing, foreign, bind, inner, outer, lport, trackVars, hook, graceOver>>
  BY <1>3 DEF AcceptTakesSlot, AcceptSeesClose, AcceptRetries, AcceptFails, Accepts, bindVars
<1>9. \A g \in Families : acc[g] = "ended" => acc'[g] = "ended"
  BY <1>3 DEF AcceptTakesSlot, AcceptSeesClose, AcceptRetries, AcceptFails, Accepts, ListenTypes
<1>11. bind = "bound"
  BY <1>3 DEF AcceptTakesSlot, AcceptSeesClose, AcceptRetries, AcceptFails, Accepts, Binding
<1>2. ASSUME ~AcceptFails(f) PROVE Binding' /\ UNCHANGED <<bindVars, lns>>
  <2>1. UNCHANGED <<bindVars, lns>>
    BY <1>2, <1>3 DEF AcceptTakesSlot, AcceptSeesClose, AcceptRetries, Accepts
  <2> QED BY <1>9, <1>11, <2>1, BindStutters
<1>4. sem \in Nat /\ MaxConns \in Nat
  BY Counted, ListenAssumption DEF Slots
<1>5. CASE AcceptTakesSlot(f)
  <2>0. Binding' /\ UNCHANGED <<bindVars, lns>>
    BY <1>2, <1>5 DEF AcceptTakesSlot, AcceptFails
  <2>1. UNCHANGED <<conn, timer, released>> /\ sem' = sem + 1 /\ sem < MaxConns
    BY <1>5 DEF AcceptTakesSlot
  <2>2. ListenTypes'
    BY <1>1, <1>5, <2>0, <2>1 DEF AcceptTakesSlot, ListenTypes, bindVars, trackVars
  <2>3. Tracked'
    BY <1>1, <2>1, TrackStutters
  <2>4. Accepting' = Accepting \cup {f} /\ f \notin Accepting
    BY <1>5 DEF AcceptTakesSlot, Accepting, ListenTypes
  <2>5. OpenConns' = OpenConns
    BY <2>1 DEF OpenConns
  <2>6. Cardinality(Accepting') = Cardinality(Accepting) + 1
    BY <2>4, AddOne, Counted
  <2>7. Slots'
    BY <1>4, <2>1, <2>5, <2>6, Counted DEF Slots
  <2> QED BY <2>0, <2>2, <2>3, <2>7
<1>6. CASE AcceptSeesClose(f)
  <2>0. Binding' /\ UNCHANGED <<bindVars, lns>>
    BY <1>2, <1>6 DEF AcceptSeesClose, AcceptFails
  <2>1. UNCHANGED <<conn, timer, released, sem>>
    BY <1>6 DEF AcceptSeesClose
  <2>2. ListenTypes'
    BY <1>1, <1>6, <2>0, <2>1 DEF AcceptSeesClose, ListenTypes, bindVars, trackVars
  <2>3. Tracked'
    BY <1>1, <2>1, TrackStutters
  <2>4. Accepting' = Accepting
    BY <1>6 DEF AcceptSeesClose, Accepting, ListenTypes
  <2>5. OpenConns' = OpenConns
    BY <2>1 DEF OpenConns
  <2>6. Slots'
    BY <2>1, <2>4, <2>5 DEF Slots
  <2> QED BY <2>0, <2>2, <2>3, <2>6
<1>7. CASE AcceptFails(f)
  <2>8. lns' = lns \ {f} /\ held' = FALSE /\ acc'[f] = "ended"
    BY <1>7 DEF AcceptFails, ListenTypes
  <2>0. Binding'
    BY <1>1, <1>9, <1>11, <2>8 DEF Binding
  <2>1. UNCHANGED <<conn, timer, released>> /\ sem' = sem - 1
    BY <1>7 DEF AcceptFails
  <2>2. ListenTypes'
    BY <1>1, <1>7, <2>1, <2>8 DEF AcceptFails, ListenTypes, bindVars, trackVars
  <2>3. Tracked'
    BY <1>1, <2>1, TrackStutters
  <2>4. Accepting' = Accepting \ {f} /\ f \in Accepting
    BY <1>7 DEF AcceptFails, Accepting, ListenTypes
  <2>5. OpenConns' = OpenConns
    BY <2>1 DEF OpenConns
  <2>6. Cardinality(Accepting') = Cardinality(Accepting) - 1
    BY <2>4, DropOne, Counted
  <2>7. Slots'
    BY <1>4, <2>1, <2>5, <2>6, Counted DEF Slots
  <2> QED BY <2>0, <2>2, <2>3, <2>7
<1>10. CASE AcceptRetries(f)
  <2>0. Binding' /\ UNCHANGED <<bindVars, lns>>
    BY <1>2, <1>10 DEF AcceptRetries, AcceptFails
  <2>1. UNCHANGED <<conn, timer, released>> /\ sem' = sem - 1
    BY <1>10 DEF AcceptRetries
  <2>2. ListenTypes'
    BY <1>1, <1>10, <2>0, <2>1 DEF AcceptRetries, ListenTypes, bindVars, trackVars
  <2>3. Tracked'
    BY <1>1, <2>1, TrackStutters
  <2>4. Accepting' = Accepting \ {f} /\ f \in Accepting
    BY <1>10 DEF AcceptRetries, Accepting, ListenTypes
  <2>5. OpenConns' = OpenConns
    BY <2>1 DEF OpenConns
  <2>6. Cardinality(Accepting') = Cardinality(Accepting) - 1
    BY <2>4, DropOne, Counted
  <2>7. Slots'
    BY <1>4, <2>1, <2>5, <2>6, Counted DEF Slots
  <2> QED BY <2>0, <2>2, <2>3, <2>7
<1>8. ASSUME NEW c \in Conns, Accepts(f, c) PROVE Listener'
  <2>0. Binding' /\ UNCHANGED <<bindVars, lns>>
    BY <1>2, <1>8 DEF Accepts, AcceptFails
  <2>1. sem' = sem /\ conn[c] = "none" /\ conn' = [conn EXCEPT ![c] = "new"]
    BY <1>8 DEF Accepts
  <2>2. ListenTypes'
    BY <1>1, <1>8, <2>0, <2>1 DEF Accepts, ListenTypes, bindVars, trackVars, OpenConn
  <2>3. InFlight' = InFlight
    BY <2>1 DEF InFlight, ListenTypes
  <2>4. Tracked'
    BY <1>1, <2>3 DEF Tracked, trackVars, GraceIsKept
  <2>5. Accepting' = Accepting \ {f} /\ f \in Accepting
    BY <1>8 DEF Accepts, Accepting, ListenTypes
  <2>6. OpenConns' = OpenConns \cup {c} /\ c \notin OpenConns
    BY <2>1 DEF OpenConns, ListenTypes, OpenConn
  <2>7. Cardinality(Accepting') = Cardinality(Accepting) - 1
    BY <2>5, DropOne, Counted
  <2>8. Cardinality(OpenConns') = Cardinality(OpenConns) + 1
    BY <2>6, AddOne, Counted
  <2>9. sem' = Cardinality(Accepting') + Cardinality(OpenConns')
    BY <2>1, <2>7, <2>8, Counted DEF Slots
  <2>10. released' = [released EXCEPT ![c] = FALSE]
    BY <1>8 DEF Accepts
  <2>12. timer' = [timer EXCEPT ![c] = "armed"]
    BY <1>8 DEF Accepts
  <2>11. Slots'
    BY <2>1, <2>9, <2>10, <2>12 DEF Slots, ListenTypes, OpenConn
  <2> QED BY <2>0, <2>2, <2>4, <2>11
<1> QED BY <1>3, <1>5, <1>6, <1>7, <1>8, <1>10

\* A request that comes in keeps Listener.
LEMMA RequestStep ==
  ASSUME Listener, NEW c \in Conns, NEW long \in BOOLEAN, Request(c, long)
  PROVE  Listener'
<1> USE DEF Listener
<1>1. /\ UNCHANGED <<bindVars, lns, acc, sem, released, idle, old, hook, graceOver>>
      /\ conn[c] \in {"new", "idle"} /\ timer' \in {timer, [timer EXCEPT ![c] = "off"]}
  BY DEF Request
<1>2. Binding'
  BY <1>1, BindStutters
<1>3. Accepting' = Accepting
  BY <1>1 DEF Accepting
<1>4. PICK s \in {"stream", "request"} :
        /\ conn' = [conn EXCEPT ![c] = s]
        /\ n' = IF s = "stream" THEN n ELSE n + 1
  BY DEF Request
<1>5. ListenTypes'
  BY <1>1, <1>4 DEF ListenTypes, bindVars, OpenConn
<1>6. OpenConns' = OpenConns
  BY <1>1, <1>4 DEF OpenConns, ListenTypes, OpenConn
<1>7. Slots'
  BY <1>1, <1>3, <1>4, <1>6 DEF Slots, ListenTypes, OpenConn
<1>8. CASE s = "stream"
  <2>1. InFlight' = InFlight
    BY <1>1, <1>4, <1>8 DEF InFlight, ListenTypes
  <2>2. Tracked'
    BY <1>1, <1>4, <1>8, <2>1 DEF Tracked, GraceIsKept
  <2> QED BY <1>2, <1>5, <1>7, <2>2
<1>9. CASE s = "request"
  <2>1. InFlight' = InFlight \cup {c} /\ c \notin InFlight
    BY <1>1, <1>4, <1>9 DEF InFlight, ListenTypes
  <2>2. Cardinality(InFlight') = Cardinality(InFlight) + 1
    BY <2>1, AddOne, Counted
  <2>3. Tracked'
    BY <1>1, <1>4, <1>9, <2>1, <2>2 DEF Tracked, GraceIsKept
  <2> QED BY <1>2, <1>5, <1>7, <2>3
<1> QED BY <1>8, <1>9

\* A request that ends keeps Listener: the last one out closes the idle
\* channel.
LEMMA RequestEndsStep == ASSUME Listener, NEW c \in Conns, RequestEnds(c) PROVE Listener'
<1> USE DEF Listener
<1>1. UNCHANGED <<bindVars, lns, acc, sem, timer, released, hook, graceOver>> /\ old' = old \ {c}
  BY DEF RequestEnds
<1>2. Binding'
  BY <1>1, BindStutters
<1>3. Accepting' = Accepting
  BY <1>1 DEF Accepting
<1>4. \/ conn[c] \in {"request", "stream"} /\ conn' = [conn EXCEPT ![c] = "idle"]
      \/ conn[c] = "cut" /\ conn' = [conn EXCEPT ![c] = "broken"]
  BY DEF RequestEnds
<1>5. idle' \in {"none", "made", "closed"}
  BY DEF RequestEnds, Leave, ListenTypes
<1>6. ListenTypes'
  BY <1>1, <1>4, <1>5 DEF ListenTypes, bindVars, OpenConn
<1>7. OpenConns' = OpenConns
  BY <1>4 DEF OpenConns, ListenTypes, OpenConn
<1>8. Slots'
  BY <1>1, <1>3, <1>4, <1>7 DEF Slots, ListenTypes, OpenConn
<1>9. CASE conn[c] = "stream"
  <2>1. UNCHANGED <<n, idle>>
    BY <1>9 DEF RequestEnds
  <2>2. InFlight' = InFlight
    BY <1>4, <1>9 DEF InFlight, ListenTypes
  <2>3. old' = old
    BY <1>1, <1>9 DEF Tracked, InFlight
  <2>4. Tracked'
    BY <1>1, <2>1, <2>2, <2>3 DEF Tracked, GraceIsKept
  <2> QED BY <1>2, <1>6, <1>8, <2>4
<1>10. CASE conn[c] \in {"request", "cut"}
  <2>1. Leave
    BY <1>10 DEF RequestEnds
  <2>2. InFlight' = InFlight \ {c} /\ c \in InFlight
    BY <1>4, <1>10 DEF InFlight, ListenTypes
  <2>3. Cardinality(InFlight') = Cardinality(InFlight) - 1
    BY <2>2, DropOne, Counted
  <2>4. n' = Cardinality(InFlight')
    BY <2>1, <2>3 DEF Tracked, Leave
  <2>5. old' \subseteq InFlight'
    BY <1>1, <2>2 DEF Tracked
  <2>6. n' = 0 => InFlight' = {}
    BY <2>4, CountedNext, FewFinite, FS_EmptySet
  <2>7. idle' = "closed" => old' = {}
    BY <1>1, <2>1, <2>5, <2>6 DEF Tracked, Leave
  <2>8. idle = "none" => idle' = "none"
    BY <2>1 DEF Leave
  <2>9. (hook = "off" => old' = {}) /\ GraceIsKept'
    BY <1>1 DEF Tracked, GraceIsKept
  <2>10. Tracked'
    BY <1>1, <2>4, <2>5, <2>7, <2>8, <2>9 DEF Tracked
  <2> QED BY <1>2, <1>6, <1>8, <2>10
<1> QED BY <1>4, <1>9, <1>10

\* A timer that fires keeps Listener.
LEMMA TimerStep == ASSUME Listener, NEW c \in Conns, TimerFires(c) PROVE Listener'
<1> USE DEF Listener
<1>1. /\ UNCHANGED <<bindVars, lns, acc, sem, conn, released, trackVars, hook, graceOver>>
      /\ timer[c] = "armed" /\ timer' = [timer EXCEPT ![c] = "fired"]
  BY DEF TimerFires
<1>2. Binding' /\ Tracked'
  BY <1>1, BindStutters, TrackStutters
<1>3. ListenTypes'
  BY <1>1 DEF ListenTypes, bindVars, trackVars
<1>4. Slots'
  BY <1>1 DEF Slots, ListenTypes, Accepting, OpenConns
<1> QED BY <1>2, <1>3, <1>4

\* A connection that is closed, by the timer and by net/http, in either
\* order, gives one slot back.
LEMMA CloseStep ==
  ASSUME Listener, NEW c \in Conns, FirstHeaderFires(c) \/ ServerCloses(c)
  PROVE  Listener'
<1> USE DEF Listener
<1>1. UNCHANGED <<bindVars, lns, acc, trackVars, hook, graceOver>>
  BY DEF FirstHeaderFires, ServerCloses
<1>2. Binding'
  BY <1>1, BindStutters
<1>3. Accepting' = Accepting
  BY <1>1 DEF Accepting
<1>4. PICK s \in {"broken", "cut", "none"} :
        /\ conn' = [conn EXCEPT ![c] = s] /\ Release(c)
        /\ conn[c] \in {"request", "cut"} <=> s = "cut"
        /\ conn[c] = "none" => timer[c] # "off"
        /\ timer' \in {timer, [timer EXCEPT ![c] = "off"]}
  BY DEF FirstHeaderFires, ServerCloses, ListenTypes, OpenConn
<1>5. released' = [released EXCEPT ![c] = TRUE] /\ sem' = IF released[c] THEN sem ELSE sem - 1
  BY <1>4 DEF Release
<1>6. ListenTypes'
  BY <1>1, <1>4, <1>5 DEF ListenTypes, bindVars, trackVars, OpenConn
<1>7. InFlight' = InFlight
  BY <1>4 DEF InFlight, ListenTypes
<1>8. Tracked'
  BY <1>1, <1>7 DEF Tracked, trackVars, GraceIsKept
<1>9. OpenConns' = OpenConns \ {c}
  BY <1>4 DEF OpenConns, ListenTypes, OpenConn
<1>10. sem \in Nat /\ MaxConns \in Nat
  BY Counted, ListenAssumption DEF Slots
<1>11. \A d \in Conns : /\ conn'[d] \in OpenConn => ~released'[d]
                        /\ conn'[d] \in {"broken", "cut"} => released'[d]
                        /\ conn'[d] = "none" /\ timer'[d] # "off" => released'[d]
  BY <1>4, <1>5 DEF Slots, ListenTypes, OpenConn
<1>12. CASE conn[c] \notin OpenConn
  <2>1. OpenConns' = OpenConns
    BY <1>9, <1>12 DEF OpenConns
  <2>2. released[c]
    BY <1>4, <1>12 DEF Slots, ListenTypes
  <2>3. sem' = sem
    BY <1>5, <2>2
  <2>4. Slots'
    BY <1>3, <1>11, <2>1, <2>3 DEF Slots
  <2> QED BY <1>2, <1>6, <1>8, <2>4
<1>13. CASE conn[c] \in OpenConn
  <2>1. c \in OpenConns /\ ~released[c]
    BY <1>13 DEF OpenConns, Slots
  <2>2. Cardinality(OpenConns') = Cardinality(OpenConns) - 1
    BY <1>9, <2>1, DropOne, Counted
  <2>3. sem' = sem - 1
    BY <1>5, <2>1
  <2>4. sem' <= MaxConns /\ sem' = Cardinality(Accepting') + Cardinality(OpenConns')
    BY <1>3, <1>10, <2>2, <2>3, Counted DEF Slots
  <2>5. Slots'
    BY <1>11, <2>4 DEF Slots
  <2> QED BY <1>2, <1>6, <1>8, <2>5
<1> QED BY <1>12, <1>13

\* The shutdown's hook keeps Listener.
LEMMA HookStep == ASSUME Listener, HookWaits \/ HookWakes \/ GraceOver PROVE Listener'
<1> USE DEF Listener
<1>1. UNCHANGED <<bindVars, lns, connVars, n, old>>
  BY DEF HookWaits, HookWakes, GraceOver, trackVars
<1>2. Binding' /\ Slots'
  BY <1>1, BindStutters, SlotStutters DEF connVars
<1>3. InFlight' = InFlight
  BY <1>1 DEF InFlight, connVars
<1>4. n = 0 => InFlight = {}
  BY Counted, FewFinite, FS_EmptySet DEF Tracked
<1>5. ListenTypes'
  <2>1. /\ idle' \in {"none", "made", "closed"} /\ graceOver' \in BOOLEAN
        /\ hook' \in {"off", "start", "waiting", "close", "closing", "ended"}
    BY DEF ListenTypes, HookWaits, HookWakes, GraceOver, trackVars
  <2> QED BY <1>1, <2>1 DEF ListenTypes, bindVars, connVars
<1>6. Tracked'
  BY <1>1, <1>3, <1>4 DEF Tracked, GraceIsKept, HookWaits, HookWakes, GraceOver, trackVars
<1> QED BY <1>2, <1>5, <1>6

(***************************************************************************)
(* serve.                                                                  *)
(***************************************************************************)
\* The inductive invariant of serve.
ServeInv == UpInv /\ LocalInv /\ Listener /\ ServeTypes /\ Phase

\* New has failed, Close has returned or New has not begun: that stays.
LEMMA RestIsRest ==
  ASSUME UpstreamStep, main \in {"off", "failed", "closed"} PROVE main' = main
  BY DEF UpstreamStep, New, Sdk, Watching, Closing, StopKill, Join, Joined, Lost, Decide, KillBegins, KillMarks,
         KillCloses, KillGraceOver, KillEnds, NewCloses, Respawn, ListTools, SdkSpawn, SdkAttach, SdkRecord,
         SdkRecordKill, SdkRefusesHybrid, SdkFails, SdkCloses, SdkClosed, SdkAnswered, WatcherExpires,
         WatcherCancels, WatcherConnected, ReaperMarks, ReaperKills, CloseEnds, CloseReaps, Sweep, UpstreamActs,
         ReadEnds, ReadBad, WriteFails, SdkDrops, BoundExpires, CtxEnds, ExitWatch, CloseSession, Closed

\* The upstream's steps keep ServeInv.
LEMMA UpstreamKeeps == ASSUME ServeInv, UpstreamStep PROVE ServeInv'
<1> USE DEF ServeInv
<1>1. UNCHANGED <<serveVars, listenVars, localVars>> /\ Step /\ Settles
  BY DEF UpstreamStep, Step
<1>2. UpInv' /\ LocalInv' /\ Listener'
  BY <1>1, UpStepKeeps, LocalStutters, ListenStutters
<1>3. UNCHANGED <<mode, serve, signal, code>>
  BY <1>1 DEF serveVars
<1>4. UNCHANGED <<bind, lns, held, acc, conn, hook>>
  BY <1>1 DEF listenVars, bindVars, connVars
<1>5. ServeTypes'
  BY <1>3 DEF ServeTypes
<1>6. OpenConns' = OpenConns
  BY <1>4 DEF OpenConns
<1>7. Phase'
  BY <1>3, <1>4, <1>6, RestIsRest DEF Phase
<1> QED BY <1>2, <1>5, <1>7

\* The listener's steps keep ServeInv.
LEMMA ListenKeeps == ASSUME ServeInv, ListenStep PROVE ServeInv'
<1> USE DEF ServeInv
<1>1. UNCHANGED <<serveVars, vars, localVars>>
  BY DEF ListenStep
<1>2. UNCHANGED <<mode, serve, signal, code, main>>
  BY <1>1 DEF serveVars, vars
<1>3. UpInv' /\ LocalInv' /\ ServeTypes'
  BY <1>1, <1>2, UpStutters, LocalStutters DEF ServeTypes
<1>4. ASSUME Listener', Phase' PROVE ServeInv'
  BY <1>3, <1>4
<1>5. CASE BindNext /\ serve = "bind"
  <2>1. UNCHANGED <<acc, conn, hook>>
    BY <1>5 DEF BindNext, BindFirst, BindSecond, BindHold, connVars
  <2>2. Phase'
    BY <1>2, <1>5, <2>1 DEF Phase
  <2> QED BY <1>4, <1>5, <2>2, BindStep
<1>9. CASE Elsewhere
  <2>1. UNCHANGED <<bind, lns, held, acc, conn, hook>>
    BY <1>9 DEF Elsewhere, OtherProgram, connVars
  <2>2. OpenConns' = OpenConns
    BY <2>1 DEF OpenConns
  <2>3. Phase'
    BY <1>2, <2>1, <2>2 DEF Phase
  <2> QED BY <1>4, <1>9, <2>3, BindStep
<1>6. CASE AcceptNext
  <2>2. PICK f \in Families :
          \/ AcceptTakesSlot(f) \/ AcceptSeesClose(f) \/ AcceptRetries(f) \/ AcceptFails(f)
          \/ \E c \in Conns : Accepts(f, c)
    BY <1>6 DEF AcceptNext
  <2>1. /\ UNCHANGED <<bind, hook>>
        /\ UNCHANGED <<lns, held>> \/ (lns' = lns \ {f} /\ held' = FALSE)
    BY <2>2 DEF AcceptTakesSlot, AcceptSeesClose, AcceptRetries, AcceptFails, Accepts, bindVars
  <2>3. acc[f] \in {"slot", "accept"} /\ (f \in lns \/ conn' = conn)
    BY <2>2 DEF AcceptTakesSlot, AcceptSeesClose, AcceptRetries, AcceptFails, Accepts
  <2>4. ~(serve \in Before \/ mode = "stdio")
    BY <2>3 DEF Phase
  <2>5. serve \in {"hook", "served", "returned"} => OpenConns' = OpenConns
    BY <2>3 DEF Phase, OpenConns
  <2>6. Phase'
    BY <1>2, <2>1, <2>4, <2>5 DEF Phase, Before
  <2> QED BY <1>4, <1>6, <2>6, AcceptStep
<1>7. CASE ConnNext
  <2>1. UNCHANGED <<bind, lns, held, hook, acc>>
    BY <1>7 DEF ConnNext, Request, RequestEnds, TimerFires, FirstHeaderFires, ServerCloses, bindVars
  <2>2. PICK c \in Conns :
          \/ \E long \in BOOLEAN : Request(c, long)
          \/ RequestEnds(c) \/ TimerFires(c) \/ FirstHeaderFires(c) \/ ServerCloses(c)
    BY <1>7 DEF ConnNext
  <2>3. Listener'
    BY <2>2, RequestStep, RequestEndsStep, TimerStep, CloseStep
  <2>4. \/ conn' = conn
        \/ /\ conn[c] # "none"
           /\ \/ conn[c] \in {"new", "idle", "request", "stream"}
              \/ \E s \in {"none", "broken", "cut"} : conn' = [conn EXCEPT ![c] = s]
    BY <2>2 DEF Request, RequestEnds, TimerFires, FirstHeaderFires, ServerCloses, Listener, ListenTypes, OpenConn
  <2>5. conn' = conn \/ ~(serve \in Before \/ mode = "stdio")
    BY <2>4 DEF Phase
  <2>6. OpenConns = {} => OpenConns' = {}
    BY <2>4 DEF OpenConns, OpenConn, Listener, ListenTypes
  <2>7. Phase'
    BY <1>2, <2>1, <2>5, <2>6 DEF Phase, Before
  <2> QED BY <1>4, <2>3, <2>7
<1>8. CASE HookWaits \/ HookWakes \/ GraceOver
  <2>1. UNCHANGED <<bind, lns, held, acc, conn>> /\ hook # "off" /\ hook' \in {hook, "close", "waiting"}
    BY <1>8 DEF HookWaits, HookWakes, GraceOver, bindVars, connVars
  <2>2. hook' # "off" /\ (hook = "ended" <=> hook' = "ended")
    BY <1>8 DEF HookWaits, HookWakes, GraceOver
  <2>3. OpenConns' = OpenConns
    BY <2>1 DEF OpenConns
  <2>4. Phase'
    BY <1>2, <2>1, <2>2, <2>3 DEF Phase
  <2> QED BY <1>4, <1>8, <2>4, HookStep
<1> QED BY <1>5, <1>6, <1>7, <1>8, <1>9 DEF ListenStep

\* The local sessions' steps keep ServeInv.
LEMMA LocalKeeps == ASSUME ServeInv, LocalStep PROVE ServeInv'
<1> USE DEF ServeInv
<1>1. UNCHANGED <<serveVars, vars, listenVars>>
  BY DEF LocalStep
<1>2. UNCHANGED <<mode, serve, signal, code, main, bind, lns, held, acc, conn, hook>>
  BY <1>1 DEF serveVars, vars, listenVars, bindVars, connVars
<1>3. UpInv' /\ Listener' /\ ServeTypes'
  BY <1>1, <1>2, UpStutters, ListenStutters DEF ServeTypes
<1>4. LocalInv'
  BY RunStep, KeyStep DEF LocalStep, LocalNext
<1>5. OpenConns' = OpenConns
  BY <1>2 DEF OpenConns
<1>6. Phase'
  BY <1>2, <1>5 DEF Phase
<1> QED BY <1>3, <1>4, <1>6

\* serveBinding keeps ServeInv.
LEMMA BeginKeeps ==
  ASSUME ServeInv, ServeBegins \/ ServeBound \/ ServeNewFails \/ ServeNewReady \/ ServeNoHandler
  PROVE  ServeInv'
<1> USE DEF ServeInv
<1>1. CASE ServeBegins
  <2>1. UNCHANGED <<mode, signal, code, localVars>> /\ serve = "start" /\ LocalInv'
    BY <1>1, LocalStutters DEF ServeBegins
  <2>2. CASE mode = "listen" /\ serve' = "bind" /\ BindBegins /\ UNCHANGED vars
    <3>1. UNCHANGED <<lns, held, acc, conn, hook, main>>
      BY <2>2 DEF BindBegins, connVars, vars
    <3>2. ServeTypes' /\ Phase'
      BY <2>1, <2>2, <3>1 DEF ServeTypes, Phase, Before
    <3> QED BY <2>1, <2>2, <3>2, UpStutters, BindStep
  <2>3. CASE mode = "stdio" /\ serve' = "new" /\ Start /\ Settles /\ UNCHANGED listenVars
    <3>1. UNCHANGED <<bind, lns, held, acc, conn, hook>>
      BY <2>3 DEF listenVars, bindVars, connVars
    <3>2. hook = "off"
      BY <2>1 DEF Phase
    <3>3. ServeTypes' /\ Phase'
      BY <2>1, <2>3, <3>1, <3>2 DEF ServeTypes, Phase, Before
    <3> QED BY <2>1, <2>3, <3>3, ListenStutters, UpStepKeeps DEF Step
  <2> QED BY <1>1, <2>2, <2>3 DEF ServeBegins
<1>2. CASE ServeBound
  <2>1. UNCHANGED <<mode, signal, listenVars, localVars>> /\ serve = "bind" /\ LocalInv' /\ Listener'
    BY <1>2, LocalStutters, ListenStutters DEF ServeBound
  <2>2. UNCHANGED <<bind, lns, held, acc, conn, hook>>
    BY <2>1 DEF listenVars, bindVars, connVars
  <2>3. hook = "off" /\ mode = "listen" /\ \A c \in Conns : conn[c] = "none"
    BY <2>1 DEF Phase, Before
  <2>4. OpenConns' = {}
    BY <2>2, <2>3 DEF OpenConns, OpenConn
  <2>5. CASE bind = "refused" /\ serve' = "returned" /\ code' = 1 /\ UNCHANGED vars
    <3>1. lns = {} /\ ~held /\ main' = main
      BY <2>5 DEF Listener, Binding, vars
    <3>2. ServeTypes'
      BY <2>1, <2>5 DEF ServeTypes
    <3>3. main = "off"
      BY <2>1 DEF Phase
    <3>4. Phase'
      BY <2>1, <2>2, <2>3, <2>4, <2>5, <3>1, <3>3 DEF Phase, Before
    <3> QED BY <2>1, <2>5, <3>2, <3>4, UpStutters
  <2>6. CASE Bound /\ serve' = "new" /\ Start /\ Settles /\ UNCHANGED code
    <3>1. ServeTypes' /\ Phase'
      BY <2>1, <2>2, <2>3, <2>6 DEF ServeTypes, Phase, Before, Bound
    <3> QED BY <2>1, <2>6, <3>1, UpStepKeeps DEF Step
  <2> QED BY <1>2, <2>5, <2>6 DEF ServeBound
<1>3. CASE ServeNewFails
  <2>1. UNCHANGED <<mode, signal, vars, localVars, bind, acc, conn, hook, main>> /\ serve = "new"
        /\ main = "failed" /\ lns' = {} /\ held' = FALSE /\ serve' = "returned" /\ code' = 1
    BY <1>3 DEF ServeNewFails, connVars, vars
  <2>2. UpInv' /\ LocalInv' /\ ServeTypes'
    BY <2>1, UpStutters, LocalStutters DEF ServeTypes
  <2>3. hook = "off" /\ \A c \in Conns : conn[c] = "none"
    BY <2>1 DEF Phase, Before
  <2>4. OpenConns' = {}
    BY <2>1, <2>3 DEF OpenConns, OpenConn
  <2>5. Phase'
    BY <2>1, <2>3, <2>4 DEF Phase, Before
  <2>6. UNCHANGED <<asked, missing, foreign, bind, inner, outer, lport, connVars, trackVars, hook, graceOver>>
    BY <1>3 DEF ServeNewFails
  <2>7. Binding'
    <3>1. bind \in {"off", "bound"}
      BY <2>1 DEF Phase, ServeTypes
    <3> QED BY <2>1, <2>6, <3>1 DEF Listener, Binding
  <2>9. held' \in BOOLEAN /\ lns' \subseteq Families
    BY <2>1
  <2>10. ListenTypes'
    BY <2>6, <2>9 DEF Listener, ListenTypes, connVars, trackVars
  <2>8. Tracked' /\ Slots'
    BY <2>6, TrackStutters, SlotStutters DEF Listener, connVars
  <2> QED BY <2>2, <2>5, <2>7, <2>8, <2>10 DEF Listener
<1>4. CASE ServeNewReady
  <2>1. UNCHANGED <<mode, signal, code, vars, bindVars, lns, sem, conn, timer, released, trackVars, hook, graceOver>>
        /\ serve = "new"
    BY <1>4 DEF ServeNewReady
  <2>2. UNCHANGED <<bind, held, main>> /\ UpInv' /\ OpenConns' = OpenConns
    BY <2>1, UpStutters DEF bindVars, vars, OpenConns
  <2>3. hook = "off" /\ (\A f \in Families : acc[f] = "off")
    BY <2>1 DEF Phase, Before
  <2>4. CASE /\ mode = "listen" /\ serve' = "serving" /\ UNCHANGED localVars
             /\ acc' = [f \in Families |-> IF f \in lns THEN "slot" ELSE "off"]
    <3>1. Accepting = {} /\ Accepting' = {}
      BY <2>3, <2>4 DEF Accepting
    <3>5. bind = "bound"
      BY <2>1, <2>4 DEF Phase
    <3>2. Binding' /\ Tracked' /\ Slots'
      BY <2>1, <2>2, <2>3, <3>1, <3>5, BindStutters, TrackStutters DEF Listener, Slots
    <3>3. ListenTypes'
      BY <2>1, <2>4 DEF Listener, ListenTypes, bindVars, trackVars
    <3>4. ServeTypes' /\ Phase'
      BY <2>1, <2>2, <2>3, <2>4 DEF ServeTypes, Phase, Before
    <3> QED BY <2>2, <2>4, <3>2, <3>3, <3>4, LocalStutters DEF Listener
  <2>5. CASE /\ mode = "stdio" /\ serve' = "run" /\ UNCHANGED acc /\ \E r \in Runs : RunRegisters(r)
    <3>1. UNCHANGED listenVars
      BY <2>1, <2>5 DEF listenVars, connVars
    <3>2. ServeTypes' /\ Phase'
      BY <2>1, <2>2, <2>3, <2>5 DEF ServeTypes, Phase, Before
    <3> QED BY <2>2, <2>5, <3>1, <3>2, ListenStutters, RunStep
  <2> QED BY <1>4, <2>4, <2>5 DEF ServeNewReady
<1>5. CASE ServeNoHandler
  <2>1. /\ UNCHANGED <<mode, signal, localVars, asked, missing, foreign, bind, inner, outer, lport,
                       connVars, trackVars, hook, graceOver>>
        /\ serve = "new" /\ mode = "listen" /\ Close /\ Settles
        /\ lns' = {} /\ held' = FALSE /\ serve' = "close" /\ code' = 2
    BY <1>5 DEF ServeNoHandler
  <2>2. UpInv' /\ LocalInv' /\ ServeTypes'
    BY <2>1, UpStepKeeps, LocalStutters DEF Step, ServeTypes
  <2>3. hook = "off" /\ bind = "bound" /\ UNCHANGED <<acc, conn>>
    BY <2>1 DEF Phase, Before, connVars
  <2>4. Phase'
    BY <2>1, <2>3 DEF Phase, Before
  <2>5. Binding'
    BY <2>1, <2>3 DEF Listener, Binding
  <2>6. held' \in BOOLEAN /\ lns' \subseteq Families
    BY <2>1
  <2>7. ListenTypes'
    BY <2>1, <2>6 DEF Listener, ListenTypes, connVars, trackVars
  <2>8. Tracked' /\ Slots'
    BY <2>1, TrackStutters, SlotStutters DEF Listener, connVars
  <2> QED BY <2>2, <2>4, <2>5, <2>7, <2>8 DEF Listener
<1> QED BY <1>1, <1>2, <1>3, <1>4, <1>5

\* runListener's select keeps ServeInv.
LEMMA StopKeeps == ASSUME ServeInv, OnSignal \/ OnUpstreamExit \/ OnServeError PROVE ServeInv'
<1> USE DEF ServeInv
<1>1. PICK c \in {0, 1} : StopServing(c) /\ (c = 0 => signal)
  BY DEF OnSignal, OnUpstreamExit, OnServeError
<1>2. /\ serve = "serving" /\ code' = c /\ serve' = "shutdown" /\ lns' = {} /\ held' = FALSE /\ hook' = "start"
      /\ old' = {x \in Conns : conn[x] = "request"}
      /\ UNCHANGED <<mode, signal, vars, asked, missing, foreign, bind, inner, outer, lport,
                     connVars, n, idle, graceOver, localVars>>
  BY <1>1 DEF StopServing
<1>3. UpInv' /\ LocalInv' /\ Slots' /\ UNCHANGED <<main, acc, conn>>
  BY <1>2, UpStutters, LocalStutters, SlotStutters DEF Listener, vars, connVars
<1>4. hook = "off" /\ mode = "listen"
  BY <1>2 DEF Phase
<1>5. InFlight' = InFlight /\ old' \subseteq InFlight
  BY <1>2, <1>3 DEF InFlight
<1>6. Tracked'
  BY <1>2, <1>4, <1>5 DEF Listener, Tracked, GraceIsKept
<1>7. Binding'
  <2>1. bind = "bound"
    BY <1>2, <1>4 DEF Phase
  <2> QED BY <1>2, <2>1 DEF Listener, Binding
<1>10. held' \in BOOLEAN /\ lns' \subseteq Families
  BY <1>2
<1>11. ListenTypes'
  BY <1>2, <1>10 DEF Listener, ListenTypes, connVars
<1>8. ServeTypes'
  BY <1>1, <1>2 DEF ServeTypes
<1>9. Phase'
  BY <1>1, <1>2, <1>3, <1>4 DEF Phase, Before
<1> QED BY <1>3, <1>6, <1>7, <1>8, <1>9, <1>11 DEF Listener

\* Shutdown, and the Close of what it left, keep ServeInv.
LEMMA ShutdownKeeps == ASSUME ServeInv, ShutdownEnds PROVE ServeInv'
<1> USE DEF ServeInv
<1>1. /\ serve = "shutdown" /\ serve' = "hook"
      /\ UNCHANGED <<mode, signal, code, vars, bindVars, lns, trackVars, hook, graceOver, localVars>>
  BY DEF ShutdownEnds
<1>7. acc' = acc
  BY DEF ShutdownEnds, connVars
<1>2. UpInv' /\ LocalInv' /\ Binding' /\ ServeTypes' /\ UNCHANGED <<main, bind, held>>
  BY <1>1, <1>7, UpStutters, LocalStutters, BindStutters DEF Listener, ServeTypes, vars, bindVars
<1>3. mode = "listen" /\ lns = {} /\ ~held
  BY <1>1 DEF Phase
<1>4. ASSUME OpenConns' = {} PROVE Phase'
  BY <1>1, <1>2, <1>3, <1>4 DEF Phase, Before
<1>5. CASE (\A c \in Conns : conn[c] = "none") /\ UNCHANGED connVars
  <2>1. OpenConns' = {}
    BY <1>5 DEF OpenConns, OpenConn, connVars
  <2>2. Listener'
    BY <1>1, <1>5, ListenStutters DEF listenVars
  <2> QED BY <1>2, <1>4, <2>1, <2>2
<1>6. CASE /\ graceOver
           /\ conn' = [c \in Conns |-> CASE conn[c] = "request" -> "cut"
                                         [] conn[c] \in OpenConn \ {"request"} -> "broken"
                                         [] OTHER -> conn[c]]
           /\ sem' = sem - Cardinality({c \in Conns : conn[c] \in OpenConn})
           /\ released' = [c \in Conns |-> released[c] \/ conn[c] \in OpenConn]
           /\ UNCHANGED <<acc, timer>>
  <2>1. \A c \in Conns :
          /\ conn[c] = "request" => conn'[c] = "cut"
          /\ conn[c] \in OpenConn \ {"request"} => conn'[c] = "broken"
          /\ conn[c] \in {"none", "broken", "cut"} => conn'[c] = conn[c]
    BY <1>6 DEF OpenConn
  <2>2. \A c \in Conns : conn[c] \in OpenConn \cup {"none", "broken", "cut"}
    BY DEF Listener, ListenTypes
  <2>3. \A c \in Conns : conn'[c] \in {"none", "broken", "cut"}
    BY <2>1, <2>2 DEF OpenConn
  <2>4. conn' \in [Conns -> OpenConn \cup {"none", "broken", "cut"}]
    BY <1>6, <2>3
  <2>5. OpenConns' = {}
    BY <2>3 DEF OpenConns, OpenConn
  <2>6. InFlight' = InFlight
    BY <2>1, <2>2 DEF InFlight, OpenConn
  <2>7. Tracked'
    BY <1>1, <2>6 DEF Listener, Tracked, trackVars, GraceIsKept
  <2>8. \A c \in Conns : released'[c] = (released[c] \/ conn[c] \in OpenConn)
    BY <1>6
  <2>9. released' \in [Conns -> BOOLEAN]
    BY <1>6
  <2>10. ListenTypes'
    BY <1>1, <1>6, <2>4, <2>9 DEF Listener, ListenTypes, bindVars, trackVars
  <2>11. Accepting' = Accepting
    BY <1>6 DEF Accepting
  <2>12. sem' = sem - Cardinality(OpenConns) /\ Cardinality(OpenConns') = 0
    BY <1>6, <2>5, FS_EmptySet DEF OpenConns
  <2>13. sem' <= MaxConns /\ sem' = Cardinality(Accepting') + Cardinality(OpenConns')
    BY <2>11, <2>12, Counted, ListenAssumption DEF Listener, Slots
  <2>14. \A c \in Conns : /\ conn'[c] \in OpenConn => ~released'[c]
                          /\ conn'[c] \in {"broken", "cut"} => released'[c]
                          /\ conn'[c] = "none" /\ timer'[c] # "off" => released'[c]
    BY <1>6, <2>1, <2>2, <2>3, <2>8 DEF Listener, Slots, OpenConn
  <2>15. Slots'
    BY <2>13, <2>14 DEF Slots
  <2> QED BY <1>2, <1>4, <2>5, <2>7, <2>10, <2>15 DEF Listener
<1> QED BY <1>1, <1>5, <1>6 DEF ShutdownEnds

\* The hook's Proxy.Close keeps ServeInv.
LEMMA HookKeeps == ASSUME ServeInv, HookCloses \/ HookEnds PROVE ServeInv'
<1> USE DEF ServeInv
<1>1. /\ UNCHANGED <<serveVars, bindVars, lns, connVars, trackVars, graceOver, localVars>>
      /\ hook \in {"close", "closing"} /\ hook' \in {"closing", "ended"}
  BY DEF HookCloses, HookEnds
<1>2. UNCHANGED <<mode, serve, signal, code, bind, held, acc, conn>>
  BY <1>1 DEF serveVars, bindVars, connVars
<1>3. LocalInv' /\ Binding' /\ Slots' /\ ServeTypes' /\ InFlight' = InFlight /\ OpenConns' = OpenConns
  BY <1>1, <1>2, LocalStutters, BindStutters, SlotStutters DEF Listener, ServeTypes, InFlight, OpenConns
<1>4. Tracked' /\ ListenTypes'
  BY <1>1, <1>3 DEF Listener, Tracked, GraceIsKept, trackVars, ListenTypes, bindVars, connVars
<1>5. UpInv'
  BY UpStutters, UpStepKeeps DEF HookCloses, HookEnds, Step
<1>6. /\ hook' = "ended" => main' = "closed"
      /\ main \in {"off", "failed", "closed"} => main' \in {"off", "failed", "closed"}
  BY DEF HookCloses, HookEnds, Close, vars
<1>7. Phase'
  BY <1>1, <1>2, <1>3, <1>6 DEF Phase, Before
<1> QED BY <1>3, <1>4, <1>5, <1>7 DEF Listener

\* The ends of both paths, and a signal, keep ServeInv.
LEMMA EndKeeps ==
  ASSUME ServeInv, HookDone \/ ServedDone \/ CloseReturned \/ Signalled \/ RunReturns PROVE ServeInv'
<1> USE DEF ServeInv
<1>1. UNCHANGED <<mode, listenVars, localVars>>
  BY DEF HookDone, ServedDone, CloseReturned, Signalled, RunReturns
<1>2. UNCHANGED <<bind, lns, held, acc, conn, hook>> /\ OpenConns' = OpenConns
  BY <1>1 DEF listenVars, bindVars, connVars, OpenConns
<1>3. LocalInv' /\ Listener'
  BY <1>1, LocalStutters, ListenStutters
<1>4. CASE HookDone \/ ServedDone \/ CloseReturned
  <2>1. UpInv' /\ ServeTypes' /\ UNCHANGED <<main, signal, code>>
    BY <1>1, <1>4, UpStutters DEF HookDone, ServedDone, CloseReturned, ServeTypes, vars
  <2>2. serve = "close" => lns = {} /\ ~held /\ OpenConns = {} /\ hook = "off"
    BY DEF Phase, Before, OpenConns, OpenConn
  <2>3. Phase'
    BY <1>1, <1>2, <1>4, <2>1, <2>2 DEF HookDone, ServedDone, CloseReturned, Phase, Before
  <2> QED BY <1>3, <2>1, <2>3
<1>5. CASE Signalled
  <2>1. UpInv' /\ ServeTypes' /\ UNCHANGED <<main, serve, code>> /\ signal'
    BY <1>1, <1>5, UpStutters DEF Signalled, ServeTypes, vars
  <2>2. Phase'
    BY <1>1, <1>2, <2>1 DEF Phase
  <2> QED BY <1>3, <2>1, <2>2
<1>6. CASE RunReturns
  <2>1. serve = "run" /\ serve' = "close" /\ code' \in {0, 1} /\ signal' = signal /\ Close /\ Settles
    BY <1>6 DEF RunReturns
  <2>2. UpInv' /\ ServeTypes'
    BY <1>1, <2>1, UpStepKeeps DEF Step, ServeTypes
  <2>3. mode = "stdio" /\ hook = "off" /\ lns = {} /\ ~held
    BY <2>1 DEF Phase, Listener, Binding
  <2>4. Phase'
    BY <1>1, <1>2, <2>1, <2>3 DEF Phase, Before
  <2> QED BY <1>3, <2>2, <2>4
<1> QED BY <1>4, <1>5, <1>6

\* ServeInv holds at the start.
LEMMA ServeInitially == ServeInit => ServeInv
<1> SUFFICES ASSUME ServeInit PROVE ServeInv
  OBVIOUS
<1> USE DEF ServeInit
<1>1. UpInv /\ LocalInv
  BY UpInitially, LocalInitially
<1>2. ServeTypes
  BY DEF ServeTypes
<1>7. 1 \in 1..BindAttempts
  BY ListenAssumption
<1>8. held \in BOOLEAN /\ graceOver \in BOOLEAN
  BY DEF ListenInit
<1>9. timer \in [Conns -> {"off", "armed", "fired"}] /\ released \in [Conns -> BOOLEAN]
  BY DEF ListenInit
<1>10. acc \in [Families -> {"off", "slot", "accept", "ended"}]
       /\ conn \in [Conns -> OpenConn \cup {"none", "broken", "cut"}]
  BY DEF ListenInit
<1>11. ListenTypes
  BY <1>7, <1>8, <1>9, <1>10 DEF ListenTypes, ListenInit, AnyPort
<1>3. InFlight = {} /\ Accepting = {} /\ OpenConns = {}
  BY DEF InFlight, Accepting, OpenConns, ListenInit, OpenConn
<1>4. Binding /\ Phase
  BY <1>3 DEF Binding, Phase, ListenInit, Init
<1>5. Tracked
  BY <1>3, FS_EmptySet DEF Tracked, ListenInit, GraceIsKept
<1>6. Slots
  BY <1>3, FS_EmptySet, ListenAssumption DEF Slots, ListenInit, OpenConn
<1> QED BY <1>1, <1>2, <1>4, <1>5, <1>6, <1>11 DEF ServeInv, Listener

\* ServeInv is about allVars alone.
LEMMA ServeStutters == ASSUME ServeInv, UNCHANGED allVars PROVE ServeInv'
<1>1. UNCHANGED <<mode, serve, signal, code, main, bind, lns, held, acc, conn, hook>>
  BY DEF allVars, serveVars, vars, listenVars, bindVars, connVars
<1>2. OpenConns' = OpenConns
  BY <1>1 DEF OpenConns
<1>3. ServeTypes' /\ Phase'
  BY <1>1, <1>2 DEF ServeInv, ServeTypes, Phase
<1> QED BY <1>3, UpStutters, LocalStutters, ListenStutters DEF ServeInv, allVars

\* Every step of serve keeps ServeInv.
LEMMA ServeInvariant == ServeInit /\ [][ServeNext]_allVars => []ServeInv
<1>1. ServeInv /\ [ServeNext]_allVars => ServeInv'
  BY UpstreamKeeps, ListenKeeps, LocalKeeps, BeginKeeps, StopKeeps, ShutdownKeeps, HookKeeps, EndKeeps, ServeStutters
  DEF ServeNext, ServeStep
<1> QED BY ServeInitially, <1>1, PTL

\* ServeInv gives the four properties.
LEMMA ServeFollows ==
  ASSUME ServeInv PROVE ProcessesHold /\ LocalKeysHold /\ ExitsTell /\ ListenerHolds
<1> USE DEF ServeInv
<1>1. ProcessesHold /\ ExitIsItsOwn /\ ExitedOnItsOwn /\ LocalKeysHold /\ LocalTypeOK /\ TypeOK /\ NothingLeft
  BY ProcessesFollow, ExitsFollow, LocalKeysFollow, UpTypesFollow, NothingLeftFollows
<1>2. ExitsTell
  BY <1>1 DEF ExitsTell, ExitCodeTells, Phase
<1>3. ListenTypeOK
  <2>1. sem \in 0..MaxConns
    BY Counted, ListenAssumption DEF Listener, Slots
  <2>2. n \in 0..Cardinality(Conns)
    BY Counted, ListenAssumption, FS_Subset, FS_CardinalityType DEF Listener, Tracked
  <2>3. old \subseteq Conns
    BY Counted DEF Listener, Tracked
  <2> QED BY <2>1, <2>2, <2>3 DEF Listener, ListenTypes, ListenTypeOK
<1>4. ServeTypeOK
  BY <1>1, <1>3 DEF ServeTypeOK, ServeTypes
<1>5. NoForeignTwin
  <2>1. ASSUME Listening, NEW f \in Families PROVE <<lport, f>> \notin foreign
    <3>1. f \in lns \/ f \in missing
      BY <2>1 DEF Listener, Binding, Listening, Bound
    <3>2. CASE f \in lns
      BY <3>2 DEF Listener, Binding
    <3>3. CASE f \in missing
      <4>1. \A p \in Ports : <<p, f>> \notin foreign
        BY <3>3 DEF Listener, Binding
      <4>2. <<lport, f>> \in foreign => lport \in Ports
        BY DEF Listener, ListenTypes
      <4> QED BY <4>1, <4>2
    <3> QED BY <3>1, <3>2, <3>3
  <2>2. ASSUME Listening, Holds PROVE <<lport, "any">> \notin foreign
    BY <2>2 DEF Listener, Binding, Listening, Bound
  <2> QED BY <2>1, <2>2 DEF NoForeignTwin, Listener, Binding
<1>6. SlotsExact
  BY DEF SlotsExact, Listener, Slots, Accepting, OpenConns
<1>7. GraceIsKept
  BY DEF Listener, Tracked
<1>8. NothingLeftServing
  <2> SUFFICES ASSUME serve = "returned"
               PROVE  /\ lns = {} /\ ~held
                      /\ \A c \in Conns : conn[c] \notin OpenConn
                      /\ \A a \in Attempts : NothingSignallable(a)
    BY DEF NothingLeftServing
  <2>1. lns = {} /\ ~held /\ OpenConns = {} /\ main \in {"off", "failed", "closed"}
    BY DEF Phase
  <2>2. \A c \in Conns : conn[c] \notin OpenConn
    BY <2>1 DEF OpenConns
  <2>3. CASE main = "off"
    <3>1. att = 1 /\ Gone(1)
      BY <2>3 DEF UpInv, Phases, Connecting, UpScalars, Transport, Gone
    <3>2. Untouched(2)
      BY <3>1 DEF UpInv, OtherAttempt
    <3>3. \A a \in Attempts : NothingSignallable(a)
      BY <3>1, <3>2 DEF Attempts, Gone, Untouched, NothingSignallable
    <3> QED BY <2>1, <2>2, <3>3
  <2> QED BY <1>1, <2>1, <2>2, <2>3 DEF NothingLeft
<1> QED BY <1>1, <1>2, <1>4, <1>5, <1>6, <1>7, <1>8 DEF ListenerHolds

(***************************************************************************)
(* The theorems.                                                           *)
(***************************************************************************)
\* serve, with any upstream, any connections and any local agents: one
\* upstream process at a time and none left, exact slots, no foreign program
\* beside the listener, requests served out within the grace, nothing left
\* when it returns, and an exit that tells the truth.
THEOREM ServeAlwaysHolds ==
  ServeInit /\ [][ServeNext]_allVars =>
    [](ProcessesHold /\ LocalKeysHold /\ ExitsTell /\ ListenerHolds)
  BY ServeInvariant, ServeFollows, PTL

\* What TLC explores is serve.
LEMMA MCIsServe == MCSpec => ServeInit /\ [][ServeNext]_allVars
<1>1. MCInit => ServeInit
  BY DEF MCInit
<1>2. [MCNext]_allVars => [ServeNext]_allVars
  BY DEF MCNext
<1> QED BY <1>1, <1>2, PTL DEF MCSpec

\* A local agent's call never has the key of another session and is never
\* taken for a stranger's while its Run serves it (localKey, Run).
THEOREM LocalKeysAlwaysHold == MCSpec => []LocalKeysHold
  BY MCIsServe, ServeInvariant, ServeFollows, PTL

\* The listener from bind to return (bindLoopback, limitedListener,
\* requestTracker, runListener).
THEOREM ListenerAlwaysHolds == MCSpec => []ListenerHolds
  BY MCIsServe, ServeInvariant, ServeFollows, PTL

\* An exit status, the exited signal and exit code 0 tell the truth
\* (endedOnItsOwn, connectUpstream, runListener).
THEOREM ExitsAlwaysTell == MCSpec => []ExitsTell
  BY MCIsServe, ServeInvariant, ServeFollows, PTL
=============================================================================
