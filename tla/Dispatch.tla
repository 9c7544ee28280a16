------------------------------ MODULE Dispatch ------------------------------
(***************************************************************************)
(* internal/proxy/gate.go: the path of a tools/call through the proxy with *)
(* a Gate set, for any number of calls at once.  Each call is a goroutine; *)
(* pc[c] says how far gated has got with it.  The calls of one counter key *)
(* share a sessionCounter: a one-slot lock taken with the call's context,  *)
(* the remembered target names, and a count of those past the cap.         *)
(*                                                                         *)
(*   entered    gated has not looked at it yet                             *)
(*   lock       before sessionCounter.lock                                 *)
(*   waiting    in lock's second select                                    *)
(*   locked     holds the lock, Decide not run                             *)
(*   counting   Decide has answered, the lock is still held                *)
(*   decided    has its verdict, no decision line yet                      *)
(*   forwarding the gate let it through, nothing sent yet                  *)
(*   sent       the upstream has it                                        *)
(*   done       the agent has its result                                   *)
(*                                                                         *)
(* A call id is used again once its call is done.                          *)
(***************************************************************************)
EXTENDS GateDecide

CONSTANTS
  Callers,         \* call ids: how many calls may be under way at once
  Principals,      \* who calls; on stdio there is one agent
  Requests,        \* [in, principal, session, tooLarge, badState]
  Transport,       \* "http" or "stdio"
  Policy,          \* the policy in force
  MaxTouchedNames, \* maxTouchedNames
  NoRequest        \* a caller that has not called yet

ASSUME DispatchAssumption ==
  /\ Policy.maxDevices \in Nat
  /\ MaxTouchedNames \in Nat
  /\ \A r \in Requests : r.principal \in Principals
  /\ NoRequest \notin Requests

VARIABLES
  pc,          \* caller -> stage
  req,         \* caller -> its request
  cancelled,   \* callers whose context has ended
  verdict,     \* caller -> the verdict of this call
  lines,       \* caller -> decision lines written for this call
  result,      \* caller -> what the agent got
  sem,         \* counter key -> the callers in the lock's slot
  touched,     \* counter key -> the names remembered
  extra,       \* counter key -> names counted past MaxTouchedNames
  exited,      \* servers whose process has ended
  granted,     \* principal -> devices of the calls the gate let through
  reached      \* principal -> devices of the calls sent

vars == <<pc, req, cancelled, verdict, lines, result, sem, touched, extra,
          exited, granted, reached>>

callVars    == <<pc, req, cancelled, verdict, lines, result>>
counterVars == <<sem, touched, extra>>
history     == <<granted, reached>>

Stages == {"idle", "entered", "lock", "waiting", "locked", "counting", "decided",
           "forwarding", "sent", "done"}

Results == {"none", "stateError", "down", "ctxError", "refused", "answered"}

\* A call the gate has not decided.
NoVerdict == <<>>

Servers == {r.in.server : r \in Requests}

\* Mutant: HTTP calls are counted by session.
CounterKeyBySession(r) ==
  IF Transport = "http" THEN <<"session", r.session>> ELSE <<"process">>

\* counterKey: the principal over HTTP, the process on stdio.
CounterKey(r) ==
  IF Transport = "http" THEN <<"principal", r.principal>> ELSE <<"process">>

Keys == {CounterKey(r) : r \in Requests}

KeyOf(c) == CounterKey(req[c])

\* Mutant: names past the cap are dropped from the count.
TouchedCountRemembered(k) == Cardinality(touched[k])

TouchedCount(k) == Cardinality(touched[k]) + extra[k]

Init ==
  /\ pc = [c \in Callers |-> "idle"]
  /\ req = [c \in Callers |-> NoRequest]
  /\ cancelled = {}
  /\ verdict = [c \in Callers |-> NoVerdict]
  /\ lines = [c \in Callers |-> 0]
  /\ result = [c \in Callers |-> "none"]
  /\ sem = [k \in Keys |-> {}]
  /\ touched = [k \in Keys |-> {}]
  /\ extra = [k \in Keys |-> 0]
  /\ exited = {}
  /\ granted = [p \in Principals |-> {}]
  /\ reached = [p \in Principals |-> {}]

-----------------------------------------------------------------------------
(* gated, before the decision *)

Arrive(c, r) ==
  /\ pc[c] \in {"idle", "done"}
  /\ pc' = [pc EXCEPT ![c] = "entered"]
  /\ req' = [req EXCEPT ![c] = r]
  /\ cancelled' = cancelled \ {c}
  /\ verdict' = [verdict EXCEPT ![c] = NoVerdict]
  /\ lines' = [lines EXCEPT ![c] = 0]
  /\ result' = [result EXCEPT ![c] = "none"]
  /\ UNCHANGED <<counterVars, exited, history>>

\* The call is over and the agent gets res.
Return(c, res) ==
  /\ pc' = [pc EXCEPT ![c] = "done"]
  /\ result' = [result EXCEPT ![c] = res]

\* A retry's requestState is opened before anything else.
StateRefused(c) ==
  /\ pc[c] = "entered" /\ req[c].badState
  /\ Return(c, "stateError")
  /\ UNCHANGED <<req, cancelled, verdict, lines, counterVars, exited, history>>

DownAtEntry(c) ==
  /\ pc[c] = "entered" /\ ~req[c].badState /\ req[c].in.server \in exited
  /\ Return(c, "down")
  /\ UNCHANGED <<req, cancelled, verdict, lines, counterVars, exited, history>>

Proceeds(c) ==
  pc[c] = "entered" /\ ~req[c].badState /\ req[c].in.server \notin exited

\* refusalVerdict: the proxy's own deny, for a call nobody classified.
ProxyRefusal(rule) ==
  Verdict(Denied(rule), Result("EXEC_ARBITRARY", "proxy"), {})

\* Mutant: the early refusal writes no decision line.
TooLargeUnlogged(c) ==
  /\ Proceeds(c) /\ req[c].tooLarge
  /\ Return(c, "refused")
  /\ verdict' = [verdict EXCEPT ![c] = ProxyRefusal("default:bad_arguments")]
  /\ UNCHANGED <<req, cancelled, lines, counterVars, exited, history>>

\* Too large to be looked at: refused without the lock.
TooLarge(c) ==
  /\ Proceeds(c) /\ req[c].tooLarge
  /\ pc' = [pc EXCEPT ![c] = "decided"]
  /\ verdict' = [verdict EXCEPT ![c] = ProxyRefusal("default:bad_arguments")]
  /\ UNCHANGED <<req, cancelled, lines, result, counterVars, exited, history>>

ToLock(c) ==
  /\ Proceeds(c) /\ ~req[c].tooLarge
  /\ pc' = [pc EXCEPT ![c] = "lock"]
  /\ UNCHANGED <<req, cancelled, verdict, lines, result, counterVars, exited, history>>

-----------------------------------------------------------------------------
(* The counter key's lock *)

\* Mutant: the slot is taken without waiting for it.
TakeSlotAnyway(c) ==
  /\ sem' = [sem EXCEPT ![KeyOf(c)] = @ \cup {c}]
  /\ pc' = [pc EXCEPT ![c] = "locked"]

TakeSlot(c) ==
  /\ sem[KeyOf(c)] = {}
  /\ sem' = [sem EXCEPT ![KeyOf(c)] = {c}]
  /\ pc' = [pc EXCEPT ![c] = "locked"]

\* The first select does not look at the context.
TryLock(c) ==
  /\ pc[c] = "lock"
  /\ \/ TakeSlot(c)
     \/ /\ sem[KeyOf(c)] # {}
        /\ pc' = [pc EXCEPT ![c] = "waiting"]
        /\ UNCHANGED sem
  /\ UNCHANGED <<req, cancelled, verdict, lines, result, touched, extra, exited, history>>

\* The second takes whichever is ready, the slot or the end of the context.
Acquire(c) ==
  /\ pc[c] = "waiting"
  /\ TakeSlot(c)
  /\ UNCHANGED <<req, cancelled, verdict, lines, result, touched, extra, exited, history>>

\* Mutant: the end of the context is noticed only once the slot is free.
GiveUpOnceFree(c) ==
  /\ pc[c] = "waiting" /\ c \in cancelled /\ sem[KeyOf(c)] = {}
  /\ Return(c, "ctxError")
  /\ UNCHANGED <<req, cancelled, verdict, lines, counterVars, exited, history>>

GiveUp(c) ==
  /\ pc[c] = "waiting" /\ c \in cancelled
  /\ Return(c, "ctxError")
  /\ UNCHANGED <<req, cancelled, verdict, lines, counterVars, exited, history>>

-----------------------------------------------------------------------------
(* decideLocked *)

\* One Decide, on the key's count and names as they are now.
GateDecides(c) ==
  /\ pc[c] = "locked"
  /\ pc' = [pc EXCEPT ![c] = "counting"]
  /\ verdict' = [verdict EXCEPT ![c] =
       Decide(Policy, req[c].in, TouchedCount(KeyOf(c)), touched[KeyOf(c)])]
  /\ UNCHANGED <<req, cancelled, lines, result, counterVars, exited, history>>

\* safeDecide: a panic is a deny.
GatePanics(c) ==
  /\ pc[c] = "locked"
  /\ pc' = [pc EXCEPT ![c] = "counting"]
  /\ verdict' = [verdict EXCEPT ![c] = ProxyRefusal("default:internal_error")]
  /\ UNCHANGED <<req, cancelled, lines, result, counterVars, exited, history>>

\* The names of T that are remembered; touch goes through T in the order the
\* agent sent it, so when not all fit any of them may be left out.
Remembered(k, T) ==
  LET new  == T \ touched[k]
      room == MaxTouchedNames - Cardinality(touched[k])
  IN {R \in SUBSET new :
        Cardinality(R) = IF Cardinality(new) < room THEN Cardinality(new) ELSE room}

\* touch, for a call that is let through, and the deferred unlock.
CountAndUnlock(c) ==
  LET k == KeyOf(c)
      T == IF verdict[c].forward THEN verdict[c].targets ELSE {}
  IN /\ pc[c] = "counting"
     /\ \E R \in Remembered(k, T) :
          /\ touched' = [touched EXCEPT ![k] = @ \cup R]
          /\ extra' = [extra EXCEPT ![k] =
                         @ + (Cardinality(T \ touched[k]) - Cardinality(R))]
     /\ granted' = [granted EXCEPT ![req[c].principal] = @ \cup T]
     /\ sem' = [sem EXCEPT ![k] = {}]
     /\ pc' = [pc EXCEPT ![c] = "decided"]
     /\ UNCHANGED <<req, cancelled, verdict, lines, result, exited, reached>>

-----------------------------------------------------------------------------
(* decideAndRespond after the decision, and forward *)

LogDecision(c) ==
  /\ pc[c] = "decided"
  /\ lines' = [lines EXCEPT ![c] = @ + 1]
  /\ IF verdict[c].forward
     THEN pc' = [pc EXCEPT ![c] = "forwarding"] /\ UNCHANGED result
     ELSE Return(c, "refused")
  /\ UNCHANGED <<req, cancelled, verdict, counterVars, exited, history>>

\* forward asks again whether the upstream has exited.
DownAtForward(c) ==
  /\ pc[c] = "forwarding" /\ req[c].in.server \in exited
  /\ Return(c, "down")
  /\ UNCHANGED <<req, cancelled, verdict, lines, counterVars, exited, history>>

Send(c) ==
  /\ pc[c] = "forwarding" /\ req[c].in.server \notin exited
  /\ pc' = [pc EXCEPT ![c] = "sent"]
  /\ reached' = [reached EXCEPT ![req[c].principal] = @ \cup verdict[c].targets]
  /\ UNCHANGED <<req, cancelled, verdict, lines, result, counterVars, exited, granted>>

\* A call whose context ends first is not written to the upstream.
CancelledUnsent(c) ==
  /\ pc[c] = "forwarding" /\ c \in cancelled
  /\ Return(c, "ctxError")
  /\ UNCHANGED <<req, cancelled, verdict, lines, counterVars, exited, history>>

\* The upstream answers, or its process ends, or the call's context does.
Finish(c) ==
  /\ pc[c] = "sent"
  /\ \/ Return(c, "answered")
     \/ req[c].in.server \in exited /\ Return(c, "down")
     \/ c \in cancelled /\ Return(c, "ctxError")
  /\ UNCHANGED <<req, cancelled, verdict, lines, counterVars, exited, history>>

-----------------------------------------------------------------------------
(* The environment *)

Cancel(c) ==
  /\ pc[c] \notin {"idle", "done"} /\ c \notin cancelled
  /\ cancelled' = cancelled \cup {c}
  /\ UNCHANGED <<pc, req, verdict, lines, result, counterVars, exited, history>>

UpstreamExits(s) ==
  /\ s \notin exited
  /\ exited' = exited \cup {s}
  /\ UNCHANGED <<callVars, counterVars, history>>

-----------------------------------------------------------------------------
Step(c) ==
  \/ StateRefused(c) \/ DownAtEntry(c) \/ TooLarge(c) \/ ToLock(c)
  \/ TryLock(c) \/ Acquire(c) \/ GiveUp(c)
  \/ GateDecides(c) \/ GatePanics(c) \/ CountAndUnlock(c)
  \/ LogDecision(c) \/ DownAtForward(c) \/ Send(c) \/ CancelledUnsent(c) \/ Finish(c)

Next ==
  \/ \E c \in Callers : Step(c) \/ Cancel(c) \/ \E r \in Requests : Arrive(c, r)
  \/ \E s \in Servers : UpstreamExits(s)

Spec == Init /\ [][Next]_vars

\* The goroutine of a call keeps running: whatever the proxy's own code can
\* do, it does.  Nothing is assumed of the agent (Arrive, Cancel), of the
\* upstream (Finish, UpstreamExits) or of the gate's Decide.  A blocked send
\* on the lock's channel is served in turn, so Acquire is strongly fair.  The
\* other steps of a call follow one another, so one condition covers them.
ProxyFairness ==
  \A c \in Callers :
    /\ WF_vars(\/ StateRefused(c) \/ DownAtEntry(c) \/ TooLarge(c) \/ ToLock(c)
               \/ TryLock(c) \/ GiveUp(c) \/ CountAndUnlock(c) \/ LogDecision(c)
               \/ DownAtForward(c) \/ Send(c) \/ CancelledUnsent(c))
    /\ SF_vars(Acquire(c))

FairSpec == Spec /\ ProxyFairness

\* Decide ends, with an answer or a panic.
GateFairness == \A c \in Callers : []<>(pc[c] # "locked")

-----------------------------------------------------------------------------
(* Properties *)

\* Every variable keeps its type; at most MaxTouchedNames names of a key are
\* remembered.
TypeOK ==
  /\ pc \in [Callers -> Stages]
  /\ req \in [Callers -> Requests \cup {NoRequest}]
  /\ \A c \in Callers : pc[c] # "idle" => req[c] \in Requests
  /\ cancelled \subseteq Callers
  /\ lines \in [Callers -> Nat]
  /\ result \in [Callers -> Results]
  /\ sem \in [Keys -> SUBSET Callers]
  /\ touched \in [Keys -> SUBSET ValidTarget]
  /\ \A k \in Keys : Cardinality(touched[k]) <= MaxTouchedNames
  /\ extra \in [Keys -> Nat]
  /\ exited \subseteq Servers
  /\ granted \in [Principals -> SUBSET ValidTarget]
  /\ reached \in [Principals -> SUBSET ValidTarget]

\* defaults.session.max_devices: however its calls interleave, across all of
\* its sessions, the devices a principal's calls are sent for never exceed
\* the cap (decide's lock around Decide and touch, counterKey, T0.57).
MaxDevicesHeld ==
  \A p \in Principals :
    Policy.maxDevices > 0 => Cardinality(reached[p]) <= Policy.maxDevices

\* "The count errs high, never low" (gated, counted, maxTouchedNames): a
\* key's count is at least the number of distinct devices its principal has
\* been let through for, also once names are no longer remembered.
CountErrsHigh ==
  \A r \in Requests : Cardinality(granted[r.principal]) <= TouchedCount(CounterKey(r))

\* No decision is taken on a stale count (decideLocked): until the lock is
\* given up, the verdict is what Decide would say of the counters as they are.
DecisionIsCurrent ==
  \A c \in Callers : pc[c] = "counting" =>
    verdict[c] \in {ProxyRefusal("default:internal_error"),
                    Decide(Policy, req[c].in, TouchedCount(KeyOf(c)), touched[KeyOf(c)])}

\* The lock's slot belongs to the one call that is deciding; no call that
\* has left decide, by an answer, a panic or a cancelled wait, keeps it.
LockHeldByDecider ==
  \A k \in Keys :
    /\ sem[k] = {c \in Callers : pc[c] \in {"locked", "counting"} /\ KeyOf(c) = k}
    /\ \A c, d \in sem[k] : c = d

\* One decision line (ADR 0026 step 8): a call that is over has exactly one
\* if the gate or the argument cap decided it and none otherwise, and no call
\* is with the upstream without a line saying it was forwarded.
OneDecisionLine ==
  \A c \in Callers :
    /\ pc[c] \in {"sent", "done"} =>
         lines[c] = IF verdict[c] = NoVerdict THEN 0 ELSE 1
    /\ pc[c] = "sent" => lines[c] = 1 /\ verdict[c].forward
    /\ pc[c] = "done" /\ result[c] = "answered" => verdict[c] # NoVerdict

\* The detailed protocol keeps the promise of DeviceBudget.
Budget == INSTANCE DeviceBudget WITH Devices <- ValidTarget, MaxDevices <- Policy.maxDevices

BudgetHeld == Budget!BudgetSpec

\* A call whose agent gives up does not wait behind another call's decision
\* (sessionCounter), even if that decision never ends.
CancelledWaiterLeaves ==
  \A c \in Callers : (pc[c] = "waiting" /\ c \in cancelled) ~> (pc[c] # "waiting")

\* If the gate always answers, every call is refused, sent or given up: no
\* call is lost in the queue for its key's lock.
EveryCallProceeds ==
  GateFairness => \A c \in Callers : (pc[c] = "entered") ~> (pc[c] \in {"sent", "done"})

\* What a key has forgotten of its principal's devices, it has counted.
ForgottenIsCounted ==
  \A r \in Requests :
    Cardinality(granted[r.principal] \ touched[CounterKey(r)]) <= extra[CounterKey(r)]

GrantedWithinCap ==
  \A p \in Principals :
    Policy.maxDevices > 0 => Cardinality(granted[p]) <= Policy.maxDevices

\* A call past the lock that is let through has had its devices granted.
ForwardedIsGranted ==
  \A c \in Callers :
    /\ pc[c] \in {"decided", "forwarding", "sent"} /\ verdict[c].forward
         => verdict[c].targets \subseteq granted[req[c].principal]
    /\ pc[c] \in {"forwarding", "sent"} => verdict[c].forward

ReachedIsGranted == \A p \in Principals : reached[p] \subseteq granted[p]

\* Why max_devices holds (decide, lock, touch): only the call in the slot of a
\* key is between lock and unlock, so the counters it decided on are those it
\* writes, and what a key no longer remembers it still counts.
IInv ==
  /\ TypeOK
  /\ verdict = [c \in Callers |-> verdict[c]]
  /\ LockHeldByDecider
  /\ DecisionIsCurrent
  /\ ForgottenIsCounted
  /\ GrantedWithinCap
  /\ ForwardedIsGranted
  /\ ReachedIsGranted

\* Nobody is stuck in the queue for a lock, behind a decision that ends or,
\* once its agent has given up, behind one that does not.
NoCallIsStuck == EveryCallProceeds /\ CancelledWaiterLeaves
=============================================================================
