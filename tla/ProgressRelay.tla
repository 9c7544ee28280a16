---------------------------- MODULE ProgressRelay ----------------------------
(***************************************************************************)
(* One call's progress relay (internal/proxy/progress.go).  Three threads  *)
(* share it under r.mu: the upstream's dispatch goroutine (upstreamProgress *)
(* and relay), the sender goroutine (run), and the call's own goroutine    *)
(* (unwatchProgress and finish, then the result).  A fourth party, the     *)
(* agent, may stop reading, which blocks whoever is writing to it.         *)
(*                                                                         *)
(* Progress is a number 1..MaxProgress; 0 stands for a nil pointer.  Time  *)
(* is counted in ticks, PerToken of which earn one notification.           *)
(* Refill only ever uses the time since the last refill up to a full       *)
(* bucket, so elapsed saturates there and the model needs no bound on time.*)
(***************************************************************************)
EXTENDS Integers, Sequences

CONSTANTS
  MaxProgress,   \* the highest progress an upstream reports
  Burst,         \* progressBurst: the bucket, and the length of the queue
  PerToken       \* ticks to earn a token (1 / progressRate)

ASSUME ProgressAssumption ==
  /\ MaxProgress \in Nat \ {0}
  /\ Burst \in Nat \ {0}
  /\ PerToken \in Nat \ {0}

VARIABLES
  call,       \* the call's goroutine, from the open call to its written result
  ctxUp,      \* the agent's request context is not done
  mapped,     \* u.progress[r.upToken] = r
  handler,    \* the notification upstreamProgress found the relay for, or 0
  done, abandoned, held, queue, last, \* progressRelay's fields; last = 0: not started
  tokens,     \* the bucket, in ticks
  elapsed,    \* ticks since refilled, up to a full bucket
  sender,     \* run: [pc, next]
  wake,       \* the one-slot doorbell
  timer,      \* ticks until run's timer fires; 0: not armed
  lock,       \* who holds the agent transport's write lock
  reading,    \* the agent reads
  wire,       \* what the agent has been sent: progress numbers, 0 the result
  credit      \* history: an eagerly refilled bucket, for comparison

relayVars == <<done, abandoned, held, queue, last, tokens, elapsed>>
vars == <<call, ctxUp, mapped, handler, relayVars, sender, wake, timer, lock,
          reading, wire, credit>>

Nil == 0
Result == 0
Progress == 1..MaxProgress
Full == Burst * PerToken
Least(a, b) == IF a < b THEN a ELSE b
Most(a, b) == IF a < b THEN b ELSE a

CallStates == {"open", "unwatched", "ring", "waiting", "ended", "writing", "answered"}
SenderStates == {"none", "loop", "taken", "checked", "writing", "waiting", "exited"}

TypeOK ==
  /\ call \in CallStates
  /\ ctxUp \in BOOLEAN /\ mapped \in BOOLEAN /\ done \in BOOLEAN
  /\ abandoned \in BOOLEAN /\ wake \in BOOLEAN /\ reading \in BOOLEAN
  /\ handler \in Progress \cup {Nil}
  /\ held \in Progress \cup {Nil} /\ last \in Progress \cup {0}
  /\ queue \in Seq(Progress) /\ Len(queue) <= Burst
  /\ tokens \in 0..Full /\ elapsed \in 0..Full /\ credit \in 0..(Full + 1)
  /\ sender \in [pc : SenderStates, next : Progress \cup {Nil}]
  /\ timer \in 0..Most(PerToken, 1)
  /\ lock \in {"free", "sender", "call"}
  /\ wire \in Seq(Progress \cup {Result}) /\ Len(wire) <= MaxProgress + 1

(***************************************************************************)
(* The token bucket.                                                       *)
(***************************************************************************)
Refill == Least(Full, tokens + elapsed)
CanTake == Refill >= PerToken

\* take leaves refilled where it was when it spends a token.
TakeKeepsClock ==
  /\ tokens' = IF CanTake THEN Refill - PerToken ELSE Refill
  /\ elapsed' = IF CanTake THEN elapsed ELSE 0

\* take: the bucket is refilled whether or not a token can be spent.
TakeBucket ==
  /\ tokens' = IF CanTake THEN Refill - PerToken ELSE Refill
  /\ elapsed' = 0

\* untilToken, after a take that failed: the bucket has just been refilled.
\* At least one tick stands for "at least a millisecond".
UntilToken(bucket) == Most(PerToken - bucket, 1)

\* push drops the oldest entry in place of the newest.
PushOverOldest(q, p) ==
  IF Len(q) = Burst THEN [q EXCEPT ![1] = p] ELSE Append(q, p)

\* push: a full queue has its newest entry replaced.
Push(q, p) ==
  IF Len(q) = Burst THEN [q EXCEPT ![Burst] = p] ELSE Append(q, p)

Spend(cost) == credit' = IF credit >= cost THEN credit - cost ELSE Full + 1

(***************************************************************************)
(* The upstream's dispatch goroutine.                                      *)
(***************************************************************************)
\* upstreamProgress: the relay is looked up under u.mu, and used after it.
UpstreamProgress(p) ==
  /\ handler = Nil
  /\ mapped
  /\ handler' = p
  /\ UNCHANGED <<call, ctxUp, mapped, relayVars, sender, wake, timer, lock,
                 reading, wire, credit>>

Accepts(p) == ~done /\ ctxUp /\ p > last

\* relay, under r.mu: drop, queue or hold back; the first one accepted starts
\* the sender; the doorbell is rung.
Relay ==
  /\ handler # Nil
  /\ handler' = Nil
  /\ \/ /\ ~Accepts(handler)
        /\ UNCHANGED <<relayVars, sender, wake, credit>>
     \/ /\ Accepts(handler)
        /\ last' = handler
        /\ sender' = IF sender.pc = "none" THEN [sender EXCEPT !.pc = "loop"] ELSE sender
        /\ TakeBucket
        /\ \/ CanTake /\ held' = Nil /\ queue' = Push(queue, handler) /\ Spend(PerToken)
           \/ ~CanTake /\ held' = handler /\ UNCHANGED <<queue, credit>>
        /\ wake' = TRUE
        /\ UNCHANGED <<done, abandoned>>
  /\ UNCHANGED <<call, ctxUp, mapped, timer, lock, reading, wire>>

(***************************************************************************)
(* The sender.                                                             *)
(***************************************************************************)
\* run, the part under r.mu: queue the held-back one if a slot is free, take
\* the oldest off the queue, and decide whether to stop or how long to wait.
RunLoop ==
  /\ sender.pc = "loop"
  /\ LET tries == ~done /\ held # Nil
         frees == tries /\ CanTake
         full  == IF frees THEN Push(queue, held) ELSE queue
         next  == IF ~abandoned /\ full # <<>> THEN Head(full) ELSE Nil
         stop  == abandoned \/ (done /\ next = Nil)
         keeps == held # Nil /\ ~frees
     IN /\ IF tries THEN TakeBucket ELSE UNCHANGED <<tokens, elapsed>>
        /\ IF frees THEN held' = Nil /\ Spend(PerToken) ELSE UNCHANGED <<held, credit>>
        /\ queue' = IF next # Nil THEN Tail(full) ELSE full
        /\ sender' = [pc |-> IF next # Nil THEN "taken"
                             ELSE IF stop THEN "exited" ELSE "waiting",
                      next |-> next]
        /\ timer' = IF next = Nil /\ ~stop /\ keeps THEN UntilToken(tokens') ELSE 0
  /\ UNCHANGED <<call, ctxUp, mapped, handler, done, abandoned, last, wake,
                 lock, reading, wire>>

\* run looks at the doorbell alone.
RunWakesOnDoorbell ==
  /\ sender.pc = "waiting"
  /\ wake /\ wake' = FALSE
  /\ timer' = 0
  /\ sender' = [sender EXCEPT !.pc = "loop"]
  /\ UNCHANGED <<call, ctxUp, mapped, handler, relayVars, lock, reading, wire, credit>>

\* The select: the doorbell or the timer.
RunWakes ==
  /\ sender.pc = "waiting"
  /\ \/ wake /\ wake' = FALSE
     \/ timer = 1 /\ UNCHANGED wake
  /\ timer' = 0
  /\ sender' = [sender EXCEPT !.pc = "loop"]
  /\ UNCHANGED <<call, ctxUp, mapped, handler, relayVars, lock, reading, wire, credit>>

\* sendCtx: the agent's request context, also cancelled when finish returns.
SendCtxUp == ctxUp /\ call \notin {"ended", "writing", "answered"}

\* NotifyProgress (external): the transport checks the context, then waits
\* for the write lock, then writes when the agent reads.
NotifyChecks ==
  /\ sender.pc = "taken"
  /\ sender' = IF SendCtxUp THEN [sender EXCEPT !.pc = "checked"]
                            ELSE [pc |-> "loop", next |-> Nil]
  /\ UNCHANGED <<call, ctxUp, mapped, handler, relayVars, wake, timer, lock,
                 reading, wire, credit>>

NotifyLocks ==
  /\ sender.pc = "checked" /\ lock = "free"
  /\ lock' = "sender"
  /\ sender' = [sender EXCEPT !.pc = "writing"]
  /\ UNCHANGED <<call, ctxUp, mapped, handler, relayVars, wake, timer,
                 reading, wire, credit>>

NotifyWrites ==
  /\ sender.pc = "writing" /\ reading
  /\ wire' = Append(wire, sender.next)
  /\ lock' = "free"
  /\ sender' = [pc |-> "loop", next |-> Nil]
  /\ UNCHANGED <<call, ctxUp, mapped, handler, relayVars, wake, timer,
                 reading, credit>>

(***************************************************************************)
(* The call's goroutine: unwatchProgress, finish, and go-sdk's result.     *)
(***************************************************************************)
Unwatch ==
  /\ call = "open"
  /\ call' = "unwatched"
  /\ mapped' = FALSE
  /\ UNCHANGED <<ctxUp, handler, relayVars, sender, wake, timer, lock, reading,
                 wire, credit>>

\* finish, under r.mu: nothing more is accepted and the held-back one joins
\* the queue.  It returns at once when the sender was never started.
FinishBegins ==
  /\ call = "unwatched"
  /\ done' = TRUE
  /\ held' = Nil
  /\ queue' = IF held # Nil /\ ctxUp THEN Push(queue, held) ELSE queue
  /\ call' = IF sender.pc = "none" THEN "ended" ELSE "ring"
  /\ UNCHANGED <<ctxUp, mapped, handler, abandoned, last, tokens, elapsed,
                 sender, wake, timer, lock, reading, wire, credit>>

FinishRings ==
  /\ call = "ring"
  /\ wake' = TRUE
  /\ call' = "waiting"
  /\ UNCHANGED <<ctxUp, mapped, handler, relayVars, sender, timer, lock,
                 reading, wire, credit>>

\* finish: the sender has exited.
FinishExited ==
  /\ call = "waiting" /\ sender.pc = "exited"
  /\ call' = "ended"
  /\ UNCHANGED <<ctxUp, mapped, handler, relayVars, sender, wake, timer, lock,
                 reading, wire, credit>>

\* finish: progressFinalWait is over first.
FinishGivesUp ==
  /\ call = "waiting"
  /\ abandoned' = TRUE
  /\ queue' = <<>>
  /\ call' = "ended"
  /\ UNCHANGED <<ctxUp, mapped, handler, done, held, last, tokens, elapsed,
                 sender, wake, timer, lock, reading, wire, credit>>

\* go-sdk (external) writes the call's result under the same write lock.
ResultLocks ==
  /\ call = "ended" /\ lock = "free"
  /\ lock' = "call" /\ call' = "writing"
  /\ UNCHANGED <<ctxUp, mapped, handler, relayVars, sender, wake, timer,
                 reading, wire, credit>>

ResultWritten ==
  /\ call = "writing" /\ reading
  /\ wire' = Append(wire, Result)
  /\ lock' = "free" /\ call' = "answered"
  /\ UNCHANGED <<ctxUp, mapped, handler, relayVars, sender, wake, timer,
                 reading, credit>>

(***************************************************************************)
(* The environment.                                                        *)
(***************************************************************************)
AgentCancels ==
  /\ ctxUp /\ call \in {"open", "unwatched", "ring", "waiting"}
  /\ ctxUp' = FALSE
  /\ UNCHANGED <<call, mapped, handler, relayVars, sender, wake, timer, lock,
                 reading, wire, credit>>

AgentReads(b) ==
  /\ reading # b
  /\ reading' = b
  /\ UNCHANGED <<call, ctxUp, mapped, handler, relayVars, sender, wake, timer,
                 lock, wire, credit>>

\* A tick; the timer does not run past the moment it fires.
Tick ==
  /\ \/ elapsed < Full \/ timer > 1 \/ credit < Full
  /\ elapsed' = Least(Full, elapsed + 1)
  /\ credit' = Least(Full, credit + 1)
  /\ timer' = IF timer > 1 THEN timer - 1 ELSE timer
  /\ UNCHANGED <<call, ctxUp, mapped, handler, done, abandoned, held, queue,
                 last, tokens, sender, wake, lock, reading, wire>>

\* watchProgress has registered a fresh relay before the upstream is called.
Init ==
  /\ call = "open" /\ ctxUp = TRUE /\ mapped = TRUE /\ handler = Nil
  /\ done = FALSE /\ abandoned = FALSE /\ held = Nil /\ queue = <<>> /\ last = 0
  /\ tokens = Full /\ elapsed = 0 /\ credit = Full
  /\ sender = [pc |-> "none", next |-> Nil]
  /\ wake = FALSE /\ timer = 0
  /\ lock = "free" /\ reading = TRUE /\ wire = <<>>

Sender == RunLoop \/ RunWakes \/ NotifyChecks \/ NotifyLocks \/ NotifyWrites
CallEnds ==
  FinishBegins \/ FinishRings \/ FinishExited \/ FinishGivesUp \/ ResultLocks \/ ResultWritten

Next ==
  \/ \E p \in Progress : UpstreamProgress(p)
  \/ Relay
  \/ Sender
  \/ Unwatch \/ CallEnds
  \/ AgentCancels
  \/ \E b \in BOOLEAN : AgentReads(b)
  \/ Tick

Spec == Init /\ [][Next]_vars

(***************************************************************************)
(* The scheduler runs every goroutine that can run, and time passes.       *)
(* Nothing is assumed of the upstream, of the agent, or of the call.       *)
(***************************************************************************)
FairSpec ==
  /\ Spec
  /\ WF_vars(Relay)
  /\ WF_vars(RunLoop) /\ WF_vars(RunWakes) /\ WF_vars(NotifyChecks)
  /\ WF_vars(NotifyLocks) /\ WF_vars(NotifyWrites)
  /\ WF_vars(FinishBegins) /\ WF_vars(FinishRings)
  /\ WF_vars(FinishExited \/ FinishGivesUp)
  /\ WF_vars(ResultLocks) /\ WF_vars(ResultWritten)
  /\ WF_vars(Tick)

(***************************************************************************)
(* Properties.                                                             *)
(***************************************************************************)
Answered == call = "answered"

\* Whatever the order of the upstream's notifications, the limit, the full
\* queue and the end of the call do to them, the agent is told strictly
\* increasing progress (push, relay, finish).
ToldIncreases ==
  \A i, j \in 1..Len(wire) :
    i < j /\ wire[i] # Result /\ wire[j] # Result => wire[i] < wire[j]

\* Once finish has returned, the sender has ended with nothing queued, or
\* finish gave up on it, and then at most the one notification it had already
\* taken off the queue follows the call's result.
AtMostOneAfterResult ==
  /\ call \in {"ended", "writing", "answered"} /\ ~abandoned =>
       sender.pc \in {"none", "exited"} /\ queue = <<>>
  /\ \A i \in 1..Len(wire) : wire[i] = Result => Len(wire) <= i + 1

\* The newest notification the relay accepted, held back or not, reaches the
\* agent before the result unless finish gave up or the request was cancelled.
NewestBeforeResult ==
  Answered /\ ~abandoned /\ ctxUp /\ last # 0 =>
    Len(wire) > 1 /\ wire[Len(wire) - 1] = last /\ wire[Len(wire)] = Result

\* The bucket, refilled only when it is used, never admits more than one
\* refilled at every tick would: the rate limit has no way round it but the
\* one notification finish adds.
RateKept == credit <= Full /\ credit = Refill

\* finish returns however the agent reads.
FinishReturns == done ~> call \in {"ended", "writing", "answered"}

\* While the call is open, the agent reads and the request stands, whatever
\* is accepted is told or overtaken by a newer one: no doorbell is lost and
\* no notification stays held back when its slot has come.
HeldIsTold ==
  \A p \in Progress :
    (last = p) ~> \/ \E i \in 1..Len(wire) : wire[i] >= p
                  \/ last # p \/ done \/ ~ctxUp \/ ~reading

\* A sender ends once its call has and the agent reads what it is writing.
SenderEnds == done ~> (sender.pc \in {"none", "exited"} \/ ~reading)

\* What the agent reads of a call: increasing progress, the newest of it, the
\* result, and at most one notification that was already on its way.
ToldInOrder == TypeOK /\ ToldIncreases /\ AtMostOneAfterResult /\ NewestBeforeResult

\* Nothing stays behind: not a notification while the agent reads, not the
\* call, and not the sender.
ProgressMoves == FinishReturns /\ HeldIsTold /\ SenderEnds
=============================================================================
