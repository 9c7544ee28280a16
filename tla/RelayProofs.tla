---------------------------- MODULE RelayProofs ----------------------------
(***************************************************************************)
(* Proofs about the progress relay (ProgressRelay): what the agent reads   *)
(* of a call, and the rate, for any burst, rate and number of              *)
(* notifications.  The inductive invariant is an order: what is written,   *)
(* in the sender's hand, queued and held back increases from the one to    *)
(* the next and ends with the newest accepted, which is in one of these    *)
(* places until something allowed to drop it happens.                      *)
(***************************************************************************)
EXTENDS ProgressRelay, SequenceTheorems, TLAPS

(***************************************************************************)
(* The inductive invariant.                                                *)
(***************************************************************************)
\* The types, but for the length of what has been written.
RelayFlags ==
  /\ ctxUp \in BOOLEAN /\ mapped \in BOOLEAN /\ done \in BOOLEAN
  /\ abandoned \in BOOLEAN /\ wake \in BOOLEAN /\ reading \in BOOLEAN

RelayTypes ==
  /\ call \in CallStates
  /\ handler \in Progress \cup {Nil}
  /\ held \in Progress \cup {Nil} /\ last \in Progress \cup {0}
  /\ queue \in Seq(Progress) /\ Len(queue) <= Burst
  /\ sender \in [pc : SenderStates, next : Progress \cup {Nil}]
  /\ timer \in 0..Most(PerToken, 1)
  /\ lock \in {"free", "sender", "call"}
  /\ wire \in Seq(Progress \cup {Result})

\* The bucket, and the eager one beside it.
Bucket ==
  /\ tokens \in 0..Full /\ elapsed \in 0..Full /\ credit \in 0..Full
  /\ credit = Refill

\* How far the call is, and what of the relay is over by then.
Stages ==
  /\ done <=> call \notin {"open", "unwatched"}
  /\ abandoned => call \in {"ended", "writing", "answered"} /\ queue = <<>>
  /\ done => held = Nil
  /\ call \in {"ended", "writing", "answered"} /\ ~abandoned =>
       sender.pc \in {"none", "exited"} /\ queue = <<>>
  /\ held # Nil => held = last
  /\ sender.next # Nil <=> sender.pc \in {"taken", "checked", "writing"}
  /\ sender.pc = "exited" => done /\ queue = <<>>
  /\ sender.pc = "none" => last = 0 /\ queue = <<>>

Below(s, p) == \A i \in 1..Len(s) : s[i] < p
AtMost(s, p) == \A i \in 1..Len(s) : s[i] <= p
Increasing(s) == \A i, j \in 1..Len(s) : i < j => s[i] < s[j]

\* Notifications keep their order from the wire back to the one held back:
\* written, in the sender's hand, queued, held back, none beyond last.
Line ==
  /\ AtMost(wire, last) /\ AtMost(queue, last) /\ sender.next <= last
  /\ Increasing(queue)
  /\ \A i \in 1..Len(queue) : Below(wire, queue[i]) /\ sender.next < queue[i]
  /\ sender.next # Nil => Below(wire, sender.next)
  /\ held # Nil => Below(wire, held) /\ Below(queue, held) /\ sender.next < held

\* The result is written once, when the call is answered, and then at most
\* the notification the sender had in hand.
ResultLast ==
  /\ \A i \in 1..Len(wire) :
       wire[i] = Result => /\ Answered
                           /\ Len(wire) <= i + 1
                           /\ sender.next # Nil => i = Len(wire)
                           /\ ~abandoned => i = Len(wire)
  /\ \A i, j \in 1..Len(wire) : wire[i] = Result /\ wire[j] = Result => i = j
  /\ Answered => \E i \in 1..Len(wire) : wire[i] = Result

\* Progress grows by at least one from one written notification to the next.
Spaced ==
  \A i \in 1..Len(wire) : wire[i] # Result =>
     /\ i <= wire[i] + 1
     /\ (\A j \in 1..i : wire[j] # Result) => i <= wire[i]

\* Where the newest one accepted is, unless it may be dropped.
Newest ==
  ctxUp /\ ~abandoned /\ last # 0 =>
    \/ held = last
    \/ queue # <<>> /\ queue[Len(queue)] = last
    \/ queue = <<>> /\ sender.next = last
    \/ queue = <<>> /\ ~Answered /\ wire # <<>> /\ wire[Len(wire)] = last
    \/ queue = <<>> /\ Answered /\ Len(wire) > 1 /\ wire[Len(wire) - 1] = last

RelayInv ==
  /\ RelayFlags /\ RelayTypes /\ Bucket /\ Stages
  /\ Line /\ ToldIncreases /\ ResultLast /\ Spaced /\ Newest


(***************************************************************************)
(* The operators of the relay.                                             *)
(***************************************************************************)
\* A full bucket is a number of ticks.
LEMMA FullIsNat == Full \in Nat
BY ProgressAssumption DEF Full

\* push: what was queued stays, but for the newest of a full queue, and the
\* notification pushed is the last.
LEMMA PushIs ==
  ASSUME NEW q \in Seq(Progress), Len(q) <= Burst, NEW p \in Progress
  PROVE  /\ Push(q, p) \in Seq(Progress)
         /\ Len(Push(q, p)) \in Nat \ {0} /\ Len(Push(q, p)) <= Burst
         /\ Push(q, p)[Len(Push(q, p))] = p
         /\ \A i \in 1..(Len(Push(q, p)) - 1) : i \in 1..Len(q) /\ Push(q, p)[i] = q[i]
<1>0. Burst \in Nat \ {0} /\ Len(q) \in Nat
  BY ProgressAssumption, LenProperties
<1>1. CASE Len(q) = Burst
  <2>1. Burst \in 1..Len(q)
    BY <1>0, <1>1
  <2>2. /\ Push(q, p) = [q EXCEPT ![Burst] = p]
        /\ Push(q, p) \in Seq(Progress) /\ Len(Push(q, p)) = Len(q)
        /\ \A i \in 1..Len(q) : Push(q, p)[i] = IF i = Burst THEN p ELSE q[i]
    BY <1>1, <2>1, ExceptSeq DEF Push
  <2> QED BY <1>0, <1>1, <2>1, <2>2
<1>2. CASE Len(q) # Burst
  <2>1. Push(q, p) = Append(q, p)
    BY <1>2 DEF Push
  <2> QED BY <1>0, <1>2, <2>1, AppendProperties
<1> QED BY <1>1, <1>2

\* A longer queue keeps its order.
LEMMA PushOrdered ==
  ASSUME NEW q \in Seq(Progress), Len(q) <= Burst, NEW p \in Progress,
         Increasing(q), Below(q, p)
  PROVE  Increasing(Push(q, p)) /\ AtMost(Push(q, p), p)
<1>1. Len(q) \in Nat /\ \A i \in 1..Len(q) : q[i] \in Nat
  BY LenProperties, ElementOfSeq, ProgressAssumption DEF Progress
<1>2. p \in Nat
  BY ProgressAssumption DEF Progress
<1> DEFINE Q == Push(q, p)
<1>3. /\ Len(Q) \in Nat \ {0} /\ Q[Len(Q)] = p
      /\ \A i \in 1..(Len(Q) - 1) : i \in 1..Len(q) /\ Q[i] = q[i]
  BY PushIs
<1> HIDE DEF Q
<1>4. \A i \in 1..Len(Q) : i = Len(Q) \/ (i \in 1..Len(q) /\ Q[i] = q[i])
  BY <1>3
<1>5. AtMost(Q, p)
  BY <1>1, <1>2, <1>3, <1>4 DEF Below, AtMost
<1>6. ASSUME NEW i \in 1..Len(Q), NEW j \in 1..Len(Q), i < j PROVE Q[i] < Q[j]
  <2>1. i \in 1..Len(q) /\ Q[i] = q[i]
    BY <1>3, <1>4, <1>6
  <2>2. CASE j = Len(Q)
    BY <1>3, <2>1, <2>2 DEF Below
  <2>3. CASE j # Len(Q)
    BY <1>4, <1>6, <2>1, <2>3 DEF Increasing
  <2> QED BY <2>2, <2>3
<1>7. Increasing(Q)
  BY <1>6 DEF Increasing
<1> QED BY <1>5, <1>7 DEF Q

(***************************************************************************)
(* The invariant step by step.                                             *)
(***************************************************************************)
\* The numbers of the relay are numbers.
LEMMA Numbers ==
  ASSUME RelayTypes
  PROVE  /\ MaxProgress \in Nat /\ Burst \in Nat /\ PerToken \in Nat /\ PerToken > 0
         /\ handler \in Nat /\ held \in Nat /\ last \in Nat /\ sender.next \in Nat
         /\ sender.next \in Progress \cup {Nil} /\ sender.pc \in SenderStates
         /\ Len(queue) \in Nat /\ Len(wire) \in Nat
         /\ \A i \in 1..Len(queue) : queue[i] \in Progress /\ queue[i] \in Nat /\ queue[i] > 0
         /\ \A i \in 1..Len(wire) : wire[i] \in Nat
         /\ queue # <<>> => Len(queue) > 0
         /\ wire # <<>> => Len(wire) > 0
<1>1. sender.next \in Progress \cup {Nil} /\ sender.pc \in SenderStates
  BY DEF RelayTypes
<1>2. Len(queue) \in Nat /\ Len(wire) \in Nat
  BY LenProperties DEF RelayTypes
<1>3. \A i \in 1..Len(queue) : queue[i] \in Progress
  BY ElementOfSeq DEF RelayTypes
<1>4. \A i \in 1..Len(wire) : wire[i] \in Progress \cup {Result}
  BY ElementOfSeq DEF RelayTypes
<1>5. (queue # <<>> => Len(queue) > 0) /\ (wire # <<>> => Len(wire) > 0)
  BY EmptySeq, <1>2 DEF RelayTypes
<1>6. MaxProgress \in Nat /\ Burst \in Nat /\ PerToken \in Nat /\ PerToken > 0
  BY ProgressAssumption
<1>7. \A p \in Progress : p \in Nat /\ p > 0
  BY <1>6 DEF Progress
<1>8. Nil \in Nat /\ Result \in Nat
  BY <1>6 DEF Nil, Result
<1>9. handler \in Nat /\ held \in Nat /\ last \in Nat
  BY <1>7, <1>8, <1>6 DEF RelayTypes, Nil
<1>10. sender.next \in Nat
  BY <1>1, <1>7, <1>8
<1>11. \A i \in 1..Len(queue) : queue[i] \in Nat /\ queue[i] > 0
  BY <1>3, <1>7
<1>12. \A i \in 1..Len(wire) : wire[i] \in Nat
  BY <1>4, <1>7, <1>8
<1> QED BY <1>1, <1>2, <1>3, <1>5, <1>6, <1>9, <1>10, <1>11, <1>12

\* take spends from the bucket what the ideal one spends, or refills it.
LEMMA BucketMoves ==
  ASSUME RelayInv,
         \/ CanTake /\ TakeBucket /\ Spend(PerToken)
         \/ ~CanTake /\ TakeBucket /\ credit' = credit
         \/ UNCHANGED <<tokens, elapsed, credit>>
  PROVE  Bucket'
<1>1. /\ Full \in Nat /\ PerToken \in Nat /\ tokens \in 0..Full /\ elapsed \in 0..Full
      /\ credit \in 0..Full /\ credit = Refill
  BY FullIsNat, Numbers DEF RelayInv, Bucket
<1>2. CASE CanTake /\ TakeBucket /\ Spend(PerToken)
  <2>1. credit >= PerToken /\ tokens' = credit - PerToken /\ elapsed' = 0 /\ credit' = credit - PerToken
    BY <1>1, <1>2 DEF CanTake, TakeBucket, Spend
  <2>2. Refill' = tokens'
    BY <1>1, <2>1 DEF Refill, Least, Full
  <2> QED BY <1>1, <2>1, <2>2 DEF Bucket, Full
<1>3. CASE ~CanTake /\ TakeBucket /\ credit' = credit
  <2>1. tokens' = credit /\ elapsed' = 0
    BY <1>1, <1>3 DEF TakeBucket
  <2>2. Refill' = tokens'
    BY <1>1, <2>1 DEF Refill, Least, Full
  <2> QED BY <1>1, <1>3, <2>1, <2>2 DEF Bucket, Full
<1>4. CASE UNCHANGED <<tokens, elapsed, credit>>
  BY <1>4 DEF RelayInv, Bucket, Refill
<1> QED BY <1>2, <1>3, <1>4

\* upstreamProgress has found the relay and done nothing with it yet.
LEMMA UpstreamProgressKeeps ==
  ASSUME NEW p \in Progress, RelayInv, UpstreamProgress(p)
  PROVE  RelayInv'
<1>0. RelayFlags'
  BY DEF RelayInv, RelayFlags, UpstreamProgress, relayVars
<1>1. RelayTypes'
  BY Numbers DEF RelayInv, RelayTypes, UpstreamProgress, relayVars, CallStates, SenderStates
<1>2. Bucket'
  BY FullIsNat DEF RelayInv, Bucket, Refill, Least, UpstreamProgress, relayVars
<1>3. Stages'
  BY DEF RelayInv, RelayTypes, Stages, UpstreamProgress, relayVars
<1>4. Line'
  BY DEF RelayInv, RelayTypes, Line, Below, AtMost, Increasing, UpstreamProgress, relayVars
<1>5. ToldIncreases' /\ Spaced'
  BY DEF RelayInv, ToldIncreases, Spaced, UpstreamProgress, relayVars
<1>6. ResultLast'
  BY DEF RelayInv, RelayTypes, Stages, ResultLast, Answered, UpstreamProgress, relayVars
<1>7. Newest'
  BY DEF RelayInv, RelayTypes, Stages, Newest, Answered, UpstreamProgress, relayVars
<1> QED BY <1>0, <1>1, <1>2, <1>3, <1>4, <1>5, <1>6, <1>7 DEF RelayInv

\* unwatchProgress takes the relay off the map; a handler may still hold it.
LEMMA UnwatchKeeps ==
  ASSUME RelayInv, Unwatch
  PROVE  RelayInv'
<1>0. RelayFlags'
  BY DEF RelayInv, RelayFlags, Unwatch, relayVars
<1>1. RelayTypes'
  BY Numbers DEF RelayInv, RelayTypes, Unwatch, relayVars, CallStates, SenderStates
<1>2. Bucket'
  BY FullIsNat DEF RelayInv, Bucket, Refill, Least, Unwatch, relayVars
<1>3. Stages'
  BY DEF RelayInv, RelayTypes, Stages, Unwatch, relayVars
<1>4. Line'
  BY DEF RelayInv, RelayTypes, Line, Below, AtMost, Increasing, Unwatch, relayVars
<1>5. ToldIncreases' /\ Spaced'
  BY DEF RelayInv, ToldIncreases, Spaced, Unwatch, relayVars
<1>6. ResultLast'
  BY DEF RelayInv, RelayTypes, Stages, ResultLast, Answered, Unwatch, relayVars
<1>7. Newest'
  BY DEF RelayInv, RelayTypes, Stages, Newest, Answered, Unwatch, relayVars
<1> QED BY <1>0, <1>1, <1>2, <1>3, <1>4, <1>5, <1>6, <1>7 DEF RelayInv

\* finish rings the doorbell.
LEMMA FinishRingsKeeps ==
  ASSUME RelayInv, FinishRings
  PROVE  RelayInv'
<1>0. RelayFlags'
  BY DEF RelayInv, RelayFlags, FinishRings, relayVars
<1>1. RelayTypes'
  BY Numbers DEF RelayInv, RelayTypes, FinishRings, relayVars, CallStates, SenderStates
<1>2. Bucket'
  BY FullIsNat DEF RelayInv, Bucket, Refill, Least, FinishRings, relayVars
<1>3. Stages'
  BY DEF RelayInv, RelayTypes, Stages, FinishRings, relayVars
<1>4. Line'
  BY DEF RelayInv, RelayTypes, Line, Below, AtMost, Increasing, FinishRings, relayVars
<1>5. ToldIncreases' /\ Spaced'
  BY DEF RelayInv, ToldIncreases, Spaced, FinishRings, relayVars
<1>6. ResultLast'
  BY DEF RelayInv, RelayTypes, Stages, ResultLast, Answered, FinishRings, relayVars
<1>7. Newest'
  BY DEF RelayInv, RelayTypes, Stages, Newest, Answered, FinishRings, relayVars
<1> QED BY <1>0, <1>1, <1>2, <1>3, <1>4, <1>5, <1>6, <1>7 DEF RelayInv

\* NotifyProgress has the write lock.
LEMMA NotifyLocksKeeps ==
  ASSUME RelayInv, NotifyLocks
  PROVE  RelayInv'
<1>0. RelayFlags'
  BY DEF RelayInv, RelayFlags, NotifyLocks, relayVars
<1>1. RelayTypes'
  BY Numbers DEF RelayInv, RelayTypes, NotifyLocks, relayVars, CallStates, SenderStates
<1>2. Bucket'
  BY FullIsNat DEF RelayInv, Bucket, Refill, Least, NotifyLocks, relayVars
<1>3. Stages'
  BY DEF RelayInv, RelayTypes, Stages, NotifyLocks, relayVars
<1>4. Line'
  BY DEF RelayInv, RelayTypes, Line, Below, AtMost, Increasing, NotifyLocks, relayVars
<1>5. ToldIncreases' /\ Spaced'
  BY DEF RelayInv, ToldIncreases, Spaced, NotifyLocks, relayVars
<1>6. ResultLast'
  BY DEF RelayInv, RelayTypes, Stages, ResultLast, Answered, NotifyLocks, relayVars
<1>7. Newest'
  BY DEF RelayInv, RelayTypes, Stages, Newest, Answered, NotifyLocks, relayVars
<1> QED BY <1>0, <1>1, <1>2, <1>3, <1>4, <1>5, <1>6, <1>7 DEF RelayInv

\* The request is cancelled: from here a notification may be dropped.
LEMMA AgentCancelsKeeps ==
  ASSUME RelayInv, AgentCancels
  PROVE  RelayInv'
<1>0. RelayFlags'
  BY DEF RelayInv, RelayFlags, AgentCancels, relayVars
<1>1. RelayTypes'
  BY Numbers DEF RelayInv, RelayTypes, AgentCancels, relayVars, CallStates, SenderStates
<1>2. Bucket'
  BY FullIsNat DEF RelayInv, Bucket, Refill, Least, AgentCancels, relayVars
<1>3. Stages'
  BY DEF RelayInv, RelayTypes, Stages, AgentCancels, relayVars
<1>4. Line'
  BY DEF RelayInv, RelayTypes, Line, Below, AtMost, Increasing, AgentCancels, relayVars
<1>5. ToldIncreases' /\ Spaced'
  BY DEF RelayInv, ToldIncreases, Spaced, AgentCancels, relayVars
<1>6. ResultLast'
  BY DEF RelayInv, RelayTypes, Stages, ResultLast, Answered, AgentCancels, relayVars
<1>7. Newest'
  BY DEF RelayInv, RelayTypes, Stages, Newest, Answered, AgentCancels, relayVars
<1> QED BY <1>0, <1>1, <1>2, <1>3, <1>4, <1>5, <1>6, <1>7 DEF RelayInv

\* The agent stops reading, or reads again.
LEMMA AgentReadsKeeps ==
  ASSUME NEW b \in BOOLEAN, RelayInv, AgentReads(b)
  PROVE  RelayInv'
<1>0. RelayFlags'
  BY DEF RelayInv, RelayFlags, AgentReads, relayVars
<1>1. RelayTypes'
  BY Numbers DEF RelayInv, RelayTypes, AgentReads, relayVars, CallStates, SenderStates
<1>2. Bucket'
  BY FullIsNat DEF RelayInv, Bucket, Refill, Least, AgentReads, relayVars
<1>3. Stages'
  BY DEF RelayInv, RelayTypes, Stages, AgentReads, relayVars
<1>4. Line'
  BY DEF RelayInv, RelayTypes, Line, Below, AtMost, Increasing, AgentReads, relayVars
<1>5. ToldIncreases' /\ Spaced'
  BY DEF RelayInv, ToldIncreases, Spaced, AgentReads, relayVars
<1>6. ResultLast'
  BY DEF RelayInv, RelayTypes, Stages, ResultLast, Answered, AgentReads, relayVars
<1>7. Newest'
  BY DEF RelayInv, RelayTypes, Stages, Newest, Answered, AgentReads, relayVars
<1> QED BY <1>0, <1>1, <1>2, <1>3, <1>4, <1>5, <1>6, <1>7 DEF RelayInv

\* finish has seen the sender exit.
LEMMA FinishExitedKeeps ==
  ASSUME RelayInv, FinishExited
  PROVE  RelayInv'
<1>0. RelayFlags'
  BY DEF RelayInv, RelayFlags, FinishExited, relayVars
<1>1. RelayTypes'
  BY Numbers DEF RelayInv, RelayTypes, FinishExited, relayVars, CallStates, SenderStates
<1>2. Bucket'
  BY FullIsNat DEF RelayInv, Bucket, Refill, Least, FinishExited, relayVars
<1>3. Stages'
  BY DEF RelayInv, RelayTypes, Stages, FinishExited, relayVars
<1>4. Line'
  BY DEF RelayInv, RelayTypes, Line, Below, AtMost, Increasing, FinishExited, relayVars
<1>5. ToldIncreases' /\ Spaced'
  BY DEF RelayInv, ToldIncreases, Spaced, FinishExited, relayVars
<1>6. ResultLast'
  BY DEF RelayInv, RelayTypes, Stages, ResultLast, Answered, FinishExited, relayVars
<1>7. Newest'
  BY DEF RelayInv, RelayTypes, Stages, Newest, Answered, FinishExited, relayVars
<1> QED BY <1>0, <1>1, <1>2, <1>3, <1>4, <1>5, <1>6, <1>7 DEF RelayInv

\* The result waits for the agent to read.
LEMMA ResultLocksKeeps ==
  ASSUME RelayInv, ResultLocks
  PROVE  RelayInv'
<1>0. RelayFlags'
  BY DEF RelayInv, RelayFlags, ResultLocks, relayVars
<1>1. RelayTypes'
  BY Numbers DEF RelayInv, RelayTypes, ResultLocks, relayVars, CallStates, SenderStates
<1>2. Bucket'
  BY FullIsNat DEF RelayInv, Bucket, Refill, Least, ResultLocks, relayVars
<1>3. Stages'
  BY DEF RelayInv, RelayTypes, Stages, ResultLocks, relayVars
<1>4. Line'
  BY DEF RelayInv, RelayTypes, Line, Below, AtMost, Increasing, ResultLocks, relayVars
<1>5. ToldIncreases' /\ Spaced'
  BY DEF RelayInv, ToldIncreases, Spaced, ResultLocks, relayVars
<1>6. ResultLast'
  BY DEF RelayInv, RelayTypes, Stages, ResultLast, Answered, ResultLocks, relayVars
<1>7. Newest'
  BY DEF RelayInv, RelayTypes, Stages, Newest, Answered, ResultLocks, relayVars
<1> QED BY <1>0, <1>1, <1>2, <1>3, <1>4, <1>5, <1>6, <1>7 DEF RelayInv

\* Time: both buckets earn the same, and neither is overfull.
LEMMA TickKeeps ==
  ASSUME RelayInv, Tick
  PROVE  RelayInv'
<1>0. RelayFlags'
  BY DEF RelayInv, RelayFlags, Tick
<1>1. timer' \in 0..Most(PerToken, 1)
  <2>1. timer \in 0..Most(PerToken, 1) /\ timer' = (IF timer > 1 THEN timer - 1 ELSE timer)
    BY DEF RelayInv, RelayTypes, Tick
  <2>2. Most(PerToken, 1) \in Nat
    BY ProgressAssumption DEF Most
  <2> QED BY <2>1, <2>2
<1>2. RelayTypes'
  BY <1>1 DEF RelayInv, RelayTypes, Tick
<1>3. Bucket'
  BY FullIsNat DEF RelayInv, Bucket, Refill, Least, Tick
<1>4. Stages'
  BY DEF RelayInv, Stages, Tick
<1>5. Line'
  BY DEF RelayInv, Line, Below, AtMost, Increasing, Tick
<1>6. ToldIncreases' /\ Spaced'
  BY DEF RelayInv, ToldIncreases, Spaced, Tick
<1>7. ResultLast' /\ Newest'
  BY DEF RelayInv, ResultLast, Newest, Answered, Tick
<1> QED BY <1>0, <1>2, <1>3, <1>4, <1>5, <1>6, <1>7 DEF RelayInv

\* run wakes on the doorbell or the timer.
LEMMA RunWakesKeeps ==
  ASSUME RelayInv, RunWakes
  PROVE  RelayInv'
<1>a. sender' = [pc |-> "loop", next |-> sender.next]
  BY DEF RelayInv, RelayTypes, RunWakes
<1>0. RelayFlags'
  <2>1. wake' \in BOOLEAN
    BY DEF RelayInv, RelayFlags, RunWakes
  <2> QED BY <2>1 DEF RelayInv, RelayFlags, RunWakes, relayVars
<1>b. 0 \in 0..Most(PerToken, 1)
  BY ProgressAssumption DEF Most
<1>1. RelayTypes'
  BY <1>a, <1>b, Numbers DEF RelayInv, RelayTypes, RunWakes, relayVars, SenderStates
<1>2. Bucket'
  BY DEF RelayInv, Bucket, Refill, RunWakes, relayVars
<1>3. Stages'
  BY <1>a DEF RelayInv, Stages, RunWakes, relayVars
<1>4. Line'
  BY <1>a DEF RelayInv, Line, Below, AtMost, Increasing, RunWakes, relayVars
<1>5. ToldIncreases' /\ Spaced'
  BY DEF RelayInv, ToldIncreases, Spaced, RunWakes, relayVars
<1>6. ResultLast' /\ Newest'
  BY <1>a DEF RelayInv, ResultLast, Newest, Answered, RunWakes, relayVars
<1> QED BY <1>0, <1>1, <1>2, <1>3, <1>4, <1>5, <1>6 DEF RelayInv

\* A notification is dropped only for a request or a call that is over.
LEMMA NotifyChecksKeeps ==
  ASSUME RelayInv, NotifyChecks
  PROVE  RelayInv'
<1>u. /\ UNCHANGED <<call, ctxUp, mapped, handler, wake, timer, lock, reading, wire, credit>>
      /\ UNCHANGED <<done, abandoned, held, queue, last, tokens, elapsed>>
  BY DEF NotifyChecks, relayVars
<1>0. RelayFlags'
  BY <1>u DEF RelayInv, RelayFlags
<1>2. Bucket'
  BY <1>u DEF RelayInv, Bucket, Refill
<1>5. ToldIncreases' /\ Spaced'
  BY <1>u DEF RelayInv, ToldIncreases, Spaced
<1>6. CASE SendCtxUp
  <2>1. sender' = [pc |-> "checked", next |-> sender.next] /\ sender.pc = "taken"
    BY <1>6 DEF RelayInv, RelayTypes, NotifyChecks
  <2>2. RelayTypes'
    BY <1>u, <2>1, Numbers DEF RelayInv, RelayTypes, SenderStates
  <2>3. Stages'
    BY <1>u, <2>1 DEF RelayInv, Stages
  <2>4. Line'
    BY <1>u, <2>1 DEF RelayInv, Line, Below, AtMost, Increasing
  <2>5. ResultLast' /\ Newest'
    BY <1>u, <2>1 DEF RelayInv, ResultLast, Newest, Answered
  <2> QED BY <1>0, <1>2, <1>5, <2>2, <2>3, <2>4, <2>5 DEF RelayInv
<1>7. CASE ~SendCtxUp
  <2>1. sender' = [pc |-> "loop", next |-> Nil] /\ sender.pc = "taken"
    BY <1>7 DEF RelayInv, RelayTypes, NotifyChecks
  <2>2. RelayTypes'
    BY <1>u, <2>1, Numbers DEF RelayInv, RelayTypes, SenderStates
  <2>3. Stages'
    BY <1>u, <2>1 DEF RelayInv, Stages
  <2>4. Line'
    <3>1. AtMost(wire, last) /\ AtMost(queue, last) /\ Increasing(queue)
      BY DEF RelayInv, Line
    <3>2. 0 <= last /\ \A i \in 1..Len(queue) : Below(wire, queue[i]) /\ 0 < queue[i]
      BY Numbers DEF RelayInv, Line
    <3>3. held # Nil => Below(wire, held) /\ Below(queue, held) /\ 0 < held
      BY Numbers DEF RelayInv, Line, Nil
    <3> QED BY <1>u, <2>1, <3>1, <3>2, <3>3 DEF Line, Below, AtMost, Increasing, Nil
  <2>5. ResultLast'
    BY <1>u, <2>1 DEF RelayInv, ResultLast, Answered
  <2>6. ctxUp => abandoned
    BY <1>7, <2>1 DEF RelayInv, Stages, SendCtxUp
  <2>7. Newest'
    BY <1>u, <2>6 DEF Newest
  <2> QED BY <1>0, <1>2, <1>5, <2>2, <2>3, <2>4, <2>5, <2>7 DEF RelayInv
<1> QED BY <1>6, <1>7

\* finish gives up: nothing is queued from here on.
LEMMA FinishGivesUpKeeps ==
  ASSUME RelayInv, FinishGivesUp
  PROVE  RelayInv'
<1>u. /\ call = "waiting" /\ call' = "ended" /\ queue' = <<>>
      /\ UNCHANGED <<ctxUp, mapped, handler, done, held, last, tokens, elapsed, sender>>
      /\ UNCHANGED <<wake, timer, lock, reading, wire, credit>>
  BY DEF FinishGivesUp
<1>a. abandoned' = TRUE
  BY DEF FinishGivesUp
<1>0. RelayFlags'
  BY <1>a, <1>u DEF RelayInv, RelayFlags
<1>1. RelayTypes'
  BY <1>u, Numbers, EmptySeq DEF RelayInv, RelayTypes, CallStates
<1>2. Bucket'
  BY <1>u DEF RelayInv, Bucket, Refill
<1>3. Stages'
  BY <1>u, <1>a DEF RelayInv, Stages
<1>4. Line'
  BY <1>u, EmptySeq DEF RelayInv, Line, Below, AtMost, Increasing
<1>5. ToldIncreases' /\ Spaced'
  BY <1>u DEF RelayInv, ToldIncreases, Spaced
<1>6. ResultLast'
  BY <1>u, <1>a DEF RelayInv, ResultLast, Answered
<1>7. Newest'
  BY <1>a DEF Newest
<1> QED BY <1>0, <1>1, <1>2, <1>3, <1>4, <1>5, <1>6, <1>7 DEF RelayInv

\* The queue after a push by relay, run or finish, with last as it will be.
LEMMA PushInLine ==
  ASSUME RelayInv, NEW p \in Progress,
         Below(queue, p), Below(wire, p), sender.next < p
  PROVE  /\ Push(queue, p) \in Seq(Progress) /\ Len(Push(queue, p)) <= Burst
         /\ Len(Push(queue, p)) \in Nat \ {0} /\ Push(queue, p) # <<>>
         /\ Increasing(Push(queue, p)) /\ AtMost(Push(queue, p), p)
         /\ Push(queue, p)[Len(Push(queue, p))] = p
         /\ \A i \in 1..Len(Push(queue, p)) :
              Below(wire, Push(queue, p)[i]) /\ sender.next < Push(queue, p)[i]
<1>1. queue \in Seq(Progress) /\ Len(queue) <= Burst /\ Increasing(queue)
  BY DEF RelayInv, RelayTypes, Line
<1> DEFINE Q == Push(queue, p)
<1>2. /\ Q \in Seq(Progress) /\ Len(Q) \in Nat \ {0} /\ Len(Q) <= Burst
      /\ Q[Len(Q)] = p
      /\ \A i \in 1..(Len(Q) - 1) : i \in 1..Len(queue) /\ Q[i] = queue[i]
  BY <1>1, PushIs
<1>3. Increasing(Q) /\ AtMost(Q, p)
  BY <1>1, PushOrdered
<1> HIDE DEF Q
<1>4. \A i \in 1..Len(Q) : i = Len(Q) \/ (i \in 1..Len(queue) /\ Q[i] = queue[i])
  BY <1>2
<1>5. \A i \in 1..Len(Q) : Below(wire, Q[i]) /\ sender.next < Q[i]
  BY <1>2, <1>4 DEF RelayInv, Line
<1>6. Q # <<>>
  BY <1>2, EmptySeq
<1> QED BY <1>2, <1>3, <1>5, <1>6 DEF Q

\* finish moves what is held back to the queue, past the limit.
LEMMA FinishBeginsKeeps ==
  ASSUME RelayInv, FinishBegins
  PROVE  RelayInv'
<1>u. /\ call = "unwatched" /\ call' = (IF sender.pc = "none" THEN "ended" ELSE "ring")
      /\ held' = Nil
      /\ queue' = (IF held # Nil /\ ctxUp THEN Push(queue, held) ELSE queue)
      /\ UNCHANGED <<ctxUp, mapped, handler, abandoned, last, tokens, elapsed, sender>>
      /\ UNCHANGED <<wake, timer, lock, reading, wire, credit>>
  BY DEF FinishBegins
<1>a. done' = TRUE
  BY DEF FinishBegins
<1>0. RelayFlags'
  BY <1>a, <1>u DEF RelayInv, RelayFlags
<1>2. Bucket'
  BY <1>u DEF RelayInv, Bucket, Refill
<1>5. ToldIncreases' /\ Spaced'
  BY <1>u DEF RelayInv, ToldIncreases, Spaced
<1>6. ResultLast'
  BY <1>u DEF RelayInv, ResultLast, Answered
<1>7. CASE held # Nil /\ ctxUp
  <2>1. held \in Progress /\ held = last /\ sender.pc # "none" /\ sender.pc # "exited"
    BY <1>7, <1>u DEF RelayInv, RelayTypes, Stages, Nil
  <2>2. Below(queue, held) /\ Below(wire, held) /\ sender.next < held
    BY <1>7 DEF RelayInv, Line
  <2>3. queue' = Push(queue, held)
    BY <1>7, <1>u
  <2>4. RelayTypes'
    BY <1>u, <2>1, <2>2, <2>3, PushInLine DEF RelayInv, RelayTypes, CallStates
  <2>5. Stages'
    BY <1>u, <1>a, <2>1 DEF RelayInv, Stages
  <2>6. Line'
    <3>1. AtMost(wire, last) /\ sender.next <= last
      BY DEF RelayInv, Line
    <3>2. /\ Increasing(queue') /\ AtMost(queue', last)
          /\ \A i \in 1..Len(queue') : Below(wire, queue'[i]) /\ sender.next < queue'[i]
      BY <2>1, <2>2, <2>3, PushInLine
    <3>3. sender.next # Nil => Below(wire, sender.next)
      BY DEF RelayInv, Line
    <3> QED BY <1>u, <3>1, <3>2, <3>3 DEF Line, Below, AtMost, Increasing
  <2>7. Newest'
    BY <1>u, <2>1, <2>2, <2>3, PushInLine DEF Newest
  <2> QED BY <1>0, <1>2, <1>5, <1>6, <2>4, <2>5, <2>6, <2>7 DEF RelayInv
<1>8. CASE ~(held # Nil /\ ctxUp)
  <2>1. queue' = queue
    BY <1>8, <1>u
  <2>4. RelayTypes'
    BY <1>u, <2>1 DEF RelayInv, RelayTypes, CallStates
  <2>5. Stages'
    BY <1>u, <1>a, <2>1 DEF RelayInv, RelayTypes, Stages
  <2>6. Line'
    BY <1>u, <2>1 DEF RelayInv, Line, Below, AtMost, Increasing
  <2>7. Newest'
    BY <1>u, <1>8, <2>1 DEF RelayInv, Newest, Answered, Nil
  <2> QED BY <1>0, <1>2, <1>5, <1>6, <2>4, <2>5, <2>6, <2>7 DEF RelayInv
<1> QED BY <1>7, <1>8

\* The result follows everything a sender that was not given up on had to say.
LEMMA ResultWrittenKeeps ==
  ASSUME RelayInv, ResultWritten
  PROVE  RelayInv'
<1>u. /\ call = "writing" /\ call' = "answered" /\ lock' = "free"
      /\ wire' = Append(wire, Result)
      /\ UNCHANGED <<ctxUp, mapped, handler, sender, wake, timer, reading, credit>>
      /\ UNCHANGED <<done, abandoned, held, queue, last, tokens, elapsed>>
  BY DEF ResultWritten, relayVars
<1>w. wire \in Seq(Progress \cup {Result}) /\ Result \in Progress \cup {Result}
  BY DEF RelayInv, RelayTypes
<1>a. /\ wire' \in Seq(Progress \cup {Result})
      /\ Len(wire') = Len(wire) + 1 /\ Len(wire) \in Nat
      /\ \A i \in 1..Len(wire) : wire'[i] = wire[i]
      /\ wire'[Len(wire) + 1] = Result
  BY <1>u, <1>w, AppendProperties, LenProperties
<1>b. \A i \in 1..Len(wire') : i \in 1..Len(wire) \/ (i = Len(wire) + 1 /\ wire'[i] = Result)
  BY <1>a
<1>c. \A i \in 1..Len(wire) : wire[i] # Result
  BY <1>u DEF RelayInv, ResultLast, Answered
<1>0. RelayFlags'
  BY <1>u DEF RelayInv, RelayFlags
<1>1. RelayTypes'
  BY <1>a, <1>u DEF RelayInv, RelayTypes, CallStates
<1>2. Bucket'
  BY <1>u DEF RelayInv, Bucket, Refill
<1>3. Stages'
  BY <1>u DEF RelayInv, RelayTypes, Stages
<1>4. Line'
  <2>1. \A p \in Nat \ {0} : Below(wire, p) => Below(wire', p)
    BY <1>a, <1>b DEF Below, Result
  <2>2. AtMost(wire', last)
    BY <1>a, <1>b, Numbers DEF RelayInv, Line, AtMost, Result
  <2>3. AtMost(queue, last) /\ sender.next <= last /\ Increasing(queue)
    BY DEF RelayInv, Line
  <2>4. \A i \in 1..Len(queue) : Below(wire', queue[i]) /\ sender.next < queue[i]
    BY <2>1, Numbers DEF RelayInv, Line
  <2>5. sender.next # Nil => Below(wire', sender.next)
    BY <2>1, Numbers DEF RelayInv, Line, Nil
  <2>6. held # Nil => Below(wire', held) /\ Below(queue, held) /\ sender.next < held
    BY <2>1, Numbers DEF RelayInv, Line, Nil
  <2> QED BY <1>u, <2>2, <2>3, <2>4, <2>5, <2>6 DEF Line, Below, AtMost, Increasing
<1>5. ToldIncreases'
  BY <1>a, <1>b DEF RelayInv, ToldIncreases
<1>6. Spaced'
  BY <1>a, <1>b, <1>c DEF RelayInv, Spaced
<1>7. ResultLast'
  BY <1>u, <1>a, <1>b, <1>c DEF RelayInv, ResultLast, Answered
<1>8. Newest'
  <2> SUFFICES ASSUME ctxUp, ~abandoned, last # 0
               PROVE  queue = <<>> /\ Len(wire') > 1 /\ wire'[Len(wire') - 1] = last
    BY <1>u DEF Newest, Answered
  <2>1. queue = <<>> /\ sender.next = Nil /\ held = Nil
    BY <1>u DEF RelayInv, RelayTypes, Stages
  <2>2. Len(wire) > 0 /\ wire[Len(wire)] = last
    BY <1>u, <2>1, Numbers DEF RelayInv, Newest, Answered, Nil
  <2> QED BY <1>a, <2>1, <2>2
<1> QED BY <1>0, <1>1, <1>2, <1>3, <1>4, <1>5, <1>6, <1>7, <1>8 DEF RelayInv

\* The notification in the sender's hand is written.
LEMMA NotifyWritesKeeps ==
  ASSUME RelayInv, NotifyWrites
  PROVE  RelayInv'
<1> DEFINE p == sender.next
<1>u. /\ sender.pc = "writing" /\ sender' = [pc |-> "loop", next |-> Nil] /\ lock' = "free"
      /\ wire' = Append(wire, p)
      /\ UNCHANGED <<call, ctxUp, mapped, handler, wake, timer, reading, credit>>
      /\ UNCHANGED <<done, abandoned, held, queue, last, tokens, elapsed>>
  BY DEF NotifyWrites, relayVars
<1>p. p \in Progress /\ p # Nil /\ p \in Nat /\ p > 0 /\ p <= last /\ p <= MaxProgress
  BY <1>u, Numbers DEF RelayInv, Stages, Line, Nil, Progress
<1>w. wire \in Seq(Progress \cup {Result}) /\ p \in Progress \cup {Result}
  BY <1>p DEF RelayInv, RelayTypes
<1>q. Below(wire, p) /\ \A i \in 1..Len(queue) : p < queue[i]
  BY <1>p DEF RelayInv, Line
<1>h. held # Nil => p < held
  BY DEF RelayInv, Line
<1> HIDE DEF p
<1>a. /\ wire' \in Seq(Progress \cup {Result})
      /\ Len(wire') = Len(wire) + 1 /\ Len(wire) \in Nat
      /\ \A i \in 1..Len(wire) : wire'[i] = wire[i]
      /\ wire'[Len(wire) + 1] = p
  BY <1>u, <1>w, AppendProperties, LenProperties
<1>b. \A i \in 1..Len(wire') : i \in 1..Len(wire) \/ (i = Len(wire) + 1 /\ wire'[i] = p)
  BY <1>a
<1>0. RelayFlags'
  BY <1>u DEF RelayInv, RelayFlags
<1>1. RelayTypes'
  BY <1>a, <1>u DEF RelayInv, RelayTypes, SenderStates
<1>2. Bucket'
  BY <1>u DEF RelayInv, Bucket, Refill
<1>3. Stages'
  BY <1>u DEF RelayInv, RelayTypes, Stages
<1>4. Line'
  <2>1. \A r \in Nat : p < r /\ Below(wire, r) => Below(wire', r)
    BY <1>a, <1>b, <1>p DEF Below
  <2>2. AtMost(wire', last)
    BY <1>a, <1>b, <1>p, Numbers DEF RelayInv, Line, AtMost
  <2>3. AtMost(queue, last) /\ 0 <= last /\ Increasing(queue)
    BY Numbers DEF RelayInv, Line
  <2>4. \A i \in 1..Len(queue) : Below(wire', queue[i]) /\ 0 < queue[i]
    BY <2>1, <1>q, Numbers DEF RelayInv, Line
  <2>6. held # Nil => Below(wire', held) /\ Below(queue, held) /\ 0 < held
    BY <2>1, <1>h, Numbers DEF RelayInv, Line, Nil
  <2> QED BY <1>u, <2>2, <2>3, <2>4, <2>6 DEF Line, Below, AtMost, Increasing, Nil
<1>5. ToldIncreases'
  <2>1. \A i \in 1..Len(wire) : wire[i] < p
    BY <1>q DEF Below
  <2>2. \A i, j \in 1..Len(wire) :
          i < j /\ wire[i] # Result /\ wire[j] # Result => wire[i] < wire[j]
    BY DEF RelayInv, ToldIncreases
  <2> QED BY <1>a, <1>b, <2>1, <2>2 DEF ToldIncreases
<1>6. Spaced'
  <2>1. \A i \in 1..Len(wire) : wire[i] # Result =>
          /\ i <= wire[i] + 1
          /\ (\A j \in 1..i : wire[j] # Result) => i <= wire[i]
    BY DEF RelayInv, Spaced
  <2>2. \A i \in 1..Len(wire) : wire'[i] # Result =>
          /\ i <= wire'[i] + 1
          /\ (\A j \in 1..i : wire'[j] # Result) => i <= wire'[i]
    BY <1>a, <2>1
  <2>3. CASE \A i \in 1..Len(wire) : wire[i] # Result
    <3>1. Len(wire) + 1 <= p
      <4>1. CASE Len(wire) = 0
        BY <4>1, <1>p
      <4>2. CASE Len(wire) # 0
        <5>1. Len(wire) \in 1..Len(wire) /\ wire[Len(wire)] \in Nat
          BY <4>2, <1>a, Numbers DEF RelayInv
        <5>2. Len(wire) <= wire[Len(wire)] /\ wire[Len(wire)] < p
          BY <5>1, <1>q, <2>1, <2>3 DEF Below
        <5> QED BY <5>1, <5>2, <1>a, <1>p
      <4> QED BY <4>1, <4>2
    <3> QED BY <1>a, <1>b, <1>p, <2>2, <3>1 DEF Spaced
  <2>4. CASE \E i \in 1..Len(wire) : wire[i] = Result
    <3>1. wire[Len(wire)] = Result /\ Len(wire) > 0
      BY <2>4, <1>a, <1>p DEF RelayInv, ResultLast, p
    <3>2. Len(wire) <= p
      <4>1. CASE Len(wire) = 1
        BY <4>1, <1>p
      <4>2. CASE Len(wire) # 1
        <5> DEFINE k == Len(wire) - 1
        <5>1. k \in 1..Len(wire) /\ k \in Nat /\ Len(wire) = k + 1
          BY <1>a, <3>1, <4>2
        <5>2. \A j \in 1..k : wire[j] # Result
          BY <1>a, <1>p DEF RelayInv, ResultLast, p
        <5> HIDE DEF k
        <5>3. k <= wire[k] /\ wire[k] \in Nat /\ wire[k] < p
          BY <1>q, <2>1, <5>1, <5>2, Numbers DEF RelayInv, Below
        <5> QED BY <1>p, <5>1, <5>3
      <4> QED BY <4>1, <4>2
    <3>3. Len(wire) \in 1..(Len(wire) + 1) /\ wire'[Len(wire)] = Result
      BY <1>a, <3>1
    <3> QED BY <1>a, <1>b, <1>p, <2>2, <3>2, <3>3 DEF Spaced
  <2> QED BY <2>3, <2>4
<1>7. ResultLast'
  <2>1. p # Result
    BY <1>p DEF Nil, Result
  <2>2. \A i \in 1..Len(wire) : wire[i] = Result => Answered /\ i = Len(wire) /\ abandoned
    BY <1>p, <1>u DEF RelayInv, RelayTypes, ResultLast, Stages, Answered, p
  <2> QED BY <1>u, <1>a, <1>b, <2>1, <2>2 DEF RelayInv, ResultLast, Answered, Nil
<1>8. Newest'
  <2> SUFFICES ASSUME ctxUp, ~abandoned, last # 0
               PROVE  Newest'
    BY <1>u DEF Newest
  <2>1. ~Answered /\ (wire # <<>> => Len(wire) > 0)
    BY <1>u, Numbers DEF RelayInv, Stages, Answered
  <2>2. wire' # <<>>
    BY <1>a, EmptySeq
  <2>3. held = last \/ (queue # <<>> /\ queue[Len(queue)] = last) \/ (queue = <<>> /\ p = last)
    BY <1>p, <1>q, <2>1, Numbers DEF RelayInv, Newest, Below, p
  <2> QED BY <1>u, <1>a, <2>1, <2>2, <2>3 DEF Newest, Answered
<1> QED BY <1>0, <1>1, <1>2, <1>3, <1>4, <1>5, <1>6, <1>7, <1>8 DEF RelayInv

\* relay: one notification is dropped, queued or held back.
LEMMA RelayKeeps ==
  ASSUME RelayInv, Relay
  PROVE  RelayInv'
<1> DEFINE p == handler
<1>u. /\ handler # Nil /\ handler' = Nil
      /\ UNCHANGED <<call, ctxUp, mapped, timer, lock, reading, wire>>
  BY DEF Relay
<1>n. Nil \in Progress \cup {Nil}
  OBVIOUS
<1>1. CASE ~Accepts(p)
  <2>1. UNCHANGED <<done, abandoned, held, queue, last, tokens, elapsed, sender, wake, credit>>
    BY <1>1 DEF Relay, relayVars
  <2>2. RelayFlags'
    BY <1>u, <2>1 DEF RelayInv, RelayFlags
  <2>3. RelayTypes' /\ Bucket'
    BY <1>u, <1>n, <2>1 DEF RelayInv, RelayTypes, Bucket, Refill
  <2>4. Stages' /\ ResultLast' /\ Newest'
    BY <1>u, <2>1 DEF RelayInv, Stages, ResultLast, Newest, Answered
  <2>5. Line' /\ ToldIncreases' /\ Spaced'
    BY <1>u, <2>1 DEF RelayInv, Line, Below, AtMost, Increasing, ToldIncreases, Spaced
  <2> QED BY <2>2, <2>3, <2>4, <2>5 DEF RelayInv
<1>2. CASE Accepts(p)
  <2>p. p \in Progress /\ p \in Nat /\ p > 0 /\ p > last /\ p # Nil
    BY <1>u, <1>2, Numbers DEF RelayInv, RelayTypes, Accepts, Nil, Progress
  <2>d. ~done /\ ctxUp /\ ~abandoned /\ call \in {"open", "unwatched"}
    BY <1>2 DEF RelayInv, RelayTypes, Stages, Accepts, CallStates
  <2>u. /\ last' = p /\ TakeBucket /\ UNCHANGED <<done, abandoned>>
        /\ sender' = IF sender.pc = "none" THEN [sender EXCEPT !.pc = "loop"] ELSE sender
        /\ \/ CanTake /\ held' = Nil /\ queue' = Push(queue, handler) /\ Spend(PerToken)
           \/ ~CanTake /\ held' = handler /\ UNCHANGED <<queue, credit>>
    BY <1>2 DEF Relay
  <2>k. wake' = TRUE
    BY <1>2 DEF Relay
  <2>s. sender' = [pc |-> IF sender.pc = "none" THEN "loop" ELSE sender.pc, next |-> sender.next]
    BY <2>u DEF RelayInv, RelayTypes
  <2>b. Below(queue, p) /\ Below(wire, p) /\ sender.next < p /\ sender.next <= last
    BY <2>p, Numbers DEF RelayInv, Line, Below, AtMost
  <2>l. AtMost(wire, p) /\ AtMost(queue, p) /\ sender.next <= p
    BY <2>b, <2>p, Numbers DEF RelayInv, Below, AtMost
  <2>r. ~Answered /\ sender.pc # "exited" /\ \A i \in 1..Len(wire) : wire[i] # Result
    BY <2>d DEF RelayInv, Stages, ResultLast, Answered
  <2>1. RelayFlags'
    BY <1>u, <2>u, <2>k DEF RelayInv, RelayFlags
  <2>2. Bucket'
    BY <2>u, BucketMoves
  <2>3. ToldIncreases' /\ Spaced'
    BY <1>u DEF RelayInv, ToldIncreases, Spaced
  <2>4. ResultLast'
    BY <1>u, <2>r, <2>d DEF ResultLast, Answered
  <2>w. sender.next # Nil => Below(wire, sender.next)
    BY DEF RelayInv, Line
  <2>5. CASE CanTake
    <3>1. held' = Nil /\ queue' = Push(queue, p)
      BY <2>5, <2>u
    <3>2. /\ queue' \in Seq(Progress) /\ Len(queue') <= Burst
          /\ Len(queue') \in Nat \ {0} /\ queue' # <<>>
          /\ Increasing(queue') /\ AtMost(queue', p) /\ queue'[Len(queue')] = p
          /\ \A i \in 1..Len(queue') : Below(wire, queue'[i]) /\ sender.next < queue'[i]
      BY <3>1, <2>b, <2>p, PushInLine
    <3>3. RelayTypes'
      BY <1>u, <1>n, <2>u, <2>s, <2>p, <3>1, <3>2, Numbers DEF RelayInv, RelayTypes, SenderStates
    <3>4. Stages'
      BY <1>u, <2>u, <2>s, <2>d, <2>r, <3>1 DEF RelayInv, Stages
    <3>5. Line'
      BY <1>u, <2>u, <2>s, <2>l, <2>w, <3>1, <3>2 DEF Line, Below, AtMost, Increasing
    <3>6. Newest'
      BY <2>u, <3>2 DEF Newest
    <3> QED BY <2>1, <2>2, <2>3, <2>4, <3>3, <3>4, <3>5, <3>6 DEF RelayInv
  <2>6. CASE ~CanTake
    <3>1. held' = p /\ queue' = queue
      BY <2>6, <2>u
    <3>3. RelayTypes'
      BY <1>u, <1>n, <2>u, <2>s, <2>p, <3>1, Numbers DEF RelayInv, RelayTypes, SenderStates
    <3>4. Stages'
      BY <1>u, <2>u, <2>s, <2>d, <2>r, <3>1 DEF RelayInv, Stages
    <3>5. Line'
      <4>1. /\ Increasing(queue)
            /\ \A i \in 1..Len(queue) : Below(wire, queue[i]) /\ sender.next < queue[i]
        BY DEF RelayInv, Line
      <4> QED BY <1>u, <2>u, <2>s, <2>l, <2>w, <2>b, <3>1, <4>1 DEF Line, Below, AtMost, Increasing
    <3>6. Newest'
      BY <2>u, <3>1 DEF Newest
    <3> QED BY <2>1, <2>2, <2>3, <2>4, <3>3, <3>4, <3>5, <3>6 DEF RelayInv
  <2> QED BY <2>5, <2>6
<1> QED BY <1>1, <1>2

\* run, under r.mu.
LEMMA RunLoopKeeps ==
  ASSUME RelayInv, RunLoop
  PROVE  RelayInv'
<1> DEFINE tries == ~done /\ held # Nil
           frees == tries /\ CanTake
           full  == IF frees THEN Push(queue, held) ELSE queue
           next  == IF ~abandoned /\ full # <<>> THEN Head(full) ELSE Nil
           stop  == abandoned \/ (done /\ next = Nil)
           keeps == held # Nil /\ ~frees
<1>u. /\ sender.pc = "loop"
      /\ IF tries THEN TakeBucket ELSE UNCHANGED <<tokens, elapsed>>
      /\ IF frees THEN held' = Nil /\ Spend(PerToken) ELSE UNCHANGED <<held, credit>>
      /\ queue' = IF next # Nil THEN Tail(full) ELSE full
      /\ sender' = [pc |-> IF next # Nil THEN "taken"
                           ELSE IF stop THEN "exited" ELSE "waiting",
                    next |-> next]
      /\ timer' = IF next = Nil /\ ~stop /\ keeps THEN UntilToken(tokens') ELSE 0
      /\ UNCHANGED <<call, ctxUp, mapped, handler, done, abandoned, last>>
      /\ UNCHANGED <<wake, lock, reading, wire>>
  BY DEF RunLoop
<1>z. sender.next = Nil /\ call \in CallStates
  BY <1>u DEF RelayInv, RelayTypes, Stages
<1>h. frees => /\ held \in Progress /\ held = last /\ held > 0 /\ last \in Nat
               /\ Below(queue, held) /\ Below(wire, held) /\ sender.next < held
  BY DEF RelayInv, RelayTypes, Stages, Line, Nil, Progress
<1>f. /\ full \in Seq(Progress) /\ Len(full) <= Burst /\ Len(full) \in Nat
      /\ Increasing(full) /\ AtMost(full, last)
      /\ \A i \in 1..Len(full) : Below(wire, full[i]) /\ sender.next < full[i]
  <2>1. CASE frees
    <3>1. full = Push(queue, held)
      BY <2>1
    <3>2. held \in Progress /\ held = last
      BY <1>h, <2>1
    <3>3. Below(queue, held) /\ Below(wire, held) /\ sender.next < held
      BY <1>h, <2>1
    <3> QED BY <3>1, <3>2, <3>3, PushInLine
  <2>2. CASE ~frees
    <3>1. full = queue
      BY <2>2
    <3> HIDE DEF full
    <3> QED BY <3>1, Numbers DEF RelayInv, RelayTypes, Line
  <2> QED BY <2>1, <2>2
<1>l. frees => full # <<>> /\ Len(full) > 0 /\ full[Len(full)] = last
  <2> SUFFICES ASSUME frees PROVE full # <<>> /\ Len(full) > 0 /\ full[Len(full)] = last
    OBVIOUS
  <2>1. full = Push(queue, held)
    OBVIOUS
  <2>2. held \in Progress /\ held = last
    BY <1>h
  <2>3. Below(queue, held) /\ Below(wire, held) /\ sender.next < held
    BY <1>h
  <2> HIDE DEF full
  <2> QED BY <2>1, <2>2, <2>3, PushInLine
<1>k. ~frees => full = queue /\ held' = held
  BY <1>u
<1>q. held' # Nil => ~frees /\ held' = held
  BY <1>u
<1>e. frees => held' = Nil
  BY <1>u
<1>0. RelayFlags'
  BY <1>u DEF RelayInv, RelayFlags
<1>t. timer' \in 0..Most(PerToken, 1)
  <2>1. tokens' \in Nat
    BY <1>u, FullIsNat, Numbers DEF RelayInv, Bucket, TakeBucket, CanTake, Refill, Least
  <2>2. UntilToken(tokens') \in 0..Most(PerToken, 1) /\ 0 \in 0..Most(PerToken, 1)
    <3>1. \A t \in Nat : UntilToken(t) \in 0..Most(PerToken, 1)
      BY ProgressAssumption DEF UntilToken, Most
    <3>2. 0 \in 0..Most(PerToken, 1)
      BY ProgressAssumption DEF Most
    <3> QED BY <2>1, <3>1, <3>2
  <2>3. timer' = UntilToken(tokens') \/ timer' = 0
    BY <1>u
  <2> QED BY <2>2, <2>3
<1>2. Bucket'
  <2>1. CASE frees
    <3>1. CanTake /\ TakeBucket /\ Spend(PerToken)
      BY <1>u, <2>1
    <3> QED BY <3>1, BucketMoves
  <2>2. CASE tries /\ ~frees
    <3>1. ~CanTake /\ TakeBucket /\ credit' = credit
      BY <1>u, <2>2
    <3> QED BY <3>1, BucketMoves
  <2>3. CASE ~tries
    <3>1. UNCHANGED <<tokens, elapsed, credit>>
      BY <1>u, <2>3
    <3> QED BY <3>1, BucketMoves
  <2> QED BY <2>1, <2>2, <2>3
<1>3. ToldIncreases' /\ Spaced'
  BY <1>u DEF RelayInv, ToldIncreases, Spaced
<1>m. held' \in Progress \cup {Nil}
  BY <1>e, <1>k DEF RelayInv, RelayTypes
<1>d. /\ abandoned => full = <<>>
      /\ done => held = Nil /\ full = queue
      /\ held # Nil => held = last
  BY <1>u DEF RelayInv, Stages
<1>b. frees \/ full = queue
  OBVIOUS
<1>g. held' # Nil => /\ Below(wire, held) /\ Below(full, held) /\ 0 < held
                     /\ held' = held /\ held = last
  <2> SUFFICES ASSUME held' # Nil
               PROVE  /\ Below(wire, held) /\ Below(full, held) /\ 0 < held
                      /\ held' = held /\ held = last
    OBVIOUS
  <2>1. full = queue /\ held' = held /\ held # Nil
    BY <1>q, <1>k
  <2> HIDE DEF full
  <2> QED BY <2>1, <1>z, Numbers DEF RelayInv, Line, Stages, Nil
<1>4. CASE ~abandoned /\ full # <<>>
  <2>1. next = Head(full)
    BY <1>4
  <2> HIDE DEF full, frees, tries
  <2>2. /\ next \in Progress /\ next # Nil /\ next = full[1] /\ Len(full) > 0
        /\ Tail(full) \in Seq(Progress) /\ Len(Tail(full)) = Len(full) - 1
        /\ \A i \in 1..Len(Tail(full)) : Tail(full)[i] = full[i + 1]
    <3>1. Head(full) \in Progress /\ Head(full) = full[1] /\ Len(full) > 0
      BY <1>4, <1>f, HeadTailProperties, EmptySeq
    <3>2. \A x \in Progress : x # Nil
      BY ProgressAssumption DEF Progress, Nil
    <3> QED BY <2>1, <3>1, <3>2, <1>4, <1>f, HeadTailProperties
  <2>3. queue' = Tail(full) /\ sender' = [pc |-> "taken", next |-> next]
    BY <1>u, <2>2
  <2> HIDE DEF next
  <2>4. RelayTypes'
    BY <1>u, <1>f, <1>m, <1>t, <2>2, <2>3, Numbers DEF RelayInv, RelayTypes, SenderStates
  <2>5. done \/ call \in {"open", "unwatched"}
    BY <1>z DEF RelayInv, Stages, CallStates
  <2>6. Stages'
    <3>1. call \notin {"ended", "writing", "answered"}
      BY <1>u, <1>4 DEF RelayInv, Stages
    <3>2. done => held' = Nil
      BY <1>d, <1>e, <1>k
    <3>3. held' # Nil => held' = last
      BY <1>g
    <3> QED BY <1>u, <1>4, <2>2, <2>3, <3>1, <3>2, <3>3 DEF RelayInv, Stages
  <2>7. Line'
    <3>1. \A i \in 1..Len(Tail(full)) : i + 1 \in 1..Len(full) /\ 1 \in 1..Len(full) /\ 1 < i + 1
      BY <1>f, <2>2
    <3>2. Increasing(Tail(full))
      BY <1>f, <2>2, <3>1 DEF Increasing
    <3>3. AtMost(Tail(full), last) /\ next <= last
      BY <1>f, <2>2, <3>1 DEF AtMost
    <3>4. \A i \in 1..Len(Tail(full)) : Below(wire, Tail(full)[i]) /\ next < Tail(full)[i]
      BY <1>f, <2>2, <3>1 DEF Increasing
    <3>5. Below(wire, next) /\ AtMost(wire, last)
      BY <1>f, <2>2 DEF RelayInv, Line
    <3>6. held' # Nil => Below(wire, held') /\ Below(Tail(full), held') /\ next < held'
      BY <1>g, <1>f, <2>2, <3>1 DEF Below
    <3> QED BY <1>u, <2>3, <3>2, <3>3, <3>4, <3>5, <3>6 DEF Line, Below, AtMost, Increasing
  <2>8. ResultLast'
    <3>1. ~Answered
      BY <1>u, <1>4 DEF RelayInv, Stages, Answered
    <3> QED BY <1>u, <3>1 DEF RelayInv, ResultLast, Answered
  <2>9. Newest'
    <3> SUFFICES ASSUME ctxUp, ~abandoned, last # 0
                 PROVE  Newest'
      BY <1>u DEF Newest
    <3>1. full[Len(full)] = last \/ held' = last
      BY <1>l, <1>k, <1>4, <1>z DEF RelayInv, Newest, Nil
    <3>2. CASE Len(full) = 1
      <4>1. Tail(full) = <<>>
        <5>1. Tail(full) \in Seq(Progress) /\ Len(Tail(full)) = 0
          BY <2>2, <3>2
        <5> QED BY <5>1, EmptySeq
      <4> QED BY <1>u, <2>2, <2>3, <3>1, <3>2, <4>1 DEF Newest
    <3>3. CASE Len(full) # 1
      <4>0. /\ Len(Tail(full)) \in 1..Len(Tail(full)) /\ Len(Tail(full)) # 0
            /\ Len(Tail(full)) + 1 = Len(full)
        BY <1>f, <2>2, <3>3
      <4>1. /\ Tail(full) # <<>> /\ Len(Tail(full)) \in 1..Len(Tail(full))
            /\ Len(Tail(full)) + 1 = Len(full)
        BY <4>0, EmptySeq
      <4>2. Tail(full)[Len(Tail(full))] = full[Len(full)]
        BY <2>2, <4>1
      <4> QED BY <1>u, <2>3, <3>1, <4>1, <4>2 DEF Newest
    <3> QED BY <3>2, <3>3
  <2> QED BY <1>0, <1>2, <1>3, <2>4, <2>6, <2>7, <2>8, <2>9 DEF RelayInv
<1>5. CASE ~(~abandoned /\ full # <<>>)
  <2>1. next = Nil /\ full = <<>>
    BY <1>5, <1>d
  <2>2. queue' = <<>> /\ queue = <<>> /\ ~frees
    BY <1>u, <1>l, <1>b, <2>1
  <2>3. sender' = [pc |-> IF stop THEN "exited" ELSE "waiting", next |-> Nil]
    BY <1>u, <2>1
  <2>s. stop <=> abandoned \/ done
    BY <2>1
  <2>a. abandoned => done
    BY DEF RelayInv, Stages
  <2> HIDE DEF full, frees, tries, next, stop
  <2>4. RelayTypes'
    <3>1. sender' \in [pc : SenderStates, next : Progress \cup {Nil}]
      BY <2>3 DEF SenderStates
    <3>2. queue' \in Seq(Progress) /\ Len(queue') <= Burst
      BY <2>2, EmptySeq, ProgressAssumption
    <3> QED BY <1>u, <1>m, <1>t, <3>1, <3>2 DEF RelayInv, RelayTypes
  <2>6. Stages'
    <3>1. call \in {"ended", "writing", "answered"} => abandoned
      BY <1>u DEF RelayInv, Stages
    <3>2. held' = held
      BY <1>k, <2>2
    <3> QED BY <1>u, <2>2, <2>3, <2>s, <2>a, <3>1, <3>2 DEF RelayInv, RelayFlags, Stages
  <2>7. Line'
    <3>1. held' = held
      BY <1>k, <2>2
    <3> QED BY <1>u, <1>z, <2>2, <2>3, <3>1 DEF RelayInv, Line, Below, AtMost, Increasing
  <2>8. ResultLast' /\ Newest'
    <3>1. held' = held
      BY <1>k, <2>2
    <3> QED BY <1>u, <1>z, <2>2, <2>3, <3>1 DEF RelayInv, ResultLast, Newest, Answered
  <2> QED BY <1>0, <1>2, <1>3, <2>4, <2>6, <2>7, <2>8 DEF RelayInv
<1> QED BY <1>4, <1>5

(***************************************************************************)
(* The theorems.                                                           *)
(***************************************************************************)
\* A relay as watchProgress registers it.
LEMMA RelayStart == Init => RelayInv
<1> SUFFICES ASSUME Init PROVE RelayInv
  OBVIOUS
<1>1. RelayFlags
  BY DEF Init, RelayFlags
<1>2. /\ queue \in Seq(Progress) /\ Len(queue) = 0
      /\ wire \in Seq(Progress \cup {Result}) /\ Len(wire) = 0
  BY EmptySeq DEF Init
<1>3. 0 \in 0..Most(PerToken, 1)
  BY ProgressAssumption DEF Most
<1>4. RelayTypes
  BY <1>2, <1>3, ProgressAssumption DEF Init, RelayTypes, CallStates, SenderStates, Nil
<1>5. Bucket
  BY FullIsNat DEF Init, Bucket, Refill, Least
<1>6. Stages /\ Newest
  BY DEF Init, Stages, Newest, Nil
<1>7. Line /\ ToldIncreases /\ Spaced /\ ResultLast
  BY <1>2 DEF Init, Line, Below, AtMost, Increasing, ToldIncreases, Spaced, ResultLast, Answered, Nil
<1> QED BY <1>1, <1>4, <1>5, <1>6, <1>7 DEF RelayInv

\* Nothing happens.
LEMMA RelayStutter == RelayInv /\ UNCHANGED vars => RelayInv'
BY DEF vars, relayVars, RelayInv, RelayFlags, RelayTypes, Bucket, Refill, Stages, Line, Below,
       AtMost, Increasing, ToldIncreases, Spaced, ResultLast, Newest, Answered

\* The invariant is inductive.
LEMMA RelayStep == RelayInv /\ [Next]_vars => RelayInv'
<1> SUFFICES ASSUME RelayInv, [Next]_vars PROVE RelayInv'
  OBVIOUS
<1>1. CASE \E p \in Progress : UpstreamProgress(p)
  BY <1>1, UpstreamProgressKeeps
<1>2. CASE Relay
  BY <1>2, RelayKeeps
<1>3. CASE Sender
  BY <1>3, RunLoopKeeps, RunWakesKeeps, NotifyChecksKeeps, NotifyLocksKeeps, NotifyWritesKeeps
  DEF Sender
<1>4. CASE Unwatch
  BY <1>4, UnwatchKeeps
<1>5. CASE CallEnds
  BY <1>5, FinishBeginsKeeps, FinishRingsKeeps, FinishExitedKeeps, FinishGivesUpKeeps,
     ResultLocksKeeps, ResultWrittenKeeps DEF CallEnds
<1>6. CASE AgentCancels
  BY <1>6, AgentCancelsKeeps
<1>7. CASE \E b \in BOOLEAN : AgentReads(b)
  BY <1>7, AgentReadsKeeps
<1>8. CASE Tick
  BY <1>8, TickKeeps
<1>9. CASE UNCHANGED vars
  BY <1>9, RelayStutter
<1> QED BY <1>1, <1>2, <1>3, <1>4, <1>5, <1>6, <1>7, <1>8, <1>9 DEF Next

\* No more is written than there are progress values, and the result.
LEMMA WireBounded == RelayInv => Len(wire) <= MaxProgress + 1
<1> SUFFICES ASSUME RelayInv PROVE Len(wire) <= MaxProgress + 1
  OBVIOUS
<1> DEFINE n == Len(wire)
<1>1. n \in Nat /\ MaxProgress \in Nat
  BY Numbers DEF RelayInv
<1>2. \A i \in 1..n : wire[i] # Result => wire[i] \in 1..MaxProgress
  BY ElementOfSeq DEF RelayInv, RelayTypes, Progress
<1>3. \A i \in 1..n : wire[i] # Result =>
        /\ i <= wire[i] + 1
        /\ (\A j \in 1..i : wire[j] # Result) => i <= wire[i]
  BY DEF RelayInv, Spaced
<1>7. \A i, j \in 1..n : wire[i] = Result /\ wire[j] = Result => i = j
  BY DEF RelayInv, ResultLast
<1> HIDE DEF n
<1>5. CASE n \in {0, 1}
  BY <1>1, <1>5 DEF n
<1>6. CASE n > 1
  <2> DEFINE k == n - 1
  <2>1. k \in 1..n /\ k \in Nat /\ n = k + 1 /\ n \in 1..n
    BY <1>1, <1>6
  <2> HIDE DEF k
  <2>2. CASE wire[n] # Result
    <3>1. n <= wire[n] + 1 /\ wire[n] \in 1..MaxProgress
      BY <2>1, <2>2, <1>2, <1>3
    <3> QED BY <1>1, <3>1 DEF n
  <2>3. CASE wire[n] = Result
    <3>1. \A i \in 1..k : wire[i] # Result
      BY <1>7, <2>1, <2>3
    <3>2. k <= wire[k] /\ wire[k] \in 1..MaxProgress
      BY <2>1, <3>1, <1>2, <1>3
    <3> QED BY <1>1, <2>1, <3>2 DEF n
  <2> QED BY <2>2, <2>3
<1> QED BY <1>1, <1>5, <1>6

\* The order of what the agent reads follows from the invariant.
LEMMA RelayInOrder == RelayInv => ToldInOrder
<1> SUFFICES ASSUME RelayInv PROVE ToldInOrder
  OBVIOUS
<1>1. TypeOK
  <2>1. credit \in 0..(Full + 1)
    BY FullIsNat DEF RelayInv, Bucket
  <2> QED BY <2>1, WireBounded DEF RelayInv, RelayFlags, RelayTypes, Bucket, TypeOK
<1>2. ToldIncreases
  BY DEF RelayInv
<1>3. AtMostOneAfterResult
  BY DEF RelayInv, Stages, ResultLast, AtMostOneAfterResult
<1>4. NewestBeforeResult
  <2> SUFFICES ASSUME Answered, ~abandoned, ctxUp, last # 0
               PROVE  Len(wire) > 1 /\ wire[Len(wire) - 1] = last /\ wire[Len(wire)] = Result
    BY DEF NewestBeforeResult
  <2>1. sender.next = Nil /\ queue = <<>> /\ held = Nil
    BY DEF RelayInv, Stages, Answered
  <2>2. Len(wire) > 1 /\ wire[Len(wire) - 1] = last
    BY <2>1 DEF RelayInv, Newest, Nil
  <2>3. wire[Len(wire)] = Result
    BY DEF RelayInv, ResultLast
  <2> QED BY <2>2, <2>3
<1> QED BY <1>1, <1>2, <1>3, <1>4 DEF ToldInOrder

\* Whatever the interleaving of the upstream's handler, the sender, the call
\* and an agent that stops reading, the agent is told increasing progress, the
\* newest before the result, and at most one notification after it, for any
\* burst, rate and number of notifications (relay, push, run, finish).
THEOREM AlwaysToldInOrder == Spec => []ToldInOrder
<1>1. Spec => []RelayInv
  BY RelayStart, RelayStep, PTL DEF Spec
<1> QED BY <1>1, RelayInOrder, PTL

\* The bucket refilled when it is used (take) admits exactly what one refilled
\* at every tick would, for any burst and rate.
THEOREM RateAlwaysKept == Spec => []RateKept
<1>1. Spec => []RelayInv
  BY RelayStart, RelayStep, PTL DEF Spec
<1>2. RelayInv => RateKept
  BY FullIsNat DEF RelayInv, Bucket, RateKept
<1> QED BY <1>1, <1>2, PTL

=============================================================================
