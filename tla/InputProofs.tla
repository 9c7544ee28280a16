----------------------------- MODULE InputProofs -----------------------------
(***************************************************************************)
(* Proofs about the rounds of input of a call and the sealed states that   *)
(* carry them (InputRounds), for any number of calls, handlers, agents and *)
(* states, and any limits.                                                 *)
(***************************************************************************)
EXTENDS InputRounds, FiniteSetTheorems, SequenceTheorems, TLAPS

(***************************************************************************)
(* The inductive invariant.                                                *)
(***************************************************************************)
\* The counters of a call: what is left of its round, how many rounds and
\* prompts it has had, and what the history says of them.
Counted(f) ==
  /\ f.shown = f.prompts /\ f.asked <= f.prompts
  /\ f.rounds <= MaxInputRounds
  /\ f.stage \in {"calling", "answered"} => f.rounds = f.round
  /\ f.stage \in {"passed", "asking"} => f.rounds = f.round + 1
  /\ f.stage \in {"answered", "passed", "asking"} => f.left >= 1
  /\ f.agent \in Stateless => f.asked = 0

\* A round that was checked whole still fits, unless a handler came between;
\* nothing comes between the check and the seal.
Fits(f) ==
  /\ f.stage = "passed" /\ f.agent \in Stateless => f.prompts + f.left <= MaxPromptsPerCall
  /\ f.stage = "passed" /\ ~f.disturbed =>
       /\ f.prompts + f.left <= MaxPromptsPerCall
       /\ f.asked > 0 => ~f.prompting
  /\ f.stage = "asking" => f.agent \notin Stateless
  /\ f.stage = "asking" /\ ~f.disturbed => f.prompts + f.left <= MaxPromptsPerCall + 1

\* A call in flight has an agent and goes back to a request like itself.
SameCall(f) == f.stage # "idle" => f.root = f.id /\ f.agent \in Agents /\ f.id \in Identities

RecordOK(f) == Counted(f) /\ Fits(f) /\ SameCall(f)

\* A state carries what its call had.
StateOK(s) ==
  s \in SealedStates /\ s.root = s.id /\ s.shown = s.prompts /\ s.rounds = s.round

\* Handler h has a prompt of call c with the agent.
Asks(h, c) == handler[h].stage = "asking" /\ handler[h].call = c

\* The slot of a call is taken exactly while it, or one handler, asks.
SlotOK(c) ==
  /\ call[c].prompting <=> call[c].stage = "asking" \/ \E h \in Handlers : Asks(h, c)
  /\ call[c].stage = "asking" => \A h \in Handlers : ~Asks(h, c)
  /\ \A h, i \in Handlers : Asks(h, c) /\ Asks(i, c) => h = i

HandlersOK == \A h \in Handlers : handler[h].stage = "idle" <=> handler[h].call = NoCall

InputInv ==
  /\ TypeOK
  /\ \A c \in Calls : RecordOK(call[c])
  /\ \A c \in Calls : SlotOK(c)
  /\ \A s \in states : StateOK(s)
  /\ HandlersOK

(***************************************************************************)
(* Records.                                                                *)
(***************************************************************************)
\* The limits are numbers.
LEMMA Limits ==
  /\ MaxInputRequests \in Nat /\ MaxInputRounds \in Nat /\ MaxPromptsPerCall \in Nat
  /\ StateTTL \in Nat /\ MaxTime \in Nat /\ MaxEpoch \in Nat
BY InputRoundsAssumption

\* The fields of a call.
LEMMA FieldTypes ==
  ASSUME NEW f \in CallRecords
  PROVE  /\ f.stage \in {"idle", "calling", "answered", "passed", "asking"}
         /\ f.round \in 0..MaxInputRounds /\ f.round \in Nat
         /\ f.prompts \in 0..MaxPromptsPerCall /\ f.prompts \in Nat
         /\ f.left \in 0..MaxInputRequests /\ f.left \in Nat
         /\ f.asked \in 0..MaxPromptsPerCall /\ f.asked \in Nat
         /\ f.shown \in Nat /\ f.rounds \in Nat
         /\ f.agent \in Agents \cup {NoCall}
         /\ f.id \in Identities \cup {NoCall} /\ f.root \in Identities \cup {NoCall}
BY Limits DEF CallRecords

\* The flags of a call.
LEMMA FlagTypes ==
  ASSUME NEW f \in CallRecords
  PROVE  f.prompting \in BOOLEAN /\ f.cancelled \in BOOLEAN /\ f.disturbed \in BOOLEAN
BY DEF CallRecords

\* The identity of a call.
LEMMA IdentityType ==
  ASSUME TypeOK, NEW a \in Agents, NEW t \in Tools, NEW g \in Args
  PROVE  Identity(a, t, g) \in Identities
BY DEF TypeOK, Identity, Identities

\* A call that begins, or resumes with what rs carries.
LEMMA NewCallIs ==
  ASSUME NEW a \in Agents, NEW id \in Identities, NEW rs,
         rs.round \in 0..MaxInputRounds, rs.prompts \in 0..MaxPromptsPerCall,
         rs.root = id, rs.shown = rs.prompts, rs.rounds = rs.round
  PROVE  /\ NewCall(a, id, rs) \in CallRecords /\ RecordOK(NewCall(a, id, rs))
         /\ NewCall(a, id, rs).stage = "calling" /\ ~NewCall(a, id, rs).prompting
<1> DEFINE n == NewCall(a, id, rs)
<1>1. /\ n.stage = "calling" /\ n.agent = a /\ n.id = id /\ n.round = rs.round
      /\ n.prompts = rs.prompts /\ n.left = 0 /\ n.asked = 0
      /\ n.root = rs.root /\ n.shown = rs.shown /\ n.rounds = rs.rounds
  BY DEF NewCall
<1>2. n.prompting = FALSE /\ n.cancelled = FALSE /\ n.disturbed = FALSE
  BY DEF NewCall
<1>3. n \in CallRecords
  BY Limits DEF NewCall, CallRecords
<1> HIDE DEF n
<1>4. RecordOK(n)
  BY <1>1, Limits DEF RecordOK, Counted, Fits, SameCall
<1> QED BY <1>1, <1>2, <1>3, <1>4 DEF n

\* A call that is not there.
LEMMA IdleIs ==
  /\ Idle \in CallRecords /\ RecordOK(Idle)
  /\ Idle.stage = "idle" /\ ~Idle.prompting
<1>1. Idle \in CallRecords
  <2>1. NewCall(NoCall, NoCall, FirstRound(NoCall)) \in CallRecords
    BY Limits DEF NewCall, FirstRound, CallRecords
  <2> QED BY <2>1 DEF Idle, CallRecords
<1>2. /\ Idle.stage = "idle" /\ Idle.shown = 0 /\ Idle.prompts = 0 /\ Idle.asked = 0
      /\ Idle.rounds = 0
  BY DEF Idle, NewCall, FirstRound
<1>3. Idle.prompting = FALSE
  BY DEF Idle, NewCall, FirstRound
<1>4. RecordOK(Idle)
  BY <1>2, Limits DEF RecordOK, Counted, Fits, SameCall
<1> QED BY <1>1, <1>2, <1>3, <1>4

\* A call that has ended and is still referred to.
Ended(f) == [f EXCEPT !.stage = "idle"]

\* A call that has ended keeps nothing of its rounds.
LEMMA EndedIs ==
  ASSUME NEW f \in CallRecords, Counted(f)
  PROVE  /\ Ended(f) \in CallRecords /\ RecordOK(Ended(f))
         /\ Ended(f).stage = "idle" /\ Ended(f).prompting = f.prompting
<1>1. Ended(f) \in CallRecords /\ Ended(f).stage = "idle"
  BY DEF Ended, CallRecords
<1>2. /\ Ended(f).shown = f.shown /\ Ended(f).prompts = f.prompts /\ Ended(f).asked = f.asked
      /\ Ended(f).rounds = f.rounds /\ Ended(f).agent = f.agent
  BY DEF Ended, CallRecords
<1>3. Ended(f).prompting = f.prompting
  BY DEF Ended, CallRecords
<1>4. RecordOK(Ended(f))
  BY <1>1, <1>2 DEF RecordOK, Counted, Fits, SameCall
<1> QED BY <1>1, <1>3, <1>4

\* startPrompt takes the slot and counts a prompt.
LEMMA StartPromptIs ==
  ASSUME NEW f \in CallRecords, CanStartPrompt(f)
  PROVE  /\ StartPrompt(f) \in CallRecords
         /\ StartPrompt(f).prompting = TRUE
         /\ StartPrompt(f).prompts = f.prompts + 1 /\ StartPrompt(f).shown = f.shown + 1
         /\ StartPrompt(f).stage = f.stage /\ StartPrompt(f).agent = f.agent
         /\ StartPrompt(f).id = f.id /\ StartPrompt(f).root = f.root
         /\ StartPrompt(f).round = f.round /\ StartPrompt(f).rounds = f.rounds
         /\ StartPrompt(f).left = f.left /\ StartPrompt(f).asked = f.asked
         /\ StartPrompt(f).disturbed = f.disturbed
<1>1. f.prompts + 1 \in 0..MaxPromptsPerCall /\ f.shown + 1 \in Nat
  BY FieldTypes, Limits DEF CanStartPrompt
<1>2. StartPrompt(f) \in CallRecords
  BY <1>1 DEF StartPrompt, CallRecords
<1>3. /\ StartPrompt(f).prompting = TRUE /\ StartPrompt(f).disturbed = f.disturbed
  BY DEF StartPrompt, CallRecords
<1> QED BY <1>2, <1>3 DEF StartPrompt, CallRecords

\* endPrompt gives the slot back.
LEMMA EndPromptIs ==
  ASSUME NEW f \in CallRecords
  PROVE  /\ EndPrompt(f) \in CallRecords
         /\ EndPrompt(f).prompting = FALSE
         /\ EndPrompt(f).prompts = f.prompts /\ EndPrompt(f).shown = f.shown
         /\ EndPrompt(f).stage = f.stage /\ EndPrompt(f).agent = f.agent
         /\ EndPrompt(f).id = f.id /\ EndPrompt(f).root = f.root
         /\ EndPrompt(f).round = f.round /\ EndPrompt(f).rounds = f.rounds
         /\ EndPrompt(f).left = f.left /\ EndPrompt(f).asked = f.asked
         /\ EndPrompt(f).disturbed = f.disturbed
<1>1. EndPrompt(f) \in CallRecords
  BY DEF EndPrompt, CallRecords
<1>3. /\ EndPrompt(f).prompting = FALSE /\ EndPrompt(f).disturbed = f.disturbed
  BY DEF EndPrompt, CallRecords
<1> QED BY <1>1, <1>3 DEF EndPrompt, CallRecords

\* A call keeps its counters when it gives its slot back.
LEMMA EndPromptCounts ==
  ASSUME NEW f \in CallRecords, Counted(f)
  PROVE  Counted(EndPrompt(f))
BY EndPromptIs DEF Counted

(***************************************************************************)
(* What a step may do to one call, and to one handler and its call.        *)
(***************************************************************************)
HandlerRecords == [stage : {"idle", "attributed", "asking"}, call : Calls \cup {NoCall}]

\* A step that changes one call, and perhaps seals a state.
LEMMA CallStep ==
  ASSUME InputInv, NEW c \in Calls, NEW g \in CallRecords, RecordOK(g),
         g.prompting <=> g.stage = "asking" \/ \E h \in Handlers : Asks(h, c),
         g.stage = "asking" => \A h \in Handlers : ~Asks(h, c),
         call' = [call EXCEPT ![c] = g],
         \A s \in states' : StateOK(s),
         UNCHANGED <<now, epoch, handshake, handler>>
  PROVE  InputInv'
<1>1. call \in [Calls -> CallRecords]
  BY DEF InputInv, TypeOK
<1>2. /\ call' \in [Calls -> CallRecords] /\ call'[c] = g
      /\ \A d \in Calls : d # c => call'[d] = call[d]
  BY <1>1
<1>3. \A h \in Handlers, d \in Calls : Asks(h, d)' <=> Asks(h, d)
  BY DEF Asks
<1>4. TypeOK'
  <2>1. states' \subseteq SealedStates
    BY DEF StateOK
  <2>2. handshake' \in BOOLEAN
    BY DEF InputInv, TypeOK
  <2> QED BY <1>2, <2>1, <2>2 DEF InputInv, TypeOK
<1>5. \A d \in Calls : RecordOK(call[d])'
  BY <1>2 DEF InputInv
<1>6. \A d \in Calls : SlotOK(d)'
  <2> SUFFICES ASSUME NEW d \in Calls PROVE SlotOK(d)'
    OBVIOUS
  <2>1. SlotOK(d)
    BY DEF InputInv
  <2>2. CASE d = c
    BY <1>2, <1>3, <2>1, <2>2 DEF SlotOK
  <2>3. CASE d # c
    BY <1>2, <1>3, <2>1, <2>3 DEF SlotOK
  <2> QED BY <2>2, <2>3
<1>7. HandlersOK'
  BY DEF InputInv, HandlersOK
<1> QED BY <1>4, <1>5, <1>6, <1>7 DEF InputInv

\* forward returns: the call is forgotten, or kept for the handlers it has.
LEMMA EndsStep ==
  ASSUME InputInv, NEW c \in Calls, NEW f \in CallRecords, Counted(f),
         f.prompting <=> \E h \in Handlers : Asks(h, c),
         Ends(c, f),
         \A s \in states' : StateOK(s),
         UNCHANGED <<now, epoch, handshake, handler>>
  PROVE  InputInv'
<1>1. CASE \A h \in Handlers : handler[h].call # c
  <2>1. call' = [call EXCEPT ![c] = Idle]
    BY <1>1, EndedIs DEF Ends, Kept, Ended
  <2>2. \A h \in Handlers : ~Asks(h, c)
    BY <1>1 DEF Asks
  <2> QED BY <2>1, <2>2, IdleIs, CallStep
<1>2. CASE ~\A h \in Handlers : handler[h].call # c
  <2>1. call' = [call EXCEPT ![c] = Ended(f)]
    BY <1>2 DEF Ends, Kept, Ended
  <2> QED BY <2>1, EndedIs, CallStep
<1> QED BY <1>1, <1>2

\* A step of one handler, with the call it refers to.
LEMMA HandlerStep ==
  ASSUME InputInv, NEW h \in Handlers, NEW c \in Calls, NEW x \in HandlerRecords,
         NEW g \in CallRecords, RecordOK(g),
         handler[h].call = c,
         x.call \in {c, NoCall}, x.stage = "idle" <=> x.call = NoCall,
         g.prompting <=> \/ g.stage = "asking" \/ x.stage = "asking"
                         \/ \E i \in Handlers \ {h} : Asks(i, c),
         g.stage = "asking" => x.stage # "asking",
         g.stage = "asking" \/ x.stage = "asking" => \A i \in Handlers \ {h} : ~Asks(i, c),
         handler' = [handler EXCEPT ![h] = x], call' = [call EXCEPT ![c] = g],
         UNCHANGED <<now, epoch, handshake, states>>
  PROVE  InputInv'
<1>1. call \in [Calls -> CallRecords] /\ handler \in [Handlers -> HandlerRecords]
  BY DEF InputInv, TypeOK, HandlerRecords
<1>2. /\ call' \in [Calls -> CallRecords] /\ call'[c] = g
      /\ \A d \in Calls : d # c => call'[d] = call[d]
  BY <1>1
<1>3. /\ handler' \in [Handlers -> HandlerRecords] /\ handler'[h] = x
      /\ \A i \in Handlers : i # h => handler'[i] = handler[i]
  BY <1>1
<1>4. \A i \in Handlers \ {h}, d \in Calls : Asks(i, d)' <=> Asks(i, d)
  BY <1>3 DEF Asks
<1>n. c # NoCall
  BY InputRoundsAssumption
<1>5. Asks(h, c)' <=> x.stage = "asking"
  BY <1>3, <1>n DEF Asks, HandlerRecords
<1>6. \A d \in Calls : d # c => ~Asks(h, d) /\ ~Asks(h, d)'
  BY <1>3, InputRoundsAssumption DEF Asks
<1>7. TypeOK'
  <2>1. handshake' \in BOOLEAN
    BY DEF InputInv, TypeOK
  <2> QED BY <1>2, <1>3, <2>1 DEF InputInv, TypeOK, HandlerRecords
<1>8. \A d \in Calls : RecordOK(call[d])'
  BY <1>2 DEF InputInv
<1>9. \A d \in Calls : SlotOK(d)'
  <2> SUFFICES ASSUME NEW d \in Calls PROVE SlotOK(d)'
    OBVIOUS
  <2>1. SlotOK(d)
    BY DEF InputInv
  <2>2. CASE d = c
    <3>1. call'[c].prompting <=> call'[c].stage = "asking" \/ \E i \in Handlers : Asks(i, c)'
      BY <1>2, <1>4, <1>5
    <3>2. call'[c].stage = "asking" => \A i \in Handlers : ~Asks(i, c)'
      BY <1>2, <1>4, <1>5
    <3>3. \A i, j \in Handlers : Asks(i, c)' /\ Asks(j, c)' => i = j
      BY <1>4, <1>5, <2>1, <2>2 DEF SlotOK
    <3> QED BY <2>2, <3>1, <3>2, <3>3 DEF SlotOK
  <2>3. CASE d # c
    <3>1. \A i \in Handlers : Asks(i, d)' <=> Asks(i, d)
      BY <1>4, <1>6, <2>3
    <3> QED BY <1>2, <2>1, <2>3, <3>1 DEF SlotOK
  <2> QED BY <2>2, <2>3
<1>10. HandlersOK'
  BY <1>3 DEF InputInv, HandlersOK
<1>11. \A s \in states' : StateOK(s)
  BY DEF InputInv
<1> QED BY <1>7, <1>8, <1>9, <1>10, <1>11 DEF InputInv

\* What the invariant says of one call.
LEMMA CallIs ==
  ASSUME InputInv, NEW c \in Calls
  PROVE  /\ call[c] \in CallRecords /\ RecordOK(call[c]) /\ SlotOK(c)
         /\ \A s \in states : StateOK(s)
BY DEF InputInv, TypeOK

(***************************************************************************)
(* The steps of a call.                                                    *)
(***************************************************************************)
\* A call without a requestState.
LEMMA BeginKeeps ==
  ASSUME InputInv, NEW c \in Calls, NEW a \in Agents, NEW t \in Tools, NEW g \in Args,
         Begin(c, a, t, g)
  PROVE  InputInv'
<1> DEFINE id == Identity(a, t, g)
           rs == FirstRound(id)
           n  == NewCall(a, id, rs)
<1>1. id \in Identities
  BY IdentityType DEF InputInv
<1>2. /\ rs.round = 0 /\ rs.prompts = 0 /\ rs.root = id /\ rs.shown = 0 /\ rs.rounds = 0
  BY DEF FirstRound
<1>3. n \in CallRecords /\ RecordOK(n) /\ n.stage = "calling" /\ ~n.prompting
  BY <1>1, <1>2, NewCallIs, Limits
<1>4. \A h \in Handlers : ~Asks(h, c)
  BY DEF Begin, Asks
<1>5. /\ call' = [call EXCEPT ![c] = n]
      /\ UNCHANGED <<now, epoch, handshake, handler, states>>
  BY DEF Begin
<1> HIDE DEF n
<1> QED BY <1>3, <1>4, <1>5, CallIs, CallStep

\* A state that resumes is of the very call it was issued for.
LEMMA ResumesTheSame ==
  ASSUME NEW s, StateOK(s), NEW id \in Identities, Resumes(s, id)
  PROVE  s.id = id
<1>1. s.id \in Identities
  BY DEF StateOK, SealedStates
<1> QED BY <1>1 DEF Resumes, Opens, Identities

\* A call with a requestState.
LEMMA RetryKeeps ==
  ASSUME InputInv, NEW c \in Calls, NEW a \in Agents, NEW t \in Tools, NEW g \in Args,
         NEW s \in states, Retry(c, a, t, g, s)
  PROVE  InputInv'
<1> DEFINE id == Identity(a, t, g)
           n  == NewCall(a, id, s)
<1>1. id \in Identities
  BY IdentityType DEF InputInv
<1>2. StateOK(s)
  BY DEF InputInv
<1>3. s.id = id
  BY <1>1, <1>2, ResumesTheSame DEF Retry
<1>4. /\ s.round \in 0..MaxInputRounds /\ s.prompts \in 0..MaxPromptsPerCall
      /\ s.root = s.id /\ s.shown = s.prompts /\ s.rounds = s.round
  BY <1>2 DEF StateOK, SealedStates
<1>5. n \in CallRecords /\ RecordOK(n) /\ n.stage = "calling" /\ ~n.prompting
  <2> HIDE DEF id
  <2> QED BY <1>1, <1>3, <1>4, NewCallIs
<1>6. \A h \in Handlers : ~Asks(h, c)
  BY DEF Retry, Asks
<1>7. /\ call' = [call EXCEPT ![c] = n]
      /\ UNCHANGED <<now, epoch, handshake, handler, states>>
  BY DEF Retry
<1> HIDE DEF n
<1> QED BY <1>5, <1>6, <1>7, CallIs, CallStep

\* forward returns without having asked: a result, an error, a bad or refused
\* round, a seal that fails, a slot that is taken.
LEMMA EndKeeps ==
  ASSUME InputInv, NEW c \in Calls, call[c].stage # "asking", Ends(c, call[c]),
         \A s \in states' : StateOK(s), UNCHANGED <<now, epoch, handshake, handler>>
  PROVE  InputInv'
<1>1. call[c] \in CallRecords /\ Counted(call[c])
  BY CallIs DEF RecordOK
<1>2. call[c].prompting <=> \E h \in Handlers : Asks(h, c)
  BY CallIs DEF SlotOK
<1> QED BY <1>1, <1>2, EndsStep

\* forward returns from a prompt.
LEMMA EndAskKeeps ==
  ASSUME InputInv, NEW c \in Calls, call[c].stage = "asking", Ends(c, EndPrompt(call[c])),
         UNCHANGED <<now, epoch, handshake, handler, states>>
  PROVE  InputInv'
<1>1. call[c] \in CallRecords /\ Counted(call[c])
  BY CallIs DEF RecordOK
<1>2. \A h \in Handlers : ~Asks(h, c)
  BY CallIs DEF SlotOK
<1>3. /\ EndPrompt(call[c]) \in CallRecords /\ Counted(EndPrompt(call[c]))
      /\ EndPrompt(call[c]).prompting = FALSE
  BY <1>1, EndPromptIs, EndPromptCounts
<1>4. \A s \in states' : StateOK(s)
  BY CallIs
<1> QED BY <1>2, <1>3, <1>4, EndsStep

\* Input requests come in sequences that are not empty.
LEMMA RequestsAre ==
  ASSUME NEW reqs \in Requests
  PROVE  Len(reqs) \in Nat /\ Len(reqs) >= 1
<1>1. PICK n \in 1..MaxInputRequests + 1 : reqs \in [1..n -> Kinds]
  BY DEF Requests
<1>2. n \in Nat /\ n >= 1
  BY <1>1, Limits
<1>3. reqs \in Seq(Kinds) /\ Len(reqs) = n
  BY <1>1, <1>2
<1> QED BY <1>2, <1>3

\* The upstream asks for input.
LEMMA InputRequiredKeeps ==
  ASSUME InputInv, NEW c \in Calls, NEW reqs \in Requests, InputRequired(c, reqs)
  PROVE  InputInv'
<1> DEFINE f == call[c]
           g == [f EXCEPT !.stage = "answered", !.left = Len(reqs)]
<1>1. f \in CallRecords /\ RecordOK(f) /\ SlotOK(c) /\ \A s \in states : StateOK(s)
  BY CallIs
<1>2. Len(reqs) \in 0..MaxInputRequests /\ Len(reqs) >= 1
  BY RequestsAre, Limits DEF InputRequired, Relabels
<1>3. /\ f.stage = "calling" /\ call' = [call EXCEPT ![c] = g]
      /\ UNCHANGED <<now, epoch, handshake, handler, states>>
  BY DEF InputRequired
<1>s. f.prompting <=> \E h \in Handlers : Asks(h, c)
  BY <1>1, <1>3 DEF SlotOK
<1> HIDE DEF f
<1>4. g \in CallRecords /\ g.stage = "answered" /\ g.left = Len(reqs)
  BY <1>1, <1>2 DEF CallRecords
<1>5. /\ g.shown = f.shown /\ g.prompts = f.prompts /\ g.asked = f.asked /\ g.rounds = f.rounds
      /\ g.round = f.round /\ g.agent = f.agent /\ g.root = f.root /\ g.id = f.id
  BY <1>1 DEF CallRecords
<1>6. g.prompting = f.prompting
  BY <1>1 DEF CallRecords
<1> HIDE DEF g
<1>7. RecordOK(g)
  BY <1>1, <1>2, <1>3, <1>4, <1>5 DEF RecordOK, Counted, Fits, SameCall
<1> QED BY <1>1, <1>s, <1>3, <1>4, <1>6, <1>7, CallStep

\* forward's checks pass.
LEMMA PassRoundKeeps ==
  ASSUME InputInv, NEW c \in Calls, PassRound(c)
  PROVE  InputInv'
<1> DEFINE f == call[c]
           g == Passed(f)
<1>1. f \in CallRecords /\ RecordOK(f) /\ SlotOK(c) /\ \A s \in states : StateOK(s)
  BY CallIs
<1>3. /\ f.stage = "answered" /\ call' = [call EXCEPT ![c] = g] /\ MayAsk(f)
      /\ UNCHANGED <<now, epoch, handshake, handler, states>>
  BY DEF PassRound
<1>s. f.prompting <=> \E h \in Handlers : Asks(h, c)
  BY <1>1, <1>3 DEF SlotOK
<1> HIDE DEF f
<1>2. /\ f.rounds + 1 \in Nat /\ 0 \in 0..MaxPromptsPerCall
      /\ f.rounds \in Nat /\ f.round \in Nat /\ f.prompts \in Nat /\ f.left \in Nat
  BY <1>1, FieldTypes, Limits
<1>4. g \in CallRecords /\ g.stage = "passed" /\ g.asked = 0 /\ g.rounds = f.rounds + 1
  BY <1>1, <1>2 DEF Passed, CallRecords
<1>5. /\ g.shown = f.shown /\ g.prompts = f.prompts /\ g.left = f.left
      /\ g.round = f.round /\ g.agent = f.agent /\ g.root = f.root /\ g.id = f.id
  BY <1>1 DEF Passed, CallRecords
<1>6. g.prompting = f.prompting
  BY <1>1 DEF Passed, CallRecords
<1> HIDE DEF g
<1>7. Counted(g) /\ SameCall(g)
  BY <1>1, <1>2, <1>3, <1>4, <1>5, Limits DEF RecordOK, Counted, SameCall, MayAsk
<1>8. Fits(g)
  BY <1>2, <1>3, <1>4, <1>5, Limits DEF Fits, MayAsk
<1> QED BY <1>1, <1>s, <1>3, <1>4, <1>6, <1>7, <1>8, CallStep DEF RecordOK

\* What forward seals is a state of this call.
LEMMA SealedIs ==
  ASSUME InputInv, NEW c \in Calls, Seal(c)
  PROVE  StateOK(Sealed(call[c]))
<1> DEFINE f == call[c]
<1>1. f \in CallRecords /\ RecordOK(f)
  BY CallIs
<1>2. f.stage = "passed" /\ f.agent \in Stateless
  BY DEF Seal
<1>t. now + StateTTL \in Nat
  BY Limits DEF InputInv, TypeOK
<1> HIDE DEF f
<1>3. /\ f.prompts + f.left \in 0..MaxPromptsPerCall /\ f.round + 1 \in 0..MaxInputRounds
      /\ f.shown + f.left \in Nat /\ f.rounds \in Nat
      /\ f.rounds = f.round + 1 /\ f.shown = f.prompts
      /\ f.id \in Identities /\ f.root = f.id
  BY <1>1, <1>2, FieldTypes, Limits DEF RecordOK, Counted, Fits, SameCall
<1>4. Sealed(f) \in SealedStates
  BY <1>3, <1>t DEF Sealed, SealedStates
<1>5. /\ Sealed(f).root = f.root /\ Sealed(f).id = f.id
      /\ Sealed(f).shown = f.shown + f.left /\ Sealed(f).prompts = f.prompts + f.left
      /\ Sealed(f).rounds = f.rounds /\ Sealed(f).round = f.round + 1
  BY DEF Sealed
<1>6. StateOK(Sealed(f))
  BY <1>3, <1>4, <1>5 DEF StateOK
<1> QED BY <1>6 DEF f

\* A stateless agent is given a state, or not.
LEMMA SealKeeps ==
  ASSUME InputInv, NEW c \in Calls, Seal(c) \/ SealFails(c)
  PROVE  InputInv'
<1>1. CASE Seal(c)
  <2>1. \A s \in states' : StateOK(s)
    BY <1>1, SealedIs, CallIs DEF Seal
  <2> QED BY <1>1, <2>1, EndKeeps DEF Seal
<1>2. CASE SealFails(c)
  BY <1>2, EndKeeps, CallIs DEF SealFails
<1> QED BY <1>1, <1>2

\* A stateful agent is asked.
LEMMA AskNextKeeps ==
  ASSUME InputInv, NEW c \in Calls, AskNext(c)
  PROVE  InputInv'
<1> DEFINE f == call[c]
           p == StartPrompt(f)
           g == [p EXCEPT !.stage = "asking", !.asked = f.asked + 1]
<1>1. f \in CallRecords /\ RecordOK(f) /\ SlotOK(c) /\ \A s \in states : StateOK(s)
  BY CallIs
<1>2. /\ f.stage = "passed" /\ call' = [call EXCEPT ![c] = g] /\ CanStartPrompt(f)
      /\ f.agent \notin Stateless
      /\ UNCHANGED <<now, epoch, handshake, handler, states>>
  BY DEF AskNext, Asking
<1>s. \A h \in Handlers : ~Asks(h, c)
  BY <1>1, <1>2 DEF SlotOK, CanStartPrompt
<1> HIDE DEF f
<1>3. /\ p \in CallRecords /\ p.prompts = f.prompts + 1 /\ p.shown = f.shown + 1
      /\ p.agent = f.agent /\ p.id = f.id /\ p.root = f.root /\ p.round = f.round
      /\ p.rounds = f.rounds /\ p.left = f.left /\ p.asked = f.asked
      /\ p.disturbed = f.disturbed
  BY <1>1, <1>2, StartPromptIs
<1>4. p.prompting = TRUE
  BY <1>1, <1>2, StartPromptIs
<1> HIDE DEF p
<1>n. /\ f.asked \in Nat /\ f.prompts \in Nat /\ f.left \in Nat /\ f.shown \in Nat
      /\ f.rounds \in Nat /\ f.round \in Nat /\ p.prompts \in 0..MaxPromptsPerCall
  BY <1>1, <1>3, FieldTypes
<1>5. f.asked + 1 \in 0..MaxPromptsPerCall
  BY <1>1, <1>3, <1>n, Limits DEF RecordOK, Counted
<1>6. g \in CallRecords /\ g.stage = "asking" /\ g.asked = f.asked + 1
  BY <1>3, <1>5 DEF CallRecords
<1>7. /\ g.shown = f.shown + 1 /\ g.prompts = f.prompts + 1 /\ g.left = f.left
      /\ g.round = f.round /\ g.rounds = f.rounds /\ g.agent = f.agent /\ g.root = f.root
      /\ g.id = f.id /\ g.disturbed = f.disturbed
  BY <1>3 DEF CallRecords
<1>8. g.prompting = TRUE
  BY <1>3, <1>4 DEF CallRecords
<1> HIDE DEF g
<1>9. Counted(g) /\ SameCall(g)
  BY <1>1, <1>2, <1>6, <1>7, <1>n DEF RecordOK, Counted, SameCall
<1>10. Fits(g)
  BY <1>1, <1>2, <1>6, <1>7, <1>n, Limits DEF RecordOK, Fits
<1> QED BY <1>1, <1>s, <1>2, <1>6, <1>8, <1>9, <1>10, CallStep DEF RecordOK

\* The agent answers.
LEMMA AnsweredKeeps ==
  ASSUME InputInv, NEW c \in Calls, Answered(c)
  PROVE  InputInv'
<1> DEFINE f == call[c]
           p == EndPrompt(f)
<1>1. f \in CallRecords /\ RecordOK(f) /\ SlotOK(c) /\ \A s \in states : StateOK(s)
  BY CallIs
<1>2. /\ f.stage = "asking"
      /\ call' = [call EXCEPT ![c] = IF f.left = 1 THEN RoundOver(f) ELSE AskedOne(f)]
      /\ UNCHANGED <<now, epoch, handshake, handler, states>>
  BY DEF Answered
<1>s. \A h \in Handlers : ~Asks(h, c)
  BY <1>1, <1>2 DEF SlotOK
<1> HIDE DEF f
<1>3. /\ p \in CallRecords /\ p.prompts = f.prompts /\ p.shown = f.shown
      /\ p.agent = f.agent /\ p.id = f.id /\ p.root = f.root /\ p.round = f.round
      /\ p.rounds = f.rounds /\ p.left = f.left /\ p.asked = f.asked
      /\ p.disturbed = f.disturbed
  BY <1>1, EndPromptIs
<1>4. p.prompting = FALSE
  BY <1>1, EndPromptIs
<1>n. /\ f.asked \in Nat /\ f.prompts \in Nat /\ f.left \in 0..MaxInputRequests
      /\ f.shown \in Nat /\ f.left \in Nat
      /\ f.rounds \in Nat /\ f.round \in Nat
  BY <1>1, FieldTypes
<1>5. CASE f.left = 1
  <2> DEFINE g == [p EXCEPT !.stage = "calling", !.left = 0, !.round = f.round + 1]
  <2>1. call' = [call EXCEPT ![c] = g]
    BY <1>2, <1>5 DEF RoundOver
  <2> HIDE DEF p
  <2>2. f.round + 1 \in 0..MaxInputRounds /\ 0 \in 0..MaxInputRequests
    BY <1>1, <1>2, <1>n, Limits DEF RecordOK, Counted
  <2>3. g \in CallRecords /\ g.stage = "calling" /\ g.left = 0 /\ g.round = f.round + 1
    BY <1>3, <2>2 DEF CallRecords
  <2>4. /\ g.shown = f.shown /\ g.prompts = f.prompts /\ g.asked = f.asked
        /\ g.rounds = f.rounds /\ g.agent = f.agent /\ g.root = f.root /\ g.id = f.id
    BY <1>3 DEF CallRecords
  <2>5. g.prompting = FALSE
    BY <1>3, <1>4 DEF CallRecords
  <2> HIDE DEF g
  <2>6. RecordOK(g)
    BY <1>1, <1>2, <1>n, <2>3, <2>4 DEF RecordOK, Counted, Fits, SameCall
  <2> QED BY <1>1, <1>s, <1>2, <2>1, <2>3, <2>5, <2>6, CallStep
<1>6. CASE f.left # 1
  <2> DEFINE g == [p EXCEPT !.stage = "passed", !.left = f.left - 1]
  <2>1. call' = [call EXCEPT ![c] = g]
    BY <1>2, <1>6 DEF AskedOne
  <2> HIDE DEF p
  <2>2. f.left - 1 \in 0..MaxInputRequests /\ f.left - 1 >= 1
    BY <1>1, <1>2, <1>6, <1>n, Limits DEF RecordOK, Counted
  <2>3. g \in CallRecords /\ g.stage = "passed" /\ g.left = f.left - 1
    BY <1>3, <2>2 DEF CallRecords
  <2>4. /\ g.shown = f.shown /\ g.prompts = f.prompts /\ g.asked = f.asked /\ g.round = f.round
        /\ g.rounds = f.rounds /\ g.agent = f.agent /\ g.root = f.root /\ g.id = f.id
        /\ g.disturbed = f.disturbed
    BY <1>3 DEF CallRecords
  <2>5. g.prompting = FALSE
    BY <1>3, <1>4 DEF CallRecords
  <2> HIDE DEF g
  <2>6. Counted(g) /\ SameCall(g)
    BY <1>1, <1>2, <1>n, <2>2, <2>3, <2>4 DEF RecordOK, Counted, SameCall
  <2>7. Fits(g)
    BY <1>1, <1>2, <1>n, <2>3, <2>4, <2>5, Limits DEF RecordOK, Fits
  <2> QED BY <1>1, <1>s, <1>2, <2>1, <2>3, <2>5, <2>6, <2>7, CallStep DEF RecordOK
<1> QED BY <1>5, <1>6

\* The agent gives a call up.
LEMMA CancelKeeps ==
  ASSUME InputInv, NEW c \in Calls, Cancel(c)
  PROVE  InputInv'
<1> DEFINE f == call[c]
           g == [f EXCEPT !.cancelled = TRUE]
<1>1. f \in CallRecords /\ RecordOK(f) /\ SlotOK(c) /\ \A s \in states : StateOK(s)
  BY CallIs
<1>2. /\ call' = [call EXCEPT ![c] = g]
      /\ UNCHANGED <<now, epoch, handshake, handler, states>>
  BY DEF Cancel
<1>s. /\ f.prompting <=> f.stage = "asking" \/ \E h \in Handlers : Asks(h, c)
      /\ f.stage = "asking" => \A h \in Handlers : ~Asks(h, c)
  BY <1>1 DEF SlotOK
<1> HIDE DEF f
<1>3. g \in CallRecords
  BY <1>1 DEF CallRecords
<1>4. /\ g.shown = f.shown /\ g.prompts = f.prompts /\ g.asked = f.asked /\ g.rounds = f.rounds
      /\ g.round = f.round /\ g.agent = f.agent /\ g.root = f.root /\ g.id = f.id
      /\ g.stage = f.stage /\ g.left = f.left
  BY <1>1 DEF CallRecords
<1>5. g.prompting = f.prompting /\ g.disturbed = f.disturbed
  BY <1>1 DEF CallRecords
<1> HIDE DEF g
<1>6. RecordOK(g)
  BY <1>1, <1>4, <1>5 DEF RecordOK, Counted, Fits, SameCall
<1> QED BY <1>1, <1>s, <1>2, <1>3, <1>4, <1>5, <1>6, CallStep

\* The call's context is done.
LEMMA CancelledKeeps ==
  ASSUME InputInv, NEW c \in Calls, Cancelled(c)
  PROVE  InputInv'
<1>1. CASE call[c].stage = "asking"
  BY <1>1, EndAskKeeps DEF Cancelled
<1>2. CASE call[c].stage # "asking"
  BY <1>2, EndKeeps, CallIs DEF Cancelled
<1> QED BY <1>1, <1>2

\* The steps of fathomgate in a call.
LEMMA ProgressKeeps ==
  ASSUME InputInv, NEW c \in Calls, Progress(c)
  PROVE  InputInv'
<1>1. CASE PassRound(c)
  BY <1>1, PassRoundKeeps
<1>2. CASE RefuseRound(c)
  BY <1>2, EndKeeps, CallIs DEF RefuseRound
<1>3. CASE Seal(c) \/ SealFails(c)
  BY <1>3, SealKeeps
<1>4. CASE AskNext(c)
  BY <1>4, AskNextKeeps
<1>5. CASE AskRefused(c)
  BY <1>5, EndKeeps, CallIs DEF AskRefused
<1>6. CASE Cancelled(c)
  BY <1>6, CancelledKeeps
<1> QED BY <1>1, <1>2, <1>3, <1>4, <1>5, <1>6 DEF Progress

(***************************************************************************)
(* The steps of a handler of elicitation/create, and the rest.             *)
(***************************************************************************)
\* attribute finds a call.
LEMMA ElicitationKeeps ==
  ASSUME InputInv, NEW h \in Handlers, NEW c \in Calls, Elicitation(h, c)
  PROVE  InputInv'
<1>1. /\ handler[h].stage = "idle"
      /\ handler' = [handler EXCEPT ![h] = [stage |-> "attributed", call |-> c]]
      /\ UNCHANGED <<now, epoch, handshake, call, states>>
  BY DEF Elicitation
<1>2. handler \in [Handlers -> HandlerRecords]
  BY DEF InputInv, TypeOK, HandlerRecords
<1>3. /\ handler' \in [Handlers -> HandlerRecords]
      /\ handler'[h] = [stage |-> "attributed", call |-> c]
      /\ \A i \in Handlers : i # h => handler'[i] = handler[i]
  BY <1>1, <1>2 DEF HandlerRecords
<1>4. \A i \in Handlers, d \in Calls : Asks(i, d)' <=> Asks(i, d)
  BY <1>1, <1>3 DEF Asks
<1>5. TypeOK'
  <2>1. handshake' \in BOOLEAN
    BY <1>1 DEF InputInv, TypeOK
  <2> QED BY <1>1, <1>3, <2>1 DEF InputInv, TypeOK, HandlerRecords
<1>6. \A d \in Calls : SlotOK(d)'
  BY <1>1, <1>4 DEF InputInv, SlotOK
<1>7. HandlersOK'
  BY <1>3, InputRoundsAssumption DEF InputInv, HandlersOK
<1>8. (\A d \in Calls : RecordOK(call[d])') /\ \A s \in states' : StateOK(s)
  BY <1>1 DEF InputInv
<1> QED BY <1>5, <1>6, <1>7, <1>8 DEF InputInv

\* A handler ends; the call it referred to may be forgotten with it.
LEMMA HandlerEndsKeeps ==
  ASSUME InputInv, NEW h \in Handlers, handler[h].stage # "idle",
         NEW f \in CallRecords, RecordOK(f),
         f.stage = call[handler[h].call].stage,
         f.prompting <=> \/ f.stage = "asking"
                         \/ \E i \in Handlers \ {h} : Asks(i, handler[h].call),
         HandlerEnds(h, f), UNCHANGED <<now, epoch, handshake, states>>
  PROVE  InputInv'
<1> DEFINE c == handler[h].call
<1>1. c \in Calls /\ SlotOK(c)
  BY DEF InputInv, TypeOK, HandlersOK
<1>2. handler' = [handler EXCEPT ![h] = IdleHandler] /\ call' = [call EXCEPT ![c] = Kept(c, f, {h})]
  BY DEF HandlerEnds
<1>3. /\ IdleHandler \in HandlerRecords /\ IdleHandler.stage = "idle" /\ IdleHandler.call = NoCall
  BY DEF IdleHandler, HandlerRecords
<1>4. f.stage = "asking" => \A i \in Handlers \ {h} : ~Asks(i, c)
  BY <1>1 DEF SlotOK
<1>5. \A i \in Handlers : Asks(i, c) => handler[i].call = c
  BY DEF Asks
<1> HIDE DEF c
<1>6. CASE f.stage = "idle" /\ \A i \in Handlers \ {h} : handler[i].call # c
  <2>1. Kept(c, f, {h}) = Idle
    BY <1>6 DEF Kept
  <2>2. \A i \in Handlers \ {h} : ~Asks(i, c)
    BY <1>5, <1>6
  <2> QED BY <1>1, <1>2, <1>3, <2>1, <2>2, IdleIs, HandlerStep DEF c
<1>7. CASE ~(f.stage = "idle" /\ \A i \in Handlers \ {h} : handler[i].call # c)
  <2>1. Kept(c, f, {h}) = f
    BY <1>7 DEF Kept
  <2> QED BY <1>1, <1>2, <1>3, <1>4, <2>1, HandlerStep DEF c
<1> QED BY <1>6, <1>7

\* A call is the same call, with the same counters, when its slot is given back.
LEMMA EndPromptOK ==
  ASSUME NEW f \in CallRecords, RecordOK(f)
  PROVE  f.stage # "asking" => RecordOK(EndPrompt(f))
<1>1. Counted(EndPrompt(f))
  BY EndPromptCounts DEF RecordOK
<1>2. Fits(EndPrompt(f)) /\ SameCall(EndPrompt(f))
  BY EndPromptIs DEF RecordOK, Fits, SameCall
<1> QED BY <1>1, <1>2 DEF RecordOK

\* A prompt of a handler is refused.
LEMMA ElicitationRefusedKeeps ==
  ASSUME InputInv, NEW h \in Handlers, ElicitationRefused(h)
  PROVE  InputInv'
<1> DEFINE c == handler[h].call
<1>1. c \in Calls /\ handler[h].stage = "attributed"
  BY DEF InputInv, TypeOK, HandlersOK, ElicitationRefused
<1>2. call[c] \in CallRecords /\ RecordOK(call[c]) /\ SlotOK(c)
  BY <1>1, CallIs
<1>3. ~Asks(h, c)
  BY <1>1 DEF Asks
<1>4. call[c].prompting <=> call[c].stage = "asking" \/ \E i \in Handlers \ {h} : Asks(i, c)
  BY <1>2, <1>3 DEF SlotOK
<1> QED BY <1>1, <1>2, <1>4, HandlerEndsKeeps DEF ElicitationRefused

\* A prompt of a handler is over.
LEMMA ElicitationOverKeeps ==
  ASSUME InputInv, NEW h \in Handlers, handler[h].stage = "asking",
         HandlerEnds(h, EndPrompt(call[handler[h].call])), UNCHANGED <<now, epoch, handshake, states>>
  PROVE  InputInv'
<1> DEFINE c == handler[h].call
           f == EndPrompt(call[c])
<1>1. c \in Calls
  BY DEF InputInv, TypeOK, HandlersOK
<1>2. call[c] \in CallRecords /\ RecordOK(call[c]) /\ SlotOK(c)
  BY <1>1, CallIs
<1>3. Asks(h, c)
  BY DEF Asks
<1>4. call[c].stage # "asking" /\ \A i \in Handlers \ {h} : ~Asks(i, c)
  BY <1>2, <1>3 DEF SlotOK
<1>5. f \in CallRecords /\ RecordOK(f) /\ f.stage = call[c].stage /\ f.prompting = FALSE
  BY <1>2, <1>4, EndPromptIs, EndPromptOK
<1>6. HandlerEnds(h, f)
  OBVIOUS
<1> HIDE DEF f
<1> QED BY <1>4, <1>5, <1>6, HandlerEndsKeeps

\* A prompt of a handler is put to the agent.
LEMMA ElicitationAskedKeeps ==
  ASSUME InputInv, NEW h \in Handlers, ElicitationAsked(h)
  PROVE  InputInv'
<1> DEFINE c == handler[h].call
           f == call[c]
           p == StartPrompt(f)
           g == [p EXCEPT !.disturbed = TRUE]
           x == [handler[h] EXCEPT !.stage = "asking"]
<1>1. /\ handler[h].stage = "attributed" /\ CanStartPrompt(f) /\ f.agent \notin Stateless
      /\ handler' = [handler EXCEPT ![h] = x] /\ call' = [call EXCEPT ![c] = g]
      /\ UNCHANGED <<now, epoch, handshake, states>>
  BY DEF ElicitationAsked, Relayable
<1>2. c \in Calls /\ handler[h] \in HandlerRecords
  BY <1>1 DEF InputInv, TypeOK, HandlersOK, HandlerRecords
<1>3. f \in CallRecords /\ RecordOK(f) /\ SlotOK(c)
  BY <1>2, CallIs
<1>4. f.stage # "asking" /\ \A i \in Handlers : ~Asks(i, c)
  BY <1>1, <1>3 DEF SlotOK, CanStartPrompt
<1>5. x \in HandlerRecords /\ x.stage = "asking" /\ x.call = c /\ c # NoCall
  BY <1>2, InputRoundsAssumption DEF HandlerRecords
<1> HIDE DEF f, x
<1>6. /\ p \in CallRecords /\ p.prompts = f.prompts + 1 /\ p.shown = f.shown + 1
      /\ p.agent = f.agent /\ p.id = f.id /\ p.root = f.root /\ p.round = f.round
      /\ p.rounds = f.rounds /\ p.left = f.left /\ p.asked = f.asked /\ p.stage = f.stage
  BY <1>1, <1>3, StartPromptIs
<1>7. p.prompting = TRUE
  BY <1>1, <1>3, StartPromptIs
<1> HIDE DEF p
<1>8. g \in CallRecords
  BY <1>6 DEF CallRecords
<1>9. /\ g.prompts = f.prompts + 1 /\ g.shown = f.shown + 1
      /\ g.agent = f.agent /\ g.id = f.id /\ g.root = f.root /\ g.round = f.round
      /\ g.rounds = f.rounds /\ g.left = f.left /\ g.asked = f.asked /\ g.stage = f.stage
  BY <1>6 DEF CallRecords
<1>10. g.prompting = TRUE /\ g.disturbed = TRUE
  BY <1>6, <1>7 DEF CallRecords
<1> HIDE DEF g
<1>n. f.asked \in Nat /\ f.prompts \in Nat /\ f.shown \in Nat
  BY <1>3, FieldTypes
<1>11. RecordOK(g)
  BY <1>1, <1>3, <1>4, <1>9, <1>10, <1>n DEF RecordOK, Counted, Fits, SameCall
<1> HIDE DEF c
<1>12. handler[h].call = c
  BY DEF c
<1> QED BY <1>1, <1>2, <1>4, <1>5, <1>8, <1>9, <1>10, <1>11, <1>12, HandlerStep

\* The process starts again: its calls are gone, the states stay.
LEMMA RestartKeeps ==
  ASSUME InputInv, Restart
  PROVE  InputInv'
<1>1. call' = [c \in Calls |-> Idle] /\ handler' = [h \in Handlers |-> IdleHandler]
  BY DEF Restart
<1>2. IdleHandler.stage = "idle" /\ IdleHandler.call = NoCall /\ IdleHandler \in HandlerRecords
  BY DEF IdleHandler, HandlerRecords
<1>3. /\ \A c \in Calls : call'[c] = Idle
      /\ \A h \in Handlers : handler'[h] = IdleHandler
  BY <1>1
<1>4. call' \in [Calls -> CallRecords] /\ handler' \in [Handlers -> HandlerRecords]
  BY <1>1, <1>2, IdleIs
<1>5. epoch' \in 0..MaxEpoch /\ now' \in 0..MaxTime /\ states' = states
  BY Limits DEF Restart, InputInv, TypeOK
<1>6. handshake' \in BOOLEAN
  BY DEF Restart
<1>7. TypeOK'
  BY <1>4, <1>5, <1>6 DEF InputInv, TypeOK, HandlerRecords
<1>8. \A c \in Calls : RecordOK(call[c])'
  BY <1>3, IdleIs
<1>9. \A c \in Calls : SlotOK(c)'
  BY <1>2, <1>3, IdleIs DEF SlotOK, Asks
<1>10. HandlersOK' /\ \A s \in states' : StateOK(s)
  BY <1>2, <1>3, <1>5 DEF HandlersOK, InputInv
<1> QED BY <1>7, <1>8, <1>9, <1>10 DEF InputInv

\* Time, or nothing.
LEMMA QuietKeeps ==
  ASSUME InputInv, Tick \/ UNCHANGED vars
  PROVE  InputInv'
<1>1. UNCHANGED <<epoch, handshake, call, handler, states>> /\ now' \in 0..MaxTime
  BY Limits DEF InputInv, TypeOK, Tick, vars
<1>2. handshake' \in BOOLEAN
  BY <1>1 DEF InputInv, TypeOK
<1>3. TypeOK'
  BY <1>1, <1>2 DEF InputInv, TypeOK
<1>4. (\A c \in Calls : SlotOK(c)') /\ HandlersOK'
  BY <1>1 DEF InputInv, SlotOK, Asks, HandlersOK
<1>5. (\A c \in Calls : RecordOK(call[c])') /\ \A s \in states' : StateOK(s)
  BY <1>1 DEF InputInv
<1> QED BY <1>3, <1>4, <1>5 DEF InputInv

\* A step of a call.
CallNext(c) ==
  \/ \E a \in Agents, t \in Tools, g \in Args :
       Begin(c, a, t, g) \/ \E s \in states : Retry(c, a, t, g, s)
  \/ \E reqs \in Requests : InputRequired(c, reqs) \/ BadInputRequired(c, reqs)
  \/ Progress(c) \/ Answer(c) \/ Answered(c) \/ AskFails(c) \/ Cancel(c)

\* A step of a handler.
HandlerNext(h) ==
  HandlerProgress(h) \/ ElicitationAnswered(h) \/ \E c \in Calls : Elicitation(h, c)

\* The next-state relation, by whose step it is.
LEMMA NextSplits ==
  [Next]_vars <=> \/ \E c \in Calls : CallNext(c)
                  \/ \E h \in Handlers : HandlerNext(h)
                  \/ Restart \/ Tick \/ UNCHANGED vars
BY DEF Next, CallNext, HandlerNext

\* Every step of a call keeps the invariant.
LEMMA CallNextKeeps ==
  ASSUME InputInv, NEW c \in Calls, CallNext(c)
  PROVE  InputInv'
<1>1. CASE \E a \in Agents, t \in Tools, g \in Args :
             Begin(c, a, t, g) \/ \E s \in states : Retry(c, a, t, g, s)
  BY <1>1, BeginKeeps, RetryKeeps
<1>2. CASE \E reqs \in Requests : InputRequired(c, reqs)
  BY <1>2, InputRequiredKeeps
<1>3. CASE \E reqs \in Requests : BadInputRequired(c, reqs)
  BY <1>3, EndKeeps, CallIs DEF BadInputRequired
<1>4. CASE Progress(c)
  BY <1>4, ProgressKeeps
<1>5. CASE Answer(c)
  BY <1>5, EndKeeps, CallIs DEF Answer
<1>6. CASE Answered(c)
  BY <1>6, AnsweredKeeps
<1>7. CASE AskFails(c)
  BY <1>7, EndAskKeeps DEF AskFails
<1>8. CASE Cancel(c)
  BY <1>8, CancelKeeps
<1> QED BY <1>1, <1>2, <1>3, <1>4, <1>5, <1>6, <1>7, <1>8 DEF CallNext

\* Every step of a handler keeps the invariant.
LEMMA HandlerNextKeeps ==
  ASSUME InputInv, NEW h \in Handlers, HandlerNext(h)
  PROVE  InputInv'
<1>1. CASE ElicitationRefused(h)
  BY <1>1, ElicitationRefusedKeeps
<1>2. CASE ElicitationAsked(h)
  BY <1>2, ElicitationAskedKeeps
<1>3. CASE ElicitationWithdrawn(h) \/ ElicitationAnswered(h)
  BY <1>3, ElicitationOverKeeps DEF ElicitationWithdrawn, ElicitationAnswered
<1>4. CASE \E c \in Calls : Elicitation(h, c)
  BY <1>4, ElicitationKeeps
<1> QED BY <1>1, <1>2, <1>3, <1>4 DEF HandlerNext, HandlerProgress

\* The invariant is inductive.
LEMMA InputStart == Init => InputInv
<1> SUFFICES ASSUME Init PROVE InputInv
  OBVIOUS
<1>1. IdleHandler.stage = "idle" /\ IdleHandler.call = NoCall /\ IdleHandler \in HandlerRecords
  BY DEF IdleHandler, HandlerRecords
<1>2. /\ \A c \in Calls : call[c] = Idle
      /\ \A h \in Handlers : handler[h] = IdleHandler
  BY DEF Init
<1>3. call \in [Calls -> CallRecords] /\ handler \in [Handlers -> HandlerRecords]
  BY <1>1, IdleIs DEF Init
<1>4. epoch \in 0..MaxEpoch /\ now \in 0..MaxTime /\ states = {}
  BY Limits DEF Init
<1>5. handshake \in BOOLEAN
  BY DEF Init
<1>6. TypeOK
  BY <1>3, <1>4, <1>5 DEF TypeOK, HandlerRecords
<1>7. \A c \in Calls : RecordOK(call[c])
  BY <1>2, IdleIs
<1>8. \A c \in Calls : SlotOK(c)
  BY <1>1, <1>2, IdleIs DEF SlotOK, Asks
<1>9. HandlersOK /\ \A s \in states : StateOK(s)
  BY <1>1, <1>2, <1>4 DEF HandlersOK
<1> QED BY <1>6, <1>7, <1>8, <1>9 DEF InputInv

\* Every step of the specification keeps it.
LEMMA InputStep == InputInv /\ [Next]_vars => InputInv'
BY NextSplits, CallNextKeeps, HandlerNextKeeps, RestartKeeps, QuietKeeps

\* The invariant holds in every state of every behaviour.
LEMMA InputAlways == Spec => []InputInv
BY InputStart, InputStep, PTL DEF Spec

(***************************************************************************)
(* No half round.                                                          *)
(***************************************************************************)
\* A call whose round was checked and begun, with no handler in between.
Begun(c) == call[c].stage = "passed" /\ call[c].asked > 0 /\ ~call[c].disturbed

\* It can go on: the slot is free and the limit not met.
LEMMA BegunCanAsk ==
  ASSUME InputInv, NEW c \in Calls, Begun(c)
  PROVE  CanStartPrompt(call[c]) /\ call[c].agent \notin Stateless
<1>1. call[c] \in CallRecords /\ RecordOK(call[c])
  BY CallIs
<1>2. /\ call[c].prompts \in Nat /\ call[c].left \in Nat /\ call[c].asked \in Nat
  BY <1>1, FieldTypes
<1> QED BY <1>1, <1>2, Limits DEF Begun, RecordOK, Counted, Fits, CanStartPrompt

\* No step of fathomgate, of the upstream or of the agent ends it there.
LEMMA BegunGoesOn ==
  ASSUME InputInv, [Next]_vars, epoch' = epoch, NEW c \in Calls, Begun(c)
  PROVE  call'[c].stage \in {"passed", "asking"}
<1>0. call \in [Calls -> CallRecords] /\ call[c] \in CallRecords /\ call[c].stage = "passed"
  BY DEF InputInv, TypeOK, Begun
<1>1. ASSUME NEW d \in Calls, d # c, CallNext(d) PROVE call'[c].stage = "passed"
  <2>1. \E g : call' = [call EXCEPT ![d] = g]
    <3>1. CASE \E a \in Agents, t \in Tools, g \in Args :
                 Begin(d, a, t, g) \/ \E s \in states : Retry(d, a, t, g, s)
      BY <3>1 DEF Begin, Retry
    <3>2. CASE \E reqs \in Requests : InputRequired(d, reqs) \/ BadInputRequired(d, reqs)
      BY <3>2 DEF InputRequired, BadInputRequired, Ends
    <3>3. CASE PassRound(d) \/ RefuseRound(d) \/ Seal(d) \/ SealFails(d)
      BY <3>3 DEF PassRound, RefuseRound, Seal, SealFails, Ends
    <3>4. CASE AskNext(d) \/ AskRefused(d) \/ Cancelled(d)
      BY <3>4 DEF AskNext, AskRefused, Cancelled, Ends
    <3>5. CASE Answer(d) \/ Answered(d) \/ AskFails(d) \/ Cancel(d)
      BY <3>5 DEF Answer, Answered, AskFails, Cancel, Ends
    <3> QED BY <1>1, <3>1, <3>2, <3>3, <3>4, <3>5 DEF CallNext, Progress
  <2> QED BY <1>0, <1>1, <2>1
<1>2. ASSUME CallNext(c) PROVE call'[c].stage \in {"passed", "asking"}
  <2>1. CanStartPrompt(call[c]) /\ call[c].agent \notin Stateless
    BY BegunCanAsk
  <2>2. call[c] # Idle
    BY <1>0, IdleIs
  <2>3. AskNext(c) \/ Cancel(c)
    BY <1>0, <1>2, <2>1, <2>2 DEF CallNext, Progress, Begin, Retry, InputRequired,
       BadInputRequired, PassRound, RefuseRound, Seal, SealFails, AskRefused, Cancelled,
       Answer, Answered, AskFails
  <2>4. CASE AskNext(c)
    <3>1. StartPrompt(call[c]) \in CallRecords
      BY <1>0, <2>1, StartPromptIs
    <3>2. Asking(call[c]).stage = "asking"
      BY <3>1 DEF Asking, CallRecords
    <3>3. call'[c] = Asking(call[c])
      BY <1>0, <2>4 DEF AskNext
    <3> QED BY <3>2, <3>3
  <2>5. CASE Cancel(c)
    BY <1>0, <2>5 DEF Cancel, CallRecords
  <2> QED BY <2>3, <2>4, <2>5
<1>3. ASSUME NEW h \in Handlers, HandlerNext(h) PROVE call'[c].stage = "passed"
  <2> DEFINE b == handler[h].call
             f == call[b]
  <2>1. CASE \E d \in Calls : Elicitation(h, d)
    BY <1>0, <2>1 DEF Elicitation
  <2>2. CASE ElicitationAsked(h)
    <3>1. b \in Calls /\ CanStartPrompt(f)
      BY <2>2 DEF InputInv, TypeOK, HandlersOK, ElicitationAsked
    <3>2. call' = [call EXCEPT ![b] = [StartPrompt(f) EXCEPT !.disturbed = TRUE]]
      BY <2>2 DEF ElicitationAsked
    <3>3. StartPrompt(f) \in CallRecords /\ StartPrompt(f).stage = f.stage
      BY <1>0, <3>1, StartPromptIs
    <3>4. [StartPrompt(f) EXCEPT !.disturbed = TRUE].stage = f.stage
      BY <3>3 DEF CallRecords
    <3> QED BY <1>0, <3>1, <3>2, <3>4
  <2>3. CASE ElicitationRefused(h) \/ ElicitationWithdrawn(h) \/ ElicitationAnswered(h)
    <3>1. b \in Calls /\ f \in CallRecords
      BY <1>0, <2>3 DEF InputInv, TypeOK, HandlersOK, ElicitationRefused, ElicitationWithdrawn,
         ElicitationAnswered
    <3>2. PICK g \in {f, EndPrompt(f)} : call' = [call EXCEPT ![b] = Kept(b, g, {h})]
      BY <2>3 DEF ElicitationRefused, ElicitationWithdrawn, ElicitationAnswered, HandlerEnds
    <3>3. g.stage = f.stage
      BY <3>1, <3>2, EndPromptIs
    <3>4. b = c => Kept(b, g, {h}) = g
      BY <1>0, <3>3 DEF Kept
    <3> QED BY <1>0, <3>1, <3>2, <3>3, <3>4
  <2> QED BY <1>3, <2>1, <2>2, <2>3 DEF HandlerNext, HandlerProgress
<1>4. ~Restart
  BY DEF Restart, InputInv, TypeOK
<1>5. ASSUME Tick \/ UNCHANGED vars PROVE call'[c].stage = "passed"
  BY <1>0, <1>5 DEF Tick, vars
<1> QED BY <1>1, <1>2, <1>3, <1>4, <1>5, NextSplits

(***************************************************************************)
(* The theorems.                                                           *)
(***************************************************************************)
\* The slot says how many prompts are open.
LEMMA SlotsTell == InputInv => PromptsAccounted
<1> SUFFICES ASSUME InputInv, NEW c \in Calls
             PROVE  /\ Cardinality(OpenPrompts(c)) <= 1
                    /\ call[c].prompting <=> OpenPrompts(c) # {}
  BY DEF PromptsAccounted, OnePromptOpen, InputInv
<1>1. SlotOK(c) /\ handler \in [Handlers -> HandlerRecords]
  BY DEF InputInv, TypeOK, HandlerRecords
<1>2. \A h \in Handlers : handler[h] = [stage |-> "asking", call |-> c] <=> Asks(h, c)
  BY <1>1 DEF Asks, HandlerRecords
<1>3. \A x : x \in OpenPrompts(c) <=> \/ x \in Handlers /\ Asks(x, c)
                                      \/ x = c /\ call[c].stage = "asking"
  BY <1>2 DEF OpenPrompts
<1>4. call[c].prompting <=> OpenPrompts(c) # {}
  BY <1>1, <1>3 DEF SlotOK
<1>5. \A x, y \in OpenPrompts(c) : x = y
  BY <1>1, <1>3 DEF SlotOK
<1>6. ASSUME NEW x \in OpenPrompts(c) PROVE OpenPrompts(c) = {x}
  BY <1>5, <1>6
<1>7. Cardinality(OpenPrompts(c)) <= 1
  <2>1. CASE OpenPrompts(c) = {}
    BY <2>1, FS_EmptySet
  <2>2. ASSUME NEW x \in OpenPrompts(c) PROVE Cardinality(OpenPrompts(c)) = 1
    BY <1>6, FS_Singleton
  <2> QED BY <2>1, <2>2
<1> QED BY <1>4, <1>7

\* However many prompts an upstream sends at once, and by whichever way, a
\* call has one open at a time, its slot is taken exactly while it has, and
\* its counters stay within their limits (startPrompt, endPrompt, forward),
\* for any number of calls and handlers.
THEOREM PromptsAlwaysAccounted == Spec => []PromptsAccounted
BY InputAlways, SlotsTell, PTL

\* Whatever state is presented, by whomever, in whichever process, answers
\* reach only the call they were given for (resume, sealer.open).
THEOREM RetryAlwaysTheSameCall == Spec => []RetryIsTheSameCall
<1>1. InputInv => RetryIsTheSameCall
  BY DEF InputInv, RecordOK, SameCall, RetryIsTheSameCall, InFlight
<1> QED BY InputAlways, <1>1, PTL

\* The bounds on a call's lineage follow from the invariant.
LEMMA LineageHolds == InputInv => LineageBounded
<1> SUFFICES ASSUME InputInv PROVE LineageBounded
  OBVIOUS
<1>1. \A c \in Calls : call[c].shown <= MaxPromptsPerCall /\ call[c].rounds <= MaxInputRounds
  BY CallIs, FieldTypes, Limits DEF RecordOK, Counted
<1>2. \A s \in states : s.shown <= MaxPromptsPerCall /\ s.rounds <= MaxInputRounds
  BY Limits DEF InputInv, StateOK, SealedStates
<1> QED BY <1>1, <1>2 DEF LineageBounded

\* Along each chain of states and retries a human is asked in no more rounds
\* and no more often than in one call, and a round is cut short after its
\* first answer only if an elicitation of the upstream came between (forward,
\* sealedState).  A state presented twice begins two chains.
THEOREM RoundsAlwaysHeld == Spec => RoundsHeld
<1>1. InputInv /\ [Next]_vars => NoHalfRound
  BY BegunGoesOn DEF NoHalfRound, CutShort, Begun
<1> QED BY InputAlways, LineageHolds, <1>1, PTL DEF RoundsHeld, Spec
=============================================================================
