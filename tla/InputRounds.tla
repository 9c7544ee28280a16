----------------------------- MODULE InputRounds -----------------------------
(***************************************************************************)
(* internal/proxy: the rounds of input of one call (forward, askAgent,     *)
(* resume and the tail of upstreamElicitation) and the sealed requestState *)
(* that carries them between two requests of a stateless agent.            *)
(*                                                                         *)
(* An upstream asks for input in two ways: it answers a call with          *)
(* input_required, or, if it was connected with a handshake, it sends      *)
(* elicitation/create while a call is open.  A stateful agent is asked at  *)
(* once, through the call's one prompt slot; a stateless agent is given    *)
(* the requests and a sealed state, and calls again with the answers.  A   *)
(* state can be presented any number of times, by anyone, with any call.   *)
(*                                                                         *)
(* One upstream.  A call is "idle", "calling" (CallTool is outstanding),   *)
(* "answered" (input_required has come back), "passed" (its requests were  *)
(* checked and may be put to the agent) or "asking".  A handler of         *)
(* elicitation/create is "attributed" to a call (module Attribution says   *)
(* to which) and then "asking".  An inflight outlives its call while a     *)
(* handler holds it.  What a refusal tells the agent, the upstream and the *)
(* log is left out.                                                        *)
(***************************************************************************)
EXTENDS Integers, FiniteSets, Sequences

CONSTANTS
  Calls, Handlers,
  Agents, Stateless, CanElicit,  \* agents, and what agentOf says of them
  Binding,                       \* agent -> transport and principal of its calls
  Tools, Closed,                 \* tools, and those whose arguments are closed
  Args, ArgsDigest,              \* arguments as sent, and their digest
  Kinds,                         \* kinds of input request, "form" among them
  MaxInputRequests, MaxInputRounds, MaxPromptsPerCall, StateTTL,
  MaxTime, MaxEpoch, MaxStates,  \* bounds: clock, restarts, states issued
  NoCall

ASSUME InputRoundsAssumption ==
  /\ Stateless \subseteq Agents /\ CanElicit \subseteq Agents
  /\ Closed \subseteq Tools
  /\ DOMAIN Binding = Agents /\ DOMAIN ArgsDigest = Args
  /\ {MaxInputRequests, MaxInputRounds, MaxPromptsPerCall, StateTTL} \subseteq Nat
  /\ {MaxTime, MaxEpoch, MaxStates} \subseteq Nat
  /\ NoCall \notin Calls

VARIABLES
  now,        \* the clock
  epoch,      \* which process this is: its sealer has a key of its own
  handshake,  \* the upstream was connected with a handshake, not discovered
  call,       \* call -> its forward and its inflight
  handler,    \* handler -> [stage, call]
  states      \* the sealed states agents hold

vars == <<now, epoch, handshake, call, handler, states>>

\* What a requestState is issued for: who may present it, and for which call.
Identity(a, t, g) ==
  [binding |-> Binding[a], tool |-> t, args |-> ArgsDigest[g], epoch |-> epoch]

\* A call that resumes with what rs carries.  root, shown and rounds are
\* history: the call the rounds began with, and how many prompts were put to
\* a human, in how many rounds, along the states that lead here.  So are
\* asked, the prompts of this round, and disturbed: a handler has had the
\* slot since this round was checked.
NewCall(a, id, rs) ==
  [stage |-> "calling", agent |-> a, id |-> id, round |-> rs.round,
   prompts |-> rs.prompts, prompting |-> FALSE, left |-> 0,
   cancelled |-> FALSE, asked |-> 0, disturbed |-> FALSE,
   root |-> rs.root, shown |-> rs.shown, rounds |-> rs.rounds]

FirstRound(id) == [round |-> 0, prompts |-> 0, root |-> id, shown |-> 0, rounds |-> 0]

Idle == [NewCall(NoCall, NoCall, FirstRound(NoCall)) EXCEPT !.stage = "idle"]

IdleHandler == [stage |-> "idle", call |-> NoCall]

InFlight == {c \in Calls : call[c].stage # "idle"}

Init ==
  /\ now = 0 /\ epoch = 0
  /\ handshake \in BOOLEAN
  /\ call = [c \in Calls |-> Idle]
  /\ handler = [h \in Handlers |-> IdleHandler]
  /\ states = {}

\* The inflight f of call c: forgotten once the call has ended and no handler
\* but those of hs refers to it.
Kept(c, f, hs) ==
  IF f.stage = "idle" /\ \A h \in Handlers \ hs : handler[h].call # c THEN Idle ELSE f

\* forward returns f to the agent and takes it off the upstream's calls.
Ends(c, f) == call' = [call EXCEPT ![c] = Kept(c, [f EXCEPT !.stage = "idle"], {})]

-----------------------------------------------------------------------------
(* Prompt slots *)

\* Mutant: the slot is taken whoever has it.
SlotShared(f) == f.prompts < MaxPromptsPerCall

\* startPrompt: f can take its prompt slot.
CanStartPrompt(f) == ~f.prompting /\ f.prompts < MaxPromptsPerCall

StartPrompt(f) ==
  [f EXCEPT !.prompting = TRUE, !.prompts = @ + 1, !.shown = @ + 1]

EndPrompt(f) == [f EXCEPT !.prompting = FALSE]

-----------------------------------------------------------------------------
(* Calls *)

\* A call without a requestState.
Begin(c, a, t, g) ==
  /\ call[c] = Idle
  /\ \A h \in Handlers : handler[h].call # c
  /\ LET id == Identity(a, t, g) IN call' = [call EXCEPT ![c] = NewCall(a, id, FirstRound(id))]
  /\ UNCHANGED <<now, epoch, handshake, handler, states>>

\* Mutant: a state opens for whoever presents it.
OpensForAnyone(s, id) == s.id.epoch = id.epoch /\ ~(now > s.exp)

\* sealer.open: the state is of this process, this transport and this
\* principal, and has not expired.
Opens(s, id) ==
  /\ s.id.epoch = id.epoch
  /\ s.id.binding = id.binding
  /\ ~(now > s.exp)

\* resume: and it was issued for this tool and these arguments (and, with one
\* upstream, for this server).
Resumes(s, id) ==
  /\ Opens(s, id)
  /\ s.id.tool = id.tool
  /\ s.id.args = id.args

\* A call with the requestState s and answers that are elicitation results.
\* Anything else is answered with an invalid-params error and changes nothing.
Retry(c, a, t, g, s) ==
  LET id == Identity(a, t, g)
  IN /\ call[c] = Idle
     /\ \A h \in Handlers : handler[h].call # c
     /\ Resumes(s, id)
     /\ call' = [call EXCEPT ![c] = NewCall(a, id, s)]
     /\ UNCHANGED <<now, epoch, handshake, handler, states>>

\* The upstream answers with a result, an error or an empty input_required,
\* or has exited: each ends the call.
Answer(c) ==
  /\ call[c].stage = "calling"
  /\ Ends(c, call[c])
  /\ UNCHANGED <<now, epoch, handshake, handler, states>>

\* relabelInputRequests: there are not too many, and all are form
\* elicitations fathomgate can relabel.
Relabels(reqs) ==
  Len(reqs) <= MaxInputRequests /\ \A i \in 1..Len(reqs) : reqs[i] = "form"

\* The upstream answers input_required.
InputRequired(c, reqs) ==
  /\ call[c].stage = "calling"
  /\ Relabels(reqs)
  /\ call' = [call EXCEPT ![c] = [@ EXCEPT !.stage = "answered", !.left = Len(reqs)]]
  /\ UNCHANGED <<now, epoch, handshake, handler, states>>

BadInputRequired(c, reqs) ==
  /\ call[c].stage = "calling"
  /\ ~Relabels(reqs)
  /\ Ends(c, call[c])
  /\ UNCHANGED <<now, epoch, handshake, handler, states>>

\* The checks of forward before anything is asked.
MayAsk(f) ==
  /\ f.id.tool \notin Closed
  /\ f.agent \in CanElicit
  /\ ~(f.round >= MaxInputRounds)
  /\ ~(f.prompts + f.left > MaxPromptsPerCall)

Passed(f) ==
  [f EXCEPT !.stage = "passed", !.asked = 0, !.disturbed = FALSE, !.rounds = f.rounds + 1]

PassRound(c) ==
  /\ call[c].stage = "answered"
  /\ MayAsk(call[c])
  /\ call' = [call EXCEPT ![c] = Passed(@)]
  /\ UNCHANGED <<now, epoch, handshake, handler, states>>

\* Refused for one of these, or because the upstream's own state is too large.
RefuseRound(c) ==
  /\ call[c].stage = "answered"
  /\ Ends(c, call[c])
  /\ UNCHANGED <<now, epoch, handshake, handler, states>>

\* Mutant: the prompts of this round are not on the state.
SealedUncounted(f) ==
  [id |-> f.id, round |-> f.round + 1, prompts |-> f.prompts, exp |-> now + StateTTL,
   root |-> f.root, shown |-> f.shown + f.left, rounds |-> f.rounds]

\* The state forward seals for a stateless agent, with its history.
Sealed(f) ==
  [id |-> f.id, round |-> f.round + 1, prompts |-> f.prompts + f.left, exp |-> now + StateTTL,
   root |-> f.root, shown |-> f.shown + f.left, rounds |-> f.rounds]

\* A stateless agent is given the requests and the state.
Seal(c) ==
  /\ call[c].stage = "passed" /\ call[c].agent \in Stateless
  /\ Cardinality(states) < MaxStates
  /\ states' = states \cup {Sealed(call[c])}
  /\ Ends(c, call[c])
  /\ UNCHANGED <<now, epoch, handshake, handler>>

\* seal fails: the state would be too large.
SealFails(c) ==
  /\ call[c].stage = "passed" /\ call[c].agent \in Stateless
  /\ Ends(c, call[c])
  /\ UNCHANGED <<now, epoch, handshake, handler, states>>

Asking(f) == [StartPrompt(f) EXCEPT !.stage = "asking", !.asked = f.asked + 1]

\* askAgent: the next request is put to a stateful agent.
AskNext(c) ==
  /\ call[c].stage = "passed" /\ call[c].agent \notin Stateless
  /\ CanStartPrompt(call[c])
  /\ call' = [call EXCEPT ![c] = Asking(@)]
  /\ UNCHANGED <<now, epoch, handshake, handler, states>>

\* The slot is taken, or a handler has used up the limit.
AskRefused(c) ==
  /\ call[c].stage = "passed" /\ call[c].agent \notin Stateless
  /\ ~CanStartPrompt(call[c])
  /\ Ends(c, call[c])
  /\ UNCHANGED <<now, epoch, handshake, handler, states>>

RoundOver(f) == [EndPrompt(f) EXCEPT !.stage = "calling", !.left = 0, !.round = f.round + 1]
AskedOne(f) == [EndPrompt(f) EXCEPT !.stage = "passed", !.left = f.left - 1]

\* The agent answers; after the last answer of the round the upstream is
\* called again with all of them.
Answered(c) ==
  /\ call[c].stage = "asking"
  /\ call' = [call EXCEPT ![c] = IF @.left = 1 THEN RoundOver(@) ELSE AskedOne(@)]
  /\ UNCHANGED <<now, epoch, handshake, handler, states>>

\* Elicit fails, or what it returns is no accept, decline or cancel.
AskFails(c) ==
  /\ call[c].stage = "asking"
  /\ Ends(c, EndPrompt(call[c]))
  /\ UNCHANGED <<now, epoch, handshake, handler, states>>

\* The agent gives the call up.
Cancel(c) ==
  /\ call[c].stage # "idle"
  /\ ~call[c].cancelled
  /\ call' = [call EXCEPT ![c].cancelled = TRUE]
  /\ UNCHANGED <<now, epoch, handshake, handler, states>>

\* CallTool or Elicit returns because the call's context is done.
Cancelled(c) ==
  /\ call[c].cancelled
  /\ call[c].stage \in {"calling", "asking"}
  /\ Ends(c, IF call[c].stage = "asking" THEN EndPrompt(call[c]) ELSE call[c])
  /\ UNCHANGED <<now, epoch, handshake, handler, states>>

-----------------------------------------------------------------------------
(* elicitation/create *)

\* attribute finds c.
Elicitation(h, c) ==
  /\ handler[h].stage = "idle"
  /\ InFlight = {c}
  /\ handler' = [handler EXCEPT ![h] = [stage |-> "attributed", call |-> c]]
  /\ UNCHANGED <<now, epoch, handshake, call, states>>

\* upstreamElicitation's checks before the slot.
Relayable(f) ==
  /\ handshake
  /\ f.agent \notin Stateless /\ f.agent \in CanElicit \* promptable
  /\ f.id.tool \notin Closed

HandlerEnds(h, f) ==
  /\ handler' = [handler EXCEPT ![h] = IdleHandler]
  /\ call' = [call EXCEPT ![handler[h].call] = Kept(handler[h].call, f, {h})]

\* Refused, for one of these, because it cannot be relabelled (relabelElicit)
\* or because the slot or the limit is used up.
ElicitationRefused(h) ==
  /\ handler[h].stage = "attributed"
  /\ HandlerEnds(h, call[handler[h].call])
  /\ UNCHANGED <<now, epoch, handshake, states>>

ElicitationAsked(h) ==
  LET f == call[handler[h].call]
  IN /\ handler[h].stage = "attributed"
     /\ Relayable(f) /\ CanStartPrompt(f)
     /\ handler' = [handler EXCEPT ![h].stage = "asking"]
     /\ call' = [call EXCEPT ![handler[h].call] = [StartPrompt(f) EXCEPT !.disturbed = TRUE]]
     /\ UNCHANGED <<now, epoch, handshake, states>>

\* The agent answers or fails, or the upstream takes its request back.
ElicitationAnswered(h) ==
  /\ handler[h].stage = "asking"
  /\ HandlerEnds(h, EndPrompt(call[handler[h].call]))
  /\ UNCHANGED <<now, epoch, handshake, states>>

\* Mutant: the prompt goes out under the upstream's request alone.
ElicitationWithdrawnUpstream(h) ==
  /\ handler[h].stage = "asking" /\ ~handshake
  /\ HandlerEnds(h, EndPrompt(call[handler[h].call]))
  /\ UNCHANGED <<now, epoch, handshake, states>>

\* The prompt goes out under the call's context, which is done when the call
\* is cancelled and when it has been answered.
ElicitationWithdrawn(h) ==
  /\ handler[h].stage = "asking"
  /\ call[handler[h].call].cancelled \/ call[handler[h].call].stage = "idle"
  /\ HandlerEnds(h, EndPrompt(call[handler[h].call]))
  /\ UNCHANGED <<now, epoch, handshake, states>>

-----------------------------------------------------------------------------
\* The process is started again: calls are gone, agents keep their states.
Restart ==
  /\ epoch < MaxEpoch
  /\ epoch' = epoch + 1
  /\ handshake' \in BOOLEAN
  /\ call' = [c \in Calls |-> Idle]
  /\ handler' = [h \in Handlers |-> IdleHandler]
  /\ UNCHANGED <<now, states>>

Tick ==
  /\ now < MaxTime
  /\ now' = now + 1
  /\ UNCHANGED <<epoch, handshake, call, handler, states>>

\* The steps of fathomgate itself, which nothing keeps waiting.
Progress(c) ==
  PassRound(c) \/ RefuseRound(c) \/ Seal(c) \/ SealFails(c) \/ AskNext(c) \/ AskRefused(c) \/ Cancelled(c)

HandlerProgress(h) == ElicitationRefused(h) \/ ElicitationAsked(h) \/ ElicitationWithdrawn(h)

Requests == UNION {[1..n -> Kinds] : n \in 1..MaxInputRequests + 1}

Next ==
  \/ \E c \in Calls :
       \/ \E a \in Agents, t \in Tools, g \in Args :
            Begin(c, a, t, g) \/ \E s \in states : Retry(c, a, t, g, s)
       \/ \E reqs \in Requests : InputRequired(c, reqs) \/ BadInputRequired(c, reqs)
       \/ Progress(c) \/ Answer(c) \/ Answered(c) \/ AskFails(c) \/ Cancel(c)
       \/ \E h \in Handlers : Elicitation(h, c)
  \/ \E h \in Handlers : HandlerProgress(h) \/ ElicitationAnswered(h)
  \/ Restart \/ Tick

Spec == Init /\ [][Next]_vars

\* Every goroutine of fathomgate gets to run, and contexts are observed; the
\* agent and the upstream need never answer.
FairSpec ==
  /\ Spec
  /\ \A c \in Calls : WF_vars(Progress(c))
  /\ \A h \in Handlers : WF_vars(HandlerProgress(h))

-----------------------------------------------------------------------------
(* Properties *)

Identities ==
  [binding : {Binding[a] : a \in Agents}, tool : Tools,
   args : {ArgsDigest[g] : g \in Args}, epoch : 0..MaxEpoch]

CallRecords ==
  [stage : {"idle", "calling", "answered", "passed", "asking"},
   agent : Agents \cup {NoCall}, id : Identities \cup {NoCall},
   round : 0..MaxInputRounds, prompts : 0..MaxPromptsPerCall,
   prompting : BOOLEAN, left : 0..MaxInputRequests,
   cancelled : BOOLEAN, asked : 0..MaxPromptsPerCall, disturbed : BOOLEAN,
   root : Identities \cup {NoCall}, shown : Nat, rounds : Nat]

SealedStates ==
  [id : Identities, round : 0..MaxInputRounds, prompts : 0..MaxPromptsPerCall,
   exp : Nat, root : Identities, shown : Nat, rounds : Nat]

\* Types.  The counters of a call and of a state stay within their limits
\* (proxy.go:1345-1350) however handlers and rounds interleave.
TypeOK ==
  /\ now \in 0..MaxTime /\ epoch \in 0..MaxEpoch /\ handshake \in BOOLEAN
  /\ call \in [Calls -> CallRecords]
  /\ handler \in [Handlers -> [stage : {"idle", "attributed", "asking"},
                               call : Calls \cup {NoCall}]]
  /\ states \subseteq SealedStates

\* A call's prompts that are with its agent: askAgent's and the handlers'.
OpenPrompts(c) ==
  {h \in Handlers : handler[h] = [stage |-> "asking", call |-> c]}
    \cup (IF call[c].stage = "asking" THEN {c} ELSE {})

\* However many requests an upstream sends at once, and by whichever of the
\* two ways, a call has one prompt open at a time, and its slot is taken
\* exactly while one is (startPrompt, endPrompt; input.go:652).
OnePromptOpen ==
  \A c \in Calls :
    /\ Cardinality(OpenPrompts(c)) <= 1
    /\ call[c].prompting <=> OpenPrompts(c) # {}

\* Along every chain of requests and states, from the first request of a call
\* to the newest state or call that goes back to it, no human is asked in
\* more than MaxInputRounds rounds or more than MaxPromptsPerCall times, by
\* rounds and by elicitations together, also if a stateful client presents
\* the state (sealedState.Round and Prompts; input.go:35, proxy.go:1345).  The
\* bound is one of each chain: a state that is presented twice begins two
\* chains, and each may use up what the state has left
\* (docs/specs/profile-schema.md:461 accepts the replay).
LineageBounded ==
  /\ \A c \in Calls : call[c].shown <= MaxPromptsPerCall /\ call[c].rounds <= MaxInputRounds
  /\ \A s \in states : s.shown <= MaxPromptsPerCall /\ s.rounds <= MaxInputRounds

\* Answers are only sent to an upstream for the call that was asked about:
\* every call in flight has the tool, the arguments, the principal and
\* transport, and the process, of the first request its rounds go back to
\* (resume, sealer.open; input.go:281).
RetryIsTheSameCall ==
  \A c \in InFlight : call[c].root = call[c].id

\* forward checks a round whole, "so no human answers half a round that
\* cannot be completed" (proxy.go:1350).  That holds of rounds alone: one
\* that is refused after its first answer was cut short by a handler that
\* took the slot after the check.
CutShort(c) ==
  call[c].stage = "passed" /\ call[c].asked > 0 /\ ~call'[c].stage \in {"passed", "asking"}

NoHalfRound == epoch' = epoch => \A c \in Calls : CutShort(c) => call[c].disturbed

\* A call the agent has given up ends, whatever the upstream and the human do
\* (proxy.go:1252, input.go:377).
CancelledCallEnds ==
  \A c \in Calls : call[c].cancelled /\ call[c].stage # "idle" ~> call[c].stage = "idle"

\* A prompt of a call that is over is taken from the agent and gives its slot
\* back, though the upstream never withdraws it (input.go:949).
NoPromptOutlivesItsCall ==
  \A h \in Handlers :
    handler[h].stage = "asking" /\ call[handler[h].call].stage = "idle" ~> handler[h].stage = "idle"

\* A call's prompts are counted and its slot is exact.
PromptsAccounted == TypeOK /\ OnePromptOpen

\* Rounds and prompts are bounded along every chain of retries, and no round
\* is begun that its own call cannot complete.
RoundsHeld == [][LineageBounded' /\ NoHalfRound]_vars

\* Neither a call nor a prompt outlives the agent's interest in it.
PromptsEnd == CancelledCallEnds /\ NoPromptOutlivesItsCall
=============================================================================
