# A TLA+ verification of fathomgate

fathomgate is a proxy between AI agents and MCP servers that drive network
devices. An agent's `tools/call` is classified, its devices are resolved and
counted, a policy decides, and only an allowed call reaches the upstream
server. This project models the decision, the concurrent machinery around it,
and the life of the program from its command line to its exit; checks the models
with TLC on small instances; and proves with TLAPS, for every instance, all the
safety the runs check: the gate's verdict on a call and on the texts it carries,
what `policy test` and `policy eval` say of it, the device cap, HTTP sessions,
prompts and their attribution, progress, the audit log, the start and the life of
`serve`.

All source paths below are relative to `src/`.

## 1. Inventory

| Component | State | Operations | Modules |
|---|---|---|---|
| Policy engine (`internal/policy`) | none after load | `Parse`, `Validate`, `Evaluate`, rule matching, session caps | PolicyEngine, Documents |
| Classification (`internal/classify`) | none after load | `ParseProfile`, `Classify`, `CheckArguments`, `Normalize`, command and config-line checks | Classify, CommandText, Documents |
| Gate (`internal/gate`) | none | `Decide`, `Arguments`, `Explain`, the decision line | GateDecide, GateCall, GateContent, PolicyTrial |
| Policy tests (`internal/policytest`, `policy eval`) | none | load rules of a case, gate and class-given cases, evaluation of one request | PolicyTrial |
| Inventory (`internal/inventory`) | none after load | `Resolve` along a chain of resolvers, `Known`, lint, resolve | InventoryChain |
| Configuration set (`internal/configset`) | none after load | the profiles of a directory, by server | Documents |
| Dispatch (`internal/proxy/gate.go`, `forward` in `proxy.go`) | one `sessionCounter` per counter key: a one-slot lock, names, a count past the cap | `gated`, `decide`, `lock`, `touch`, `forward` | Dispatch, DeviceBudget |
| Call limits (`internal/proxy/calls.go`) | calls in flight by session and principal, retired sessions, closed flag, tracked goroutines | `admit`, `cancelSession`, `claimIdle`, `retire`, `forget`, `track`, `wait`, `close` | HttpSessions |
| HTTP sessions (`internal/proxy/http.go`) | live sessions, tombstones, slots, early requests; per session an idle clock and counts | `reserveSession`, `settleSession`, `register`, `beginPOST`, `beginGET`, `expire`, `closeEvicted` | HttpSessions |
| HTTP listener front (`http.go`) | POST counts | host, origin and token checks, `acquirePOST`, stateless handler | not modelled |
| Listener server (`cmd/fathomgate/listen.go`) | bound addresses, connection slots, requests in flight | `bindLoopback`, `Accept`, the first-request timer, shutdown | ListenServer |
| Local agents (`proxy.go` `Run`) | the local sessions and their keys | `Run`, `localKey` | LocalSessions |
| Upstream lifecycle (`proxy.go`, `era.go`, `tree*.go`) | process, session, exit flag | `New`, `connect`, the `server/discover` bound, restart, kill, sweep, `listTools`, `Close` | UpstreamLife |
| Prompts (`input.go`) | calls in flight, ended-call records, prompt slots | `attribute`, refusals, orphan records, overflow; rounds of input, `askAgent`, `upstreamElicitation` | Attribution, InputRounds |
| Sealed request state (`state.go`) | a process key | `seal`, `open`, `resume` | InputRounds |
| Progress relay (`progress.go`) | queue, last value, token bucket, sender | `relay`, `push`, `run`, `take`, `notify`, `finish` | ProgressRelay |
| Audit log (`internal/audit`) | sequence number, last hash, the file | `Append`, checkpoint, resume, `Verify`, `WriteKeyPair` | AuditLog, KeyPair |
| Command line (`cmd/fathomgate`) | | `parseServe`, `loadPipeline`, `serve`, `runListener` | Startup, Serve |
| Tool advertising (`schema.go`, `hints.go`, `name.go`, `scrub.go`), redaction, file handling | none, or loaded once | | not modelled (section 7) |

Hard behaviours: many calls of one principal decide against one count; a call
may be cancelled, panic, or lose its upstream at any step; go-sdk has its own
goroutines for a session, and fathomgate's bookkeeping (`live`, slots, idle
clock, watcher, evictor, call limits) runs beside it under three mutexes with no
common one; the idle timer races POSTs, evictions and `Proxy.Close`; a call
go-sdk has delivered is not yet a call fathomgate has admitted; four goroutines
race over one attempt to start the upstream; a human's answers travel back in a
state any client may present again, to another process, with another call; a
log is cut at any byte.

What makes the components correct, in one sentence each:

- gate: what the policy decided on is what the upstream will act on, and what
  was let through as a read, or as a write of configuration, is one to the device;
- dispatch: `max_devices` holds across all calls and sessions of a principal,
  every decided call has one decision line before it is sent, and no call is
  stuck behind another;
- sessions: caps hold, counts are exact, nobody loses a session in use or to
  somebody else, and an ended session leaves nothing behind;
- prompts: what the upstream asks for one agent session is never put to
  another's human; one prompt of a call is open at a time; rounds are bounded
  along every chain of retries; an answer goes only to the call it was given for;
- progress: increasing, rate-limited, never lost while the agent reads, and done
  with when the call is;
- upstream: one process at a time, none left behind that fathomgate may signal, a
  second only for one that did not answer;
- serve: what was bound, spawned and accepted is given back, whichever way it
  ends, and the exit code says which;
- audit: a log that verifies has lost nothing, and what its checkpoints sign is
  genuine;
- start-up: what the operator wrote is refused or in force, and what does
  nothing is warned about.

`PROJECT.json` lists every component with its status and every hazard at its
line with the properties that cover it.

## 2. Modules

```
PolicyEngine   Classify        CommandText
       \        /                  |
       GateDecide --- GateCall --- GateContent, PolicyTrial --- MCGate
        |      \                          |
        |     Dispatch -------------- GateProofs
        |     /      \
        |  MCDispatch  DeviceBudget (abstract, implemented by Dispatch)
        |
 Documents  InventoryChain
        \    /
        Startup --- MCStartup             HttpSessions --- MCHttp, MCHttpLive
             \                                  \
          StartupProofs                      HttpProofs

 InputRounds --- MCInputRounds            Attribution --- MCAttribution
       \                                       \
    InputProofs                            AttributionProofs

 AuditLog  KeyPair --- MCAudit            ProgressRelay --- MCProgress
                          \                    \
                       AuditProofs           RelayProofs

 UpstreamLife  ListenServer  LocalSessions
            \       |       /
                  Serve --- MCServe --- ServeProofs
```

An operator whose comment begins with "Mutant", or that states in one line what a
plausible slip of the code would do, stands before the definition it is a variant
of; no specification uses it. `PROJECT.json` pairs each property with one that
breaks it.

**PolicyEngine** is `policy.Evaluate` as operators. A glob is the set of names it
matches, a tool name the sequence of its dot-separated parts, so the rule that
`eos.run` also matches as `run` is modelled (`BareTool`), not assumed.

**Classify** is the closed argument list and `Classify`. Texts are opaque; what
one command or one config line is, and which texts an upstream could parse as
JSON, are constants. The batch rules, downgrade, reclassification and the
capability table are modelled.

**CommandText** is `command.go` and `config.go`: `classifyCommand` and
`checkConfigPayload` with the checks they call, over texts that are sequences of
words. `MCGate` gives it to Classify's constants, so the gate run decides on
texts, not on tables.

**GateDecide** is `Gate.Decide` and `Gate.Arguments`: caps, argument checks,
target extraction with comma splitting and group selectors, annotation raise,
`devicesTouched`, evaluation, and the obligations that keep an allow from being
forwarded.

**GateCall** is a state machine of one decision, so that TLC enumerates calls,
policies and counters. **GateContent** puts beside it how devices read the same
texts: statements, separators, quotes, abbreviations, Junos levels and load formats.
What leaves a configuration session is written down there a second time, from the
specification (`docs/specs/classification.md` 11.2 and 11.3) and not from
`config.go`: the verbs by platform (`CliVerbs`), `autocommand` among the keywords an
abbreviation must tell it from, the Junos statements and the hierarchies that run
something, and a device's own reading of an abbreviated or quoted word (`Means`,
`RunsAtLogin`, `HoldsName`). For this it takes from CommandText only how a text is
split into lines, what numbers are and which characters a name has. A verb that `config.go` lacks therefore fails
`WriteStaysInSession`; one that the specification lacks too does not (section 7).

**PolicyTrial** is what an operator reads and tries out: the decision line
(`record.go`) and the tool error (`text.go`, as the parts of the text), the load
rules and assertions of `policy test`, and the two ways of `policy eval`. A field
a case's file leaves out is not in the domain of its record. A case
has a list of touched devices only as a number, so the run writes cases down from
decision lines with the number that leaves the call's own devices out.

**Dispatch** is the path of a call through the proxy for any number of calls.
`pc[c]` names the place in `gated`, `decide`, `lock`, `decideLocked`,
`decideAndRespond` and `forward`:

| Action | Code |
|---|---|
| `Arrive` | the tool handler calls `dispatch` |
| `StateRefused`, `DownAtEntry` | `gated`: bad `requestState`; upstream gone |
| `TooLarge`, `ToLock` | `decide`: argument size cap before the lock |
| `TryLock`, `Acquire`, `GiveUp` | `sessionCounter.lock`: first select, second select |
| `GateDecides`, `GatePanics` | `decideLocked` with `safeDecide`'s recover |
| `CountAndUnlock` | `touch` and the deferred unlock |
| `LogDecision` | `decideAndRespond`: the decision line, then refuse or forward |
| `DownAtForward`, `Send`, `CancelledUnsent`, `Finish` | `forward` |
| `Cancel`, `UpstreamExits` | environment |

`granted` and `reached` are history variables: the devices of calls let through,
and of calls sent. **DeviceBudget** is the abstract promise over exactly these
two.

**HttpSessions** is the stateful half of the HTTP listener with the call limits
and `Proxy.Close`. Each action is one critical section of `httpHandler.mu`,
`liveSession.mu` or `callLimits.mu`:

| Actions | Code |
|---|---|
| `OpenPost`, `ReserveFree`, `ReserveByEviction`, `ReserveRefused` | `serveAuthed`, `reserveSession`, `claimEvictableLocked`, `claimIdle` |
| `SettleNone`, `Register`, `Track`, `SettleUntracked`, `Arm` | `settleSession`, `register`, `track`, `arm` |
| `BeginPost`, `EndPost`, `BeginGet`, `EndGet`, `BeginForeign` | `beginPOST`, `beginGET`, their end functions, `endPOST` |
| `Admit`, `Finish` | `callLimits.admit` and its release |
| `Delete`, `Fire`, `Expire`, `ExpireTooLate` | the DELETE branch with `cancelSession`; the timer; `expire` with `retire` |
| `StartEvictor`, `EvictorForget` | `closeEvicted`, `forgetEvicted` |
| `WatcherStop`, `WatcherForget`, `WatcherRelease` | the goroutine `settleSession` starts |
| `CloseLimits`, `CloseSessions`, `CloseWait` | `Proxy.Close`, `callLimits.close`, `wait` |
| `ServeInitialise`, `Deliver`, `SdkClose`, `SdkDrained`, `SdkGone` | go-sdk, external |

go-sdk is modelled from how fathomgate uses it: `Close` waits for delivered
calls, `Wait` returns (`closed`) before the id is forgotten (`gone`), and only
the first `Close` waits for the forgetting. `closers` holds whose `Close` is
under way.

One step is coarser than the code: `ReserveByEviction` is one action although an
`expire` takes no `httpHandler.mu` and can run between the victim's `idleState`
and its `stop`. Its second disjunct is exactly that interleaving, so nothing is
lost.

**Attribution** is the upstream's memory of calls and the first half of
`upstreamElicitation` for one upstream. Each action is one critical section of
`upstream.mu`; the reading of the clock, which the code takes before the mutex,
is part of the step before, so another goroutine may act between reading and
use. A record is its expiry time.

| Action | Code |
|---|---|
| `Begin`, `Return`, `End` | `upstream.begin`; `forward`'s deferred function reads the clock; `upstream.end` with its prune and one of `RecordAgain`, `RecordNew`, `RecordOverflow` |
| `PromptArrives`, `PromptPrunes`, `Attribute` | `upstreamElicitation`: the reading, `prune`, `attribute` |
| `RefuseUnattributed`, `RefuseAsNote` | the functions of these names |
| `PromptDone` | an attributed prompt is refused or relayed and answered |
| `Tick` | time |

`ended` is a history variable, the calls that ended less than the TTL ago with no
bound on their number; `cause` is the session an upstream asks for, which no
guard of fathomgate's steps reads. An upstream asks only for a session it has a
call of, or had one of within the TTL. The empty key, which `end` folds into the
overflow record, does not occur: `agentSessionKey` gives every call a key. The
TTL is positive, as `orphanTTL` makes it, so `end` never returns early.

**InputRounds** is what becomes of a prompt: `forward`'s loop of rounds with
`askAgent` and `startPrompt`/`endPrompt`, the tail of `upstreamElicitation`, and
the sealed state between two requests of a stateless agent.

| Action | Code |
|---|---|
| `Begin`, `Retry` | `forward` with `resume` and `sealer.open`; a state may be presented by anyone, twice, or to a later process |
| `InputRequired`, `BadInputRequired`, `Progress`, `Answer` | `forward`: the result, the checks of a round, the seal or the first question |
| `Answered`, `AskFails`, `Cancel` | `askAgent`, `elicit`, the call's context |
| `Elicitation`, `HandlerProgress`, `ElicitationAnswered` | `upstreamElicitation` after `attribute` (which module Attribution models) |
| `Restart`, `Tick` | a new process has a new key; time |

`root`, `shown` and `rounds` are history variables: the first request a call goes
back to, and what its human has been asked along the chain of retries that leads to
it. `MayAsk` leaves out the refusal of a `requestState` that is too large
(`proxy.go:1352`), which ends a round as other failures do, and the comparison of
`st.Server`, since there is one upstream.

**ProgressRelay** is one call's relay: the upstream's handler, the sender
goroutine (`run`, `notify`), and the call's own (`unwatchProgress`, `finish`, the
result), which share `r.mu`, a doorbell channel, a timer and the connection to an
agent that may stop reading. Time is ticks, saturated at a full bucket.

**AuditLog** is `Writer` and `Verify`: an event is written, then a checkpoint
when one is due, each of them whole, in part, without its newline or not at all;
`NewWriter` verifies and resumes. `Tamper` is an edit of the file by somebody without
the key: lines cut off, taken out, put in, repeated, exchanged or changed, as they are
or hashed again, with the old checkpoints or without. The hash of an event is the
sequence it covers. One `Writer` has the file open at a time: nothing in `writer.go`
keeps a second process out, and the model has none. `Crash` is the end of the process,
not of the machine: `Append` does not sync, so what a power failure takes is out of the
code's promise and of the model.
**KeyPair** is `WriteKeyPair` step by step, for runs that race and are killed, with
the errors of both `Close` calls.

**UpstreamLife** is `proxy.New` to `Proxy.Close` for one upstream: `main` is New's
goroutine, `sdk` go-sdk's `Connect` (external), `watcher` the bound on
`server/discover`, `reaper` the `AfterFunc` of the attempt's context, and two
attempts, each with its transport, process and process group. A read that meets the
end of the stream (`ReadEnds`) or a write that fails (`WriteFails`) is a hang-up, any
other read error (`ReadBad`) is not, and after each go-sdk closes the connection
(`SdkDrops`). A launched child is of fathomgate's own user or of another; no signal
reaches the second (`EPERM`), which may outlive the upstream, as `tree_unix.go:56-60`
and ADR 0021 say. When `addUpstreamTools` fails (`abandon`), New's deferred `Close`
closes the session with no kill and no exit status.
**LocalSessions** is `Run` and `localKey`. **ListenServer** is `bindLoopback`
beside another program that binds, `limitedListener`, the first-request timer,
the request tracker and the shutdown hook; net/http is external. A temporary error of
`Accept` is retried by net/http; any other ends `Serve`, which closes its listener and
with it the held wildcard addresses, while the other family still accepts until
`runListener` hears of it. A first-request timer that has fired closes its connection
whatever it is doing by then.
**Serve** composes the three as `serveBinding` and `runListener` do.

**Documents** is `policy.Parse` with `Validate`, `ParseProfile` with its checks,
and the profile directory. **InventoryChain** is `NewStatic`, `NewPatterns`,
`Chain.Resolve`, `Known`, `PatternWarnings`, `PatternEffects` and the lint and
resolve commands. **Startup** is `parseServe` (flags, tokens, environments) and
`loadPipeline`; the gate it builds is `INSTANCE GateDecide` with the profiles and
the inventory loaded, so that its properties are about verdicts.

## 3. Runs

| Run | Question | Result |
|---|---|---|
| `gate_call` | Does a verdict cover what the upstream and the device will act on, for every call of a small profile under several policies; do `policy test` and `policy eval` foretell it? | holds |
| `dispatch` | Device cap, count, lock, decision line, refinement and the queue for the lock, for two calls at once that are cancelled, panic or lose the upstream | holds |
| `http_sessions` | Caps, retirement, tombstones, exact counts and idleness: one principal with POSTs, DELETEs, the clock, a call and `Proxy.Close`; two with POSTs and GETs | holds |
| `http_live` | Does an expired, evicted or deleted session end, even with a call stuck upstream, and does `Proxy.Close` return and leave nothing? | yes |
| `attribution` | Can a prompt reach, or a refusal name, a call of another session; is a record lost early, kept late or miscounted? | no |
| `input_rounds` | One prompt at a time, bounds along every chain of retries, no state carried to another call, and no prompt that outlives its call | holds |
| `progress` | What the agent reads of a call, the rate, and whether anything stays behind | holds |
| `audit` | What a log that verifies still says after short writes, crashes and edits; key pairs | holds |
| `serve` | Processes, addresses, slots, local keys and exit codes over the life of `serve` | holds |
| `serve_live` | Does `New` return, does every local call get its key, and does `serve` end when its listener or its upstream fails or a signal comes? | yes |
| `startup` | Is what the operator wrote refused or in force, with true warnings? | yes |
| `keygen_close` | Does a failed keygen never leave a private key without its public half? | violated |

The properties, each with the code it is about, are stated in comments above
their definitions; several are conjunctions of named parts, each with a comment
of its own. The ones that carry most:

- `ReachIsDecided`: for a forwarded call of a tool that takes devices, the set
  of devices an upstream could read in the arguments (by a reading that does not
  use the gate's own) is the set the policy saw.
- `ReadsOnlyRead`: a text let through as a read is one in a device's reading of it.
  What prints configuration is told by the classifier's keyword lists, and of the
  commands that do not end by themselves only `monitor traffic` is known.
- `WriteStaysInSession`: no statement of a payload let through as configuration is one
  of the documented ways out of the session, in a reading of its own.
- `MaxDevicesHeld`, `CountErrsHigh`, and `IInv`, the reason they hold.
- `ActiveIsExact`, `TakenOnlyWhenIdle`: the POSTs counted on a session are those
  in progress, also for POSTs that began before `register`; no session is expired
  under a POST or evicted under a POST, a GET or a call, or for another
  principal.
- `RetirementHolds`: the retired set stops late calls and does not grow for ever.
- `CloseEnds`, `EndedSessionsGo`.
- `PromptReachesItsSession`: a prompt is attributed only to a call of the session
  the upstream asks for. `IInv` of Attribution compares the bounded records with
  `ended`: no less is remembered, and no record blocks longer than the ended
  calls of its own principal would.
- `RetryIsTheSameCall`, `RoundsHeld`: whatever state is presented by whomever,
  answers reach the call they were given for, and along every chain of retries a human
  is asked no more often than in one call. A state presented twice begins two chains,
  each of which may use what the state has left (`docs/specs/profile-schema.md:461` and
  `SECURITY.md` accept that). A round that was checked whole can still be
  cut short, by an elicitation the upstream sends itself after the check; `RoundsHeld`
  says that this is the only way.
- `ToldInOrder`, `ProgressMoves`.
- `LogTells`, `SignedPrefixGenuine`.
- `ProcessesHold`, `ExitsTell`, `ListenerHolds`, `ServeEnds`.
- `WarningsTell`, `DocumentsInForce`: the start-up warnings and the validation of
  documents, stated of the verdicts of the gate that was built.

### What the violation shows

`keygen_close`: "The public half is written first so a failure never leaves a private
key without it" (`internal/audit/key.go:85`, and `docs/specs/audit-event-schema.md:108`).
`SaveKey` returns an error of the private file's `Close` after the key has been written
and synced, and leaves the file; `WriteKeyPair` then discards the public key. The
private key is whole, its public half is gone, and keygen has reported the error.
`PairsHold`, which the `audit` run checks and `AuditProofs` proves, is the exact form:
this is the only way.

### Other observations

Met while modelling, and in no run:

- `audit/writer.go:150`: after a short write, the next `Append` of the same `Writer` is
  glued to the cut line and returns nil. Later events are on lines of their own, the
  chain stays broken at the cut, and no log that verifies has lost an event
  (`LogTells`). The refusal of a broken chain (`writer.go:46-49`,
  `audit-event-schema.md:84`) is one of opening a log, and `NewWriter` keeps it.
- `calls.go:48`, "An entry is dropped when its session ends", and `http.go:978-979`: a
  session evicted between `register` and `track`, with `Proxy.Close` between the two,
  takes the path of `http.go:985-992`, which closes it and gives its place back and does
  not call `limits.forget`. Its entry stays in the retired set. The proxy is closing, so
  nothing comes of it; `RetiredSessionEnds` is stated with that one exception
  (`NeverTracked`), and the second scenario of `http_live` reaches it.
- `http.go:598-599` says that idle expiry ends the call of a deleted session. The
  POST that carried the call pauses the idle clock for as long as it is open.
  `DeletedSessionEnds` is the exact form.
- `http.go:1241`, "A POST that started meanwhile wins": one that began and ended
  while `expire` waited for its mutex does not; `expire` looks at `active` only.
- `http.go:889` names the principal's own DELETE as the way a tombstone can go
  before the id does; an `expire` of the session being evicted is another.
  `TombstoneStays` is the exact form.
- `cmd/fathomgate/policy.go:388`: `--arg` turns every value with a comma into an
  array, "mirroring what an agent would send". For a text of devices that `serve`
  takes it decides the same (`EvalAgrees`). Where there are blanks after the commas
  it does not: `--arg` trims the parts and `serve` refuses such names. A command or
  a line of configuration with a comma in it is not the call an agent sends, and
  needs `--arguments-json`.
- `classify/normalize.go`: a tool of class `EXEC_ARBITRARY` that has both
  `command_params` and `config_params` is classified by its commands alone. No
  embedded profile has such a tool; `WriteStaysInSession` leaves it out.
- `inventory/csv.go:64` indexes a row by the name column without the test of the
  row's length that `get` makes for the other columns.

## 4. Bounds and why they are enough

- `gate_call`: one profile with one tool per way a class is found, two listed
  devices and one unlisted, values of every kind (null, string, comma list,
  empty, list with a repeat, list with a non-string, other), commands and payloads
  of the words the classifier and the devices tell apart (abbreviations,
  separators, pipes, line breaks, Junos levels), caps of 2 commands
  and 3 targets so that both are exceeded, three policies that use every
  matcher, and counters below, at and past the remembered names. The gate has no
  state between calls, so one call is enough. The calls that differ only in
  their text are decided once, under the policy that forwards both reads and
  writes (`ContentOnce`). One name is logged of several refused ones. The system
  stops after its one decision, hence
  no deadlock check.
- `dispatch`: two call ids, used again and again; three devices under a cap of
  two; room for one remembered name, so repeats, forgotten names and refusals at
  the cap all occur; two sessions of one principal and one of another. The lock
  and the counters relate two calls at a time, and the proofs cover any number.
  No symmetry, since the run also checks liveness.
- HTTP runs: two sessions under a cap of one force eviction; two requests give
  every overlap of two POSTs, or of an opening POST with another; one call is
  enough, since calls meet only through the caps. `http_sessions` has two scenarios,
  chosen at the start, so that none pays for interleavings the other has: one principal
  with a call, DELETEs and `Proxy.Close`, which begins only before a second session is
  opened (`CloseEarly`; `http_live` has the other case); and two principals with POSTs
  and GETs. Symmetry over
  sessions, principals and requests in the safety runs. A session id is used
  once, as ids are random, and at most one `expire` of a session is in flight.
  Left out: requests on an id neither side knows (counted early, answered 404,
  taken back) and the POST caps, for which the number of requests stands.
- `attribution`: two calls and one prompt at once, used again and again; two
  sessions of different principals and a stateless client's one-call key that
  shares a principal with a session, under a quota of one, so records, repeats
  and overflow occur for the same principal; a TTL of 2 in a clock of 3, so
  records expire and are renewed. Symmetry over calls. The clock stops at
  `MaxTime`; the proofs have no such bound on calls, prompts, sessions or
  principals.
- `http_live`: three scenarios, chosen at the start and never changed: sessions that
  are opened, used, evicted and expire while `Proxy.Close` may begin, one request at a
  time; one session that a second opening request may evict at any stage of its
  settling and that may be deleted, while `Proxy.Close` may begin; and one session that
  may be deleted, with two requests. Session ids are random, so the first
  one issued is called `s1`. Two things are coarser than the code and add or remove no
  behaviour that matters: go-sdk's own session timeout, a backstop beyond the idle
  clock, is not among the closers, and `CloseSessions` closes all sessions in one step
  where `Proxy.Close` goes through them.
- `input_rounds`: one call id and one handler at a time, used again and again; a
  stateful agent, a stateless one and another principal; two tools, one of which
  may not ask; arguments that are the same, spelled differently, or different;
  rounds of two, three prompts, two rounds, so each limit is met before and after
  a retry; two states sealed, one restart, one tick past the TTL. A second call
  meets the first only through a state, and states of ended calls are kept.
- `progress`: a queue and a bucket of two, three values, two ticks to a token.
- `audit`: two events, a checkpoint after every second, five lines, two faults, so
  a fault meets the line another fault has cut; two keygens. `keygen_close` leaves the
  log alone.
- `serve`: two ports, two bind attempts, one connection that two accept loops
  compete for under one slot, two attempts to connect, two Runs, two requests.
  The product is explored in parts that share the states where they meet
  (`MCServe`): every binding; the connect with every fault on the stdio path; the
  listener from one binding and a connect without faults; the Runs with the
  upstream at rest. What couples them is that `serve` waits for one before the
  next, and the two exits, which are explored together. `serve_live` has one request and
  leaves out what no guard of an awaited step reads: launched children, other
  programs, and whether a failure was a hang-up or a close slow.
- `startup`: command lines of up to three groups of flags, before and after `--`,
  with environments for both operating systems (three settings of the upstream's
  environment together only on Windows); policies, profile directories and
  inventories that differ in one thing the validation looks at, over a few command
  lines.

## 5. Fairness

`Dispatch!FairSpec`: the goroutine of a call takes the steps the proxy's code can
take. `Acquire` is strongly fair because blocked sends on a Go channel are served
in turn. Nothing is assumed of the agent, the upstream or the gate;
in `NoCallIsStuck`, `EveryCallProceeds` adds that `Decide` ends and
`CancelledWaiterLeaves` does not.

`HttpSessions!FairSpec`: goroutines run, timers fire, `Proxy.Close` goes on once
begun, and a cancelled call returns, since `forward` selects on the call's
context. Nothing is assumed of agents, so POSTs and streams may stay open for
ever, or of the upstream, so a call that is not cancelled may never end.

`InputRounds!FairSpec`: calls and handlers take the steps fathomgate's code can
take, contexts included. An agent that never answers and an upstream that never
withdraws its prompt are allowed.

`ProgressRelay!FairSpec`: relay, sender, `finish` and the result are run, and time
passes. An agent that does not read blocks whoever writes to it, for ever.

`MCServe!LiveSpec`: goroutines run, go-sdk's and net/http's included, and timers run
out; nothing is assumed of agents, connections or the upstream, nor that the end of
its stdout is ever read, since a child may hold that open. Each group under
one `WF` only makes progress and cannot run for ever, so that the fairness of the
group is that of its members.

## 6. Proofs

Each proof module extends the component (two extend the MC module, where the
composition a run checks is defined) and holds for every value of its constants.
An invariant that a run checks is seldom inductive; each module states the
strengthening it needs as a conjunction of named parts, shows that every action
keeps it, one lemma per action, and derives the properties. The strengthenings of
Dispatch and Attribution are checked by their runs; those of the
HTTP sessions, prompts, progress and `serve` were checked with TLC on bounds like
those of section 4 before they were proved.

### The gate (`GateProofs`)

A verdict is a function of the call, so the invariant (`Given`) says no more than
that it is `Decide`'s; the work is in lemmas about the operators.

- `ReachAlwaysDecided`: every device parameter of a call that is not refused is
  null, a string or a list of texts (`ParamIs`), and what an upstream could split
  it into is what the gate took as names (`PiecesAreSent`). The proof needs two
  facts about `validTargetName`, stated in `TargetsAssumption`: a valid name has no
  comma, and `json.loads` does not read it as a non-string (`jsonScalar`). Without
  the second a list holding `null` would reach every device.
- `DecideAlwaysMonotone`: hints change nothing but the class (`HintsRaise`); two
  requests that differ in their device count alone match the same rules
  (`CountAlone`), so fewer devices counted cannot refuse more.
- `SchemaAlwaysAgrees`: rests on the ids of rules not beginning with `default:`,
  which `Validate` refuses (`PoliciesAssumption`); a rule named
  `default:bad_arguments` would make an open tool seem to refuse its arguments.
- `ReadsAlwaysRead`: a command that is let through has no word of a separator, a
  pipe or a line break in it, so a device makes one statement of it (`SplitNone`,
  `ReadIsOneStatement`), and that statement begins with a word of the allow-list in
  full (`ReadOnlyReads`); a command that prints configuration by any abbreviation a
  device expands is one `isConfigRead` knows (`ReadPrintsNoConfig`).
- `WritesAlwaysStay`, in three parts. In a CLI payload a device's statement lies
  within a line the check has read (`SplitKeeps`), and a word a device takes for a
  documented verb, quoted or short, is one the check takes for it as well
  (`TrimTakesQuotes`, `CliStaysInSession`). In a Junos
  set payload the states a device can be in while it runs the lines stay quiet
  (`LineQuiet`, `LinesQuiet`): no level ever holds a word that makes something run,
  also after `top`, `up` and `edit`. Data is read word by word
  (`DataStaysInSession`). A tool of class `EXEC_ARBITRARY` is left out: that class is
  already the strongest.
- `TestsAlwaysTell`: a line and its error say what the decision is (`ExplainIs`), a
  case passes just when each of its expectations is the line's (`AgreesIs`) and loads
  just when it has a profile and its values are of the vocabulary (`LoadsIs`); from
  the three, `LineStands`. A target written down is read again as it was
  (`WrittenIsRead`), so a class-given case is the same request. For `--arg`, the
  parts of a text of devices are the names `serve` splits it into (`PartsAlike`),
  an array counts no more against the cap than the text (`FewerCounted`, by an
  injection), and no other argument changes (`ParsedAlike`).

Induction rules cannot be used (section 7). What a recursive function computes is
shown by the least index at which a claim about it fails (`NatLeast`, `Upto`), and
that the function exists at all by `LoopExists`.

Assumptions: calls are decoded (`CallsAssumption`), policies and profiles are
loaded, i.e. their effects, ids and classes were validated (`PoliciesAssumption`,
`ProfilesAssumption`), counts are naturals over finitely many names
(`CountersAssumption`), the classifier the gate calls is the one of CommandText
(`ClassifierAssumption`), a meta-tool is `EXEC_ARBITRARY` and has no commands
(`MetaToolsAssumption`, from `validateCapability`), an argument has one meaning
(`NamedOnceAssumption`, from `validateArgs`), a call has finitely many arguments and
the parts of a text have no comma (`DecodedAssumption`), the caps are naturals
(`CapsAssumption`), and what strings are made of (`StringsAssumption`: a separator is
one of the bytes the checks refuse, and a part of a word has the length of its
range; `CharsAssumption`: how the characters of the documented words relate to those
the checks keep). TLC evaluates all of them in `gate_call`.

### Dispatch (`GateProofs`)

Assumptions: valid target names are finitely many (they have at most 253 bytes;
`ValidTargetAssumption`), and `maxDevices` and `MaxTouchedNames` are naturals and
every request has a principal (`DispatchAssumption`). The argument for
`max_devices`:

1. `ForwardIsWithinCap`: if `Decide` forwards on a count and a set of counted
   names, the count and the call's new names are within the cap. `Resolve`
   merges no names (`ResolveKeepsCount`), and `devicesTouched` subtracts no more
   than the call's names that are counted.
2. `MaxDevicesHeld` is not inductive: a call may be about to be counted.
   `IInv` adds that the lock's slot is held by exactly the deciding call
   (`LockHeldByDecider`), that its verdict is still what `Decide` says of the
   counters (`DecisionIsCurrent`), that the devices a key has forgotten are no
   more than it counts beside the remembered ones (`ForgottenIsCounted`), that
   what is granted is within the cap, and that what is forwarded or reached was
   granted.
3. `CountStep` is the heart: counting a call keeps `ForgottenIsCounted`
   (`TouchArithmetic`) and the cap (`ChargeIsWithinCap`, from 1,
   `DecisionIsCurrent` and `GrantArithmetic`). All other steps leave the
   counters alone, and a step of another call cannot be between lock and unlock
   of the same key.
4. From `IInv`: `TypeCorrect`, `LockIsExclusive`, `NoStaleDecision`,
   `CountNeverLow`, `MaxDevices`, and `Refinement`: `Dispatch` implements
   `DeviceBudget`, where `CountAndUnlock` is a grant, `Send` a reach, and every
   other step stutters.
5. `AlwaysOneDecisionLine` needs to know at each place of a call's path how many
   lines it has (`LinesSoFar`): none before the gate, one from `LogDecision` on.

### HTTP sessions (`HttpProofs`)

Any number of principals and calls, any positive caps; sessions and requests are
finitely many (`HttpAssumption`), as they are at any moment of the program, since
the proof counts them. `HttpInv` is what the parties know of each other: go-sdk's
state of a session, the request that opens it (`Openers`, `Settling`), the book of
live sessions (`Owned`, `Unregistered`), the slot (`PlaceKept`, `Slots`), the idle
clock (`Clocks`), the watcher and the evictor (`Watchers`, `Evictions`), tombstones
and running calls (`Tombstones`, `CallsHold`). The counters are compared with sets
of requests (`Tallies`), so that a step moves one element of a set: `TallyRegister`
is the delicate one, where the requests begun before `register` become the count of
the session. `ReserveByEviction` needs that the order of last use holds each live
session once (`Ordered`).

### Prompts (`AttributionProofs`, `InputProofs`)

`AttributionProofs` holds for any calls, prompts, sessions and principals, any
positive TTL and any quota (`AttributionAssumption`). The prompt property is not
inductive: it needs that no ended call is forgotten. Its invariant `IInv` adds to
the type (with: no clock reading is from the future) that `ended` holds only live
calls, `RecordsCover`, `RecordsJustified`, `QuotaExact`, and that a principal's
records are finitely many, which the count needs since keys are not assumed
finite. `PruneStep` and `EndStep` are the work: a prune at an old reading removes
only what has expired by now as well, and each of the three ways to record a call
covers it. Then `PromptIsAttributedRight`: the session asked for has a call in
flight, and it is the only one, or an ended call, whose record is live at any
reading up to now, so `attribute` would have refused.

`InputProofs` holds for any calls, handlers, agents, tools and arguments and any
limits (`InputRoundsAssumption`). `InputInv` says of a call what its counters are
at each stage (`Counted`), that a round checked whole still fits unless a handler's
prompt came between (`Fits`), and what request it goes back to (`SameCall`); of a
state that it carries what its call had (`StateOK`); and of the slot that it is
taken exactly while the call, or one handler, asks (`SlotOK`). The last is what
makes two handlers of one call exclude each other. `RoundsAlwaysHeld` is an action
property: `Fits` shows that no step ends a round after its first answer
(`BegunGoesOn`).

### Progress (`RelayProofs`)

Any burst, rate and number of notifications (`ProgressAssumption`). `RelayInv` is
an order: what is on the wire, in the sender's hand, in the queue and held back
increases from one to the next (`Line`) and ends with the newest accepted, which is
in one of these places until something allowed to drop it happens (`Newest`).
`Bucket` relates the lazily refilled bucket to one refilled at every tick.

### Audit (`AuditProofs`)

Any events, any distance of checkpoints, any number of lines and faults, any number
of keygens (`AuditAssumption`, `NoFileAssumption`). `Verify` is a recursive function
over the lines of a file; what it computes is proved by induction over sets of
naturals (`NatSetInduction`), since the library's induction takes an operator the
provers cannot instantiate. The invariant `LogInv` says what a file that verifies
is: the chain of the writer's own events (`ChainHolds`), with every line an
unfinished write left standing where verification stops (`UnterminatedIsDamage`,
`AppendInProgress`), every signature one the writer made (`SignaturesGenuine`). For
the keys, `OwnFiles` says what a keygen can have left at either path at each stage;
`PublicBesidePrivate` is then about every stage of every run.
`AuditHolds` combines both in the specification of the run.

### serve (`ServeProofs`)

Any connections, ports, Runs and requests (`ListenAssumption`, `RunsAssumption`:
connections and Runs are finitely many, since slots are counted). `UpInv` says for
each phase of `New` what go-sdk, the watcher of `server/discover`, the `AfterFunc`
and the transport of either attempt can have done; `LocalInv` relates a Run's
registration, key and count; `Listener` relates slots, connections and requests; and
`Phase` says which parts run in each phase of `serve`. `ServeInv` is their
conjunction, and `MCIsServe` shows that the parts a run explores (`MCServe`) are
behaviours of `Serve`, so that the theorems are about the specification the run
checks as well.

### The start (`StartupProofs`)

`StartInv` says what each stage has loaded: the configuration is the one the
accepted command line gives, the policy, the inventory and the profiles are what
their files parse to, and the warnings are those about them. The properties are
about verdicts of the gate that was built, so each then follows from what the checks
of a file accept:

- `CommandLineAlwaysInForce`: the scan of the flags is followed argument by argument
  (which flag is pending, how many were consumed), so that an argument is a flag
  that was set, the value of the one before it, or one of the upstream's; the
  upstream's environment by the position a name is found at last.
- `WarningsAlwaysTell`: a name the gate knows is a device of the file; an
  obligation of a rule that allows is in the warning of its kind.
- `DocumentsAlwaysInForce`: ids are unique and never begin like a default's, a
  capability id passes the check of the argument it is sent in, and a profile
  directory has one file of a name.
- `LintAlwaysTells`: the first pattern that sets a role or a site wins it and the
  rest add tags, whatever the number of patterns; taking an idle one out changes
  no device the gate knows.

Assumptions: a process starts with a sequence of arguments, an environment of
finitely many variables and files the decoder can make something of, right or wrong
(`InputsAssumption`); the allow-list of variables has none of fathomgate's own
(`BaseEnvAssumption`); `ParseListenAddr` accepts loopback addresses only
(`ListenAssumption`); the built-in rules have the reserved prefix
(`DefaultsAssumption`); the empty name is normal (`NormalizeAssumption`); calls have
the fields of a call (`CallsAssumption`). TLC evaluates them in `startup`.

## 7. What is only model-checked, and what is not modelled

Only model-checked:

- all liveness (`NoCallIsStuck`, `CloseEnds`, `EndedSessionsGo`, `PromptsEnd`,
  `ProgressMoves`, `ServeEnds`): fairness and `ENABLED` are out of the prover's
  reach. Every other property of a passing run is a theorem.

The library's induction rules take an operator as a parameter, which the installed
provers cannot instantiate. The loops of the code are therefore recursive functions
over indices, with the argument of `GateProofs` and `StartupProofs` above, or folds
over sets.

Open residuals of the repository, which the properties name and leave out:

- an EOS exec verb that `classification.md` 11.2 does not have, an alias or menu an
  operator has configured (11.5), and an abbreviated text load on Junos (11.3) pass as
  configuration; netmiko's shell hosts run every line;
- a process the upstream launches as another user outlives it (ADR 0021);
- a replayed request state is taken again until it expires.

Not modelled:

- Details with no effect on a property: the 64 KiB cap of a whole configuration payload
  (`config.go:181-183`; the gate's own cap on arguments comes first), the count of
  arrays inside arrays (`args.go:387-392`; such a call is refused in any case), the
  order of the target lists a policy test compares (`run.go:234`; sets here), a
  `NotifyProgress` that fails for another reason than its context (`progress.go:227`;
  the relay goes on and does not count it as sent), and that the embedded profiles need not be at
  least one.
- In `CommandLineInForce`, whether a token is a value is told from the one before it,
  so a flag that follows a flag which is itself a value is exempted.
- Text work: labels, escaping and sanitising, redaction, the text of
  schemas and tool lists. It has no state, and a model of it would be the code
  again. Where a property depends on text (commands, configuration, names,
  environment names, tokens) it is modelled.
- The front of the HTTP listener: token, host and origin checks and the POST
  caps, which end a request before any state of a session is touched, and the
  stateless handler, which keeps none. The number of requests of a run stands for
  the caps.
- Tool advertising: `Gate.Arguments`, which `narrowSchema` follows, and the failure
  of `listTools` are modelled; paging, hint collection and names are not.
- Cryptography (AES-GCM, SHA-256, Ed25519) is external: only what this process
  sealed opens, hashes do not collide, signatures are not forged.
- The YAML of a policy test file and the printing of results; file permissions,
  strict YAML; the NetBox client and CSV import, which `serve` does not use; the Windows
  job object; the copying of stderr; the rate limit of refusal lines.

In `Dispatch`'s `forward` the rounds of input are one step; InputRounds has their
detail. The gate's argument decoding is modelled from its result (`parse`).

## 8. Plan

The model covers the parts of the program that carry state or decide, and every
invariant and action property the runs check is proved. What would come next, as
the code grows:

1. the front of the HTTP listener (`acquirePOST` and the stateless handler), once
   remote binding gives it state beyond a counter;
2. the audit log beside `Dispatch`, once the proxy writes it: an event for every
   decision line, in their order;
3. approvals: `hold` is refused today, and the pending count is an input of the
   policy; with them it becomes state that calls race for.
