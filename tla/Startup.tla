------------------------------ MODULE Startup -------------------------------
(***************************************************************************)
(* `fathomgate serve` before anything is bound or spawned: parseServe reads*)
(* the command line and the environment, loadPipeline the policy, the      *)
(* inventory and the profiles, and the result is a configuration, a gate   *)
(* and the start-up warnings, or an exit.                                  *)
(*                                                                         *)
(* input is what the process is given and never changes: args, the command *)
(* line as tokens [kind, name, value] ("flag" with its value after "=" or  *)
(* NoValue, "word", "dashdash", and "bad" for bad flag syntax); env, the   *)
(* variables set, name -> value; goos; and disk, what each path holds.     *)
(***************************************************************************)
EXTENDS Documents, InventoryChain

CONSTANTS
  Inputs,          \* the inputs to start with
  NoValue,         \* a flag token without "=value"
  EnvKey,          \* the KEY=VALUE texts: [text -> <<key, value>>]
  ValidEnvNames,   \* the texts validEnvName accepts
  ValidServers,    \* the texts ValidateServerName accepts
  BaseEnvNames,    \* the names unixEnvAllow and windowsEnvAllow list, by goos
  ListenHosts,     \* the host:port texts: [text -> the address parsed, or ""]
  TokenEntry,      \* the NAME=PATH texts: [text -> <<name, path>>]
  PrincipalNames,  \* the texts validPrincipalName accepts
  MinToken,        \* minListenTokenBytes
  CSVPaths,        \* the paths with the extension .csv
  ValidTarget, SplitCommas, MaxCommands, MaxTargets,    \* of the gate
  Calls            \* the calls put to the gate, for the server served

ArgTokens == [kind : {"flag", "word", "dashdash", "bad"}, name : STRING,
           value : STRING \cup {NoValue}]

CallFields == {"server", "tool", "parse", "args", "readOnlyHint", "destructiveHint",
               "pendingHolds"}

ASSUME CallsAssumption == \A in \in Calls : in = [f \in CallFields |-> in[f]]

\* ParseListenAddr accepts loopback addresses only.
ASSUME ListenAssumption ==
  \A h \in DOMAIN ListenHosts : ListenHosts[h] \in {"", "127.0.0.1", "::1"}

VARIABLES input, stage, cfg, pipe, code

vars == <<input, stage, cfg, pipe, code>>

Stages == {"parse", "policy", "inventory", "profiles", "gate", "ready", "exit"}

-----------------------------------------------------------------------------
(* The flag package *)

OnceFlags == {"policy", "inventory", "profiles"}

UpstreamReserved == OnceFlags \cup {"audit"}

BoolFlags == {"no-policy", "listen-remote"}

ValueFlags == {"server", "upstream", "upstream-env", "upstream-env-pass", "audit", "listen",
               "listen-token-file", "listen-host"} \cup OnceFlags

\* The argument as the string a flag before it would take.
AsText(t) ==
  CASE t.kind = "word"     -> t.value
    [] t.kind = "dashdash" -> "--"
    [] t.kind = "bad"      -> "---"
    [] t.kind = "flag"     -> IF t.value = NoValue THEN "--" \o t.name
                              ELSE "--" \o t.name \o "=" \o t.value

Value(given, name) == IF given[name] = <<>> THEN "" ELSE SE!Last(given[name])

\* Mutant: the last of several values wins.
SetFlagAgain(acc, name, value) ==
  [acc EXCEPT !.mode = "flags", !.given[name] = Append(@, value)]

\* A flag's Set: onceFlag refuses a second value, an empty one is unset.
SetFlag(acc, name, value) ==
  IF name \in OnceFlags /\ Value(acc.given, name) # "" THEN [acc EXCEPT !.mode = "error"]
  ELSE [acc EXCEPT !.mode = "flags", !.given[name] = Append(@, value)]

TakeFlag(acc, t) ==
  IF t.name \in {"h", "help"} THEN [acc EXCEPT !.mode = "help"]
  ELSE IF t.name \in BoolFlags
       THEN IF t.value \in {NoValue, "true", "false"}
            THEN SetFlag(acc, t.name, IF t.value = NoValue THEN "true" ELSE t.value)
            ELSE [acc EXCEPT !.mode = "error"]
  ELSE IF t.name \notin ValueFlags THEN [acc EXCEPT !.mode = "error"]
  ELSE IF t.value = NoValue THEN [acc EXCEPT !.mode = "value", !.pending = t.name]
  ELSE SetFlag(acc, t.name, t.value)

\* One argument; parsing stops at "--" or at the first word.
TakeArg(acc, t) ==
  CASE acc.mode = "value" -> SetFlag([acc EXCEPT !.consumed = @ + 1], acc.pending, AsText(t))
    [] acc.mode = "flags" /\ t.kind = "word"     -> [acc EXCEPT !.mode = "rest"]
    [] acc.mode = "flags" /\ t.kind = "dashdash" -> [acc EXCEPT !.mode = "rest",
                                                                !.consumed = @ + 1]
    [] acc.mode = "flags" /\ t.kind = "bad"      -> [acc EXCEPT !.mode = "error"]
    [] acc.mode = "flags" /\ t.kind = "flag" -> TakeFlag([acc EXCEPT !.consumed = @ + 1], t)
    [] OTHER -> acc

Unparsed == [mode |-> "flags", pending |-> "", consumed |-> 0,
             given |-> [n \in BoolFlags \cup ValueFlags |-> <<>>]]

FlagParse(args) ==
  LET acc[i \in 0..Len(args)] == IF i = 0 THEN Unparsed ELSE TakeArg(acc[i - 1], args[i])
  IN acc[Len(args)]

-----------------------------------------------------------------------------
(* The environment, fathomgate's and the upstream's *)

SameEnvName(a, b, goos) == IF goos = "windows" THEN LowerCase(a) = LowerCase(b) ELSE a = b

OwnPrefix == "FATHOMGATE_"

IsFathomgateEnvName(k, goos) ==
  Len(k) >= Len(OwnPrefix) /\ SameEnvName(SubSeq(k, 1, Len(OwnPrefix)), OwnPrefix, goos)

\* os.LookupEnv: the values set under the name, one or none.
Lookup(env, name, goos) ==
  {env[k] : k \in {k \in DOMAIN env : SameEnvName(k, name, goos)}}

\* No name of the allow-list is fathomgate's own, in any letter case.
ASSUME BaseEnvAssumption ==
  /\ Len(OwnPrefix) = 11
  /\ \A goos \in DOMAIN BaseEnvNames : \A a \in BaseEnvNames[goos] :
       ~IsFathomgateEnvName(a, goos)

\* What a process is started with: a sequence of arguments, variables with
\* one value each, and letter case that folds character by character.
IsEnvironment(env, goos) ==
  /\ IsFiniteSet(DOMAIN env) /\ goos \in DOMAIN BaseEnvNames
  /\ \A j, k \in DOMAIN env : SameEnvName(j, k, goos) => j = k
  /\ \A k \in DOMAIN env, a \in BaseEnvNames[goos] :
       LowerCase(k) = LowerCase(a) =>
         /\ Len(k) = Len(a)
         /\ Len(a) >= 11 => LowerCase(SubSeq(k, 1, 11)) = LowerCase(SubSeq(a, 1, 11))

\* The --upstream-env entries and the --upstream-env-pass names, checked.
EnvAccepted(env, pass, goos) ==
  /\ \A i \in DOMAIN env :
       /\ env[i] \in DOMAIN EnvKey
       /\ EnvKey[env[i]][1] \in ValidEnvNames
       /\ ~IsFathomgateEnvName(EnvKey[env[i]][1], goos)
  /\ \A i \in DOMAIN pass :
       pass[i] \in ValidEnvNames /\ ~IsFathomgateEnvName(pass[i], goos)
  /\ \A i \in DOMAIN pass, j \in DOMAIN env : ~SameEnvName(pass[i], EnvKey[env[j]][1], goos)

\* The first spelling of each name.
PassName(names, n, goos) ==
  IF \E i \in DOMAIN names : SameEnvName(names[i], n, goos) THEN names ELSE Append(names, n)

PassNames(pass, goos) ==
  LET names[i \in 0..Len(pass)] ==
        IF i = 0 THEN <<>> ELSE PassName(names[i - 1], pass[i], goos)
  IN names[Len(pass)]

PassSet(in, pass) ==
  \A i \in DOMAIN pass : \E v \in Lookup(in.env, pass[i], in.goos) : v # ""

\* envAllowed.
EnvAllowed(k, goos) == \E a \in BaseEnvNames[goos] : SameEnvName(k, a, goos)

\* Command.Transport's environment: the allow-list, the secrets, then Env.  A
\* process reads the last entry for a name.
ChildEnv(in, c) ==
  SE!SetToSeq({<<k, in.env[k]>> : k \in {k \in DOMAIN in.env : EnvAllowed(k, in.goos)}})
    \o [i \in DOMAIN c.passNames |->
          <<c.passNames[i], CHOOSE v \in Lookup(in.env, c.passNames[i], in.goos) : TRUE>>]
    \o [i \in DOMAIN c.upstreamEnv |-> EnvKey[c.upstreamEnv[i]]]

-----------------------------------------------------------------------------
(* --listen and its tokens *)

\* A token file's content is [text, len, clean, newlines]: the text before
\* its line ends, its length, whether all of it is printable without space.
TrimOneNewline(f) == [f EXCEPT !.newlines = IF @ = 0 THEN 0 ELSE @ - 1]

CheckListenToken(t) == t.len >= MinToken /\ t.clean /\ t.newlines = 0

SameToken(a, b) == TrimOneNewline(a) = TrimOneNewline(b)

\* A text has one length.
IsTokenDisk(disk) ==
  \A p, q \in DOMAIN disk.tokens :
    /\ disk.tokens[p] = [f \in {"text", "len", "clean", "newlines"} |-> disk.tokens[p][f]]
    /\ disk.tokens[p].clean \in BOOLEAN
    /\ disk.tokens[p].text = disk.tokens[q].text => disk.tokens[p].len = disk.tokens[q].len

TokenFiles(entries, disk) ==
  [i \in DOMAIN entries |-> [name  |-> TokenEntry[entries[i]][1],
                             token |-> disk.tokens[TokenEntry[entries[i]][2]]]]

\* loadListenTokens, for --listen-token-file.
TokenFilesAccepted(entries, disk) ==
  /\ \A i \in DOMAIN entries :
       /\ entries[i] \in DOMAIN TokenEntry
       /\ TokenEntry[entries[i]][1] \in PrincipalNames
       /\ TokenEntry[entries[i]][2] \in DOMAIN disk.tokens
  /\ LET files == TokenFiles(entries, disk)
     IN /\ \A i \in DOMAIN files : CheckListenToken(TrimOneNewline(files[i].token))
        /\ \A i, j \in DOMAIN files :
             files[i].name = files[j].name \/ SameToken(files[i].token, files[j].token)
               => i = j

EnvToken(in) == Lookup(in.env, "FATHOMGATE_LISTEN_TOKEN", in.goos)

TokensAccepted(in, entries) ==
  IF EnvToken(in) # {}
  THEN entries = <<>> /\ \A v \in EnvToken(in) : CheckListenToken(in.disk.envTokens[v])
  ELSE entries # <<>> /\ TokenFilesAccepted(entries, in.disk)

\* The bearer token of each principal, as the listener compares it.
Tokens(in, entries) ==
  IF EnvToken(in) # {}
  THEN {[name |-> "env", token |-> in.disk.envTokens[v]] : v \in EnvToken(in)}
  ELSE {[f EXCEPT !.token = TrimOneNewline(@)] : f \in SE!ToSet(TokenFiles(entries, in.disk))}

-----------------------------------------------------------------------------
(* parseServe *)

NamesReserved(t) == t.kind = "flag" /\ t.name \in UpstreamReserved

\* Mutant: the upstream's arguments are not looked at.
RestAcceptedUnread(args, p) ==
  p.consumed < Len(args) => p.consumed > 0 /\ AsText(args[p.consumed]) = "--"

\* What is left after the flags: none of fathomgate's own pipeline flags, and
\* only after "--".
RestAccepted(args, p) ==
  /\ \A i \in p.consumed + 1 .. Len(args) : ~NamesReserved(args[i])
  /\ p.consumed < Len(args) => p.consumed > 0 /\ AsText(args[p.consumed]) = "--"

\* pipelineFlags.check.
PipelineAccepted(given) ==
  LET noPolicy == Value(given, "no-policy") = "true"
  IN IF noPolicy
     THEN \A n \in OnceFlags : Value(given, n) = ""
     ELSE Value(given, "policy") # ""

Accepted(in, p) ==
  /\ p.mode \in {"flags", "rest"}
  /\ RestAccepted(in.args, p)
  /\ \A n \in {"audit", "listen-remote", "listen-host"} : p.given[n] = <<>>
  /\ Value(p.given, "server") \in ValidServers
  /\ ~Blank(Value(p.given, "upstream")) /\ Value(p.given, "upstream") # "--"
  /\ EnvAccepted(p.given["upstream-env"], p.given["upstream-env-pass"], in.goos)
  /\ PassSet(in, p.given["upstream-env-pass"])
  /\ IF Value(p.given, "listen") = "" THEN p.given["listen-token-file"] = <<>>
     ELSE /\ Value(p.given, "listen") \in DOMAIN ListenHosts
          /\ ListenHosts[Value(p.given, "listen")] # ""
          /\ TokensAccepted(in, p.given["listen-token-file"])
  /\ PipelineAccepted(p.given)

\* What the upstream is started with.
UpstreamArgs(args, p) == SubSeq(args, p.consumed + 1, Len(args))

Config(in, p) ==
  LET listens == Value(p.given, "listen") # ""
  IN [server       |-> Value(p.given, "server"),
      upstream     |-> Value(p.given, "upstream"),
      upstreamArgs |-> UpstreamArgs(in.args, p),
      upstreamEnv  |-> p.given["upstream-env"],
      passNames    |-> PassNames(p.given["upstream-env-pass"], in.goos),
      listen       |-> IF listens THEN ListenHosts[Value(p.given, "listen")] ELSE "",
      tokens       |-> IF listens THEN Tokens(in, p.given["listen-token-file"]) ELSE {},
      policy       |-> Value(p.given, "policy"),
      inventory    |-> Value(p.given, "inventory"),
      profiles     |-> Value(p.given, "profiles"),
      noPolicy     |-> Value(p.given, "no-policy") = "true"]

NoConfig == [server |-> "", noPolicy |-> FALSE]

Exit(c) == stage' = "exit" /\ code' = c

ParseServe ==
  /\ stage = "parse"
  /\ LET p == FlagParse(input.args)
     IN IF Accepted(input, p)
        THEN /\ cfg' = Config(input, p)
             /\ stage' = "policy"
             /\ UNCHANGED code
        ELSE /\ Exit(IF p.mode = "help" THEN 0 ELSE 2)
             /\ UNCHANGED cfg
  /\ UNCHANGED <<input, pipe>>

-----------------------------------------------------------------------------
(* loadPipeline *)

OnDisk(files, path) == IF path \in DOMAIN files THEN files[path] ELSE Unreadable

NoFile == [devices |-> <<>>, roles |-> <<>>]

NoPipe == [gate |-> FALSE, policy |-> [loaded |-> FALSE], file |-> NoFile,
           profiles |-> [s \in {} |-> {}], warns |-> {}]

Warn(kind, about, rules) == [kind |-> kind, about |-> about, rules |-> rules]

LoadNoPolicy ==
  /\ stage = "policy" /\ cfg.noPolicy
  /\ pipe' = [pipe EXCEPT !.warns = {Warn("no_policy", "", {})}]
  /\ stage' = "ready"
  /\ UNCHANGED <<input, cfg, code>>

LoadPolicy ==
  /\ stage = "policy" /\ ~cfg.noPolicy
  /\ LET doc == OnDisk(input.disk.policies, cfg.policy)
     IN IF doc # Unreadable /\ ValidPolicy(doc)
        THEN /\ pipe' = [pipe EXCEPT !.policy = ParsePolicy(doc)]
             /\ stage' = "inventory"
             /\ UNCHANGED code
        ELSE Exit(2) /\ UNCHANGED pipe
  /\ UNCHANGED <<input, cfg>>

LoadNoInventory ==
  /\ stage = "inventory" /\ cfg.inventory = ""
  /\ pipe' = [pipe EXCEPT !.warns = @ \cup
                IF pipe.policy.unknownTarget = "allow" THEN {}
                ELSE {Warn("no_inventory", "", {})}]
  /\ stage' = "profiles"
  /\ UNCHANGED <<input, cfg, code>>

LoadInventory ==
  /\ stage = "inventory" /\ cfg.inventory # ""
  /\ LET f == OnDisk(input.disk.inventories, cfg.inventory)
     IN IF cfg.inventory \notin CSVPaths /\ f # Unreadable /\ FileChain(f)
        THEN /\ pipe' = [pipe EXCEPT
                  !.file = f,
                  !.warns = @ \cup {Warn("pattern", f.roles[i].match, {}) :
                                      i \in PatternWarnings(f)}]
             /\ stage' = "profiles"
             /\ UNCHANGED code
        ELSE Exit(2) /\ UNCHANGED pipe
  /\ UNCHANGED <<input, cfg>>

NoTools == [t \in {} |-> {}]

\* Mutant: a server without a profile is left out of the gate.
WithServerOnlyListed(byServer, server) == byServer

\* A server without a profile has one that lists no tool.
WithServer(byServer, server) ==
  [s \in DOMAIN byServer \cup {server} |-> IF s \in DOMAIN byServer THEN byServer[s] ELSE NoTools]

\* ProfileDir asks for one profile at least; the embedded ones are never none.
LoadProfiles ==
  /\ stage = "profiles"
  /\ LET dir == IF cfg.profiles = "" THEN input.disk.embedded
                ELSE OnDisk(input.disk.profiles, cfg.profiles)
     IN IF dir # Unreadable /\ ProfileDir(dir)
        THEN /\ pipe' = [pipe EXCEPT
                  !.profiles = WithServer(ByServer(dir), cfg.server),
                  !.warns = @ \cup IF cfg.server \in DOMAIN ByServer(dir) THEN {}
                                   ELSE {Warn("no_profile", cfg.server, {})}]
             /\ stage' = "gate"
             /\ UNCHANGED code
        ELSE Exit(2) /\ UNCHANGED pipe
  /\ UNCHANGED <<input, cfg>>

CarriedUntil == {"redact", "canary_first", "require_ticket", "notify"}

CannotMeet == {"dry_run", "diff", "timed_rollback"}

AllowRulesWith(rules, o) ==
  {rules[i].id : i \in {i \in DOMAIN rules :
                          rules[i].effect = "allow" /\ o \in rules[i].obligations}}

ObligationWarnings(rules) ==
  {Warn(IF o \in CarriedUntil THEN "carried" ELSE "cannot_meet", o, AllowRulesWith(rules, o))
     : o \in {o \in KnownObligations : AllowRulesWith(rules, o) # {}}}

PolicyWarnings(pol) ==
  LET holds == {pol.rules[i].id : i \in {i \in DOMAIN pol.rules : pol.rules[i].effect = "hold"}}
  IN (IF pol.unknownTarget = "allow" THEN {Warn("unknown_target_allow", "", {})} ELSE {})
       \cup ObligationWarnings(pol.rules)
       \cup (IF holds = {} THEN {} ELSE {Warn("hold", "", holds)})

\* gate.New cannot fail here: every profile is stored under its own server.
NewGate ==
  /\ stage = "gate"
  /\ pipe' = [pipe EXCEPT !.gate = TRUE, !.warns = @ \cup PolicyWarnings(pipe.policy)]
  /\ stage' = "ready"
  /\ UNCHANGED <<input, cfg, code>>

-----------------------------------------------------------------------------
(* What the process may be given *)

IsDisk(disk) ==
  /\ \A p \in DOMAIN disk.policies :
       disk.policies[p] # Unreadable => IsPolicyDoc(disk.policies[p])
  /\ \A p \in DOMAIN disk.inventories :
       disk.inventories[p] # Unreadable => IsInventoryDoc(disk.inventories[p])
  /\ \A p \in DOMAIN disk.profiles : disk.profiles[p] # Unreadable => IsDir(disk.profiles[p])
  /\ IsDir(disk.embedded)
  /\ IsTokenDisk(disk)

ASSUME InputsAssumption ==
  \A in \in Inputs :
    in.args \in Seq(ArgTokens) /\ IsEnvironment(in.env, in.goos) /\ IsDisk(in.disk)

-----------------------------------------------------------------------------
Init ==
  /\ input \in Inputs
  /\ stage = "parse"
  /\ cfg = NoConfig
  /\ pipe = NoPipe
  /\ code = 0

Next ==
  \/ ParseServe
  \/ LoadNoPolicy \/ LoadPolicy
  \/ LoadNoInventory \/ LoadInventory
  \/ LoadProfiles
  \/ NewGate

Spec == Init /\ [][Next]_vars

-----------------------------------------------------------------------------
(* The gate built *)

\* What Known answers for every name a call can carry.
KnownDevices(f) ==
  [n \in {n \in ValidTarget : Known(f, n)} |->
     LET t == ResolveName(f, n).out IN [role |-> t.role, tags |-> t.tags]]

Gate == INSTANCE GateDecide WITH Profiles <- pipe.profiles, Inventory <- KnownDevices(pipe.file)

Gated == stage = "ready" /\ pipe.gate

CallHere(in) == [in EXCEPT !.server = cfg.server]

\* The first call of a session.
Decided(in) == Gate!Decide(pipe.policy, CallHere(in), 0, {})

Warned(kind) == \E w \in pipe.warns : w.kind = kind

Rules == {pipe.policy.rules[i] : i \in DOMAIN pipe.policy.rules}

-----------------------------------------------------------------------------
(* Properties of the command line *)

\* A start ends ready, or exits 0 (help) or 2 with nothing loaded in force;
\* a listener is on a loopback address and has a token.
TypeOK ==
  /\ stage \in Stages
  /\ code \in {0, 2} /\ (code = 2 => stage = "exit")
  /\ pipe.gate => stage = "ready"
  /\ stage \notin {"parse", "exit"} =>
       /\ cfg.noPolicy # (cfg.policy # "")
       /\ cfg.listen \in {"", "127.0.0.1", "::1"} /\ (cfg.listen # "" => cfg.tokens # {})

\* Every --policy, --inventory or --profiles on the command line, wherever it
\* stands, is the one in force (onceFlag, the scan of the upstream's
\* arguments), unless it may be the value of the flag before it (one that
\* follows a flag which is a value itself is left out too).
FlagsInForce ==
  stage \notin {"parse", "exit"} =>
    \A i \in DOMAIN input.args :
      LET t == input.args[i]
          isValue == /\ i > 1 /\ input.args[i - 1].kind = "flag"
                     /\ input.args[i - 1].name \in ValueFlags
                     /\ input.args[i - 1].value = NoValue
          value   == IF t.value # NoValue THEN t.value ELSE AsText(input.args[i + 1])
      IN t.kind = "flag" /\ t.name \in OnceFlags /\ ~isValue
           => value \in {"", cfg[t.name]}

\* What the upstream's environment holds of fathomgate's own: nothing named
\* FATHOMGATE_*, in any letter case on Windows, and otherwise only what the
\* allow-list or --upstream-env-pass names (parseServe, baseEnv).
Folded(k) == IF input.goos = "windows" THEN LowerCase(k) ELSE k

ChildEnvClean ==
  stage \notin {"parse", "exit"} =>
    \A e \in SE!ToSet(ChildEnv(input, cfg)) :
      /\ ~(Len(e[1]) >= 11 /\ Folded(SubSeq(e[1], 1, 11)) = Folded("FATHOMGATE_"))
      /\ \/ Folded(e[1]) \in {Folded(a) : a \in BaseEnvNames[input.goos]}
         \/ e[1] \in SE!ToSet(cfg.passNames)
         \/ e \in {EnvKey[x] : x \in SE!ToSet(cfg.upstreamEnv)}

\* The upstream reads each --upstream-env-pass variable with the value it has
\* in fathomgate's environment, not one that --upstream-env puts after it.
PassedValueSeen ==
  stage \notin {"parse", "exit"} =>
    \A n \in SE!ToSet(cfg.passNames) :
      LET env  == ChildEnv(input, cfg)
          mine == {i \in DOMAIN env : Folded(env[i][1]) = Folded(n)}
          last == CHOOSE i \in mine : \A j \in mine : j <= i
      IN \E k \in DOMAIN input.env : Folded(k) = Folded(n) /\ env[last][2] = input.env[k]

\* A bearer token names one principal: the listener's tokens differ as they
\* are compared, after loadListenTokens trimmed them.
OneTokenOnePrincipal ==
  stage \notin {"parse", "exit"} =>
    \A a, b \in cfg.tokens : a.token.text = b.token.text \/ a.name = b.name => a = b

-----------------------------------------------------------------------------
(* Properties of the pipeline loaded *)

\* The start-up warnings tell the operator what the gate does with devices it
\* does not know (loadPipeline): a call is forwarded to a device no inventory
\* file lists only after the unknown_target warning, and the warnings about a
\* missing inventory and a missing profile are true of every call.
UnknownIsWarned ==
  Gated => \A in \in Calls :
    LET v     == Decided(in)
        named == Gate!Names(CallHere(in))
        own   == {pipe.file.devices[j].name : j \in DOMAIN pipe.file.devices}
    IN /\ v.forward /\ ~(named \subseteq own)
            => Warned("unknown_target_allow") /\ ~Warned("no_inventory") /\ ~Warned("no_profile")
       /\ Warned("no_inventory") /\ named # {} => v.effect = "deny"
       /\ Warned("no_profile") /\ DOMAIN in.args # {} => v.rule = "default:bad_arguments"

\* A call forwarded with an obligation nobody enforces was announced
\* (policyWarnings), under the rule that allowed it; a rule announced as one
\* that cannot be met or is held never forwards a call.
UnenforcedIsWarned ==
  Gated => \A in \in Calls :
    LET v  == Decided(in)
        by == {r \in Rules : r.id = v.rule}
    IN /\ v.forward => \A r \in by : \A o \in r.obligations :
            \E w \in pipe.warns : w.kind = "carried" /\ w.about = o /\ r.id \in w.rules
       /\ v.forward => ~\E w \in pipe.warns :
            w.kind \in {"cannot_meet", "hold"} /\ v.rule \in w.rules
       /\ ~v.forward /\ v.effect # "deny" => \E w \in pipe.warns :
            w.kind \in {"cannot_meet", "hold"} /\ v.rule \in w.rules

\* The rule a verdict names is one rule of the policy that says the same, or
\* a built-in default, which only denies (Rule.validate's reserved prefix,
\* the unique ids of Policy.Validate).
VerdictNamesItsCause ==
  Gated => \A in \in Calls :
    LET v  == Decided(in)
        by == {i \in DOMAIN pipe.policy.rules : pipe.policy.rules[i].id = v.rule}
    IN \/ \E i \in by : by = {i} /\ pipe.policy.rules[i].effect = v.effect
       \/ by = {} /\ v.effect = "deny"

\* Every entry of an accepted capability table works (validCapabilityID
\* against CheckArguments and classifyCapability): a call that selects it is
\* not malformed and has the table's class.
Str(text) == [kind |-> "string", items |-> <<text>>]

CapabilitiesUsable ==
  Gated => \A s \in DOMAIN pipe.profiles : \A n \in DOMAIN pipe.profiles[s] :
    LET spec == pipe.profiles[s][n]
    IN \A id \in DOMAIN spec.capabilities :
         LET args == [p \in {spec.capabilityParam} |-> Str(id)]
         IN /\ UnnamedArgs(spec, args) = {} /\ MalformedArgs(spec, args) = {}
            /\ ClassifyTool(spec, args).class = spec.capabilities[id]

\* No accepted profile lets a command go by unread (validateCapability): a
\* call of an operational or exec tool that carries one the allow-list does
\* not know is EXEC_ARBITRARY, whatever else it carries.
CommandsAreRead ==
  Gated => \A in \in Calls :
    LET c    == CallHere(in)
        spec == Gate!SpecOf(c)
    IN (/\ Gate!InProfile(c)
        /\ spec.class \in {"READ_OPERATIONAL", "EXEC_ARBITRARY"}
        /\ \E t \in Commands(spec, c.args) : CommandClass(t) = "EXEC_ARBITRARY")
       => Decided(in).class = "EXEC_ARBITRARY"

\* Every profile in the directory given is in force, under the name of its
\* file: none is passed over and none stands in for another (loadProfiles).
ProfilesInForce ==
  Gated /\ cfg.profiles # "" =>
    \A e \in input.disk.profiles[cfg.profiles].entries :
      e.ext \in {".yaml", ".yml"} =>
        e.name \in DOMAIN pipe.profiles /\ pipe.profiles[e.name] = ParseProfile(e.doc)

-----------------------------------------------------------------------------
(* Properties of the inventory loaded *)

\* lint's effect lines (PatternEffects) are the whole difference between a
\* device's own record and what the gate decides with (Chain.Resolve), each
\* the doing of the pattern named, and Sources tells the two apart.
EffectsTell ==
  Gated => \A j \in DOMAIN pipe.file.devices :
    LET d       == pipe.file.devices[j]
        r       == ResolveName(pipe.file, d.name)
        told(verb, field) == {e.value : e \in {x \in PatternEffects(pipe.file, d).effects :
                                                  x.verb = verb /\ x.field = field}}
    IN /\ {r.out.role} \ {d.role} = told("sets", "role")
       /\ {r.out.site} \ {d.site} = told("sets", "site")
       /\ r.out.tags \ d.tags = told("adds", "tag")
       /\ r.out.status = d.status
       /\ told("sets", "role") # {} <=> r.src.role = "pattern"
       /\ told("adds", "tag") = {t \in DOMAIN r.src.tags : r.src.tags[t] = "pattern"}

\* One device has one name: of all the spellings the device list folds
\* together the gate knows at most one, so no device is counted twice or
\* reached by a name the upstream may not hold for it (Known).
OneSpelling ==
  Gated => \A a, b \in DOMAIN KnownDevices(pipe.file) :
    Normalize(a) = Normalize(b) => a = b

\* A pattern serve warns about at start (PatternWarnings) is one that does
\* nothing: without it every name resolves as before.
WithoutRole(f, i) == [f EXCEPT !.roles = SE!RemoveAt(@, i)]

IdlePatternsAreIdle ==
  Gated => \A i \in DOMAIN pipe.file.roles :
    Warn("pattern", pipe.file.roles[i].match, {}) \in pipe.warns
      => KnownDevices(WithoutRole(pipe.file, i)) = KnownDevices(pipe.file)

\* The commands an operator checks an inventory with agree with serve: lint
\* passes a loaded file exactly when serve has no pattern to warn about and
\* every device can be named, and resolve blames the spelling of a name only
\* where the gate, or lint, has another one.
LintAgrees ==
  Gated =>
    /\ LintClean(pipe.file, ValidTarget) <=>
         /\ ~Warned("pattern")
         /\ \A j \in DOMAIN pipe.file.devices :
              pipe.file.devices[j].name \in DOMAIN KnownDevices(pipe.file)
    /\ \A n \in ValidTarget :
         Explain(pipe.file, n).reason = "spelling" =>
           \E m \in DOMAIN KnownDevices(pipe.file) \cup LintProblems(pipe.file, ValidTarget) :
             m # n /\ Normalize(m) = Normalize(n)

-----------------------------------------------------------------------------
(* Together *)

\* The command line and the environment are in force as written (parseServe,
\* loadListenTokens, baseEnv).
CommandLineInForce ==
  TypeOK /\ FlagsInForce /\ ChildEnvClean /\ PassedValueSeen /\ OneTokenOnePrincipal

\* The start-up warnings tell the truth about the gate (loadPipeline).
WarningsTell == UnknownIsWarned /\ UnenforcedIsWarned

\* What Parse and ParseProfile accept does what it says in the gate.
DocumentsInForce ==
  VerdictNamesItsCause /\ CapabilitiesUsable /\ CommandsAreRead /\ ProfilesInForce

\* What the inventory tools say of a file is what the gate does with it.
LintTells == OneSpelling /\ EffectsTell /\ IdlePatternsAreIdle /\ LintAgrees
=============================================================================
