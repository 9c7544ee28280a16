----------------------------- MODULE MCStartup ------------------------------
(***************************************************************************)
(* The command lines, environments and files Startup is checked with.      *)
(* One family varies the command line and the environment over one good    *)
(* set of files; the others vary the policy with the profiles, and the     *)
(* inventory, over a few command lines.                                    *)
(***************************************************************************)
EXTENDS Startup, TLC

LOCAL SX == INSTANCE SequencesExt

-----------------------------------------------------------------------------
(* Text *)

Upper == "ABCDEFGHIJKLMNOPQRSTUVWXYZ"
Lower == "abcdefghijklmnopqrstuvwxyz"

MCLowerCase(s) ==
  SX!FoldLeft(LAMBDA acc, i :
      LET c  == SubSeq(s, i, i)
          at == {k \in 1..26 : SubSeq(Upper, k, k) = c}
      IN acc \o (IF at = {} THEN c ELSE LET k == CHOOSE k \in at : TRUE IN SubSeq(Lower, k, k)),
      "", [i \in 1..Len(s) |-> i])

MCNormalize(s) == MCLowerCase(IF s = " r1" THEN "r1" ELSE s)

MCRegexMatches(match, name) ==
  CASE match = "^r"  -> name \in {"r1", "R1", "r2"}
    [] match = "2$"  -> name \in {"r2"}
    [] match = "^z"  -> FALSE
    [] OTHER         -> FALSE

MCCommandClass(t) == IF t = "show" THEN "READ_OPERATIONAL" ELSE "EXEC_ARBITRARY"

MCBadConfig(t, format) == TRUE

MCDataFormats == [t \in {} |-> ""]

-----------------------------------------------------------------------------
(* Command lines *)

F(name)      == [kind |-> "flag", name |-> name, value |-> NoValue]
FV(name, v)  == [kind |-> "flag", name |-> name, value |-> v]
W(text)      == [kind |-> "word", name |-> "", value |-> text]
Dash         == [kind |-> "dashdash", name |-> "", value |-> NoValue]
Bad          == [kind |-> "bad", name |-> "", value |-> NoValue]

MCEnvKey == "A=1" :> <<"A", "1">> @@ "a=2" :> <<"a", "2">>
         @@ "fathomgate_x=1" :> <<"fathomgate_x", "1">> @@ "1=1" :> <<"1", "1">>

MCTokenEntry == "ann=/t1" :> <<"ann", "/t1">> @@ "bob=/t1n" :> <<"bob", "/t1n">>
             @@ "bob=/t2" :> <<"bob", "/t2">> @@ "ann=/t2" :> <<"ann", "/t2">>
             @@ "no!=/t2" :> <<"no!", "/t2">> @@ "ann=/short" :> <<"ann", "/short">>
             @@ "ann=/gone" :> <<"ann", "/gone">>

MCListenHosts == "localhost:0" :> "127.0.0.1" @@ "[::1]:80" :> "::1" @@ "10.0.0.1:80" :> ""

MCBaseEnvNames == "linux" :> {"PATH", "HOME"} @@ "windows" :> {"PATH", "SystemRoot"}

Base == <<F("server"), W("eos"), F("upstream"), W("/bin/up")>>

\* Whole flags, then single tokens for the places where parsing may stop.
Groups ==
  {<<F("policy"), W("p.yaml")>>, <<FV("policy", "q.yaml")>>, <<FV("policy", "")>>,
   <<F("no-policy")>>, <<FV("no-policy", "false")>>, <<FV("no-policy", "x")>>,
   <<F("inventory"), W("i.yaml")>>, <<FV("profiles", "dir")>>,
   <<F("upstream"), F("policy")>>, <<F("upstream"), Dash>>, <<F("server"), W("fathomgate")>>,
   <<Dash>>, <<W("x")>>, <<FV("audit", "a")>>, <<FV("listen-remote", "false")>>, <<F("help")>>,
   <<F("bogus")>>, <<Bad>>, <<F("listen-host")>>}

Lines == {Base \o SX!FlattenSeq(s) : s \in UNION {[1..n -> Groups] : n \in 0..3}}

OneLine(extra) == Base \o <<F("policy"), W("p.yaml")>> \o extra

EnvGroups ==
  {<<F("upstream-env"), W("A=1")>>, <<FV("upstream-env", "a=2")>>,
   <<F("upstream-env"), W("fathomgate_x=1")>>, <<F("upstream-env"), W("1=1")>>,
   <<F("upstream-env"), W("A")>>, <<F("upstream-env-pass"), W("A")>>,
   <<F("upstream-env-pass"), W("a")>>, <<F("upstream-env-pass"), W("FATHOMGATE_LISTEN_TOKEN")>>,
   <<F("upstream-env-pass"), W("A=1")>>}

EnvLines(n) == {OneLine(SX!FlattenSeq(s)) : s \in [1..n -> EnvGroups]}

TokenGroups == {<<F("listen-token-file"), W(t)>> : t \in DOMAIN MCTokenEntry \cup {"bare"}}

ListenLines ==
  {OneLine(l \o SX!FlattenSeq(s)) :
     l \in {<<>>} \cup {<<F("listen"), W(h)>> : h \in DOMAIN MCListenHosts \cup {"bare"}},
     s \in UNION {[1..n -> TokenGroups] : n \in 0..2}}

EnvVars(names) == [n \in names |-> IF n = "FATHOMGATE_LISTEN_TOKEN" THEN "t3" ELSE "v" \o n]

Environments ==
  {EnvVars(S) : S \in {{"PATH"}, {"PATH", "A"}, {"PATH", "a", "fathomgate_x"},
                       {"PATH", "A", "FATHOMGATE_LISTEN_TOKEN", "LD_PRELOAD"}}}
  \cup {"A" :> "", "FATHOMGATE_LISTEN_TOKEN" :> ""}

-----------------------------------------------------------------------------
(* Files *)

Rule(id, effect, class) ==
  [id |-> id, effect |-> effect, class |-> class, servers |-> {}, tools |-> {},
   deviceRoles |-> {}, deviceTags |-> {}, targetsCount |-> NoRange, obligations |-> {},
   approval |-> NoApproval]

Policy(rules) ==
  [version |-> 1, unknownTarget |-> "unset", maxDevices |-> 0, maxPending |-> 0, rules |-> rules]

Reads == Rule("reads", "allow", {"READ_OPERATIONAL", "READ_CONFIG"})
Open  == Rule("open", "allow", {})

With(rule, obligations) == [rule EXCEPT !.obligations = obligations]

GoodRuleLists ==
  {<<Reads>>, <<Open>>,
   <<With(Reads, {"redact"}), With(Open, {"redact", "notify"})>>,
   <<With(Reads, {"redact", "dry_run"}), With(Open, {"diff"})>>,
   <<[Reads EXCEPT !.deviceRoles = {"core"}], [Rule("held", "hold", {}) EXCEPT !.approval = 5]>>,
   <<[Rule("lab", "allow", {}) EXCEPT !.deviceTags = {"lab"},
        !.targetsCount = {[op |-> "lte", at |-> 1]}]>>}

BadRuleLists ==
  {<<>>, <<Reads, Reads>>, <<Rule(" ", "allow", {})>>, <<Rule("default:bad_arguments", "allow", {})>>,
   <<Rule("x", "permit", {})>>, <<Rule("x", "allow", {"READ"})>>,
   <<[Open EXCEPT !.tools = {BadGlob}]>>, <<With(Open, {"drry_run"})>>,
   <<[Open EXCEPT !.approval = 5]>>, <<[Rule("x", "hold", {}) EXCEPT !.approval = -1]>>,
   <<[Open EXCEPT !.targetsCount = {}]>>,
   <<[Open EXCEPT !.targetsCount = {[op |-> "gt", at |-> 2], [op |-> "lt", at |-> 2]}]>>}

PolicyDocs ==
  {[Policy(r) EXCEPT !.unknownTarget = u] : r \in GoodRuleLists, u \in {"unset", "allow", "deny"}}
  \cup {Policy(r) : r \in BadRuleLists}
  \cup {Unreadable, [Policy(<<Open>>) EXCEPT !.version = 2],
        [Policy(<<Open>>) EXCEPT !.unknownTarget = "hold"],
        [Policy(<<Open>>) EXCEPT !.maxDevices = -1]}

Tool(class) ==
  [class |-> class, neverDowngrade |-> FALSE, targetParams |-> <<"host">>, targetsParams |-> <<>>,
   groupParams |-> <<>>, commandParams |-> <<>>, configParams |-> <<>>, args |-> <<>>,
   refusedArgs |-> <<>>, capabilityParam |-> "", capabilityTable |-> ""]

Show == [Tool("READ_OPERATIONAL") EXCEPT !.commandParams = <<"cmd">>]
Meta == [Tool("EXEC_ARBITRARY") EXCEPT !.capabilityParam = "cap", !.capabilityTable = "ops"]

Tables(ids) == "ops" :> [id \in ids |-> "READ_CONFIG"]

Profile(tools, tables) == [server |-> "eos", tools |-> tools, capabilities |-> tables]

NoTables == [t \in {} |-> {}]

OneTool(t) == <<"run">> :> t

ProfileDocs ==
  {Profile(OneTool(Show), NoTables), Profile(OneTool(Meta), Tables({"get", "set"}))}
  \cup {Profile(OneTool(Meta), Tables(ids)) :
          ids \in {{}, {""}, {"null"}, {"get", "GET"}, {"g t"}, {"longer-than-8"}}}
  \cup {Profile(OneTool(t), Tables({"get"})) :
          t \in {Show, [Meta EXCEPT !.commandParams = <<"cmd">>], [Meta EXCEPT !.capabilityParam = ""],
                 [Meta EXCEPT !.capabilityTable = "other"], [Meta EXCEPT !.class = "READ_CONFIG"],
                 [Meta EXCEPT !.class = "META"]}}
  \cup {Profile(OneTool(t), NoTables) :
          t \in {[Show EXCEPT !.args = NoList], [Show EXCEPT !.args = <<"host">>],
                 [Show EXCEPT !.args = <<" x">>], [Show EXCEPT !.refusedArgs = <<"cmd">>],
                 [Show EXCEPT !.refusedArgs = <<"y", "y">>]}}
  \cup {Profile(NoTools, NoTables)}

File(ext, name, doc) == [ext |-> ext, name |-> name, doc |-> doc]
Dir(entries) == [entries |-> entries]

GoodDoc == Profile(OneTool(Show), NoTables)
JunosDoc == [GoodDoc EXCEPT !.server = "junos"]

ProfileDirs ==
  {Dir({File(".yaml", "eos", d)}) : d \in ProfileDocs \cup {Unreadable}}
  \cup {Dir(S) : S \in
         {{}, {File("", "README", Unreadable)}, {File("dir", "old", Unreadable)},
          {File(".yaml", "eos", GoodDoc), File("", "README", Unreadable)},
          {File(".yaml", "junos", JunosDoc)},
          {File(".yaml", "eos", JunosDoc)},
          {File(".yaml", "eos", GoodDoc), File(".yml", "junos", JunosDoc)},
          {File(".yaml", "eos", GoodDoc), File(".yaml", "junos", JunosDoc)}}}
  \cup {Unreadable}

Device(name, role, tags) ==
  [name |-> name, role |-> role, site |-> "", tags |-> tags, status |-> ""]

Pattern(match, role, site, tags) == [match |-> match, role |-> role, site |-> site, tags |-> tags]

DeviceLists ==
  {<<>>} \cup {<<Device(n, r, {})>> : n \in {"r1", "R1", " r1", ""}, r \in {"", "core"}}
  \cup {<<Device("r1", "core", {"lab"}), Device("r2", "", {})>>,
        <<Device("r1", "", {}), Device("R1", "core", {})>>,
        <<[Device("r1", "core", {}) EXCEPT !.status = "pattern"]>>}

Patterns ==
  {Pattern("^r", "core", "", {}), Pattern("2$", "edge", "paris", {"lab"}),
   Pattern("^z", "edge", "", {}), Pattern("^r", "edge", "oslo", {"lab", "prod"}),
   Pattern("^r", "", "", {}), Pattern("(", "core", "", {}), Pattern("", "core", "", {})}

InventoryDocs ==
  {[devices |-> d, roles |-> r] :
     d \in DeviceLists, r \in UNION {[1..n -> Patterns] : n \in 0..2}} \cup {Unreadable}

GoodFile == [devices |-> <<Device("r1", "core", {"lab"}), Device("r2", "", {})>>,
             roles   |-> <<Pattern("2$", "edge", "", {"lab"})>>]

Content(text, len, newlines) ==
  [text |-> text, len |-> len, clean |-> TRUE, newlines |-> newlines]

DiskOf(policy, inventory, dir) ==
  [policies    |-> "p.yaml" :> policy @@ "q.yaml" :> Policy(<<Reads>>),
   inventories |-> "i.yaml" :> inventory @@ "i.csv" :> inventory,
   profiles    |-> "dir" :> dir,
   embedded    |-> Dir({File(".yaml", "eos", GoodDoc), File(".yaml", "junos", JunosDoc)}),
   tokens      |-> "/t1" :> Content("t1", 4, 0) @@ "/t1n" :> Content("t1", 4, 1)
                @@ "/t2" :> Content("t2", 4, 1) @@ "/short" :> Content("s", 1, 1),
   envTokens   |-> "t3" :> Content("t3", 4, 0) @@ "" :> Content("", 0, 0)]

GoodDisk == DiskOf(Policy(<<Reads>>), GoodFile, Dir({File(".yaml", "eos", GoodDoc)}))

-----------------------------------------------------------------------------
(* Inputs *)

Start(args, env, goos, disk) == [args |-> args, env |-> env, goos |-> goos, disk |-> disk]

PipelineLines ==
  {Base \o s : s \in {<<F("policy"), W("p.yaml"), FV("profiles", "dir")>>,
                      <<F("policy"), W("p.yaml"), FV("profiles", "dir"), FV("inventory", "i.yaml")>>}}
  \cup {<<F("server"), W("other"), F("upstream"), W("/bin/up"), F("policy"), W("p.yaml")>>,
        OneLine(<<FV("inventory", "i.csv")>>), OneLine(<<FV("inventory", "none.yaml")>>)}

MCInputs ==
  {Start(l, EnvVars({"PATH"}), "linux", GoodDisk) : l \in Lines}
  \cup {Start(l, e, g, GoodDisk) :
          l \in EnvLines(1) \cup EnvLines(2), e \in Environments, g \in {"linux", "windows"}}
  \cup {Start(l, EnvVars({"PATH", "A"}), "windows", GoodDisk) : l \in EnvLines(3)}
  \cup {Start(l, e, "linux", GoodDisk) : l \in ListenLines, e \in Environments}
  \cup {Start(l, EnvVars({"PATH"}), "linux", DiskOf(p, GoodFile, d)) :
          l \in PipelineLines, p \in PolicyDocs, d \in ProfileDirs}
  \cup {Start(OneLine(<<FV("inventory", "i.yaml")>>), EnvVars({"PATH"}), "linux",
              DiskOf(p, f, Dir({}))) :
          p \in {Policy(<<With(Reads, {"redact"})>>)}, f \in InventoryDocs}

-----------------------------------------------------------------------------
(* Calls *)

MCValidTarget == {"r1", "R1", "r2", "u1"}

MCSplitCommas == [t \in MCValidTarget \cup {"", "show", "reload", "get", "null"} |->
                    IF t = "" THEN <<>> ELSE <<t>>]

ArgChoices ==
  {<<>>} \cup {"host" :> Str(h) : h \in MCValidTarget}
  \cup {("host" :> Str(h)) @@ ("cmd" :> Str(c)) : h \in {"r1", "u1"}, c \in {"show", "reload"}}
  \cup {("host" :> Str("r1")) @@ ("cap" :> Str("get")) @@ a :
          a \in {<<>>, "cmd" :> Str("reload")}}

MCCalls ==
  {[server |-> "", tool |-> t, parse |-> "", args |-> a, readOnlyHint |-> "absent",
    destructiveHint |-> "absent", pendingHolds |-> 0] :
     t \in {<<"run">>, <<"new">>}, a \in ArgChoices}
=============================================================================
