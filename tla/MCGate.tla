------------------------------- MODULE MCGate -------------------------------
(***************************************************************************)
(* The calls, profiles, inventory and policies GateCall is checked with.   *)
(* Two listed devices, one unlisted, one server with a profile of seven    *)
(* tools (one per way a class is found) and one without a profile.         *)
(***************************************************************************)
EXTENDS GateContent, PolicyTrial, TLC

One(w) == <<w>>

\* Commands: every text of up to two of the words, those of three that a
\* longer check could tell apart, and captures.
Words2 == {"show", "sh", "get", "run", "running-config-x", "ver", "tec", "sys", "ping", "conf",
           "t", "wr", "reload", "monitor", "admin", "save", "-f", "10.0.0.1", "a$", "$x", "|",
           ";", "NL", "BAD", "list", "set", "vlan", "end", "null", "longer-than-twenty-bytes"}

Words3 == {"show", "ver", "sys", "rol", "ha", "int", "NL", "ping", "vlan", ";"}

CommandTexts ==
  {<<>>} \cup [1..1 -> Words2] \cup [1..2 -> Words2] \cup [1..3 -> Words3]
  \cup {<<"monitor", "traffic">> \o s : s \in
          {<<"count">>, <<"count", "5">>, <<"count", "0">>, <<"count", "1000">>,
           <<"count", "1001">>, <<"count", "x">>, <<"count", "5", "count", "1001">>,
           <<"count", "00005">>}}

\* CLI payloads, and Junos ones of up to three lines.
CliWords == {"vlan", "1", "end", "en", "end!", "exit-address-family", "!", "!x", ";", "autoc",
             "'autocommand'", "auto", "NL", "do", "=x", "BAD"}

\* Every abbreviation of every verb, alone and after a ";".
VerbTexts ==
  LET short == UNION {{SubSeq(k, 1, n) : n \in 1..Len(k)} : k \in CliVerbs}
  IN {<<w, "x">> : w \in short} \cup {<<"vlan", "x;clear">>, <<"line", "'autoc'", "x">>}

CliTexts == UNION {[1..n -> CliWords] : n \in 1..3} \cup VerbTexts

JunosLines == {<<>>, <<"#", "x">>, <<"set", "x">>, <<"set", "scripts">>, <<"set", "'scr'">>,
               <<"edit", "system">>, <<"edit", "ev">>, <<"top">>, <<"top", "set", "x">>,
               <<"top", "run", "x">>, <<"up">>, <<"up", "1">>, <<"up", "1", "run">>,
               <<"up", "set", "scripts">>, <<"run", "x">>, <<"BAD">>, <<"<scripts>">>, <<"<!x">>,
               <<"set", "groups", "g", "sys", "\"ext\"">>, <<"edit", "groups", "g">>,
               <<"set", "e">>, <<"scripts-x">>}

JunosTexts ==
  JunosLines
  \cup {a \o <<"NL">> \o b : a, b \in JunosLines}

MCTexts ==
  CommandTexts \cup CliTexts \cup JunosTexts
  \cup {One(w) : w \in {"d1", "d2", " d2", "u1", "-o", "d1,d2", "d1, d2", "d1,", "x", "text",
                         "xml"}}

MCSplitCommas ==
  [t \in MCTexts |-> CASE t = One("d1,d2") -> <<One("d1"), One("d2")>>
                       [] t = One("d1, d2") -> <<One("d1"), One(" d2")>>
                       [] t = One("d1,")   -> <<One("d1"), <<>>>>
                       [] t = <<>>         -> <<>>
                       [] OTHER            -> <<t>>]

MCTrim(t) == IF t = One(" d2") THEN One("d2") ELSE t

MCCommandClass(t) == IF t = NonString THEN "EXEC_ARBITRARY" ELSE ClassifyCommand(t)

MCBadConfig(t, format) == ~CheckConfigText(t, format)

MCDataFormats == One("text") :> "text" @@ One("xml") :> "xml"

MCNull == {One("null")}

MCValidTarget == {One(w) : w \in {"d1", "d2", "u1", "show", "reload", "end", "list", "set", "x"}}

MCInventory ==
  [d \in {One("d1"), One("d2")} |->
     IF d = One("d1") THEN [role |-> "core", tags |-> {"prod"}]
                 ELSE [role |-> "edge", tags |-> {}]]

-----------------------------------------------------------------------------
(* The profile *)

Tool(class) ==
  [class |-> class, neverDowngrade |-> FALSE, targetParams |-> {}, targetsParams |-> {},
   groupParams |-> {}, commandParams |-> {}, configParams |-> {}, args |-> {},
   capabilityParam |-> NoParam, capabilities |-> [c \in {} |-> {}], junosLoad |-> FALSE]

Run == [Tool("EXEC_ARBITRARY") EXCEPT
          !.targetsParams = {"hosts"}, !.groupParams = {"group"},
          !.commandParams = {"cmds"}, !.args = {"opt"}]

MCProfiles ==
  [s \in {"eos"} |->
    (<<"run">>   :> Run
  @@ <<"shell">> :> [Run EXCEPT !.neverDowngrade = TRUE]
  @@ <<"show">>  :> [Tool("READ_OPERATIONAL") EXCEPT
                       !.targetParams = {"host"}, !.commandParams = {"cmds"}]
  @@ <<"conf">>  :> [Tool("WRITE_CONFIG") EXCEPT
                       !.targetParams = {"host"}, !.configParams = {"lines"}]
  @@ <<"list">>  :> [Tool("INVENTORY_READ") EXCEPT !.groupParams = {"group"}]
  @@ <<"api">>   :> [Tool("EXEC_ARBITRARY") EXCEPT
                       !.targetParams = {"host"}, !.capabilityParam = "cap",
                       !.capabilities = One("list") :> "READ_CONFIG"
                                     @@ One("set") :> "WRITE_CONFIG"]
  @@ <<"load">>  :> [Tool("WRITE_CONFIG") EXCEPT
                       !.targetParams = {"host"}, !.configParams = {"lines"},
                       !.args = {"config_format"}, !.junosLoad = TRUE])]

-----------------------------------------------------------------------------
(* The calls: every choice of arguments, each with each of its values *)

Null        == [kind |-> "null", items |-> <<>>]
Other       == [kind |-> "other", items |-> <<NonString>>]
Text(t)     == [kind |-> "string", items |-> <<t>>]
Str(w)      == Text(One(w))
List(items) == [kind |-> "list", items |-> items]

HostsValues == {Str("d1"), Str("d1,d2"), Str("d1, d2"), Str("d1,"), Str("u1"), Text(<<>>),
                Str("null"), Other,
                List(<<One("d1"), One("d2"), One("d1")>>), List(<<One("d2"), One("-o")>>),
                List(<<One("d1"), NonString>>)}

ValuesOf(name) ==
  CASE name = "hosts" -> HostsValues
    [] name = "host"  -> {Null, Str("d1"), Str("u1"), Str("d1,d2"), List(<<One("d1")>>)}
    [] name = "group" -> {Null, Text(<<>>), Str("x")}
    [] name = "cmds"  -> {Text(<<"show", "ver">>), Str("null"), Other, List(<<>>),
                          List(<<<<"show", "ver">>, <<"show", "run">>>>),
                          List(<<<<"show", "ver">>, One("reload")>>)}
    [] name = "lines" -> {Text(<<"vlan", "1">>), List(<<<<"vlan", "1">>, One("end")>>)}
    [] name = "cap"   -> {Null, Str("list"), Str("set"), Str("x"), List(<<One("list")>>)}
    [] name = "opt"   -> {Str("x")}

ArgsOver(names) ==
  UNION {{f \in [S -> UNION {ValuesOf(n) : n \in S}] : \A n \in S : f[n] \in ValuesOf(n)}
         : S \in SUBSET names}

ArgsFor(tool) ==
  CASE tool = <<"run">>   -> ArgsOver({"hosts", "cmds", "group"})
    [] tool = <<"shell">> -> ArgsOver({"hosts", "cmds"})
    [] tool = <<"show">> -> ArgsOver({"host", "cmds", "opt"})
    [] tool = <<"conf">> -> ArgsOver({"host", "lines", "opt"})
    [] tool = <<"list">> -> ArgsOver({"group", "opt"})
    [] tool = <<"api">>  -> ArgsOver({"host", "cap"})
    [] OTHER             -> ArgsOver({"opt"})

CallOf(server, tool, parse, args, readOnly, destructive, holds) ==
  [server |-> server, tool |-> tool, parse |-> parse, args |-> args,
   readOnlyHint |-> readOnly, destructiveHint |-> destructive, pendingHolds |-> holds]

\* No annotation, each that says the tool is not read-only, and both that say
\* it is.
Hints == {<<"absent", "absent">>, <<"false", "absent">>, <<"absent", "true">>,
          <<"true", "false">>}

\* One call for every command and every payload, on one listed device.
ContentCalls ==
  LET plain(tool, args) ==
        CallOf("eos", tool, "", ("host" :> Str("d2")) @@ args, "absent", "absent", 0)
      formats == {<<>>, "config_format" :> Str("set"), "config_format" :> Str("text"),
                  "config_format" :> Str("xml"), "config_format" :> List(<<One("text")>>)}
  IN {plain(<<"show">>, "cmds" :> Text(t)) : t \in CommandTexts}
     \cup {plain(<<"conf">>, "lines" :> Text(t)) : t \in CliTexts}
     \cup {plain(<<"load">>, ("lines" :> Text(t)) @@ f) : t \in JunosTexts, f \in formats}

\* <<"eos", "run">> is an upstream tool that carries its server's prefix: not
\* in the profile, but a policy's "run" pattern matches it.
MCCalls ==
  LET tools == DOMAIN MCProfiles["eos"] \cup {<<"new">>, <<"eos", "run">>}
  IN UNION {{CallOf("eos", t, "", a, h[1], h[2], 0) : a \in ArgsFor(t), h \in Hints} : t \in tools}
     \cup {CallOf("eos", t, "duplicate_key", NoArgs, h[1], h[2], 0) : t \in tools, h \in Hints}
     \cup {CallOf("eos", <<"conf">>, "", a, "absent", "absent", 1) : a \in ArgsFor(<<"conf">>)}
     \cup {CallOf("raw", <<"run">>, p, a, "absent", "absent", 0) :
             p \in {"", "not_object"}, a \in ArgsOver({"opt"})}
     \cup ContentCalls

-----------------------------------------------------------------------------
(* The policies *)

Rule(id, effect, class) ==
  [id |-> id, effect |-> effect, class |-> class, servers |-> {}, tools |-> {},
   deviceRoles |-> {}, deviceTags |-> {}, targetsCount |-> {}, obligations |-> {}]

NilPolicy == [loaded |-> FALSE, unknownTarget |-> "unset", maxDevices |-> 0,
              maxPending |-> 0, rules |-> <<>>]

ReadOnly ==
  [loaded |-> TRUE, unknownTarget |-> "deny", maxDevices |-> 2, maxPending |-> 1,
   rules |-> <<Rule("reads", "allow", {"READ_OPERATIONAL", "READ_CONFIG", "INVENTORY_READ"}),
               [Rule("edge", "allow", {"WRITE_CONFIG"}) EXCEPT !.deviceRoles = {"edge"},
                  !.targetsCount = {[op |-> "lte", at |-> 1]}, !.obligations = {"redact"}],
               Rule("writes", "hold", {"WRITE_CONFIG"})>>]

LabOpen ==
  [loaded |-> TRUE, unknownTarget |-> "allow", maxDevices |-> 3, maxPending |-> 0,
   rules |-> <<[Rule("prod", "deny", {}) EXCEPT !.deviceTags = {"prod"},
                  !.targetsCount = {[op |-> "gt", at |-> 1]}],
               [Rule("rollback", "allow", {"WRITE_CONFIG"}) EXCEPT
                  !.obligations = {"timed_rollback"}],
               [Rule("tools", "allow", {}) EXCEPT !.servers = {{<<"eos">>}},
                  !.tools = {{<<"run">>, <<"shell">>}, {<<"eos", "api">>}}],
               Rule("rest", "allow", Classes \ {"EXEC_ARBITRARY"})>>]

MCPolicies == {NilPolicy, ReadOnly, LabOpen}

\* Nothing counted; one device; one remembered and one counted past the cap.
MCCounters == {[count |-> 0, counted |-> {}], [count |-> 1, counted |-> {One("d1")}],
               [count |-> 2, counted |-> {One("d1")}]}

\* What a text is depends on neither the counters nor the policy: the calls of
\* ContentCalls are decided once, under the policy that forwards both a read and
\* a write to d2.
ContentOnce == call \in ContentCalls => policy = ReadOnly /\ counter.count = 0

MCArgNames == <<"cap", "cmds", "config_format", "group", "host", "hosts", "lines", "opt">>
=============================================================================
