------------------------------ MODULE Classify ------------------------------
(***************************************************************************)
(* internal/classify: what kind of action a tools/call is, from the        *)
(* server profile and the content of the call's arguments.                 *)
(*                                                                         *)
(* An arguments object is a function from the argument names present to    *)
(* values; a value has a kind ("null", "string", "list", "other") and its  *)
(* items: one text for a string, one per element for a list.  Text is      *)
(* opaque; what the code reads in it is given by the constants below.      *)
(* NonString stands for a list element that is not a string.               *)
(*                                                                         *)
(* A ToolSpec is a profile entry; capabilities is the capability table the *)
(* tool names, and capabilityParam is NoParam for a tool that is not a     *)
(* meta-tool; junosLoad marks the one tool of configDialects.  A profile   *)
(* is a function from tool names to ToolSpecs; a server without one has    *)
(* the empty function NoProfile.                                           *)
(***************************************************************************)
EXTENDS Integers, Sequences, FiniteSets

CONSTANTS
  NonString,      \* a list element that is not a string
  NoParam,        \* "this tool has no capability_param"
  ParsesAsJSON,   \* texts an upstream's json.loads may read as a non-string
  ConfigAsJSON,   \* the same for a config payload ('{' is allowed there)
  DataFormats,    \* the config_format texts that load data: [text -> "text" or "xml"]
  CommandClass(_),    \* classifyCommand
  BadConfig(_, _)     \* does a text, loaded in a format, fail checkConfigPayload

ReadClasses == {"READ_OPERATIONAL", "READ_CONFIG", "INVENTORY_READ"}

Items(args, name) ==
  IF name \in DOMAIN args
  THEN {args[name].items[i] : i \in DOMAIN args[name].items} ELSE {}

-----------------------------------------------------------------------------
(* The closed argument list (ADR 0033): CheckArguments *)

PlainParams(spec) ==
  spec.targetParams \cup spec.targetsParams \cup spec.groupParams \cup spec.commandParams

CheckedParams(spec) == PlainParams(spec) \cup spec.configParams

CapabilityParams(spec) ==
  IF spec.capabilityParam = NoParam THEN {} ELSE {spec.capabilityParam}

NamedArgs(spec) == CheckedParams(spec) \cup CapabilityParams(spec) \cup spec.args

StringOrStrings(v) ==
  \/ v.kind \in {"null", "string"}
  \/ v.kind = "list" /\ \A i \in DOMAIN v.items : v.items[i] # NonString

\* '{' opens a config payload, so config_params have a looser test.
MayParse(spec, name, v) ==
  /\ v.kind = "string"
  /\ \/ name \in PlainParams(spec) /\ v.items[1] \in ParsesAsJSON
     \/ name \in spec.configParams /\ v.items[1] \in ConfigAsJSON

UnnamedArgs(spec, args) == DOMAIN args \ NamedArgs(spec)

MalformedArgs(spec, args) ==
  {name \in CheckedParams(spec) \cap DOMAIN args :
     ~StringOrStrings(args[name]) \/ MayParse(spec, name, args[name])}
  \cup
  {name \in CapabilityParams(spec) \cap DOMAIN args :
     /\ args[name].kind # "null"
     /\ args[name].kind # "string" \/ args[name].items[1] \in ParsesAsJSON}

-----------------------------------------------------------------------------
(* The class *)

Result(class, source) == [class |-> class, source |-> source]

\* classifyCommands: no command, or one that fails the read allow-list, is
\* EXEC_ARBITRARY; one that dumps configuration makes the batch READ_CONFIG.
ClassifyCommands(cmds) ==
  LET found == {CommandClass(c) : c \in cmds}
  IN IF cmds = {} \/ "EXEC_ARBITRARY" \in found THEN "EXEC_ARBITRARY"
     ELSE IF "READ_CONFIG" \in found THEN "READ_CONFIG" ELSE "READ_OPERATIONAL"

Commands(spec, args) == UNION {Items(args, p) : p \in spec.commandParams}

ConfigLines(spec, args) == UNION {Items(args, p) : p \in spec.configParams}

\* How a payload is loaded.  Only junos-mcp-server's load_and_commit_config
\* has a format; junosLoadFormat takes anything but "text" and "xml" for "set".
ConfigFormat(spec, args) ==
  IF ~spec.junosLoad THEN "cli"
  ELSE IF /\ "config_format" \in DOMAIN args
          /\ args["config_format"].kind = "string"
          /\ args["config_format"].items[1] \in DOMAIN DataFormats
  THEN DataFormats[args["config_format"].items[1]]
  ELSE "set"

\* The capability id is looked up as sent; absent, not a string and not
\* listed are all EXEC_ARBITRARY.
ClassifyCapability(spec, args) ==
  LET p == spec.capabilityParam
  IN IF /\ p \in DOMAIN args
        /\ args[p].kind = "string"
        /\ args[p].items[1] \in DOMAIN spec.capabilities
     THEN spec.capabilities[args[p].items[1]]
     ELSE "EXEC_ARBITRARY"

ClassifyByCommands(spec, args) ==
  LET found == ClassifyCommands(Commands(spec, args))
  IN CASE spec.class = "EXEC_ARBITRARY" /\ spec.neverDowngrade ->
            Result("EXEC_ARBITRARY", "profile")
       [] spec.class = "EXEC_ARBITRARY" /\ ~spec.neverDowngrade ->
            Result(found, CASE found = "EXEC_ARBITRARY"   -> "profile"
                            [] found = "READ_OPERATIONAL" -> "downgrade"
                            [] found = "READ_CONFIG"      -> "reclassify")
       [] spec.class = "READ_OPERATIONAL" ->
            Result(found, IF found = "READ_OPERATIONAL" THEN "profile" ELSE "reclassify")
       [] OTHER -> Result(spec.class, "profile")

\* Classify for a tool the profile lists.
ClassifyTool(spec, args) ==
  IF spec.capabilityParam # NoParam
  THEN Result(ClassifyCapability(spec, args), "capability_table")
  ELSE IF /\ spec.class # "EXEC_ARBITRARY"
          /\ \E t \in ConfigLines(spec, args) : BadConfig(t, ConfigFormat(spec, args))
       THEN Result("EXEC_ARBITRARY", "reclassify")
  ELSE IF spec.commandParams = {} THEN Result(spec.class, "profile")
  ELSE ClassifyByCommands(spec, args)

Fallback == Result("EXEC_ARBITRARY", "fallback")
=============================================================================
