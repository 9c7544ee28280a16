----------------------------- MODULE GateDecide -----------------------------
(***************************************************************************)
(* internal/gate: Gate.Decide runs steps 1 to 6 of ADR 0026 on one call    *)
(* (parse, caps, classify, closed argument list, targets, resolve,         *)
(* evaluate) and turns the decision into forward or not.  It keeps no      *)
(* state: everything here is a function of the call and the configuration. *)
(*                                                                         *)
(* A call is a record                                                      *)
(*   server, tool         the route; tool, a sequence of dot-separated     *)
(*                        parts, is looked up exactly                      *)
(*   parse                "" or the kind of problem parseArguments found   *)
(*   args                 the decoded arguments object (see Classify)      *)
(*   readOnlyHint, destructiveHint   "absent", "true" or "false"           *)
(*   pendingHolds         holds of the session waiting for an approval     *)
(* The device count of the call's counter key and the names it remembers   *)
(* are passed beside it, as the proxy reads them under the key's lock.     *)
(***************************************************************************)
EXTENDS Classify, PolicyEngine, FiniteSetsExt

CONSTANTS
  Profiles,        \* server -> (tool -> ToolSpec); a server may have none
  Inventory,       \* listed device name -> [role, tags]
  ValidTarget,     \* texts validTargetName accepts
  SplitCommas,     \* text -> its comma-separated parts; <<>> for ""
  MaxCommands,     \* maxCommandsPerCall
  MaxTargets       \* maxTargetsPerCall

\* A valid name has at most 253 bytes, so there are finitely many of them.
ASSUME ValidTargetAssumption == IsFiniteSet(ValidTarget)

ASSUME CapsAssumption == MaxCommands \in Nat /\ MaxTargets \in Nat

\* Obligations an allow may carry and still be forwarded in M1.
Forwardable == {"redact", "notify", "require_ticket", "canary_first"}

NoArgs == [name \in {} |-> {}]

HasProfile(in) == in.server \in DOMAIN Profiles

InProfile(in) == HasProfile(in) /\ in.tool \in DOMAIN Profiles[in.server]

SpecOf(in) == Profiles[in.server][in.tool]

-----------------------------------------------------------------------------
(* The per-call caps, counted as sent, repeats included *)

\* An element that is not a string counts one; the closed list refuses it.
CountString(text, commas) ==
  IF commas /\ text # NonString THEN Len(SplitCommas[text]) ELSE 1

\* One entry for every one that is counted.
CountValues(p, v, commas) ==
  UNION {{<<p, i, k>> : k \in 1..CountString(v.items[i], commas)} : i \in DOMAIN v.items}

Counted(params, args, commas) ==
  UNION {CountValues(p, args[p], commas) : p \in params \cap DOMAIN args}

CountParams(params, args, commas) == Cardinality(Counted(params, args, commas))

TooManyCommands(spec, args) == CountParams(spec.commandParams, args, FALSE) > MaxCommands

TooManyTargets(spec, args) ==
  CountParams(spec.targetParams \cup spec.targetsParams \cup spec.groupParams,
              args, TRUE) > MaxTargets

OverCaps(spec, args) == TooManyCommands(spec, args) \/ TooManyTargets(spec, args)

-----------------------------------------------------------------------------
(* Targets, exactly as the upstream receives them *)

\* A string of targets_params is split; a list is taken item by item.
SplitParam(args, p) ==
  IF args[p].kind = "string"
  THEN {SplitCommas[args[p].items[1]][i] : i \in DOMAIN SplitCommas[args[p].items[1]]}
  ELSE Items(args, p)

\* A string of target_params is one name.
SentNames(spec, args) ==
  (UNION {Items(args, p) : p \in spec.targetParams}) \cup
  (UNION {SplitParam(args, p) : p \in spec.targetsParams \cap DOMAIN args})

BadTarget(spec, args) ==
  \/ \E p \in spec.targetParams \cap DOMAIN args :
        args[p].kind \notin {"null", "string"}
  \/ \E p \in spec.targetsParams \cap DOMAIN args : args[p].kind = "other"
  \/ ~(SentNames(spec, args) \subseteq ValidTarget)

SelectsGroup(spec, args) ==
  \E p \in spec.groupParams \cap DOMAIN args :
    CASE args[p].kind = "null"   -> FALSE
      [] args[p].kind = "string" -> SplitCommas[args[p].items[1]] # <<>>
      [] args[p].kind = "list"   -> args[p].items # <<>>
      [] args[p].kind = "other"  -> TRUE

DeclaresTargets(spec) ==
  spec.targetParams \cup spec.targetsParams \cup spec.groupParams # {}

\* The profile's class says what the tool is; a raise does not change that.
Exempt(spec) == spec.class \in {"INVENTORY_READ", "LOCAL_ADMIN"}

\* Mutant: a group selector beside a named device is let through.
NoDeviceNamedNoGroups(spec, args) ==
  ~Exempt(spec) /\ DeclaresTargets(spec) /\ SentNames(spec, args) = {}

\* The call does not say, by name, which devices it is for.
NoDeviceNamed(spec, args) ==
  /\ ~Exempt(spec)
  /\ \/ SelectsGroup(spec, args)
     \/ DeclaresTargets(spec) /\ SentNames(spec, args) = {}

\* Known only when the inventory lists exactly the name sent.
Resolve(name) ==
  IF name \in DOMAIN Inventory
  THEN [name |-> name, role |-> Inventory[name].role,
        tags |-> Inventory[name].tags, known |-> TRUE]
  ELSE [name |-> name, role |-> "", tags |-> {}, known |-> FALSE]

-----------------------------------------------------------------------------
(* The class, with the annotation raise *)

Raises(in) == in.readOnlyHint = "false" \/ in.destructiveHint = "true"

\* Mutant: a meta-tool's listed read is not raised.
ClassificationByToolClass(in, args) ==
  LET res == IF InProfile(in) THEN ClassifyTool(SpecOf(in), args) ELSE Fallback
  IN IF InProfile(in) /\ SpecOf(in).class \in ReadClasses /\ Raises(in)
     THEN Result("EXEC_ARBITRARY", "annotation_raise") ELSE res

Classification(in, args) ==
  LET res  == IF InProfile(in) THEN ClassifyTool(SpecOf(in), args) ELSE Fallback
      base == IF res.source = "capability_table" THEN res.class ELSE SpecOf(in).class
  IN IF /\ InProfile(in)
        /\ base \in ReadClasses
        /\ Raises(in)
        /\ res.class # "EXEC_ARBITRARY"
     THEN Result("EXEC_ARBITRARY", "annotation_raise")
     ELSE res

-----------------------------------------------------------------------------
(* Decide *)

\* Arguments the classifier may look at: they parse, and are within the caps.
Readable(in) ==
  in.parse = "" /\ (InProfile(in) => ~OverCaps(SpecOf(in), in.args))

\* Every default:bad_arguments of decide.
Refused(in) ==
  \/ ~Readable(in)
  \/ HasProfile(in) /\ ~InProfile(in) /\ DOMAIN in.args # {}
  \/ /\ InProfile(in)
     /\ \/ UnnamedArgs(SpecOf(in), in.args) # {}
        \/ MalformedArgs(SpecOf(in), in.args) # {}
        \/ BadTarget(SpecOf(in), in.args)
        \/ NoDeviceNamed(SpecOf(in), in.args)

Names(in) == IF InProfile(in) THEN SentNames(SpecOf(in), in.args) ELSE {}

\* The count without the call's own names that are already in it.
DevicesTouched(count, counted, names) ==
  LET n == count - Cardinality(names \cap counted) IN IF n < 0 THEN 0 ELSE n

Request(in, count, counted) ==
  [server         |-> in.server,
   tool           |-> in.tool,
   class          |-> Classification(in, in.args).class,
   targets        |-> {Resolve(n) : n \in Names(in)},
   devicesTouched |-> DevicesTouched(count, counted, Names(in)),
   pendingHolds   |-> in.pendingHolds]

Verdict(decision, classified, targets) ==
  [forward |-> decision.effect = "allow" /\ decision.obligations \subseteq Forwardable,
   effect  |-> decision.effect,
   rule    |-> decision.rule,
   class   |-> classified.class,
   source  |-> classified.source,
   targets |-> targets]

Decide(policy, in, count, counted) ==
  IF Refused(in)
  THEN Verdict(Denied("default:bad_arguments"),
               Classification(in, IF Readable(in) THEN in.args ELSE NoArgs), {})
  ELSE Verdict(Evaluate(policy, Request(in, count, counted)),
               Classification(in, in.args), Names(in))

\* Mutant: a tool the profile does not list is reported as open.
ArgumentsOpenUnlisted(server, tool) ==
  IF server \notin DOMAIN Profiles \/ tool \notin DOMAIN Profiles[server]
  THEN [closed |-> FALSE, named |-> {}]
  ELSE [closed |-> TRUE, named |-> NamedArgs(Profiles[server][tool])]

\* Gate.Arguments: what the advertised inputSchema is narrowed to.
Arguments(server, tool) ==
  IF server \notin DOMAIN Profiles THEN [closed |-> FALSE, named |-> {}]
  ELSE IF tool \notin DOMAIN Profiles[server] THEN [closed |-> TRUE, named |-> {}]
  ELSE [closed |-> TRUE, named |-> NamedArgs(Profiles[server][tool])]
=============================================================================
