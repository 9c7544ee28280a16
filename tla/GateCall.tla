------------------------------ MODULE GateCall ------------------------------
(***************************************************************************)
(* One call put to the gate, with the policy in force and the counters the *)
(* proxy hands over, and what its verdict promises about it.  The run      *)
(* enumerates the calls a profile's tools can be sent, well formed or not. *)
(***************************************************************************)
EXTENDS GateDecide

CONSTANTS
  Calls,        \* the calls to decide
  Policies,     \* the policies they are decided under
  Counters,     \* records [count, counted] a counter key may be in
  Undecided     \* the verdict of a call before Decide

CallFields == {"server", "tool", "parse", "args", "readOnlyHint", "destructiveHint",
               "pendingHolds"}

\* A decoded value: null has no text, a string has one.
WellFormed(v) ==
  /\ v.kind \in {"null", "string", "list", "other"}
  /\ v.kind = "null" => v.items = <<>>
  /\ v.kind = "string" => v.items = <<v.items[1]>> /\ v.items[1] # NonString

ASSUME CallsAssumption ==
  \A in \in Calls :
    in = [f \in CallFields |-> in[f]] /\ \A a \in DOMAIN in.args : WellFormed(in.args[a])

\* Policies and profiles are loaded: Validate has checked every effect, id and
\* class, and a rule's id does not begin with "default:".
ASSUME PoliciesAssumption ==
  \A p \in Policies :
    /\ p.maxDevices \in Nat
    /\ \A i \in DOMAIN p.rules : /\ i \in Nat /\ p.rules[i].effect \in Effects
                                /\ p.rules[i].id # "default:bad_arguments"

ASSUME ProfilesAssumption ==
  \A s \in DOMAIN Profiles : \A t \in DOMAIN Profiles[s] :
    /\ Profiles[s][t].class \in Classes
    /\ \A c \in DOMAIN Profiles[s][t].capabilities : Profiles[s][t].capabilities[c] \in Classes

ASSUME CountersAssumption ==
  \A c \in Counters : c.count \in Nat /\ IsFiniteSet(c.counted)

\* validTargetName takes no comma and nothing json.loads reads as a non-string.
ASSUME TargetsAssumption ==
  /\ ValidTarget \cap (ParsesAsJSON \cup {NonString}) = {}
  /\ \A t \in ValidTarget : SplitCommas[t] = <<t>>

VARIABLES policy, call, counter, ruling

gateVars == <<policy, call, counter, ruling>>

CallInit ==
  /\ policy \in Policies
  /\ call \in Calls
  /\ counter \in Counters
  /\ ruling = Undecided

DecideCall ==
  /\ ruling = Undecided
  /\ ruling' = Decide(policy, call, counter.count, counter.counted)
  /\ UNCHANGED <<policy, call, counter>>

CallNext == DecideCall

CallSpec == CallInit /\ [][CallNext]_gateVars

Decided == ruling # Undecided

Forwarded == Decided /\ ruling.forward

-----------------------------------------------------------------------------
(* Properties *)

\* Every decided call has a class, an effect and targets of the vocabulary.
CallTypeOK ==
  Decided => /\ ruling.forward \in BOOLEAN
             /\ ruling.effect \in Effects
             /\ ruling.class \in Classes
             /\ ruling.targets \subseteq ValidTarget

\* What the upstream may act on, whatever the gate made of it: a parameter
\* that takes devices is split on commas wherever it stands, and anything
\* fathomgate cannot read (a group, an argument nobody declared, a text the
\* upstream parses as JSON, no device at all) may be every device.
DeviceParams(spec) == spec.targetParams \cup spec.targetsParams \cup spec.groupParams

MayReachAll(spec, args) ==
  \/ DOMAIN args \ NamedArgs(spec) # {}
  \/ SelectsGroup(spec, args)
  \/ \A p \in DeviceParams(spec) : Items(args, p) = {}
  \/ \E p \in DeviceParams(spec) : Items(args, p) \cap (ParsesAsJSON \cup {NonString}) # {}

Reach(spec, args) ==
  UNION {{SplitCommas[t][i] : i \in DOMAIN SplitCommas[t]} :
           t \in UNION {Items(args, p) : p \in DeviceParams(spec)}}

\* A forwarded call of a tool that takes devices (gate.decide steps 1 to 4)
\* reaches exactly the devices the policy decided on and the counters will
\* count, each of them listed unless the policy lets unknown targets through.
ReachIsDecided ==
  (Forwarded /\ InProfile(call) /\ ~Exempt(SpecOf(call)) /\ DeclaresTargets(SpecOf(call)))
    => /\ ~MayReachAll(SpecOf(call), call.args)
       /\ Reach(SpecOf(call), call.args) = ruling.targets
       /\ policy.unknownTarget # "allow" => ruling.targets \subseteq DOMAIN Inventory

\* The upstream's annotations (gate's classify, raises) can only make the
\* class EXEC_ARBITRARY: a hint that says the tool is not read-only makes
\* every read of the profile, a meta-tool's listed read too, EXEC_ARBITRARY,
\* and no other hint changes anything.
NotReadOnly(in) == in.readOnlyHint = "false" \/ in.destructiveHint = "true"

HintsOnlyRaise ==
  Decided =>
    LET plain == Decide(policy, [call EXCEPT !.readOnlyHint = "absent",
                                             !.destructiveHint = "absent"],
                        counter.count, counter.counted)
    IN /\ ruling # plain => NotReadOnly(call) /\ ruling.class = "EXEC_ARBITRARY"
       /\ (NotReadOnly(call) /\ InProfile(call) /\ plain.class \in ReadClasses)
            => \/ ruling.class = "EXEC_ARBITRARY"
               \/ SpecOf(call).class = "EXEC_ARBITRARY" /\ SpecOf(call).capabilityParam = NoParam

\* A device budget is monotone (policy.Evaluate's max_devices check,
\* gate.devicesTouched): what is forwarded now would have been forwarded with
\* fewer devices counted, and a device already counted costs nothing.
BudgetMonotone ==
  Forwarded =>
    /\ counter.count > Cardinality(counter.counted)
         => Decide(policy, call, counter.count - 1, counter.counted).forward
    /\ \A d \in ruling.targets \ counter.counted :
         Decide(policy, call, counter.count + 1, counter.counted \cup {d}).forward

\* The advertised inputSchema (Gate.Arguments, narrowSchema) and the check
\* agree: a closed list refuses every argument it does not advertise, and
\* with no profile nothing but unreadable arguments is a bad argument.
SchemaAgrees ==
  Decided =>
    LET offered == Arguments(call.server, call.tool)
    IN IF offered.closed
       THEN ~(DOMAIN call.args \subseteq offered.named)
              => ruling.rule = "default:bad_arguments" /\ ruling.targets = {}
       ELSE ruling.rule = "default:bad_arguments" => call.parse # ""

\* Nothing an upstream or a counter says loosens a verdict: hints only raise
\* the class, and more devices counted only refuse more (gate.decide).
DecideIsMonotone == CallTypeOK /\ HintsOnlyRaise /\ BudgetMonotone
=============================================================================
