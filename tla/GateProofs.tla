----------------------------- MODULE GateProofs -----------------------------
(***************************************************************************)
(* What the verdict on a call promises (GateCall), what the devices make   *)
(* of the commands and payloads it forwards (GateContent) and what policy  *)
(* test and policy eval say of it (PolicyTrial), for every policy,         *)
(* profile, inventory, counter and call; and what Dispatch promises about  *)
(* the calls around it, for any number of callers, principals and devices: *)
(* the lock is exclusive, no decision is stale, the count errs high,       *)
(* max_devices holds, and Dispatch implements DeviceBudget.                *)
(*                                                                         *)
(* A recursive function is reasoned about by the least index at which a    *)
(* claim fails (NatLeast, Upto), since no induction rule can be used.      *)
(*                                                                         *)
(* The inductive invariant of Dispatch says why: only the caller in the    *)
(* slot of a key is between lock and unlock, so the counters it read are   *)
(* the counters it writes; and the devices a key no longer remembers are   *)
(* no more than the number it counts beside the ones it does.              *)
(***************************************************************************)
EXTENDS GateContent, PolicyTrial, Dispatch, FiniteSetTheorems, SequenceTheorems,
        WellFoundedInduction, TLAPS

\* The verdict is the one Decide gives; nothing else of the call changes.
Given ==
  /\ policy \in Policies /\ call \in Calls /\ counter \in Counters
  /\ Decided => ruling = Decide(policy, call, counter.count, counter.counted)

\* What is decided stays as it was decided.
LEMMA AlwaysGiven == CallSpec => []Given
<1>1. CallInit => Given
  BY DEF CallInit, Given, Decided
<1>2. Given /\ [CallNext]_gateVars => Given'
  BY DEF Given, CallNext, DecideCall, gateVars, Decided
<1> QED BY <1>1, <1>2, PTL DEF CallSpec

-----------------------------------------------------------------------------
(* Names *)

\* What a call that is not refused names, it names validly (targets).
LEMMA NamedValidly ==
  ASSUME NEW in, ~Refused(in)
  PROVE  Names(in) \subseteq ValidTarget /\ IsFiniteSet(Names(in))
<1>1. Names(in) \subseteq ValidTarget
  BY DEF Names, Refused, BadTarget
<1> QED  BY <1>1, ValidTargetAssumption, FS_Subset

-----------------------------------------------------------------------------
(* The class *)

\* A class is one of the seven, whatever the arguments.
LEMMA ClassIsKnown ==
  ASSUME NEW in, NEW args
  PROVE  Classification(in, args).class \in Classes
<1>1. ASSUME InProfile(in) PROVE ClassifyTool(SpecOf(in), args).class \in Classes
  <2> DEFINE spec == SpecOf(in)
  <2>1. spec.class \in Classes /\ \A c \in DOMAIN spec.capabilities : spec.capabilities[c] \in Classes
    BY <1>1, ProfilesAssumption DEF InProfile, HasProfile, SpecOf
  <2> HIDE DEF spec
  <2>2. ClassifyCommands(Commands(spec, args)) \in Classes
    BY DEF ClassifyCommands, Classes
  <2>3. ClassifyByCommands(spec, args).class \in Classes
    BY <2>1, <2>2 DEF ClassifyByCommands, Result, Classes
  <2>4. ClassifyCapability(spec, args) \in Classes
    BY <2>1 DEF ClassifyCapability, Classes
  <2>5. "EXEC_ARBITRARY" \in Classes
    BY DEF Classes
  <2>6. ClassifyTool(spec, args).class \in Classes
    BY <2>1, <2>3, <2>4, <2>5 DEF ClassifyTool, Result
  <2> QED BY <2>6 DEF spec
<1>2. Fallback.class \in Classes /\ Result("EXEC_ARBITRARY", "annotation_raise").class \in Classes
  BY DEF Fallback, Result, Classes
<1> QED BY <1>1, <1>2 DEF Classification

\* A tool that is not a meta-tool is not classified by the capability table.
LEMMA SourceTells ==
  ASSUME NEW spec, NEW args
  PROVE  ClassifyTool(spec, args).source = "capability_table" <=> spec.capabilityParam # NoParam
<1>1. ClassifyByCommands(spec, args).source # "capability_table"
  BY DEF ClassifyByCommands, ClassifyCommands, Result
<1> QED BY <1>1 DEF ClassifyTool, Result

\* A read found with neither the capability table nor commands of an
\* EXEC_ARBITRARY tool is a read of the profile.
LEMMA ReadIsOfProfile ==
  ASSUME NEW spec, NEW args, spec.capabilityParam = NoParam, spec.class # "EXEC_ARBITRARY",
         ClassifyTool(spec, args).class \in ReadClasses
  PROVE  spec.class \in ReadClasses
BY DEF ClassifyTool, ClassifyByCommands, Result, ReadClasses

-----------------------------------------------------------------------------
(* The policy *)

\* A set of naturals that is not empty has a least member.
LEMMA NatLeast ==
  ASSUME NEW T, T \subseteq Nat, T # {}
  PROVE  \E x \in T : \A y \in T : ~(y < x)
<1> DEFINE R == {ss \in Nat \X Nat : ss[1] < ss[2]}
<1>1. IsWellFoundedOn(R, Nat)
  BY NatLessThanWellFounded DEF OpToRel
<1> HIDE DEF R
<1>2. \E x \in T : \A y \in T : ~ (<<y, x>> \in R)
  BY <1>1, WFMin
<1> QED BY <1>2 DEF R

\* First picks it.
LEMMA FirstIsMember ==
  ASSUME NEW T, T \subseteq Nat, T # {}
  PROVE  First(T) \in T
<1>1. PICK x \in T : \A y \in T : ~(y < x)
  BY NatLeast
<1>2. \E z \in T : \A y \in T : z <= y
  BY <1>1
<1> QED BY <1>2 DEF First

\* Evaluate says one of the three effects and never the rule of a refusal.
LEMMA EvaluateIs ==
  ASSUME NEW p \in Policies, NEW r
  PROVE  /\ Evaluate(p, r).effect \in Effects
         /\ Evaluate(p, r).rule # "default:bad_arguments"
<1>1. ASSUME Matching(p, r) # {} PROVE First(Matching(p, r)) \in DOMAIN p.rules
  BY <1>1, PoliciesAssumption, FirstIsMember DEF Matching
<1>2. ASSUME NEW rule, rule.effect \in Effects, rule.id # "default:bad_arguments"
      PROVE  /\ RuleDecision(p, rule, r).effect \in Effects
             /\ RuleDecision(p, rule, r).rule # "default:bad_arguments"
  BY <1>2 DEF RuleDecision, Decision, Effects
<1>3. \A rule : /\ Denied(rule).effect \in Effects /\ Denied(rule).rule = rule
  BY DEF Denied, Decision, Effects
<1> QED BY <1>1, <1>2, <1>3, PoliciesAssumption DEF Evaluate

\* Two requests that differ in their device count alone match the same rules
\* and, both within the cap, get the same decision.
LEMMA CountAlone ==
  ASSUME NEW p, NEW r, NEW s,
         r.server = s.server, r.tool = s.tool, r.class = s.class, r.targets = s.targets,
         r.pendingHolds = s.pendingHolds,
         ~OverDeviceCap(p, r), ~OverDeviceCap(p, s)
  PROVE  Evaluate(p, r) = Evaluate(p, s)
<1>1. \A rule : Matches(rule, r) <=> Matches(rule, s)
  BY DEF Matches, BareTool
<1>2. Matching(p, r) = Matching(p, s)
  BY <1>1 DEF Matching
<1>3. \A rule : RuleDecision(p, rule, r) = RuleDecision(p, rule, s)
  BY DEF RuleDecision
<1>4. UnknownTargets(r) = UnknownTargets(s)
  BY DEF UnknownTargets
<1> QED BY <1>2, <1>3, <1>4 DEF Evaluate

-----------------------------------------------------------------------------
(* The closed list *)

\* The advertised inputSchema and the check agree, for every profile and
\* call (Gate.Arguments, narrowSchema, CheckArguments).
THEOREM SchemaAlwaysAgrees == CallSpec => []SchemaAgrees
<1>1. Given => SchemaAgrees
  <2> SUFFICES ASSUME Given, Decided PROVE SchemaAgrees
    BY DEF SchemaAgrees
  <2> DEFINE offered == Arguments(call.server, call.tool)
  <2>1. ASSUME offered.closed, ~(DOMAIN call.args \subseteq offered.named)
        PROVE  ruling.rule = "default:bad_arguments" /\ ruling.targets = {}
    <3>1. HasProfile(call)
      BY <2>1 DEF Arguments, HasProfile
    <3>2. CASE ~InProfile(call)
      <4>1. DOMAIN call.args # {}
        BY <2>1
      <4>2. Refused(call)
        BY <3>1, <3>2, <4>1 DEF Refused
      <4> QED BY <4>2 DEF Given, Decide, Verdict, Denied, Decision
    <3>3. CASE InProfile(call)
      <4>1. offered.named = NamedArgs(SpecOf(call))
        BY <3>1, <3>3 DEF Arguments, HasProfile, InProfile, SpecOf
      <4>2. Refused(call)
        BY <2>1, <3>3, <4>1 DEF Refused, UnnamedArgs
      <4> QED BY <4>2 DEF Given, Decide, Verdict, Denied, Decision
    <3> QED BY <3>2, <3>3
  <2>2. ASSUME ~offered.closed, ruling.rule = "default:bad_arguments"
        PROVE  call.parse # ""
    <3>1. ~HasProfile(call) /\ ~InProfile(call)
      BY <2>2 DEF Arguments, HasProfile, InProfile
    <3>2. Refused(call)
      BY <2>2, EvaluateIs DEF Given, Decide, Verdict
    <3> QED BY <3>1, <3>2 DEF Refused, Readable
  <2> QED BY <2>1, <2>2 DEF SchemaAgrees
<1> QED BY AlwaysGiven, <1>1, PTL

-----------------------------------------------------------------------------
(* Monotonicity *)

\* The verdict is typed.
LEMMA VerdictTyped == Given => CallTypeOK
<1> SUFFICES ASSUME Given, Decided
             PROVE  /\ ruling.forward \in BOOLEAN /\ ruling.effect \in Effects
                    /\ ruling.class \in Classes /\ ruling.targets \subseteq ValidTarget
  BY DEF CallTypeOK
<1>1. CASE Refused(call)
  <2>1. ruling = Verdict(Denied("default:bad_arguments"),
               Classification(call, IF Readable(call) THEN call.args ELSE NoArgs), {})
    BY <1>1 DEF Given, Decide
  <2> QED BY <2>1, ClassIsKnown DEF Verdict, Denied, Decision, Effects
<1>2. CASE ~Refused(call)
  <2>1. ruling = Verdict(Evaluate(policy, Request(call, counter.count, counter.counted)),
               Classification(call, call.args), Names(call))
    BY <1>2 DEF Given, Decide
  <2> QED BY <1>2, <2>1, ClassIsKnown, EvaluateIs, NamedValidly DEF Verdict, Given
<1> QED BY <1>1, <1>2

\* The annotations alone change no more than the class, and that only to
\* EXEC_ARBITRARY.
LEMMA HintsRaise == Given => HintsOnlyRaise
<1> SUFFICES ASSUME Given, Decided PROVE HintsOnlyRaise
  BY DEF HintsOnlyRaise
<1> DEFINE bare  == [call EXCEPT !.readOnlyHint = "absent", !.destructiveHint = "absent"]
           plain == Decide(policy, bare, counter.count, counter.counted)
<1>1. /\ bare.server = call.server /\ bare.tool = call.tool /\ bare.parse = call.parse
      /\ bare.args = call.args /\ bare.pendingHolds = call.pendingHolds
      /\ bare.readOnlyHint = "absent" /\ bare.destructiveHint = "absent"
  BY CallsAssumption DEF Given, CallFields
<1> HIDE DEF bare
<1>2. /\ HasProfile(bare) = HasProfile(call) /\ InProfile(bare) = InProfile(call)
      /\ SpecOf(bare) = SpecOf(call)
  BY <1>1 DEF HasProfile, InProfile, SpecOf
<1>3. Readable(bare) = Readable(call)
  BY <1>1, <1>2 DEF Readable
<1>4. Refused(bare) = Refused(call) /\ Names(bare) = Names(call)
  BY <1>1, <1>2, <1>3 DEF Refused, Names
<1>5. ~Raises(bare)
  BY <1>1 DEF Raises
<1> DEFINE args == IF Readable(call) THEN call.args ELSE NoArgs
           res  == IF InProfile(call) THEN ClassifyTool(SpecOf(call), args) ELSE Fallback
<1>6. ruling = Decide(policy, call, counter.count, counter.counted)
  BY DEF Given
<1>7. ruling.class = Classification(call, args).class /\ plain.class = Classification(bare, args).class
  <2>1. ~Refused(call) => args = call.args
    BY DEF Refused
  <2>2. CASE Refused(call)
    BY <1>1, <1>3, <1>4, <1>6, <2>2 DEF Decide, Verdict
  <2>3. CASE ~Refused(call)
    BY <1>1, <1>4, <1>6, <2>1, <2>3 DEF Decide, Verdict
  <2> QED BY <2>2, <2>3
<1>8. Classification(bare, args) = res
  BY <1>2, <1>5 DEF Classification
<1>9. ASSUME Classification(call, args) # res
      PROVE  Raises(call) /\ Classification(call, args).class = "EXEC_ARBITRARY"
  BY <1>9 DEF Classification, Result
<1>10. ASSUME ruling # plain PROVE Classification(call, args) # res
  <2> SUFFICES ASSUME Classification(call, args) = res PROVE ruling = plain
    BY <1>10
  <2>1. CASE Refused(call)
    BY <1>1, <1>3, <1>4, <1>6, <1>8, <2>1 DEF Decide
  <2>2. CASE ~Refused(call)
    <3>1. args = call.args
      BY <2>2 DEF Refused
    <3>2. Request(bare, counter.count, counter.counted) = Request(call, counter.count, counter.counted)
      BY <1>1, <1>4, <1>8, <3>1 DEF Request
    <3> QED BY <1>1, <1>4, <1>6, <1>8, <2>2, <3>1, <3>2 DEF Decide
  <2> QED BY <2>1, <2>2
<1>11. ASSUME NotReadOnly(call), InProfile(call), plain.class \in ReadClasses
       PROVE  \/ ruling.class = "EXEC_ARBITRARY"
              \/ SpecOf(call).class = "EXEC_ARBITRARY" /\ SpecOf(call).capabilityParam = NoParam
  <2> DEFINE base == IF res.source = "capability_table" THEN res.class ELSE SpecOf(call).class
  <2>1. res = ClassifyTool(SpecOf(call), args) /\ res.class \in ReadClasses /\ Raises(call)
    BY <1>7, <1>8, <1>11 DEF NotReadOnly, Raises
  <2>2. \/ base \in ReadClasses
        \/ SpecOf(call).class = "EXEC_ARBITRARY" /\ SpecOf(call).capabilityParam = NoParam
    BY <2>1, SourceTells, ReadIsOfProfile
  <2>3. ASSUME base \in ReadClasses PROVE Classification(call, args).class = "EXEC_ARBITRARY"
    BY <1>11, <2>1, <2>3 DEF Classification, Result
  <2> QED BY <1>7, <2>2, <2>3
<1>12. /\ ruling # plain => NotReadOnly(call) /\ ruling.class = "EXEC_ARBITRARY"
       /\ NotReadOnly(call) /\ InProfile(call) /\ plain.class \in ReadClasses
            => \/ ruling.class = "EXEC_ARBITRARY"
               \/ SpecOf(call).class = "EXEC_ARBITRARY" /\ SpecOf(call).capabilityParam = NoParam
  BY <1>7, <1>9, <1>10, <1>11 DEF NotReadOnly, Raises
<1> HIDE DEF plain
<1> QED BY <1>12 DEF HintsOnlyRaise, plain, bare

\* Fewer devices counted, or one of the call's own counted before, and the
\* call is still forwarded.
LEMMA BudgetIsMonotone == Given => BudgetMonotone
<1> SUFFICES ASSUME Given, Forwarded PROVE BudgetMonotone
  BY DEF BudgetMonotone
<1> DEFINE n == counter.count
           S == counter.counted
           N == Names(call)
           r == Request(call, n, S)
<1>1. ruling = Decide(policy, call, n, S) /\ ruling.forward
  BY DEF Given, Forwarded
<1>2. n \in Nat /\ IsFiniteSet(S) /\ policy.maxDevices \in Nat
  BY CountersAssumption, PoliciesAssumption DEF Given
<1>3. ~Refused(call)
  BY <1>1 DEF Decide, Verdict, Denied, Decision
<1>4. /\ Evaluate(policy, r).effect = "allow" /\ Evaluate(policy, r).obligations \subseteq Forwardable
      /\ ruling.targets = N
  BY <1>1, <1>3 DEF Decide, Verdict
<1>5. ~OverDeviceCap(policy, r)
  BY <1>4 DEF Evaluate, Denied, Decision
<1>6. IsFiniteSet(N)
  BY <1>3, NamedValidly
<1>7. IsFiniteSet(r.targets) /\ Cardinality(r.targets) \in Nat
  <2>1. r.targets = {Resolve(x) : x \in N}
    BY DEF Request
  <2>2. IsFiniteSet({Resolve(x) : x \in N})
    <3> DEFINE f == [x \in N |-> Resolve(x)]
    <3>1. f \in Surjection(N, {Resolve(x) : x \in N})
      BY DEF Surjection
    <3> QED BY <1>6, <3>1, FS_Surjection
  <2> QED BY <2>1, <2>2, FS_CardinalityType
<1>8. ASSUME NEW m \in Nat, NEW T, DevicesTouched(m, T, N) <= DevicesTouched(n, S, N),
             DevicesTouched(m, T, N) \in Nat, DevicesTouched(n, S, N) \in Nat
      PROVE  Decide(policy, call, m, T).forward
  <2> DEFINE s == Request(call, m, T)
  <2>1. /\ r.server = s.server /\ r.tool = s.tool /\ r.class = s.class /\ r.targets = s.targets
        /\ r.pendingHolds = s.pendingHolds /\ r.devicesTouched = DevicesTouched(n, S, N)
        /\ s.devicesTouched = DevicesTouched(m, T, N)
    BY DEF Request
  <2> HIDE DEF r, s
  <2>2. ~OverDeviceCap(policy, s)
    BY <1>2, <1>5, <1>7, <1>8, <2>1 DEF OverDeviceCap, DeviceTotal
  <2>3. Evaluate(policy, s) = Evaluate(policy, r)
    BY <1>5, <2>1, <2>2, CountAlone
  <2> QED BY <1>3, <1>4, <2>3 DEF Decide, Verdict, s
<1>9. Cardinality(N \cap S) \in Nat
  BY <1>2, <1>6, FS_Intersection, FS_CardinalityType
<1>10. DevicesTouched(n, S, N) \in Nat
  BY <1>2, <1>9 DEF DevicesTouched
<1>11. ASSUME n > Cardinality(S) PROVE Decide(policy, call, n - 1, S).forward
  <2>1. n - 1 \in Nat
    BY <1>2, <1>11, FS_CardinalityType
  <2>2. DevicesTouched(n - 1, S, N) <= DevicesTouched(n, S, N) /\ DevicesTouched(n - 1, S, N) \in Nat
    BY <1>2, <1>9, <2>1 DEF DevicesTouched
  <2> QED BY <1>8, <1>10, <2>1, <2>2
<1>12. ASSUME NEW d \in N \ S PROVE Decide(policy, call, n + 1, S \cup {d}).forward
  <2>1. N \cap (S \cup {d}) = (N \cap S) \cup {d} /\ d \notin N \cap S
    BY <1>12
  <2>2. IsFiniteSet(N \cap S)
    BY <1>6, FS_Intersection
  <2>3. Cardinality(N \cap (S \cup {d})) = Cardinality(N \cap S) + 1
    BY <2>1, <2>2, FS_AddElement
  <2>4. DevicesTouched(n + 1, S \cup {d}, N) = DevicesTouched(n, S, N)
    BY <1>2, <1>9, <2>3 DEF DevicesTouched
  <2> QED BY <1>2, <1>8, <1>10, <2>4
<1> QED BY <1>4, <1>11, <1>12 DEF BudgetMonotone

\* Nothing an upstream or a counter says loosens a verdict (gate.decide,
\* classify, devicesTouched), for every policy, profile, counter and call.
THEOREM DecideAlwaysMonotone == CallSpec => []DecideIsMonotone
BY AlwaysGiven, VerdictTyped, HintsRaise, BudgetIsMonotone, PTL DEF DecideIsMonotone

-----------------------------------------------------------------------------
(* Reach *)

\* What the upstream may make of one device parameter.
Pieces(args, p) ==
  UNION {{SplitCommas[t][i] : i \in DOMAIN SplitCommas[t]} : t \in Items(args, p)}

\* A name is sent in a parameter of target_params or of targets_params.
LEMMA SentIs ==
  ASSUME NEW spec, NEW args, NEW x
  PROVE  x \in SentNames(spec, args) <=>
           \/ \E p \in spec.targetParams : x \in Items(args, p)
           \/ \E p \in spec.targetsParams \cap DOMAIN args : x \in SplitParam(args, p)
BY DEF SentNames

\* A parameter of a call that is not refused is null, a string that does not
\* parse, or a list of texts.
LEMMA ParamIs ==
  ASSUME NEW in \in Calls, InProfile(in), ~Refused(in),
         NEW p \in DeviceParams(SpecOf(in)), p \in DOMAIN in.args
  PROVE  \/ in.args[p].kind = "null" /\ Items(in.args, p) = {}
         \/ /\ in.args[p].kind = "string"
            /\ Items(in.args, p) = {in.args[p].items[1]}
            /\ in.args[p].items[1] \notin ParsesAsJSON \cup {NonString}
         \/ in.args[p].kind = "list" /\ NonString \notin Items(in.args, p)
<1> DEFINE v == in.args[p]
<1>1. WellFormed(v)
  BY CallsAssumption
<1>2. p \in PlainParams(SpecOf(in)) /\ p \in CheckedParams(SpecOf(in))
  BY DEF DeviceParams, PlainParams, CheckedParams
<1>3. StringOrStrings(v) /\ ~MayParse(SpecOf(in), p, v)
  BY <1>2 DEF Refused, MalformedArgs
<1>4. Items(in.args, p) = {v.items[i] : i \in DOMAIN v.items}
  BY DEF Items
<1>5. CASE v.kind = "null"
  BY <1>1, <1>4, <1>5 DEF WellFormed
<1>6. CASE v.kind = "string"
  <2>1. v.items = <<v.items[1]>> /\ v.items[1] # NonString
    BY <1>1, <1>6 DEF WellFormed
  <2>2. DOMAIN v.items = {1}
    BY <2>1
  <2>3. Items(in.args, p) = {v.items[1]}
    BY <1>4, <2>2
  <2>4. v.items[1] \notin ParsesAsJSON
    BY <1>2, <1>3, <1>6 DEF MayParse
  <2> QED BY <1>6, <2>1, <2>3, <2>4
<1>7. CASE v.kind = "list"
  <2>1. \A i \in DOMAIN v.items : v.items[i] # NonString
    BY <1>3, <1>7 DEF StringOrStrings
  <2> QED BY <1>4, <1>7, <2>1
<1> QED BY <1>3, <1>5, <1>6, <1>7 DEF StringOrStrings

\* A valid text is one piece.
LEMMA PieceOf ==
  ASSUME NEW args, NEW p, Items(args, p) \subseteq ValidTarget
  PROVE  Pieces(args, p) = Items(args, p)
<1>1. ASSUME NEW t \in ValidTarget
      PROVE  {SplitCommas[t][i] : i \in DOMAIN SplitCommas[t]} = {t}
  <2>1. SplitCommas[t] = <<t>>
    BY TargetsAssumption
  <2> QED BY <2>1
<1>2. ASSUME NEW x \in Pieces(args, p) PROVE x \in Items(args, p)
  BY <1>1, <1>2 DEF Pieces
<1>3. ASSUME NEW x \in Items(args, p) PROVE x \in Pieces(args, p)
  <2>1. x \in {SplitCommas[x][i] : i \in DOMAIN SplitCommas[x]}
    BY <1>1, <1>3
  <2> QED BY <1>3, <2>1 DEF Pieces
<1> QED BY <1>2, <1>3

\* What each device parameter adds to the names sent is all the upstream can
\* make of it.
LEMMA PiecesAreSent ==
  ASSUME NEW in \in Calls, InProfile(in), ~Refused(in), ~Exempt(SpecOf(in)),
         NEW p \in DeviceParams(SpecOf(in))
  PROVE  /\ Pieces(in.args, p) \subseteq SentNames(SpecOf(in), in.args)
         /\ p \in SpecOf(in).targetParams => Pieces(in.args, p) = Items(in.args, p)
         /\ p \in SpecOf(in).targetsParams /\ p \in DOMAIN in.args =>
              Pieces(in.args, p) = SplitParam(in.args, p)
         /\ Items(in.args, p) \cap (ParsesAsJSON \cup {NonString}) = {}
<1> DEFINE spec == SpecOf(in)
           sent == SentNames(spec, in.args)
           split(t) == {SplitCommas[t][i] : i \in DOMAIN SplitCommas[t]}
<1>1. sent \subseteq ValidTarget
  BY DEF Refused, BadTarget
<1>2. CASE p \notin DOMAIN in.args
  <2>1. Items(in.args, p) = {} /\ Pieces(in.args, p) = {}
    BY <1>2 DEF Items, Pieces
  <2> QED BY <1>2, <2>1
<1>3. CASE p \in DOMAIN in.args /\ in.args[p].kind = "null"
  <2>1. Items(in.args, p) = {}
    BY <1>3, ParamIs
  <2>2. Pieces(in.args, p) = {}
    BY <2>1 DEF Pieces
  <2> QED BY <1>3, <2>1, <2>2 DEF SplitParam
<1>4. CASE p \in DOMAIN in.args /\ in.args[p].kind = "string"
  <2> DEFINE t == in.args[p].items[1]
  <2>1. Items(in.args, p) = {t} /\ t \notin ParsesAsJSON \cup {NonString}
    BY <1>4, ParamIs
  <2>2. Pieces(in.args, p) = split(t)
    BY <2>1 DEF Pieces
  <2>3. ASSUME p \in spec.targetParams PROVE Items(in.args, p) \subseteq sent
    BY <2>3, SentIs
  <2>4. ASSUME p \in spec.targetParams PROVE Pieces(in.args, p) = Items(in.args, p)
    BY <1>1, <2>3, <2>4, PieceOf
  <2>5. ASSUME p \in spec.targetsParams PROVE split(t) \subseteq sent
    BY <1>4, <2>5, SentIs DEF SplitParam
  <2>6. ASSUME p \in spec.groupParams PROVE split(t) = {}
    <3>1. ~SelectsGroup(spec, in.args)
      BY DEF Refused, NoDeviceNamed
    <3>2. SplitCommas[t] = <<>>
      BY <1>4, <2>6, <3>1 DEF SelectsGroup
    <3> QED BY <3>2
  <2>7. Pieces(in.args, p) \subseteq sent
    BY <2>2, <2>3, <2>4, <2>5, <2>6 DEF DeviceParams
  <2> QED BY <1>4, <2>1, <2>2, <2>4, <2>7 DEF SplitParam
<1>5. CASE p \in DOMAIN in.args /\ in.args[p].kind = "list"
  <2>1. NonString \notin Items(in.args, p)
    BY <1>5, ParamIs
  <2>2. p \notin spec.targetParams
    BY <1>5 DEF Refused, BadTarget
  <2>3. ASSUME p \in spec.targetsParams PROVE Items(in.args, p) \subseteq sent
    BY <1>5, <2>3, SentIs DEF SplitParam
  <2>4. ASSUME p \in spec.groupParams PROVE Items(in.args, p) = {}
    <3>1. ~SelectsGroup(spec, in.args)
      BY DEF Refused, NoDeviceNamed
    <3>2. in.args[p].items = <<>>
      BY <1>5, <2>4, <3>1 DEF SelectsGroup
    <3> QED BY <3>2 DEF Items
  <2>5. Items(in.args, p) \subseteq sent
    BY <2>2, <2>3, <2>4 DEF DeviceParams
  <2>6. Pieces(in.args, p) = Items(in.args, p)
    BY <1>1, <2>5, PieceOf
  <2>7. Items(in.args, p) \cap ParsesAsJSON = {}
    BY <1>1, <2>5, TargetsAssumption
  <2> QED BY <1>5, <2>1, <2>2, <2>5, <2>6, <2>7 DEF SplitParam
<1> QED BY <1>2, <1>3, <1>4, <1>5, ParamIs

\* A forwarded call reaches exactly the devices the policy decided on, each
\* listed unless the policy lets unknown targets through (gate.decide, targets,
\* selectsGroup, resolve), for every profile, inventory and call.
THEOREM ReachAlwaysDecided == CallSpec => []ReachIsDecided
<1>1. Given => ReachIsDecided
  <2> DEFINE spec == SpecOf(call)
             sent == SentNames(spec, call.args)
  <2> SUFFICES ASSUME Given, Forwarded, InProfile(call), ~Exempt(spec), DeclaresTargets(spec)
               PROVE  /\ ~MayReachAll(spec, call.args)
                      /\ Reach(spec, call.args) = ruling.targets
                      /\ policy.unknownTarget # "allow" => ruling.targets \subseteq DOMAIN Inventory
    BY DEF ReachIsDecided
  <2>1. ruling = Decide(policy, call, counter.count, counter.counted) /\ ruling.forward
    BY DEF Given, Forwarded
  <2>2. ~Refused(call)
    BY <2>1 DEF Decide, Verdict, Denied, Decision
  <2>3. ruling.targets = sent
    BY <2>1, <2>2 DEF Decide, Verdict, Names
  <2>4. Evaluate(policy, Request(call, counter.count, counter.counted)).effect = "allow"
    BY <2>1, <2>2 DEF Decide, Verdict
  <2>5. Reach(spec, call.args) = UNION {Pieces(call.args, p) : p \in DeviceParams(spec)}
    BY DEF Reach, Pieces
  <2>6. \A p \in DeviceParams(spec) : Pieces(call.args, p) \subseteq sent
    BY <2>2, PiecesAreSent DEF Given
  <2>7. ASSUME NEW x \in sent
        PROVE  \E p \in DeviceParams(spec) : x \in Pieces(call.args, p)
    <3>1. CASE \E p \in spec.targetParams : x \in Items(call.args, p)
      BY <2>2, <3>1, PiecesAreSent DEF Given, DeviceParams
    <3>2. CASE \E p \in spec.targetsParams \cap DOMAIN call.args :
                 x \in SplitParam(call.args, p)
      BY <2>2, <3>2, PiecesAreSent DEF Given, DeviceParams
    <3> QED BY <2>7, <3>1, <3>2, SentIs
  <2>8. Reach(spec, call.args) = sent
    BY <2>5, <2>6, <2>7
  <2>9. ~MayReachAll(spec, call.args)
    <3>1. DOMAIN call.args \ NamedArgs(spec) = {}
      BY <2>2 DEF Refused, UnnamedArgs
    <3>2. ~SelectsGroup(spec, call.args) /\ sent # {}
      BY <2>2 DEF Refused, NoDeviceNamed
    <3>3. \E p \in DeviceParams(spec) : Items(call.args, p) # {}
      BY <2>7, <3>2 DEF Pieces
    <3>4. \A p \in DeviceParams(spec) : Items(call.args, p) \cap (ParsesAsJSON \cup {NonString}) = {}
      BY <2>2, PiecesAreSent DEF Given
    <3> QED BY <3>1, <3>2, <3>3, <3>4 DEF MayReachAll
  <2>10. ASSUME policy.unknownTarget # "allow" PROVE sent \subseteq DOMAIN Inventory
    <3> DEFINE r == Request(call, counter.count, counter.counted)
    <3>1. UnknownTargets(r) = {}
      BY <2>4, <2>10 DEF Evaluate, Denied, Decision
    <3>2. r.targets = {Resolve(n) : n \in sent}
      BY DEF Request, Names
    <3>3. \A n \in sent : Resolve(n).known
      BY <3>1, <3>2 DEF UnknownTargets
    <3> QED BY <3>3 DEF Resolve
  <2> QED BY <2>3, <2>8, <2>9, <2>10
<1> QED BY AlwaysGiven, <1>1, PTL

-----------------------------------------------------------------------------
(* Loops *)

\* Induction up to n, stated for a set: what a loop over n items computes is
\* proved with it.
LEMMA Upto ==
  ASSUME NEW n \in Nat, NEW S, 0 \in S, \A i \in 1..n : i - 1 \in S => i \in S
  PROVE  0..n \subseteq S
<1>1. SUFFICES ASSUME (0..n) \ S # {} PROVE FALSE
  OBVIOUS
<1>2. PICK x \in (0..n) \ S : \A y \in (0..n) \ S : ~(y < x)
  <2>1. (0..n) \ S \subseteq Nat
    OBVIOUS
  <2> QED BY <1>1, <2>1, NatLeast
<1>3. x \in 1..n /\ x - 1 \in 0..n
  BY <1>2
<1>4. x - 1 \in S
  BY <1>2, <1>3
<1> QED BY <1>4, <1>3, <1>2

\* f is what a loop over n items computes: f[i] is G of i and f[i - 1].
IsLoop(f, n, T, t0, G) ==
  f \in [0..n -> T] /\ f[0] = t0 /\ \A i \in 1..n : f[i] = G[<<i, f[i - 1]>>]

\* A loop over n items whose states are in T computes something.
LEMMA LoopExists ==
  ASSUME NEW T, NEW n \in Nat, NEW t0 \in T, NEW G \in [(1..n) \X T -> T]
  PROVE  \E f : IsLoop(f, n, T, t0, G)
<1> DEFINE S == {m \in 0..n : \E f : IsLoop(f, m, T, t0, G)}
<1>1. 0 \in S
  <2>1. IsLoop([i \in 0..0 |-> t0], 0, T, t0, G)
    BY DEF IsLoop
  <2> QED BY <2>1
<1>2. ASSUME NEW k \in 1..n, k - 1 \in S PROVE k \in S
  <2>1. PICK f : IsLoop(f, k - 1, T, t0, G)
    BY <1>2
  <2> DEFINE g == [i \in 0..k |-> IF i = k THEN G[<<k, f[k - 1]>>] ELSE f[i]]
  <2>2. <<k, f[k - 1]>> \in (1..n) \X T
    BY <2>1 DEF IsLoop
  <2>3. g \in [0..k -> T]
    BY <2>1, <2>2 DEF IsLoop
  <2>4. ASSUME NEW i \in 1..k PROVE g[i] = G[<<i, g[i - 1]>>]
    <3>1. CASE i = k
      <4>1. g[i - 1] = f[k - 1] /\ g[k] = G[<<k, f[k - 1]>>]
        BY <3>1
      <4> QED BY <3>1, <4>1
    <3>2. CASE i # k
      BY <3>2, <2>1 DEF IsLoop
    <3> QED BY <3>1, <3>2
  <2>5. g[0] = t0
    BY <2>1 DEF IsLoop
  <2>6. IsLoop(g, k, T, t0, G)
    BY <2>3, <2>4, <2>5 DEF IsLoop
  <2> QED BY <2>6
<1> HIDE DEF S
<1>3. n \in S
  BY <1>1, <1>2, Upto
<1> QED BY <1>3 DEF S

-----------------------------------------------------------------------------
(* Lines *)

\* A word that does not separate ends the last line.
LEMMA PlaceWord ==
  ASSUME NEW W, NEW ls \in Seq(Seq(W)), Len(ls) >= 1, NEW w \in W, NEW at, w \notin at
  PROVE  /\ Place(ls, w, at) \in Seq(Seq(W))
         /\ Len(Place(ls, w, at)) = Len(ls)
         /\ Place(ls, w, at)[Len(ls)] = Append(ls[Len(ls)], w)
         /\ \A k \in 1..Len(ls) - 1 : Place(ls, w, at)[k] = ls[k]
<1> DEFINE n == Len(ls)
           last == Append(ls[n], w)
           new == [ls EXCEPT ![n] = last]
           L == Seq(W)
<1>1. n \in Nat /\ n >= 1 /\ DOMAIN ls = 1..n /\ ls[n] \in Seq(W) /\ n \in 1..n
  OBVIOUS
<1>2. last \in Seq(W)
  BY <1>1, AppendProperties
<1>3. Place(ls, w, at) = new
  BY DEF Place
<1> HIDE DEF last
<1>4. ls \in Seq(L) /\ last \in L /\ n \in 1..Len(ls)
  BY <1>1, <1>2
<1> HIDE DEF L
<1>5. new \in Seq(L) /\ Len(new) = n /\ \A k \in 1..n : new[k] = IF k = n THEN last ELSE ls[k]
  BY <1>4, ExceptSeq
<1> HIDE DEF new, n
<1>6. new \in Seq(Seq(W)) /\ Len(new) = n
  BY <1>5 DEF L
<1>7. new[n] = last /\ \A k \in 1..n - 1 : new[k] = ls[k]
  BY <1>1, <1>5
<1> QED BY <1>3, <1>6, <1>7 DEF last, n

\* Placing a word gives lines again.
LEMMA PlaceType ==
  ASSUME NEW W, NEW ls \in Seq(Seq(W)), Len(ls) >= 1, NEW w \in W, NEW at
  PROVE  Place(ls, w, at) \in Seq(Seq(W)) /\ Len(Place(ls, w, at)) >= 1
<1>1. CASE w \in at
  <2> DEFINE more == Append(ls, <<>>)
  <2>1. more \in Seq(Seq(W)) /\ Len(more) = Len(ls) + 1
    <3>1. <<>> \in Seq(W)
      OBVIOUS
    <3> QED BY <3>1, AppendProperties
  <2>2. Place(ls, w, at) = more
    BY <1>1 DEF Place
  <2> HIDE DEF more
  <2> QED BY <2>1, <2>2
<1>2. CASE w \notin at
  BY <1>2, PlaceWord
<1> QED BY <1>1, <1>2

IsSplit(f, text, at, W) ==
  /\ f \in [0..Len(text) -> {ls \in Seq(Seq(W)) : Len(ls) >= 1}]
  /\ f[0] = <<<<>>>>
  /\ \A i \in 1..Len(text) : f[i] = Place(f[i - 1], text[i], at)

\* Split is the last state of a loop over the words.
LEMMA SplitIs ==
  ASSUME NEW W, NEW text \in Seq(W), NEW at
  PROVE  \E f : IsSplit(f, text, at, W) /\ Split(text, at) = f[Len(text)]
<1> DEFINE n == Len(text)
           T == {ls \in Seq(Seq(W)) : Len(ls) >= 1}
           t0 == <<<<>>>>
           D(f) == [i \in 0..n |-> IF i = 0 THEN t0 ELSE Place(f[i - 1], text[i], at)]
           c == CHOOSE f : f = D(f)
           G == [p \in (1..n) \X T |-> Place(p[2], text[p[1]], at)]
<1>1. n \in Nat /\ \A i \in 1..n : text[i] \in W
  OBVIOUS
<1>2. t0 \in T
  OBVIOUS
<1>3. \A i \in 1..n, acc \in T : Place(acc, text[i], at) \in T
  <2> SUFFICES ASSUME NEW i \in 1..n, NEW acc \in T PROVE Place(acc, text[i], at) \in T
    OBVIOUS
  <2>1. acc \in Seq(Seq(W)) /\ Len(acc) >= 1 /\ text[i] \in W
    BY <1>1
  <2> DEFINE w == text[i]
  <2> HIDE DEF w
  <2> QED BY <2>1, PlaceType DEF w
<1>4. PICK f : f \in [0..n -> T] /\ f[0] = t0 /\ \A i \in 1..n : f[i] = G[<<i, f[i - 1]>>]
  <2>1. G \in [(1..n) \X T -> T]
    BY <1>3
  <2> HIDE DEF G, T, n, t0
  <2>2. \E f : IsLoop(f, n, T, t0, G)
    BY <1>1, <1>2, <2>1, LoopExists
  <2> QED BY <2>2 DEF IsLoop
<1> HIDE DEF T
<1>5. \A i \in 1..n : f[i] = Place(f[i - 1], text[i], at)
  <2> SUFFICES ASSUME NEW i \in 1..n PROVE f[i] = Place(f[i - 1], text[i], at)
    OBVIOUS
  <2>1. <<i, f[i - 1]>> \in (1..n) \X T
    BY <1>1, <1>4
  <2> QED BY <1>4, <2>1
<1> HIDE DEF n, t0
<1>6. f = D(f)
  BY <1>1, <1>4, <1>5
<1>7. c = D(c)
  <2> HIDE DEF D
  <2> QED BY <1>6
<1>8. Split(text, at) = c[n]
  BY DEF Split, n, t0
<1> HIDE DEF c
<1>9. c[0] = t0 /\ \A i \in 1..n : c[i] = Place(c[i - 1], text[i], at)
  BY <1>7, <1>1
<1>10. \A i \in 0..n : c[i] \in T
  <2> DEFINE S == {i \in 0..n : c[i] \in T}
  <2>1. 0 \in S /\ \A i \in 1..n : i - 1 \in S => i \in S
    BY <1>1, <1>2, <1>3, <1>9
  <2> HIDE DEF S
  <2>2. 0..n \subseteq S
    BY <2>1, <1>1, Upto
  <2> QED BY <2>2 DEF S
<1>11. c \in [0..n -> T]
  BY <1>7, <1>10
<1>12. IsSplit(c, text, at, W)
  BY <1>9, <1>11 DEF IsSplit, T, n, t0
<1> QED BY <1>12, <1>8 DEF n

\* Where no word separates, a text is split alike.
LEMMA SplitAlike ==
  ASSUME NEW W, NEW text \in Seq(W), NEW at, NEW bt,
         \A i \in 1..Len(text) : text[i] \in at <=> text[i] \in bt
  PROVE  Split(text, at) = Split(text, bt)
<1>1. PICK f : IsSplit(f, text, at, W) /\ Split(text, at) = f[Len(text)]
  BY SplitIs
<1>2. PICK g : IsSplit(g, text, bt, W) /\ Split(text, bt) = g[Len(text)]
  BY SplitIs
<1> DEFINE S == {i \in 0..Len(text) : f[i] = g[i]}
<1>3. Len(text) \in Nat
  OBVIOUS
<1>a. /\ f[0] = <<<<>>>> /\ \A i \in 1..Len(text) : f[i] = Place(f[i - 1], text[i], at)
      /\ g[0] = <<<<>>>> /\ \A i \in 1..Len(text) : g[i] = Place(g[i - 1], text[i], bt)
  BY <1>1, <1>2 DEF IsSplit
<1>b. \A ls : \A i \in 1..Len(text) : Place(ls, text[i], at) = Place(ls, text[i], bt)
  BY DEF Place
<1>4. 0 \in S
  BY <1>a, <1>3
<1>5. \A i \in 1..Len(text) : i - 1 \in S => i \in S
  <2> SUFFICES ASSUME NEW i \in 1..Len(text), i - 1 \in S PROVE i \in S
    OBVIOUS
  <2>1. f[i] = Place(f[i - 1], text[i], at) /\ g[i] = Place(g[i - 1], text[i], bt)
    BY <1>a
  <2>2. f[i - 1] = g[i - 1] /\ Place(f[i - 1], text[i], at) = Place(f[i - 1], text[i], bt)
    BY <1>b
  <2> QED BY <2>1, <2>2, <1>3
<1> HIDE DEF S
<1>6. 0..Len(text) \subseteq S
  BY <1>3, <1>4, <1>5, Upto
<1> QED BY <1>1, <1>2, <1>3, <1>6 DEF S

\* A text with no separator is one line.
LEMMA SplitNone ==
  ASSUME NEW W, NEW text \in Seq(W), NEW at, \A i \in 1..Len(text) : text[i] \notin at
  PROVE  Split(text, at) = <<text>>
<1>1. PICK f : IsSplit(f, text, at, W) /\ Split(text, at) = f[Len(text)]
  BY SplitIs
<1> DEFINE n == Len(text)
           S == {i \in 0..n : f[i] = <<SubSeq(text, 1, i)>>}
<1>2. n \in Nat
  OBVIOUS
<1>3. 0 \in S
  BY <1>1, <1>2 DEF IsSplit
<1>4. ASSUME NEW i \in 1..n, i - 1 \in S PROVE i \in S
  <2> DEFINE p == SubSeq(text, 1, i - 1)
  <2>1. p \in Seq(W) /\ f[i - 1] = <<p>> /\ text[i] \in W
    BY <1>2, <1>4
  <2>2. Append(p, text[i]) = SubSeq(text, 1, i)
    OBVIOUS
  <2> HIDE DEF p
  <2>3. [<<p>> EXCEPT ![Len(<<p>>)] = Append(<<p>>[Len(<<p>>)], text[i])] = <<Append(p, text[i])>>
    BY <2>1
  <2>4. f[i] = Place(<<p>>, text[i], at)
    BY <1>1, <1>4, <2>1 DEF IsSplit
  <2>5. f[i] = <<Append(p, text[i])>>
    BY <2>3, <2>4 DEF Place
  <2> QED BY <2>2, <2>5
<1> HIDE DEF S
<1>5. n \in S
  <2> HIDE DEF n
  <2>1. 0..n \subseteq S
    BY <1>2, <1>3, <1>4, Upto
  <2> QED BY <2>1, <1>2
<1>6. SubSeq(text, 1, n) = text
  OBVIOUS
<1> QED BY <1>1, <1>5, <1>6 DEF S

\* Every word that does not separate is on some line.
LEMMA SplitKeeps ==
  ASSUME NEW W, NEW text \in Seq(W), NEW at, NEW j \in 1..Len(text), text[j] \notin at
  PROVE  /\ Split(text, at) \in Seq(Seq(W))
         /\ \E k \in 1..Len(Split(text, at)) : text[j] \in SE!ToSet(Split(text, at)[k])
<1>1. PICK f : IsSplit(f, text, at, W) /\ Split(text, at) = f[Len(text)]
  BY SplitIs
<1> DEFINE n == Len(text)
           On(i) == \E k \in 1..Len(f[i]) : text[j] \in SE!ToSet(f[i][k])
           S == {i \in 0..n : j <= i => On(i)}
<1>2. n \in Nat /\ j \in 1..n
  OBVIOUS
<1>3. 0 \in S
  BY <1>2
<1>4. ASSUME NEW i \in 1..n, i - 1 \in S PROVE i \in S
  <2> DEFINE ls == f[i - 1]
  <2>1. ls \in Seq(Seq(W)) /\ Len(ls) >= 1 /\ text[i] \in W /\ f[i] = Place(ls, text[i], at)
    BY <1>1, <1>2 DEF IsSplit
  <2>2. j <= i - 1 => \E k \in 1..Len(ls) : text[j] \in SE!ToSet(ls[k])
    BY <1>4, <1>2
  <2> HIDE DEF ls
  <2>3. Len(ls) \in Nat /\ Len(ls) >= 1 /\ \A k \in 1..Len(ls) : ls[k] \in Seq(W)
    BY <2>1
  <2>4. CASE text[i] \in at
    <3>1. f[i] = Append(ls, <<>>) /\ j # i
      BY <2>1, <2>4 DEF Place
    <3>2. Len(f[i]) = Len(ls) + 1 /\ \A k \in 1..Len(ls) : f[i][k] = ls[k]
      BY <2>1, <3>1
    <3>3. CASE j <= i
      <4>1. PICK k \in 1..Len(ls) : text[j] \in SE!ToSet(ls[k])
        BY <1>2, <2>2, <3>1, <3>3
      <4>2. k \in 1..Len(f[i]) /\ f[i][k] = ls[k]
        BY <2>3, <3>2
      <4> QED BY <4>1, <4>2
    <3> QED BY <3>3
  <2>5. CASE text[i] \notin at
    <3>1. /\ Len(f[i]) = Len(ls) /\ f[i][Len(ls)] = Append(ls[Len(ls)], text[i])
          /\ \A k \in 1..Len(ls) - 1 : f[i][k] = ls[k]
      <4> DEFINE w == text[i]
                 new == Place(ls, w, at)
      <4>1. w \in W /\ w \notin at /\ f[i] = new
        BY <2>1, <2>5
      <4> HIDE DEF w
      <4>2. /\ Len(new) = Len(ls) /\ new[Len(ls)] = Append(ls[Len(ls)], w)
            /\ \A k \in 1..Len(ls) - 1 : new[k] = ls[k]
        <5>1. ls \in Seq(Seq(W)) /\ Len(ls) >= 1
          BY <2>1
        <5> QED BY <4>1, <5>1, PlaceWord
      <4> HIDE DEF new
      <4> QED BY <4>1, <4>2 DEF w
    <3>2. SE!ToSet(f[i][Len(ls)]) = SE!ToSet(ls[Len(ls)]) \cup {text[i]}
      <4>1. ls[Len(ls)] \in Seq(W)
        BY <2>3
      <4> DEFINE s == ls[Len(ls)]
      <4> HIDE DEF s
      <4>2. Append(s, text[i]) \in Seq(W) /\ Len(Append(s, text[i])) = Len(s) + 1
            /\ Append(s, text[i])[Len(s) + 1] = text[i]
            /\ \A k \in 1..Len(s) : Append(s, text[i])[k] = s[k]
        BY <2>1, <4>1, AppendProperties DEF s
      <4>3. SE!ToSet(Append(s, text[i])) = SE!ToSet(s) \cup {text[i]}
        <5> DEFINE w == text[i]
                   a == Append(s, w)
        <5>1. s \in Seq(W) /\ a \in Seq(W) /\ Len(a) = Len(s) + 1 /\ a[Len(s) + 1] = w
              /\ \A k \in 1..Len(s) : a[k] = s[k]
          BY <4>1, <4>2 DEF s
        <5> HIDE DEF a, w
        <5>2. Len(s) \in Nat /\ DOMAIN s = 1..Len(s) /\ DOMAIN a = 1..Len(a)
          BY <5>1
        <5>3. SE!ToSet(a) = SE!ToSet(s) \cup {w}
          BY <5>1, <5>2 DEF SE!ToSet
        <5> QED BY <5>3 DEF a, w
      <4> QED BY <3>1, <4>3 DEF s
    <3>3. CASE j = i
      <4>1. Len(ls) \in 1..Len(f[i]) /\ text[j] \in SE!ToSet(f[i][Len(ls)])
        BY <3>1, <3>2, <3>3, <2>3
      <4> QED BY <4>1
    <3>4. CASE j # i /\ j <= i
      <4>1. PICK k \in 1..Len(ls) : text[j] \in SE!ToSet(ls[k])
        BY <1>2, <2>2, <3>4
      <4>2. CASE k = Len(ls)
        <5>1. Len(ls) \in 1..Len(f[i]) /\ text[j] \in SE!ToSet(f[i][Len(ls)])
          BY <3>1, <3>2, <4>1, <4>2, <2>3
        <5> QED BY <5>1
      <4>3. CASE k # Len(ls)
        BY <3>1, <4>1, <4>3, <2>3
      <4> QED BY <4>2, <4>3
    <3> QED BY <3>3, <3>4
  <2> QED BY <2>4, <2>5
<1> HIDE DEF S
<1>5. n \in S
  <2> HIDE DEF n
  <2>1. 0..n \subseteq S
    BY <1>2, <1>3, <1>4, Upto
  <2> QED BY <2>1, <1>2
<1>6. On(n)
  BY <1>2, <1>5 DEF S
<1>7. f[n] \in Seq(Seq(W))
  BY <1>1, <1>2 DEF IsSplit
<1> QED BY <1>1, <1>6, <1>7

-----------------------------------------------------------------------------
(* Commands *)

\* What an argument of a call holds is a text.
LEMMA ItemIsText ==
  ASSUME NEW in \in Calls, NEW p, NEW t \in Items(in.args, p)
  PROVE  t \in Texts
BY DEF Items, Texts

\* A text is the sequence of its words.
LEMMA TextIs ==
  ASSUME NEW t \in Texts, t # NonString
  PROVE  /\ t \in Seq(Words) /\ Len(t) \in Nat /\ DOMAIN t = 1..Len(t)
         /\ SE!ToSet(t) = {t[i] : i \in 1..Len(t)}
<1>1. t \in Seq(Words)
  BY ClassifierAssumption
<1> HIDE DEF Words
<1> QED BY <1>1 DEF SE!ToSet

\* What ClassifyCommand lets through is one statement, whole.
LEMMA ReadIsOneStatement ==
  ASSUME NEW t \in Texts, t # NonString, ClassifyCommand(t) # "EXEC_ARBITRARY"
  PROVE  t # <<>> /\ Statements(t, CommandSeparators) = {t}
<1>1. t # <<>> /\ ~HasBadBytes(t) /\ ~HasShellMeta(t)
  BY DEF ClassifyCommand
<1>2. \A w \in SE!ToSet(t) : w \notin {NL} \cup CommandSeparators
  BY <1>1, StringsAssumption DEF HasBadBytes, HasShellMeta
<1> DEFINE at == {NL} \cup CommandSeparators
<1>3. \A i \in 1..Len(t) : t[i] \notin at
  BY <1>2, TextIs
<1> HIDE DEF at
<1>4. Split(t, at) = <<t>>
  BY <1>3, TextIs, SplitNone
<1>5. SE!ToSet(<<t>>) = {t}
  BY DEF SE!ToSet
<1> QED BY <1>1, <1>4, <1>5 DEF Statements, at

\* It is a read that ends by itself.
LEMMA ReadOnlyReads ==
  ASSUME NEW t \in Texts, t # NonString, ClassifyCommand(t) # "EXEC_ARBITRARY"
  PROVE  OnlyReads(t)
<1>1. ~HasLeadingDash(t) /\ (IsConfigRead(t) \/ AllowedPrefix(t))
      /\ (IsConfigRead(t) \/ (IsMonitorTraffic(t) => MonitorCountOK(t)))
  BY DEF ClassifyCommand
<1>2. \A i \in 2..Len(t) : ~HasPrefix(t[i], "-")
  BY <1>1 DEF HasLeadingDash
<1>3. CASE t[1] \in {"show", "get", "display", "ping", "traceroute", "tracepath"}
  BY <1>2, <1>3 DEF OnlyReads
<1>4. CASE t[1] \notin {"show", "get", "display", "ping", "traceroute", "tracepath"}
  <2>1. ~IsConfigRead(t)
    BY <1>4 DEF IsConfigRead
  <2>2. IsMonitorTraffic(t) /\ MonitorCountOK(t)
    BY <1>1, <1>4, <2>1 DEF AllowedPrefix
  <2>3. /\ "count" \in SE!ToSet(t)
        /\ \A i \in DOMAIN t : t[i] = "count" =>
             i < Len(t) /\ AllDigits(t[i + 1]) /\ Atoi(t[i + 1]) \in 1..MaxMonitorCount
    BY <2>2 DEF MonitorCountOK, BoundedCount
  <2>4. PICK i \in 1..Len(t) : t[i] = "count"
    BY <2>3, TextIs
  <2>5. i \in 1..(Len(t) - 1)
    <3>1. i \in DOMAIN t /\ Len(t) \in Nat
      BY <2>4, TextIs
    <3>2. i < Len(t)
      BY <2>3, <2>4, <3>1
    <3> QED BY <3>1, <3>2
  <2>6. EndsByItself(t)
    BY <2>3, <2>4, <2>5 DEF EndsByItself
  <2> QED BY <1>2, <2>2, <2>6 DEF OnlyReads, IsMonitorTraffic
<1> QED BY <1>3, <1>4

\* An operational read prints no configuration.
LEMMA ReadPrintsNoConfig ==
  ASSUME NEW t \in Texts, t # NonString, ClassifyCommand(t) = "READ_OPERATIONAL"
  PROVE  ~MayPrintConfig(t)
<1>1. ~IsConfigRead(t) /\ AllowedPrefix(t)
  BY DEF ClassifyCommand
<1>2. CASE t[1] \in {"show", "display", "get"}
  <2>1. /\ Len(t) # 1 /\ ~MatchesAny(t[2], ConfigKeywords)
        /\ ~(Len(t) > 2 /\ IsAbbrevOf(t[2], "system") /\ MatchesAny(t[3], SystemConfigKeywords))
    BY <1>1, <1>2 DEF IsConfigRead
  <2>2. \A w, keywords : AbbreviatesAny(w, keywords) => MatchesAny(w, keywords)
    BY DEF AbbreviatesAny, MatchesAny, IsAbbrevOf
  <2> QED BY <2>1, <2>2 DEF MayPrintConfig
<1>3. CASE t[1] \notin {"show", "display", "get"}
  <2>1. t[1] \in {"ping", "traceroute", "tracepath", "monitor"}
    BY <1>1, <1>3 DEF AllowedPrefix, IsMonitorTraffic
  <2>2. ~AbbreviatesAny(t[1], {"show", "display", "get"})
    BY <2>1, StringsAssumption
  <2> QED BY <2>2 DEF MayPrintConfig
<1> QED BY <1>2, <1>3

\* The class of a call that is forwarded as less than EXEC_ARBITRARY is the
\* classifier's.
LEMMA ForwardedClass ==
  ASSUME Given, Forwarded, InProfile(call), ruling.class # "EXEC_ARBITRARY"
  PROVE  /\ ~Refused(call)
         /\ ruling.class = ClassifyTool(SpecOf(call), call.args).class
<1>0. ruling = Decide(policy, call, counter.count, counter.counted) /\ ruling.forward
  BY DEF Given, Forwarded
<1>1. ~Refused(call)
  BY <1>0 DEF Decide, Verdict, Denied, Decision
<1>2. ruling.class = Classification(call, call.args).class
  BY <1>0, <1>1 DEF Decide, Verdict
<1>3. Classification(call, call.args).class = ClassifyTool(SpecOf(call), call.args).class
  BY <1>2 DEF Classification, Result
<1> QED BY <1>1, <1>2, <1>3

\* Commands decide the class of a tool that takes them.
LEMMA ClassOfCommands ==
  ASSUME NEW spec, NEW args, spec.capabilityParam = NoParam, spec.commandParams # {},
         spec.class \in {"EXEC_ARBITRARY", "READ_OPERATIONAL"},
         ClassifyTool(spec, args).class # "EXEC_ARBITRARY"
  PROVE  /\ ClassifyTool(spec, args).class = ClassifyCommands(Commands(spec, args))
         /\ spec.class = "EXEC_ARBITRARY" => ~spec.neverDowngrade
<1>1. ClassifyTool(spec, args) = ClassifyByCommands(spec, args)
  BY DEF ClassifyTool, Result
<1> DEFINE found == ClassifyCommands(Commands(spec, args))
<1> HIDE DEF found
<1>2. ClassifyByCommands(spec, args).class # "EXEC_ARBITRARY"
  BY <1>1
<1>3. CASE spec.class = "EXEC_ARBITRARY"
  BY <1>1, <1>2, <1>3 DEF ClassifyByCommands, Result, found
<1>4. CASE spec.class = "READ_OPERATIONAL"
  BY <1>1, <1>2, <1>4 DEF ClassifyByCommands, Result, found
<1> QED BY <1>3, <1>4

\* Every statement of the commands of a call forwarded as a read is a read that
\* ends by itself (classifyCommands), for any profile, call and text.
THEOREM ReadsAlwaysRead == CallSpec => []ReadsOnlyRead
<1>1. Given => ReadsOnlyRead
  <2> DEFINE spec == SpecOf(call)
             cmds == Commands(spec, call.args)
             stmts == UNION {Statements(c, CommandSeparators) : c \in cmds}
  <2> SUFFICES ASSUME Given, Forwarded, InProfile(call),
                      spec.class \in {"EXEC_ARBITRARY", "READ_OPERATIONAL"},
                      spec.commandParams # {}, ruling.class # "EXEC_ARBITRARY"
               PROVE  /\ cmds # {}
                      /\ spec.class = "EXEC_ARBITRARY" => ~spec.neverDowngrade
                      /\ \A s \in stmts : OnlyReads(s)
                      /\ ruling.class = "READ_OPERATIONAL" => \A s \in stmts : ~MayPrintConfig(s)
    BY DEF ReadsOnlyRead
  <2>1. spec.capabilityParam = NoParam
    BY MetaToolsAssumption DEF InProfile, HasProfile, SpecOf
  <2>2. ruling.class = ClassifyTool(spec, call.args).class
    BY ForwardedClass
  <2> HIDE DEF spec
  <2>3. /\ ruling.class = ClassifyCommands(cmds)
        /\ spec.class = "EXEC_ARBITRARY" => ~spec.neverDowngrade
    BY <2>1, <2>2, ClassOfCommands
  <2>4. /\ cmds # {} /\ \A c \in cmds : CommandClass(c) # "EXEC_ARBITRARY"
        /\ ruling.class = "READ_OPERATIONAL" => \A c \in cmds : CommandClass(c) # "READ_CONFIG"
    BY <2>3 DEF ClassifyCommands
  <2>5. \A c \in cmds : c \in Texts
    BY ItemIsText DEF Commands, Given
  <2> HIDE DEF cmds
  <2>6. ASSUME NEW c \in cmds
        PROVE  c # NonString /\ CommandClass(c) = ClassifyCommand(c)
               /\ ClassifyCommand(c) # "EXEC_ARBITRARY"
    BY <2>4, <2>5, ClassifierAssumption
  <2>7. ASSUME NEW s \in stmts PROVE s \in cmds
    <3>1. PICK c \in cmds : s \in Statements(c, CommandSeparators)
      OBVIOUS
    <3> QED BY <3>1, <2>5, <2>6, ReadIsOneStatement
  <2>8. \A s \in stmts : OnlyReads(s)
    BY <2>5, <2>6, <2>7, ReadOnlyReads
  <2>9. \A t : ClassifyCommand(t) \in {"EXEC_ARBITRARY", "READ_CONFIG", "READ_OPERATIONAL"}
    BY DEF ClassifyCommand
  <2>10. ASSUME ruling.class = "READ_OPERATIONAL", NEW s \in stmts PROVE ~MayPrintConfig(s)
    <3>1. s \in Texts /\ s # NonString /\ ClassifyCommand(s) = "READ_OPERATIONAL"
      BY <2>4, <2>5, <2>6, <2>7, <2>9, <2>10
    <3> QED BY <3>1, ReadPrintsNoConfig
  <2> QED BY <2>3, <2>4, <2>8, <2>10
<1> QED BY AlwaysGiven, <1>1, PTL

-----------------------------------------------------------------------------
(* Config payloads *)

\* The count after "up" is a number.
LEMMA AtoiNat ==
  ASSUME NEW w, Len(w) \in Nat, AllDigits(w)
  PROVE  Atoi(w) \in Nat
<1> DEFINE n == Len(w)
           d(i) == (CHOOSE k \in 1..10 : Digits[k] = Chars(w)[i])
           D(f) == [i \in 0..n |-> IF i = 0 THEN 0 ELSE 10 * f[i - 1] + d(i) - 1]
           c == CHOOSE f : f = D(f)
           G == [p \in (1..n) \X Nat |-> 10 * p[2] + d(p[1]) - 1]
<1>1. \A i \in 1..n : d(i) \in 1..10
  <2>1. ASSUME NEW i \in 1..n PROVE \E k \in 1..10 : Digits[k] = Chars(w)[i]
    <3>1. Chars(w)[i] \in SE!ToSet(Chars(w))
      BY DEF Chars, SE!ToSet
    <3>2. Chars(w)[i] \in SE!ToSet(Digits)
      BY <3>1 DEF AllDigits
    <3>3. DOMAIN Digits = 1..10
      BY DEF Digits
    <3> QED BY <3>2, <3>3 DEF SE!ToSet
  <2> QED BY <2>1
<1> HIDE DEF d
<1>2. \A i \in 1..n, acc \in Nat : 10 * acc + d(i) - 1 \in Nat
  BY <1>1
<1>3. PICK f : f \in [0..n -> Nat] /\ f[0] = 0 /\ \A i \in 1..n : f[i] = G[<<i, f[i - 1]>>]
  <2>1. G \in [(1..n) \X Nat -> Nat]
    BY <1>2
  <2> HIDE DEF G, n
  <2>2. \E f : IsLoop(f, n, Nat, 0, G)
    BY <2>1, LoopExists DEF n
  <2> QED BY <2>2 DEF IsLoop
<1>4. \A i \in 1..n : f[i] = 10 * f[i - 1] + d(i) - 1
  <2> SUFFICES ASSUME NEW i \in 1..n PROVE f[i] = 10 * f[i - 1] + d(i) - 1
    OBVIOUS
  <2>1. <<i, f[i - 1]>> \in (1..n) \X Nat
    BY <1>3
  <2> QED BY <1>3, <2>1
<1>5. n \in Nat
  OBVIOUS
<1>6. f = D(f)
  <2> HIDE DEF n
  <2> QED BY <1>3, <1>4, <1>5
<1>7. c = D(c)
  <2> HIDE DEF D
  <2> QED BY <1>6
<1>8. Atoi(w) = c[n]
  BY DEF Atoi, d
<1> HIDE DEF c, n
<1>9. c[0] = 0 /\ \A i \in 1..n : c[i] = 10 * c[i - 1] + d(i) - 1
  BY <1>7, <1>5
<1> DEFINE S == {i \in 0..n : c[i] \in Nat}
<1>10. 0 \in S /\ \A i \in 1..n : i - 1 \in S => i \in S
  BY <1>2, <1>5, <1>9
<1> HIDE DEF S
<1>11. 0..n \subseteq S
  BY <1>10, <1>5, Upto
<1>12. n \in S
  BY <1>11, <1>5
<1> QED BY <1>12, <1>8 DEF S

\* A character of a keyword, in a word that holds the keyword's beginning, is
\* one that no quoting has.
LEMMA KeywordChars ==
  ASSUME NEW w \in Words, NEW k \in Vocabulary, NEW n \in 1..Len(k), NEW at \in 1..Len(w),
         at + n - 1 <= Len(w), SubSeq(w, at, at + n - 1) = SubSeq(k, 1, n)
  PROVE  \A i \in at..(at + n - 1) : Chars(w)[i] \in KeptChars
<1> SUFFICES ASSUME NEW i \in at..(at + n - 1) PROVE Chars(w)[i] \in KeptChars
  OBVIOUS
<1>1. Len(w) \in Nat /\ Len(k) \in Nat
  BY CharsAssumption
<1> DEFINE b == at + n - 1
           m == i - at + 1
<1>2. /\ at \in 1..Len(w) /\ b \in 1..Len(w) /\ at <= b /\ i \in at..b /\ i \in 1..Len(w)
      /\ 1 \in 1..Len(k) /\ n \in 1..Len(k) /\ 1 <= n /\ m \in 1..n /\ m \in 1..Len(k)
      /\ m - 1 + 1 = m
  BY <1>1
<1>3. SubSeq(SubSeq(w, at, b), m, m) = SubSeq(w, i, i)
  BY <1>2, CharsAssumption
<1>4. SubSeq(SubSeq(k, 1, n), m - 1 + 1, m - 1 + 1) = SubSeq(k, m, m)
  <2> HIDE DEF m
  <2> QED BY <1>2, CharsAssumption
<1>5. SubSeq(k, m, m) \in KeptChars
  <2> HIDE DEF m
  <2> QED BY <1>2, CharsAssumption
<1>6. Chars(w)[i] = SubSeq(w, i, i)
  BY <1>2 DEF Chars
<1> QED BY <1>2, <1>3, <1>4, <1>5, <1>6

\* The beginning of a keyword abbreviates it.
LEMMA BeginningAbbreviates ==
  ASSUME NEW k \in Vocabulary, NEW n \in 1..Len(k)
  PROVE  IsAbbrevOf(SubSeq(k, 1, n), k) /\ Len(SubSeq(k, 1, n)) = n
<1>1. Len(k) \in Nat /\ 1 \in 1..Len(k) /\ 1 <= n
  BY CharsAssumption
<1>2. Len(SubSeq(k, 1, n)) = n - 1 + 1 /\ SubSeq(k, 1, n) # EmptyString
  BY <1>1, CharsAssumption
<1>3. Len(SubSeq(k, 1, n)) = n
  BY <1>1, <1>2
<1>4. HasPrefix(k, SubSeq(k, 1, n))
  BY <1>1, <1>3 DEF HasPrefix
<1> QED BY <1>2, <1>3, <1>4, Zenon DEF IsAbbrevOf, EmptyString

\* Trimming a word takes its quoting off and nothing else.
LEMMA TrimTakesQuotes ==
  ASSUME NEW w \in Words, NEW k \in Vocabulary, NEW n \in 1..Len(k), Abbreviation(w, k, n)
  PROVE  TrimWord(w) = SubSeq(k, 1, n)
<1>1. Len(w) \in Nat /\ Len(k) \in Nat
  BY CharsAssumption
<1>2. PICK at \in 1..(Len(w) - n + 1) :
        /\ SubSeq(w, at, at + n - 1) = SubSeq(k, 1, n)
        /\ \A i \in 1..Len(w) : i \in at..(at + n - 1) \/ Chars(w)[i] \in Quoting
  BY DEF Abbreviation
<1> DEFINE b == at + n - 1
           keep == {i \in 1..Len(w) : Chars(w)[i] \in KeptChars}
<1>3. at \in 1..Len(w) /\ b \in 1..Len(w) /\ at <= b /\ at \in Nat /\ b \in Nat
  BY <1>1
<1>4. \A i \in at..b : Chars(w)[i] \in KeptChars
  <2>1. at + n - 1 <= Len(w)
    BY <1>1, <1>3
  <2> HIDE DEF keep
  <2> QED BY <1>2, <1>3, <2>1, KeywordChars
<1>5. \A x \in Quoting : x \notin KeptChars
  BY CharsAssumption
<1>6. keep = at..b
  BY <1>1, <1>2, <1>3, <1>4, <1>5
<1> HIDE DEF keep
<1>7. Min(keep) = at /\ Max(keep) = b /\ keep # {}
  <2>1. at \in keep /\ b \in keep /\ \A y \in keep : at <= y /\ b >= y /\ y \in Int
    BY <1>3, <1>6
  <2>2. \A x \in keep : (\A y \in keep : x <= y) => x = at
    BY <2>1
  <2>3. \A x \in keep : (\A y \in keep : x >= y) => x = b
    BY <2>1
  <2>4. Min(keep) = at
    BY <2>1, <2>2 DEF Min
  <2>5. Max(keep) = b
    BY <2>1, <2>3 DEF Max
  <2> QED BY <2>1, <2>4, <2>5
<1> QED BY <1>2, <1>7 DEF TrimWord, keep

\* The words that name no hierarchy which makes configuration run something.
QuietWords == {w \in Words : ~AbbreviatesAny(TrimWord(w), JunosExecConfigWords)}

\* Nothing has run, and nothing that runs is named.
QuietStates == [level : Seq(QuietWords), touched : SUBSET Seq(QuietWords), ran : {FALSE}]

\* A sequence is one of what it holds.
LEMMA SeqOfQuiet ==
  ASSUME NEW W, NEW Q, NEW s \in Seq(W), \A w \in SE!ToSet(s) : w \in Q
  PROVE  s \in Seq(Q)
<1>1. Len(s) \in Nat /\ DOMAIN s = 1..Len(s) /\ s = [i \in 1..Len(s) |-> s[i]]
  OBVIOUS
<1>2. \A i \in 1..Len(s) : s[i] \in Q
  BY <1>1 DEF SE!ToSet
<1> QED BY <1>1, <1>2, IsASeq

\* Two paths make a path.
LEMMA ConcatQuiet ==
  ASSUME NEW Q, NEW a \in Seq(Q), NEW b \in Seq(Q)
  PROVE  a \o b \in Seq(Q)
BY ConcatProperties

\* A statement that passed the check leaves a quiet state quiet.
LEMMA StatementQuiet ==
  ASSUME NEW st \in QuietStates, NEW level \in Seq(QuietWords), NEW words,
         \/ words = <<>>
         \/ /\ words # <<>> /\ words[1] \in JunosSetVerbs \ {"top", "up"}
            /\ Tail(words) \in Seq(QuietWords)
  PROVE  RunStatement(st, level, words) \in QuietStates
<1>0. /\ st = [level |-> st.level, touched |-> st.touched, ran |-> st.ran]
      /\ st.level \in Seq(QuietWords) /\ st.touched \in SUBSET Seq(QuietWords) /\ st.ran = FALSE
  BY DEF QuietStates
<1> DEFINE path == level \o Tail(words)
<1>1. CASE words = <<>>
  <2>1. RunStatement(st, level, words) = [st EXCEPT !.level = level]
    BY <1>1 DEF RunStatement
  <2> QED BY <2>1, <1>0 DEF QuietStates
<1>2. CASE words # <<>> /\ words[1] = "edit"
  <2>1. path \in Seq(QuietWords)
    BY <1>2, ConcatQuiet
  <2>2. RunStatement(st, level, words) = [st EXCEPT !.level = path]
    BY <1>2 DEF RunStatement, JunosStatements
  <2> HIDE DEF path
  <2> QED BY <2>1, <2>2, <1>0 DEF QuietStates
<1>3. CASE words # <<>> /\ words[1] # "edit"
  <2>1. path \in Seq(QuietWords) /\ words[1] \in JunosStatements
    <3>1. path \in Seq(QuietWords)
      BY <1>3, ConcatQuiet
    <3>2. words[1] \in JunosStatements
      BY <1>3 DEF JunosSetVerbs, JunosStatements
    <3> QED BY <3>1, <3>2
  <2>2. RunStatement(st, level, words) = [st EXCEPT !.touched = st.touched \cup {path}]
    BY <1>3, <2>1 DEF RunStatement
  <2> HIDE DEF path
  <2> DEFINE paths == st.touched \cup {path}
  <2>3. paths \in SUBSET Seq(QuietWords)
    BY <1>0, <2>1
  <2> HIDE DEF paths
  <2>4. RunStatement(st, level, words) = [st EXCEPT !.touched = paths]
    BY <2>2 DEF paths
  <2> QED BY <2>3, <2>4, <1>0 DEF QuietStates
<1> QED BY <1>1, <1>2, <1>3

\* So does a line.
LEMMA LineQuiet ==
  ASSUME NEW st \in QuietStates, NEW line \in Seq(Words), CheckJunosSetLine(line)
  PROVE  RunLine(st, line) \in QuietStates
<1> DEFINE n == Len(line)
<1>0. n \in Nat /\ DOMAIN line = 1..n
  OBVIOUS
<1>1. CASE line = <<>> \/ HasPrefix(line[1], "#")
  BY <1>1 DEF RunLine
<1>2. CASE ~(line = <<>> \/ HasPrefix(line[1], "#"))
  <2>1. /\ line # <<>> /\ line[1] \in JunosSetVerbs /\ JunosNavigation(line)
        /\ \A w \in SE!ToSet(Tail(line)) : ~AbbreviatesAny(TrimWord(w), JunosExecConfigWords)
    BY <1>2 DEF CheckJunosSetLine
  <2>2. Tail(line) \in Seq(Words)
    BY <2>1, HeadTailProperties
  <2>3. \A w \in SE!ToSet(Tail(line)) : w \in Words
    <3> DEFINE t == Tail(line)
    <3> HIDE DEF t
    <3>1. \A i \in DOMAIN t : t[i] \in Words
      BY <2>2 DEF t
    <3>2. \A w \in SE!ToSet(t) : w \in Words
      BY <3>1 DEF SE!ToSet
    <3> QED BY <3>2 DEF t
  <2>4. Tail(line) \in Seq(QuietWords)
    <3> DEFINE t == Tail(line)
    <3>1. \A w \in SE!ToSet(t) : w \in QuietWords
      BY <2>1, <2>3 DEF QuietWords
    <3> HIDE DEF t
    <3>2. t \in Seq(Words)
      BY <2>2 DEF t
    <3> QED BY <3>1, <3>2, SeqOfQuiet DEF t
  <2>5. st.level \in Seq(QuietWords) /\ Len(st.level) \in Nat
    BY DEF QuietStates
  <2>6. CASE line[1] = "top"
    <3>1. Tail(line) = <<>> /\ <<>> \in Seq(QuietWords)
      <4>1. n = 1
        BY <2>1, <2>6 DEF JunosNavigation
      <4>2. Tail(line) = SubSeq(line, 2, 1)
        BY <2>1, <4>1, TailIsSubSeq
      <4> QED BY <4>2, SubSeqEmpty
    <3>2. RunLine(st, line) = RunStatement(st, <<>>, Tail(line))
      BY <1>2, <2>6 DEF RunLine
    <3> QED BY <3>1, <3>2, StatementQuiet
  <2>7. CASE line[1] = "up"
    <3> DEFINE counted == n > 1 /\ AllDigits(line[2])
               k == IF counted THEN Atoi(line[2]) ELSE 1
               level == SubSeq(st.level, 1, Len(st.level) - k)
               rest == SubSeq(line, IF counted THEN 3 ELSE 2, n)
    <3>1. n = 1 \/ (n = 2 /\ AllDigits(line[2]))
      BY <2>1, <2>7 DEF JunosNavigation
    <3>2. k \in Nat
      <4>1. CASE counted
        <5>1. line[2] \in Words
          BY <1>0, <4>1
        <5>2. Len(line[2]) \in Nat
          BY <5>1, CharsAssumption
        <5>3. Atoi(line[2]) \in Nat
          <6> DEFINE w == line[2]
          <6> HIDE DEF w
          <6> QED BY <4>1, <5>2, AtoiNat DEF w
        <5> QED BY <4>1, <5>3
      <4>2. CASE ~counted
        BY <4>2
      <4> QED BY <4>1, <4>2
    <3> HIDE DEF k
    <3>3. level \in Seq(QuietWords)
      <4> DEFINE m == Len(st.level) - k
                 l == st.level
      <4>1. m \in Int /\ l \in Seq(QuietWords) /\ m <= Len(l)
        BY <2>5, <3>2
      <4> HIDE DEF m, l
      <4>2. \A i \in 1..m : l[i] \in QuietWords
        BY <4>1
      <4>3. SubSeq(l, 1, m) \in Seq(QuietWords)
        BY <4>1, <4>2, SubSeqProperties
      <4> QED BY <4>3 DEF m, l
    <3>4. rest = <<>>
      <4>1. CASE counted
        <5>0. n = 2
          BY <3>1, <4>1, <1>0
        <5>1. rest = SubSeq(line, 3, 2)
          BY <4>1, <5>0
        <5> QED BY <5>1, SubSeqEmpty
      <4>2. CASE ~counted
        <5>1. n = 1 /\ rest = SubSeq(line, 2, 1)
          BY <3>1, <4>2, <1>0
        <5> QED BY <5>1, SubSeqEmpty
      <4> QED BY <4>1, <4>2
    <3>5. RunLine(st, line) = RunStatement(st, level, rest)
      BY <1>2, <2>7 DEF RunLine, k
    <3> HIDE DEF level, rest
    <3> QED BY <3>3, <3>4, <3>5, StatementQuiet
  <2>8. CASE line[1] \notin {"top", "up"}
    <3>1. RunLine(st, line) = RunStatement(st, st.level, line)
      BY <1>2, <2>8 DEF RunLine
    <3> DEFINE l == st.level
    <3>2. l \in Seq(QuietWords) /\ line[1] \in JunosSetVerbs \ {"top", "up"}
      BY <2>1, <2>5, <2>8
    <3> HIDE DEF l
    <3>3. RunStatement(st, l, line) \in QuietStates
      BY <2>1, <2>4, <3>2, StatementQuiet
    <3> QED BY <3>1, <3>3 DEF l
  <2> QED BY <2>6, <2>7, <2>8
<1> QED BY <1>1, <1>2

\* A payload starts with nothing run.
LEMMA UnrunQuiet == Unrun \in QuietStates
<1>1. <<>> \in Seq(QuietWords) /\ {} \in SUBSET Seq(QuietWords)
  OBVIOUS
<1> QED BY <1>1 DEF Unrun, QuietStates

\* Lines that all passed the check run nothing, one after the other.
LEMMA LinesQuiet ==
  ASSUME NEW ls \in Seq(Seq(Words)), \A i \in 1..Len(ls) : CheckJunosSetLine(ls[i])
  PROVE  RunLines(ls) \in QuietStates
<1> DEFINE n == Len(ls)
           T == QuietStates
           D(f) == [i \in 0..n |-> IF i = 0 THEN Unrun ELSE RunLine(f[i - 1], ls[i])]
           c == CHOOSE f : f = D(f)
           G == [p \in (1..n) \X T |-> RunLine(p[2], ls[p[1]])]
<1>1. n \in Nat /\ \A i \in 1..n : ls[i] \in Seq(Words)
  OBVIOUS
<1>2. \A i \in 1..n, acc \in T : RunLine(acc, ls[i]) \in T
  BY <1>1, LineQuiet
<1>3. PICK f : f \in [0..n -> T] /\ f[0] = Unrun /\ \A i \in 1..n : f[i] = G[<<i, f[i - 1]>>]
  <2>1. G \in [(1..n) \X T -> T]
    BY <1>2
  <2>2. Unrun \in T
    BY UnrunQuiet
  <2> HIDE DEF G, T, n
  <2>3. \E f : IsLoop(f, n, T, Unrun, G)
    BY <1>1, <2>1, <2>2, LoopExists
  <2> QED BY <2>3 DEF IsLoop
<1> HIDE DEF T
<1>4. \A i \in 1..n : f[i] = RunLine(f[i - 1], ls[i])
  <2> SUFFICES ASSUME NEW i \in 1..n PROVE f[i] = RunLine(f[i - 1], ls[i])
    OBVIOUS
  <2> HIDE DEF n
  <2>0. i - 1 \in 0..n /\ f[i - 1] \in T
    BY <1>1, <1>3
  <2>1. <<i, f[i - 1]>> \in (1..n) \X T
    BY <2>0
  <2> QED BY <1>3, <2>1
<1> HIDE DEF n
<1>5. f = D(f)
  BY <1>1, <1>3, <1>4
<1>6. c = D(c)
  <2> HIDE DEF D
  <2> QED BY <1>5
<1>7. RunLines(ls) = c[n]
  BY DEF RunLines, n
<1> HIDE DEF c
<1>8. c[0] = Unrun /\ \A i \in 1..n : c[i] = RunLine(c[i - 1], ls[i])
  BY <1>6, <1>1
<1> DEFINE S == {i \in 0..n : c[i] \in T}
<1>9. 0 \in S /\ \A i \in 1..n : i - 1 \in S => i \in S
  BY <1>1, <1>2, <1>8, UnrunQuiet DEF T
<1> HIDE DEF S
<1>10. 0..n \subseteq S
  BY <1>9, <1>1, Upto
<1>11. n \in S
  BY <1>1, <1>10
<1> QED BY <1>7, <1>11 DEF S, T

\* The lines of a text.
LEMMA LinesIs ==
  ASSUME NEW t \in Texts, t # NonString
  PROVE  /\ Lines(t) \in Seq(Seq(Words))
         /\ \A w \in SE!ToSet(t) \ {NL} : \E line \in SE!ToSet(Lines(t)) : w \in SE!ToSet(line)
<1> DEFINE at == {NL}
<1>1. t \in Seq(Words) /\ Len(t) \in Nat /\ SE!ToSet(t) = {t[i] : i \in 1..Len(t)}
  BY TextIs
<1> HIDE DEF at
<1>2. PICK f : IsSplit(f, t, at, Words) /\ Split(t, at) = f[Len(t)]
  BY <1>1, SplitIs
<1>3. Split(t, at) \in Seq(Seq(Words))
  BY <1>1, <1>2 DEF IsSplit
<1>4. ASSUME NEW w \in SE!ToSet(t), w \notin at
      PROVE  \E line \in SE!ToSet(Split(t, at)) : w \in SE!ToSet(line)
  <2>1. PICK j \in 1..Len(t) : w = t[j]
    BY <1>1
  <2> DEFINE ls == Split(t, at)
  <2>2. PICK k \in 1..Len(ls) : t[j] \in SE!ToSet(ls[k])
    BY <1>1, <1>4, <2>1, SplitKeeps
  <2> HIDE DEF ls
  <2>3. ls[k] \in SE!ToSet(ls)
    BY <1>3 DEF SE!ToSet, ls
  <2> QED BY <2>1, <2>2, <2>3 DEF ls
<1> QED BY <1>3, <1>4 DEF Lines, at

\* Junos set payloads.
LEMMA SetStaysInSession ==
  ASSUME NEW t \in Texts, t # NonString, CheckConfigText(t, "set")
  PROVE  ~Escapes(t, "set")
<1> DEFINE ls == Lines(t)
           st == RunLines(ls)
<1>1. ls \in Seq(Seq(Words))
  BY LinesIs
<1>2. \A line \in SE!ToSet(ls) : CheckJunosSetLine(line)
  BY DEF CheckConfigText
<1> HIDE DEF ls
<1>3. \A i \in 1..Len(ls) : CheckJunosSetLine(ls[i])
  BY <1>1, <1>2 DEF SE!ToSet
<1>4. st \in QuietStates
  BY <1>1, <1>3, LinesQuiet
<1> HIDE DEF st
<1>5. st.ran = FALSE /\ st.touched \subseteq Seq(QuietWords)
  BY <1>4 DEF QuietStates
<1>6. ASSUME NEW path \in st.touched PROVE ~IsRun(path)
  <2>1. path \in Seq(QuietWords)
    BY <1>5
  <2>2. \A i \in 1..Len(path) : path[i] \in QuietWords
    BY <2>1
  <2>3. ASSUME NEW i \in 1..Len(path), NEW k \in JunosRunners PROVE ~Means(path[i], k)
    <3> SUFFICES ASSUME NEW n \in 1..Len(k), Abbreviation(path[i], k, n) PROVE FALSE
      BY DEF Means
    <3>1. k \in Vocabulary /\ k \in JunosExecConfigWords
      BY DEF Vocabulary, JunosRunners, JunosExecConfigWords
    <3>2. path[i] \in Words /\ ~AbbreviatesAny(TrimWord(path[i]), JunosExecConfigWords)
      BY <2>2 DEF QuietWords
    <3>3. TrimWord(path[i]) = SubSeq(k, 1, n)
      BY <3>1, <3>2, TrimTakesQuotes
    <3> QED BY <3>1, <3>2, <3>3, BeginningAbbreviates DEF AbbreviatesAny
  <2>4. /\ \A i \in 1..Len(path) : ~Means(path[i], "event-options") /\ ~Means(path[i], "execute-commands")
        /\ \A i \in 1..Len(path) : ~Means(path[i], "scripts") /\ ~Means(path[i], "extensions")
    BY <2>3 DEF JunosRunners
  <2>5. \A i \in 1..Len(path) : i < Len(path) => i + 1 \in 1..Len(path)
    BY <2>1
  <2> QED BY <2>4, <2>5 DEF IsRun
<1>7. ~MakesSomethingRun(t)
  BY <1>5, <1>6 DEF MakesSomethingRun, st, ls
<1> QED BY <1>7 DEF Escapes

\* The first word of a line is the one a device reads.
LEMMA LeadingWordIs ==
  ASSUME NEW w \in Words, NEW k \in CliVerbs, Spells(w, 1, k)
  PROVE  AbbreviatesAny(LeadingWord(w), CliEscapeWords)
<1>1. k \in Vocabulary /\ k \in CliEscapeWords
  BY DEF Vocabulary, CliVerbs, CliEscapeWords, ModeWords, ShellWords, StateWords, ReadWords,
         HostWords, AliasWords, ScheduleWords, OtherWords
<1>2. Len(w) \in Nat /\ Len(k) \in Nat
  BY <1>1, CharsAssumption
<1>3. PICK n \in 1..Len(k) :
        /\ 1 + n - 1 <= Len(w) /\ SubSeq(w, 1, 1 + n - 1) = SubSeq(k, 1, n)
        /\ 1 + n - 1 = Len(w) \/ Chars(w)[1 + n] \notin NameChars
  BY DEF Spells
<1>4. n \in Nat /\ 1 + n - 1 = n /\ 1 \in 1..Len(w) /\ n <= Len(w)
  BY <1>2, <1>3
<1>5. \A i \in 1..n : Chars(w)[i] \in NameChars
  <2>1. \A i \in 1..(1 + n - 1) : Chars(w)[i] \in KeptChars
    BY <1>1, <1>3, <1>4, KeywordChars
  <2>2. KeptChars \subseteq NameChars
    BY Zenon DEF NameChars
  <2> QED BY <1>4, <2>1, <2>2
<1> DEFINE word == {i \in 1..Len(w) : \A j \in 1..i : Chars(w)[j] \in NameChars}
<1>6. word = 1..n
  <2>1. ASSUME NEW i \in 1..n PROVE i \in word
    BY <1>2, <1>4, <1>5
  <2>2. ASSUME NEW i \in word, i \notin 1..n PROVE FALSE
    <3>1. i \in 1..Len(w) /\ i > n /\ n # Len(w)
      BY <1>2, <1>4, <2>2
    <3>2. n + 1 \in 1..i
      BY <1>4, <3>1
    <3> QED BY <1>3, <1>4, <2>2, <3>1, <3>2
  <2> HIDE DEF word
  <2> QED BY <2>1, <2>2
<1>7. Cardinality(word) = n
  <2>1. 1 \in Int /\ n \in Int /\ ~(1 > n) /\ n - 1 + 1 = n
    BY <1>4
  <2>2. Cardinality(1..n) = IF 1 > n THEN 0 ELSE n - 1 + 1
    BY <2>1, FS_Interval
  <2> HIDE DEF word
  <2> QED BY <1>6, <2>1, <2>2
<1>8. LeadingWord(w) = SubSeq(k, 1, n)
  BY <1>3, <1>4, <1>7 DEF LeadingWord
<1> QED BY <1>1, <1>8, BeginningAbbreviates DEF AbbreviatesAny

\* What a device takes for autocommand is one to IsAutocommand.
LEMMA AutocommandIs ==
  ASSUME NEW w \in Words, RunsAtLogin(w)
  PROVE  IsAutocommand(w)
<1> DEFINE auto == Autocommand
<1>1. auto \in Vocabulary
  BY DEF Vocabulary
<1>2. PICK n \in 1..Len(auto) :
        /\ Abbreviation(w, auto, n)
        /\ \A k \in AutoKeywords : n <= Len(k) => SubSeq(k, 1, n) # SubSeq(auto, 1, n)
  BY DEF RunsAtLogin
<1>3. Len(auto) \in Nat /\ n \in Nat
  BY <1>1, CharsAssumption
<1>4. n >= 5
  <2>1. PICK k \in AutoKeywords : TRUE
    BY DEF AutoKeywords
  <2> SUFFICES ASSUME n \in 1..4 PROVE FALSE
    BY <1>3
  <2> QED BY <1>2, <2>1, CharsAssumption
<1>5. TrimWord(w) = SubSeq(auto, 1, n)
  BY <1>1, <1>2, TrimTakesQuotes
<1>6. IsAbbrevOf(SubSeq(auto, 1, n), auto) /\ Len(SubSeq(auto, 1, n)) = n
  BY <1>1, BeginningAbbreviates
<1>7. Len(TrimWord(w)) >= 5 /\ HasPrefix(auto, TrimWord(w))
  BY <1>4, <1>5, <1>6 DEF IsAbbrevOf
<1> QED BY <1>7 DEF IsAutocommand, Autocommand

\* CLI payloads.
LEMMA CliStaysInSession ==
  ASSUME NEW t \in Texts, t # NonString, CheckConfigText(t, "cli")
  PROVE  ~Escapes(t, "cli")
<1> DEFINE ls == Lines(t)
<1>0. ls \in Seq(Seq(Words))
  BY LinesIs
<1>1. \A line \in SE!ToSet(ls) : CheckCLIConfigLine(line)
  BY DEF CheckConfigText
<1>2. \A w \in SE!ToSet(t) : w \in {NL} <=> w \in {NL} \cup PayloadSeparators
  <2> SUFFICES ASSUME NEW w \in SE!ToSet(t), w # NL, w \in PayloadSeparators PROVE FALSE
    OBVIOUS
  <2>1. PICK line \in SE!ToSet(ls) : w \in SE!ToSet(line)
    BY LinesIs
  <2>2. ~HasSeparator(line)
    BY <1>1 DEF CheckCLIConfigLine
  <2> QED BY <2>1, <2>2, StringsAssumption DEF HasSeparator
<1> DEFINE at == {NL}
           bt == {NL} \cup PayloadSeparators
<1>3. \A i \in 1..Len(t) : t[i] \in at <=> t[i] \in bt
  BY <1>2, TextIs
<1> HIDE DEF at, bt
<1>4. Split(t, at) = Split(t, bt)
  BY <1>3, TextIs, SplitAlike
<1>5. Statements(t, PayloadSeparators) = SE!ToSet(ls) \ {<<>>}
  BY <1>4 DEF Statements, Lines, at, bt
<1> HIDE DEF ls
<1>6. ASSUME NEW s \in SE!ToSet(ls), s # <<>> PROVE ~LeavesSession(s)
  <2>1. CheckCLIConfigLine(s) /\ s \in Seq(Words)
    BY <1>0, <1>1 DEF SE!ToSet
  <2>2. /\ s[1] \in Words /\ \A w \in SE!ToSet(s) : w \in Words
    BY <1>6, <2>1 DEF SE!ToSet
  <2>3. ASSUME NEW w \in SE!ToSet(s), NEW p \in 2..Len(w) PROVE Chars(w)[p - 1] # ";"
    <3>1. Len(w) \in Nat
      BY <2>2, CharsAssumption
    <3>2. ";" \notin SE!ToSet(Chars(w))
      BY <2>1 DEF CheckCLIConfigLine, HasSeparator
    <3>3. p - 1 \in DOMAIN Chars(w)
      BY <3>1 DEF Chars
    <3> QED BY <3>2, <3>3 DEF SE!ToSet
  <2>4. ASSUME Chars(s[1])[1] # CommentMark PROVE ~HasPrefix(s[1], CommentMark)
    <3>1. Len(CommentMark) = 1 /\ Len(s[1]) \in Nat
      BY <2>2, CharsAssumption
    <3> QED BY <2>4, <3>1 DEF HasPrefix, Chars
  <2>5. ASSUME Chars(s[1])[1] # CommentMark, NEW k \in CliVerbs PROVE ~Spells(s[1], 1, k)
    BY <1>6, <2>1, <2>2, <2>4, <2>5, LeadingWordIs, Zenon DEF CheckCLIConfigLine, CommentMark
  <2>6. ASSUME Chars(s[1])[1] # CommentMark, NEW w \in SE!ToSet(s) PROVE ~RunsAtLogin(w)
    BY <1>6, <2>1, <2>2, <2>4, <2>6, AutocommandIs, Zenon DEF CheckCLIConfigLine, CommentMark
  <2> QED BY <2>3, <2>5, <2>6 DEF LeavesSession
<1> QED BY <1>5, <1>6 DEF Escapes

\* Junos text and xml payloads.
LEMMA DataStaysInSession ==
  ASSUME NEW t \in Texts, t # NonString, NEW f \in {"text", "xml"}, CheckConfigText(t, f)
  PROVE  ~Escapes(t, f)
<1>1. \A line \in SE!ToSet(Lines(t)) : CheckJunosDataLine(line, f)
  BY DEF CheckConfigText
<1>2. ASSUME NEW w \in SE!ToSet(t) \ {NL}
      PROVE  /\ \A k \in JunosRunners : ~HoldsName(w, k)
             /\ f = "xml" => ~DeclaresEntity(w)
  <2>1. PICK line \in SE!ToSet(Lines(t)) : w \in SE!ToSet(line)
    BY LinesIs
  <2>2. /\ \A x \in JunosExecConfigWords : ~InWord(w, x)
        /\ f = "xml" => ~InWord(w, "<!")
    BY <1>1, <2>1, Zenon DEF CheckJunosDataLine
  <2>3. w \in Words /\ Len(w) \in Nat
    BY TextIs, CharsAssumption
  <2>4. ASSUME NEW k, Len(k) \in Nat, NEW at \in 1..(Len(w) - Len(k) + 1),
               SubSeq(w, at, at + Len(k) - 1) = k
        PROVE  InWord(w, k)
    <3>1. /\ at - 1 \in 0..(Len(w) - Len(k)) /\ (at - 1) + 1 = at
          /\ (at - 1) + Len(k) = at + Len(k) - 1
      BY <2>3, <2>4
    <3>2. \E i \in 0..(Len(w) - Len(k)) : SubSeq(w, i + 1, i + Len(k)) = k
      BY <2>4, <3>1
    <3> QED BY <3>2 DEF InWord
  <2>5. ASSUME NEW k \in JunosRunners PROVE ~HoldsName(w, k)
    <3>1. k \in JunosExecConfigWords /\ Len(k) \in Nat
      BY CharsAssumption DEF JunosRunners, JunosExecConfigWords, Vocabulary
    <3> QED BY <2>2, <2>4, <3>1 DEF HoldsName
  <2>6. ASSUME f = "xml" PROVE ~DeclaresEntity(w)
    <3> DEFINE k == EntityMark
    <3>1. Len(k) = 2
      BY CharsAssumption
    <3> HIDE DEF k
    <3>2. ASSUME NEW at \in 1..(Len(w) - 1), SubSeq(w, at, at + 1) = k PROVE InWord(w, k)
      <4>1. Len(w) - Len(k) + 1 = Len(w) - 1 /\ at + Len(k) - 1 = at + 1 /\ Len(k) \in Nat
        BY <2>3, <3>1
      <4> QED BY <2>4, <3>2, <4>1
    <3>3. ~InWord(w, k)
      BY <2>2, <2>6, Zenon DEF k, EntityMark
    <3> QED BY <3>2, <3>3 DEF DeclaresEntity, k
  <2> QED BY <2>5, <2>6
<1> QED BY <1>2 DEF Escapes

\* No payload of a configuration tool that is forwarded as less than
\* EXEC_ARBITRARY leaves configuration mode or makes something run in a way
\* classification.md 11.2 and 11.3 document (checkConfigPayload), for any
\* profile, call and text.
THEOREM WritesAlwaysStay == CallSpec => []WriteStaysInSession
<1>1. Given => WriteStaysInSession
  <2> DEFINE spec == SpecOf(call)
             format == ConfigFormat(spec, call.args)
  <2> SUFFICES ASSUME Given, Forwarded, InProfile(call), spec.class # "EXEC_ARBITRARY",
                      ruling.class # "EXEC_ARBITRARY", NEW t \in ConfigLines(spec, call.args)
               PROVE  ~Escapes(t, LoadedAs(spec, call.args))
    BY DEF WriteStaysInSession
  <2>1. spec.capabilityParam = NoParam
    BY MetaToolsAssumption DEF InProfile, HasProfile, SpecOf
  <2>2. ~Refused(call) /\ ClassifyTool(spec, call.args).class # "EXEC_ARBITRARY"
    BY ForwardedClass
  <2>3. PICK p \in spec.configParams : t \in Items(call.args, p)
    BY DEF ConfigLines
  <2>4. t \in Texts
    BY <2>3, ItemIsText DEF Given
  <2>5. t # NonString
    <3>1. p \in DOMAIN call.args /\ p \in CheckedParams(spec)
      BY <2>3 DEF Items, CheckedParams
    <3>2. StringOrStrings(call.args[p])
      BY <2>2, <3>1 DEF Refused, MalformedArgs
    <3>3. WellFormed(call.args[p])
      BY <3>1, CallsAssumption DEF Given
    <3>4. PICK i \in DOMAIN call.args[p].items : t = call.args[p].items[i]
      BY <2>3, <3>1 DEF Items
    <3> QED BY <3>2, <3>3, <3>4 DEF StringOrStrings, WellFormed
  <2> HIDE DEF spec
  <2>6. ~BadConfig(t, format)
    BY <2>1, <2>2 DEF ClassifyTool, Result
  <2>7. CASE ~spec.junosLoad
    <3>1. format = "cli" /\ LoadedAs(spec, call.args) = "cli"
      BY <2>7 DEF ConfigFormat, LoadedAs
    <3>2. CheckConfigText(t, "cli")
      BY <2>4, <2>5, <2>6, <3>1, ClassifierAssumption
    <3> QED BY <2>4, <2>5, <3>1, <3>2, CliStaysInSession
  <2> DEFINE data == /\ "config_format" \in DOMAIN call.args
                     /\ call.args["config_format"].kind = "string"
                     /\ call.args["config_format"].items[1] \in {<<"text">>, <<"xml">>}
  <2>8. CASE spec.junosLoad /\ data
    <3>1. format \in {"text", "xml"} /\ LoadedAs(spec, call.args) = format
      BY <2>8, ClassifierAssumption DEF ConfigFormat, LoadedAs
    <3>2. CheckConfigText(t, format)
      BY <2>4, <2>5, <2>6, <3>1, ClassifierAssumption
    <3> HIDE DEF format
    <3> QED BY <2>4, <2>5, <3>1, <3>2, DataStaysInSession
  <2>9. CASE spec.junosLoad /\ ~data
    <3>1. format = "set" /\ LoadedAs(spec, call.args) = "set"
      BY <2>9, ClassifierAssumption DEF ConfigFormat, LoadedAs
    <3>2. CheckConfigText(t, "set")
      BY <2>4, <2>5, <2>6, <3>1, ClassifierAssumption
    <3> QED BY <2>4, <2>5, <3>1, <3>2, SetStaysInSession
  <2> QED BY <2>7, <2>8, <2>9
<1> QED BY AlwaysGiven, <1>1, PTL

-----------------------------------------------------------------------------
(* What the operator is told *)

LEMMA NetCountIs ==
  ASSUME Given
  PROVE  NetCount \in Nat /\ DevicesTouched(NetCount, {}, Names(call)) = NetCount
<1> DEFINE N == Names(call)
           n == counter.count - Cardinality(N \cap counter.counted)
<1>1. counter.count \in Nat /\ Cardinality(N \cap counter.counted) \in Nat
  <2>1. counter.count \in Nat /\ IsFiniteSet(counter.counted)
    BY CountersAssumption DEF Given
  <2>2. IsFiniteSet(N \cap counter.counted)
    BY <2>1, FS_Intersection
  <2> QED BY <2>1, <2>2, FS_CardinalityType
<1>2. NetCount = IF n < 0 THEN 0 ELSE n
  BY DEF NetCount, DevicesTouched
<1>3. NetCount \in Nat
  BY <1>1, <1>2
<1>4. N \cap {} = {} /\ Cardinality({}) = 0
  BY FS_EmptySet
<1> HIDE DEF N
<1>5. DevicesTouched(NetCount, {}, N) = NetCount
  BY <1>3, <1>4 DEF DevicesTouched
<1> QED BY <1>3, <1>5 DEF N

\* Explained again with the devices beside its own, a call is explained alike.
LEMMA ExplainedAlike ==
  ASSUME Given
  PROVE  Explain(policy, call, NetCount, {}) = Explain(policy, call, counter.count, counter.counted)
<1>1. DevicesTouched(NetCount, {}, Names(call))
        = DevicesTouched(counter.count, counter.counted, Names(call))
  BY NetCountIs DEF NetCount
<1>2. Request(call, NetCount, {}) = Request(call, counter.count, counter.counted)
  BY <1>1 DEF Request
<1> QED BY <1>2 DEF Explain

\* The call of a case is the call it was written down from.
LEMMA CallOfCaseIs ==
  ASSUME NEW in \in Calls, NEW n
  PROVE  CallOfCase(RequestFrom(in, n)) = in
<1> DEFINE r == RequestFrom(in, n)
           key == IF in.parse = "" THEN "arguments" ELSE "argumentsJSON"
           sent == IF in.parse = "" THEN in.args ELSE [parse |-> in.parse, args |-> in.args]
           hints == [readOnlyHint |-> in.readOnlyHint, destructiveHint |-> in.destructiveHint]
<1>1. /\ DOMAIN r = {"server", "tool", "devicesTouched", "pendingHolds", "annotations", key}
      /\ r["server"] = in.server /\ r["tool"] = in.tool /\ r["devicesTouched"] = n
      /\ r["pendingHolds"] = in.pendingHolds /\ r["annotations"] = hints /\ r[key] = sent
  BY DEF RequestFrom, With
<1> HIDE DEF r
<1>2. in = [server |-> in.server, tool |-> in.tool, parse |-> in.parse, args |-> in.args,
            readOnlyHint |-> in.readOnlyHint, destructiveHint |-> in.destructiveHint,
            pendingHolds |-> in.pendingHolds]
  BY CallsAssumption DEF CallFields
<1> DEFINE found == IF "argumentsJSON" \in DOMAIN r THEN r.argumentsJSON
                    ELSE [parse |-> "", args |-> r.arguments]
           asked == IF "annotations" \in DOMAIN r THEN r.annotations
                    ELSE [readOnlyHint |-> "absent", destructiveHint |-> "absent"]
           sentParse == found.parse
           sentArgs  == found.args
           readOnly  == asked.readOnlyHint
           destroys  == asked.destructiveHint
<1>3. CallOfCase(r) = [server |-> r.server, tool |-> r.tool, parse |-> sentParse, args |-> sentArgs,
                       readOnlyHint |-> readOnly, destructiveHint |-> destroys,
                       pendingHolds |-> r.pendingHolds]
  BY Zenon DEF CallOfCase
<1>4. readOnly = in.readOnlyHint /\ destroys = in.destructiveHint
  <2>1. asked = hints
    BY <1>1
  <2> HIDE DEF asked
  <2> QED BY <2>1
<1>5. sentParse = in.parse /\ sentArgs = in.args
  <2>1. CASE in.parse = ""
    <3>1. found = [parse |-> "", args |-> in.args]
      BY <1>1, <2>1
    <3> HIDE DEF found
    <3> QED BY <2>1, <3>1
  <2>2. CASE in.parse # ""
    <3>1. found = [parse |-> in.parse, args |-> in.args]
      BY <1>1, <2>2
    <3> HIDE DEF found
    <3> QED BY <3>1
  <2> QED BY <2>1, <2>2
<1>6. r.server = in.server /\ r.tool = in.tool /\ r.pendingHolds = in.pendingHolds
  BY <1>1
<1> HIDE DEF sentParse, sentArgs, readOnly, destroys
<1>7. CallOfCase(r) = in
  BY <1>2, <1>3, <1>4, <1>5, <1>6
<1> QED BY <1>7 DEF r

\* What a line has beside its attributes.
OptionalFields == {"parse_error", "unnamed_args", "malformed_args"}

\* What a line and its error say is what the decision is.
Consistent(ex) ==
  /\ ex.decision.effect = ex.record.decision /\ ex.record.decision \in Effects
  /\ ex.decision.rule = ex.record.rule_id
  /\ ex.verdict.class = ex.record.class /\ ex.record.class \in Classes
  /\ ex.verdict.source = ex.record.class_source /\ ex.record.class_source \in Sources
  /\ ex.verdict.targets = ex.record.targets
  /\ ex.verdict.forward = ex.record.forwarded
  /\ DOMAIN ex.detail \subseteq OptionalFields
  /\ DOMAIN ex.detail # {} => ex.record.rule_id = BadArguments
  /\ "parse_error" \in DOMAIN ex.detail => ex.detail["parse_error"] \in ParseErrors

LEMMA ExpectIs ==
  ASSUME NEW ex, Consistent(ex)
  PROVE  LET E == ExpectFrom(ex)
         IN /\ DOMAIN E = (ExpectFields \ OptionalFields) \cup DOMAIN ex.detail
            /\ E["effect"] = ex.decision.effect /\ E["rule"] = ex.decision.rule
            /\ E["obligations"] = ex.record.obligations
            /\ E["class"] = ex.verdict.class /\ E["class_source"] = ex.verdict.source
            /\ E["targets"] = ex.verdict.targets
            /\ E["unknown_target"] = ex.record.unknown_target
            /\ E["forwarded"] = ex.verdict.forward /\ E["tool_error"] = ex.error
            /\ \A f \in DOMAIN ex.detail : E[f] = ex.detail[f]
<1> DEFINE told == [effect |-> ex.record.decision, rule |-> ex.record.rule_id,
               obligations |-> ex.record.obligations, class |-> ex.record.class,
               class_source |-> ex.record.class_source, targets |-> ex.record.targets,
               unknown_target |-> ex.record.unknown_target,
               forwarded |-> ex.record.forwarded, tool_error |-> ex.error]
<1>1. /\ DOMAIN told = ExpectFields \ OptionalFields
      /\ told["effect"] = ex.record.decision /\ told["rule"] = ex.record.rule_id
      /\ told["obligations"] = ex.record.obligations
      /\ told["class"] = ex.record.class /\ told["class_source"] = ex.record.class_source
      /\ told["targets"] = ex.record.targets
      /\ told["unknown_target"] = ex.record.unknown_target
      /\ told["forwarded"] = ex.record.forwarded /\ told["tool_error"] = ex.error
  BY DEF ExpectFields, OptionalFields, GateFields
<1>2. ExpectFrom(ex) = [f \in DOMAIN told \cup DOMAIN ex.detail |->
                          IF f \in DOMAIN told THEN told[f] ELSE ex.detail[f]]
  BY DEF ExpectFrom
<1> HIDE DEF told
<1>3. {"effect", "rule", "obligations", "class", "class_source", "targets", "unknown_target",
       "forwarded", "tool_error"} \subseteq DOMAIN told
  BY <1>1 DEF ExpectFields, OptionalFields, GateFields
<1>4. \A f \in DOMAIN ex.detail : f \notin DOMAIN told
  BY <1>1 DEF Consistent
<1> DEFINE E == ExpectFrom(ex)
<1>5. /\ DOMAIN E = DOMAIN told \cup DOMAIN ex.detail
      /\ \A f \in DOMAIN told : E[f] = told[f]
      /\ \A f \in DOMAIN ex.detail : E[f] = ex.detail[f]
  BY <1>2, <1>4
<1> HIDE DEF E
<1> QED BY <1>1, <1>3, <1>5 DEF Consistent, E

\* A case passes just when each expectation is the line's, or an empty list where
\* the line has none.
LEMMA AgreesIs ==
  ASSUME NEW ex, Consistent(ex), NEW e, DOMAIN e \subseteq ExpectFields,
         "effect" \in DOMAIN e
  PROVE  AgreesGate(e, ex) <=>
           \A f \in DOMAIN e : IF f \in DOMAIN ExpectFrom(ex) THEN e[f] = ExpectFrom(ex)[f]
                               ELSE f # "parse_error" /\ e[f] = NoNames
<1> DEFINE E == ExpectFrom(ex)
           Right(f) == f \in DOMAIN e => IF f \in DOMAIN E THEN e[f] = E[f]
                                         ELSE f # "parse_error" /\ e[f] = NoNames
<1>1. /\ DOMAIN E = (ExpectFields \ OptionalFields) \cup DOMAIN ex.detail
      /\ E["effect"] = ex.decision.effect /\ E["rule"] = ex.decision.rule
      /\ E["obligations"] = ex.record.obligations
      /\ E["class"] = ex.verdict.class /\ E["class_source"] = ex.verdict.source
      /\ E["targets"] = ex.verdict.targets
      /\ E["unknown_target"] = ex.record.unknown_target
      /\ E["forwarded"] = ex.verdict.forward /\ E["tool_error"] = ex.error
      /\ \A f \in DOMAIN ex.detail : E[f] = ex.detail[f]
  BY ExpectIs
<1>2. DOMAIN ex.detail \subseteq OptionalFields
  BY DEF Consistent
<1> HIDE DEF E
<1>3. {"effect", "rule", "obligations", "class", "class_source", "targets", "unknown_target",
       "forwarded", "tool_error"} \subseteq DOMAIN E
  BY <1>1 DEF ExpectFields, OptionalFields, GateFields
<1>4. \A f \in OptionalFields : f \in DOMAIN E <=> f \in DOMAIN ex.detail
  BY <1>1, <1>2
<1>5. Right("effect") <=> e.effect = ex.decision.effect
  BY <1>1, <1>3
<1>6. Right("rule") <=> Asserted(e, "rule", ex.decision.rule)
  BY <1>1, <1>3 DEF Asserted
<1>7. Right("obligations") <=> Asserted(e, "obligations", ex.record.obligations)
  BY <1>1, <1>3 DEF Asserted
<1>8. Right("class") <=> Asserted(e, "class", ex.verdict.class)
  BY <1>1, <1>3 DEF Asserted
<1>9. Right("class_source") <=> Asserted(e, "class_source", ex.verdict.source)
  BY <1>1, <1>3 DEF Asserted
<1>10. Right("targets") <=> Asserted(e, "targets", ex.verdict.targets)
  BY <1>1, <1>3 DEF Asserted
<1>11. Right("unknown_target") <=> Asserted(e, "unknown_target", ex.record.unknown_target)
  BY <1>1, <1>3 DEF Asserted
<1>12. Right("forwarded") <=> Asserted(e, "forwarded", ex.verdict.forward)
  BY <1>1, <1>3 DEF Asserted
<1>13. Right("tool_error") <=> Asserted(e, "tool_error", ex.error)
  BY <1>1, <1>3 DEF Asserted
<1>14. Right("parse_error") <=>
        ("parse_error" \in DOMAIN e =>
           "parse_error" \in DOMAIN ex.detail /\ e.parse_error = ex.detail["parse_error"])
  BY <1>1, <1>4 DEF OptionalFields
<1>15. Right("unnamed_args") <=> SameNames(e, "unnamed_args", ex.detail)
  BY <1>1, <1>4 DEF OptionalFields, SameNames, Asserted
<1>16. Right("malformed_args") <=> SameNames(e, "malformed_args", ex.detail)
  BY <1>1, <1>4 DEF OptionalFields, SameNames, Asserted
<1>17. (\A f \in DOMAIN e : Right(f)) <=>
         /\ Right("effect") /\ Right("rule") /\ Right("obligations") /\ Right("class")
         /\ Right("class_source") /\ Right("targets") /\ Right("unknown_target")
         /\ Right("forwarded") /\ Right("tool_error") /\ Right("parse_error")
         /\ Right("unnamed_args") /\ Right("malformed_args")
  <2> HIDE DEF Right
  <2>1. (\A f \in DOMAIN e : Right(f)) <=> \A f \in ExpectFields : Right(f)
    BY DEF Right
  <2> QED BY <2>1 DEF ExpectFields, GateFields
<1>18. AgreesGate(e, ex) <=>
         /\ Right("effect") /\ Right("rule") /\ Right("obligations") /\ Right("class")
         /\ Right("class_source") /\ Right("targets") /\ Right("unknown_target")
         /\ Right("forwarded") /\ Right("tool_error") /\ Right("parse_error")
         /\ Right("unnamed_args") /\ Right("malformed_args")
  <2> HIDE DEF Right
  <2> QED BY <1>5, <1>6, <1>7, <1>8, <1>9, <1>10, <1>11, <1>12, <1>13, <1>14, <1>15, <1>16
      DEF AgreesGate, Mismatch
<1>19. (\A f \in DOMAIN e : Right(f)) <=>
        \A f \in DOMAIN e : IF f \in DOMAIN E THEN e[f] = E[f]
                            ELSE f # "parse_error" /\ e[f] = NoNames
  BY DEF Right
<1> HIDE DEF Right
<1>20. AgreesGate(e, ex) <=>
        \A f \in DOMAIN e : IF f \in DOMAIN E THEN e[f] = E[f]
                            ELSE f # "parse_error" /\ e[f] = NoNames
  BY <1>17, <1>18, <1>19
<1> QED BY <1>20 DEF E

\* The fields of a request written down.
LEMMA RequestFromIs ==
  ASSUME NEW in, NEW n
  PROVE  LET r == RequestFrom(in, n)
         IN /\ IF in.parse = "" THEN ArgumentFields \cap DOMAIN r = {"arguments"}
               ELSE ArgumentFields \cap DOMAIN r = {"argumentsJSON"}
            /\ DOMAIN r \cap {"class", "targets"} = {}
            /\ r.server = in.server
            /\ r.devicesTouched = n
<1> DEFINE r == RequestFrom(in, n)
           key == IF in.parse = "" THEN "arguments" ELSE "argumentsJSON"
<1>1. /\ DOMAIN r = {"server", "tool", "devicesTouched", "pendingHolds", "annotations", key}
      /\ r["server"] = in.server /\ r["devicesTouched"] = n
  BY DEF RequestFrom, With
<1> HIDE DEF r
<1>2. CASE in.parse = ""
  BY <1>1, <1>2 DEF ArgumentFields, r
<1>3. CASE in.parse # ""
  BY <1>1, <1>3 DEF ArgumentFields, r
<1> QED BY <1>2, <1>3

\* A case of this call is loaded just when the server has a profile and its
\* expectations are ones it may have.
LEMMA LoadsIs ==
  ASSUME NEW in, NEW n, NEW e, "rule" \in DOMAIN e
  PROVE  Loads([request |-> RequestFrom(in, n), expect |-> e]) <=>
           /\ HasProfile(in)
           /\ e.effect \in Effects /\ Within(e, "class", Classes)
           /\ Within(e, "class_source", Sources) /\ Within(e, "parse_error", ParseErrors)
           /\ DOMAIN e \cap OptionalFields # {} => e.rule = BadArguments
<1> DEFINE r == RequestFrom(in, n)
           c == [request |-> r, expect |-> e]
<1>1. c.request = r /\ c.expect = e
  OBVIOUS
<1>2. /\ ArgumentFields \cap DOMAIN r # {} /\ ~(ArgumentFields \subseteq DOMAIN r)
      /\ DOMAIN r \cap {"class", "targets"} = {} /\ r.server = in.server
  <2>1. /\ ArgumentFields \cap DOMAIN r = {"arguments"} \/ ArgumentFields \cap DOMAIN r = {"argumentsJSON"}
        /\ DOMAIN r \cap {"class", "targets"} = {} /\ r.server = in.server
    BY RequestFromIs
  <2> HIDE DEF r
  <2> QED BY <2>1 DEF ArgumentFields
<1> HIDE DEF r, c
<1>3. IsGate(c)
  BY <1>1, <1>2 DEF IsGate
<1>4. Loads(c) <=> e.effect \in Effects /\ CheckGate(r, e) /\ in.server \in DOMAIN Profiles
  BY <1>1, <1>2, <1>3 DEF Loads
<1>5. CheckGate(r, e) <=>
        /\ Within(e, "class", Classes) /\ Within(e, "class_source", Sources)
        /\ Within(e, "parse_error", ParseErrors)
        /\ DOMAIN e \cap OptionalFields # {} => e.rule = BadArguments
  BY <1>2 DEF CheckGate, OptionalFields
<1>6. Loads(c) <=>
           /\ HasProfile(in)
           /\ e.effect \in Effects /\ Within(e, "class", Classes)
           /\ Within(e, "class_source", Sources) /\ Within(e, "parse_error", ParseErrors)
           /\ DOMAIN e \cap OptionalFields # {} => e.rule = BadArguments
  BY <1>4, <1>5 DEF HasProfile
<1> QED BY <1>6 DEF r, c

\* A case written down from a line stands for it.
LEMMA LineStands ==
  ASSUME NEW ex, Consistent(ex), NEW n
  PROVE  StandsFor(CaseOf(call, ex, n), ex)
<1> DEFINE E == ExpectFrom(ex)
           r == RequestFrom(call, n)
           c == CaseOf(call, ex, n)
<1>1. /\ DOMAIN E = (ExpectFields \ OptionalFields) \cup DOMAIN ex.detail
      /\ E["effect"] = ex.decision.effect /\ E["rule"] = ex.decision.rule
      /\ E["class"] = ex.verdict.class /\ E["class_source"] = ex.verdict.source
      /\ \A f \in DOMAIN ex.detail : E[f] = ex.detail[f]
  BY ExpectIs
<1>2. /\ E["effect"] \in Effects /\ E["class"] \in Classes /\ E["class_source"] \in Sources
      /\ "parse_error" \in DOMAIN E => E["parse_error"] \in ParseErrors
      /\ DOMAIN E \cap OptionalFields # {} => E["rule"] = BadArguments
      /\ DOMAIN E \subseteq ExpectFields
      /\ E = [f \in DOMAIN E |-> E[f]]
  <2>1. E = [f \in DOMAIN E |-> E[f]]
    BY DEF ExpectFrom
  <2> HIDE DEF E
  <2>2. DOMAIN ex.detail \subseteq OptionalFields /\ OptionalFields \subseteq ExpectFields
    BY DEF Consistent, OptionalFields, ExpectFields, GateFields
  <2>3. "parse_error" \in OptionalFields
    BY DEF OptionalFields
  <2> QED BY <1>1, <2>1, <2>2, <2>3 DEF Consistent
<1>3. {"effect", "rule", "class", "class_source"} \subseteq DOMAIN E \ OptionalFields
  BY <1>1, <1>2 DEF ExpectFields, OptionalFields, GateFields, Consistent
<1>4. c = [request |-> r, expect |-> E]
  BY DEF CaseOf
<1> HIDE DEF E, c, r
<1> SUFFICES ASSUME NEW field \in ExpectFields, NEW value
             PROVE  LET other == [c EXCEPT !.expect = With(@, field, value)]
                    IN (Loads(other) /\ AgreesGate(other.expect, ex))
                         <=> (HasProfile(call) /\ Says(c, field, value))
  BY Zenon DEF StandsFor, c
<1> DEFINE e == With(E, field, value)
<1>5. [c EXCEPT !.expect = With(@, field, value)] = [request |-> r, expect |-> e]
  BY <1>4
<1>6. c.expect = E
  BY <1>4
<1>7. /\ DOMAIN e = DOMAIN E \cup {field} /\ e[field] = value
      /\ \A f \in DOMAIN E \ {field} : e[f] = E[f]
      /\ e = [f \in DOMAIN e |-> e[f]]
  BY DEF With
<1> HIDE DEF e
<1>8. AgreesGate(e, ex) <=>
        IF field \in DOMAIN E THEN value = E[field] ELSE field # "parse_error" /\ value = NoNames
  <2>1. DOMAIN e \subseteq ExpectFields /\ "effect" \in DOMAIN e
    BY <1>2, <1>3, <1>7
  <2>2. AgreesGate(e, ex) <=>
          \A f \in DOMAIN e : IF f \in DOMAIN E THEN e[f] = E[f]
                              ELSE f # "parse_error" /\ e[f] = NoNames
    BY <2>1, AgreesIs DEF E
  <2> QED BY <1>7, <2>2
<1>9. Loads([request |-> r, expect |-> e]) <=>
           /\ HasProfile(call)
           /\ e.effect \in Effects /\ Within(e, "class", Classes)
           /\ Within(e, "class_source", Sources) /\ Within(e, "parse_error", ParseErrors)
           /\ DOMAIN e \cap OptionalFields # {} => e.rule = BadArguments
  <2>1. "rule" \in DOMAIN e
    BY <1>3, <1>7
  <2> QED BY <2>1, LoadsIs DEF r
<1>10. CASE field \in DOMAIN E
  <2>1. Says(c, field, value) <=> value = E[field]
    BY <1>6, <1>10 DEF Says
  <2>2. ASSUME value = E[field]
        PROVE  Loads([request |-> r, expect |-> e]) <=> HasProfile(call)
    <3>1. e = E
      BY <1>2, <1>7, <1>10, <2>2
    <3> QED BY <1>2, <1>3, <1>9, <3>1 DEF Within
  <2> QED BY <1>5, <1>8, <1>10, <2>1, <2>2
<1>11. CASE field \notin DOMAIN E
  <2>1. field \in OptionalFields
    BY <1>1, <1>11
  <2>2. Says(c, field, value) <=>
          field # "parse_error" /\ E.rule = BadArguments /\ value = NoNames
    BY <1>6, <1>11, <2>1 DEF Says, OptionalFields
  <2>3. ASSUME field # "parse_error", value = NoNames
        PROVE  Loads([request |-> r, expect |-> e]) <=> HasProfile(call) /\ E.rule = BadArguments
    <3>1. /\ e.effect = E.effect /\ e["class"] = E["class"] /\ e.class_source = E.class_source
          /\ e.rule = E.rule /\ DOMAIN e \cap OptionalFields # {}
          /\ "parse_error" \in DOMAIN e => "parse_error" \in DOMAIN E /\ e.parse_error = E.parse_error
      BY <1>3, <1>7, <1>11, <2>1, <2>3
    <3> QED BY <1>2, <1>3, <1>9, <3>1 DEF Within
  <2> QED BY <1>5, <1>8, <1>11, <2>2, <2>3
<1> QED BY <1>10, <1>11

\* Where a class comes from is one of the six.
LEMMA SourceIsKnown ==
  ASSUME NEW in, NEW args
  PROVE  Classification(in, args).source \in Sources
<1>1. ASSUME NEW spec PROVE ClassifyTool(spec, args).source \in Sources
  <2>1. ClassifyCommands(Commands(spec, args)) \in {"EXEC_ARBITRARY", "READ_OPERATIONAL", "READ_CONFIG"}
    BY DEF ClassifyCommands
  <2>2. ClassifyByCommands(spec, args).source \in Sources
    BY <2>1 DEF ClassifyByCommands, Result, Sources
  <2> QED BY <2>2 DEF ClassifyTool, Result, Sources
<1>2. Fallback.source \in Sources /\ Result("EXEC_ARBITRARY", "annotation_raise").source \in Sources
  BY DEF Fallback, Result, Sources
<1> QED BY <1>1, <1>2 DEF Classification

\* A line tells more only of a call that is refused.
LEMMA DetailIs ==
  ASSUME NEW in \in Calls
  PROVE  /\ DOMAIN Detail(in) \subseteq OptionalFields
         /\ DOMAIN Detail(in) # {} => Refused(in)
         /\ "parse_error" \in DOMAIN Detail(in) => Detail(in)["parse_error"] \in ParseErrors
<1>1. DOMAIN Detail(in) = Shown(in)
  BY DEF Detail
<1>2. Shown(in) \subseteq OptionalFields
  BY DEF Shown, OptionalFields
<1>3. ASSUME ParseError(in) # "" PROVE Refused(in) /\ ParseError(in) \in ParseErrors
  <2>1. in.parse \in ParseErrors \cup {""}
    BY DecodedAssumption
  <2>2. "too_many_commands" \in ParseErrors /\ "too_many_targets" \in ParseErrors
    BY DEF ParseErrors
  <2>3. ParseError(in) \in ParseErrors
    BY <1>3, <2>1, <2>2 DEF ParseError
  <2>4. ~Readable(in)
    BY <1>3 DEF ParseError, Readable
  <2> QED BY <2>3, <2>4 DEF Refused
<1>4. ASSUME Unnamed(in) # {} PROVE Refused(in)
  BY <1>4 DEF Unnamed, Refused, InProfile
<1>5. ASSUME Malformed(in) # {} PROVE Refused(in)
  BY <1>5 DEF Malformed, Refused
<1>6. Shown(in) # {} => Refused(in)
  BY <1>3, <1>4, <1>5 DEF Shown
<1>7. "parse_error" \in Shown(in) =>
        ParseError(in) # "" /\ Detail(in)["parse_error"] = ParseError(in)
  BY DEF Shown, Detail
<1> QED BY <1>1, <1>2, <1>3, <1>6, <1>7

\* A call explained is a call decided, and the line is consistent.
LEMMA ExplainIs ==
  ASSUME Given
  PROVE  LET ex == Explain(policy, call, counter.count, counter.counted)
         IN ex.verdict = Decide(policy, call, counter.count, counter.counted) /\ Consistent(ex)
<1> DEFINE count == counter.count
           counted == counter.counted
           D == IF Refused(call) THEN Denied(BadArguments)
                ELSE Evaluate(policy, Request(call, count, counted))
           R == IF Refused(call) THEN {} ELSE {Resolve(n) : n \in Names(call)}
           A == Classification(call, IF Readable(call) THEN call.args ELSE NoArgs)
           T == {t.name : t \in R}
           v == Verdict(D, A, T)
           deny == DenyReason(policy, call, D)
           ex == Explain(policy, call, count, counted)
<1>1. ex = Explanation(call, D, R, v, deny)
  BY DEF Explain, Explained
<1>2. \A n : Resolve(n).name = n
  BY DEF Resolve
<1>3. T = IF Refused(call) THEN {} ELSE Names(call)
  BY <1>2
<1>4. v = Decide(policy, call, count, counted)
  <2>1. CASE Refused(call)
    BY <1>3, <2>1 DEF Decide, BadArguments
  <2>2. CASE ~Refused(call)
    <3>1. A = Classification(call, call.args)
      BY <2>2 DEF Refused
    <3> HIDE DEF A, T
    <3> QED BY <1>3, <2>2, <3>1 DEF Decide
  <2> QED BY <2>1, <2>2
<1>5. D.effect \in Effects /\ (Refused(call) => D.rule = BadArguments)
  <2>1. CASE Refused(call)
    BY <2>1 DEF Denied, Decision, Effects
  <2>2. CASE ~Refused(call)
    BY <2>2, EvaluateIs DEF Given
  <2> QED BY <2>1, <2>2
<1>6. A.class \in Classes /\ A.source \in Sources
  BY ClassIsKnown, SourceIsKnown
<1>7. call \in Calls
  BY DEF Given
<1>8. /\ DOMAIN Detail(call) \subseteq OptionalFields
      /\ DOMAIN Detail(call) # {} => Refused(call)
      /\ "parse_error" \in DOMAIN Detail(call) => Detail(call)["parse_error"] \in ParseErrors
  BY <1>7, DetailIs
<1> HIDE DEF D, R, A, deny, ex
<1>9. /\ v.effect = D.effect /\ v.rule = D.rule /\ v.class = A.class /\ v.source = A.source
      /\ v.targets = {t.name : t \in R}
  BY DEF Verdict
<1> HIDE DEF v
<1>10. /\ ex.verdict = v /\ ex.decision = D /\ ex.record = Record(call, D, v, R, deny)
       /\ ex.detail = Detail(call)
  BY <1>1 DEF Explanation
<1> DEFINE rec == Record(call, D, v, R, deny)
<1>11. /\ rec.decision = v.effect /\ rec.rule_id = v.rule /\ rec.class = v.class
       /\ rec.class_source = v.source /\ rec.targets = {t.name : t \in R}
       /\ rec.forwarded = v.forward
  BY DEF Record
<1> HIDE DEF rec
<1>12. ex.record = rec
  BY <1>10 DEF rec
<1>13. Consistent(ex)
  BY <1>5, <1>6, <1>8, <1>9, <1>10, <1>11, <1>12 DEF Consistent
<1> QED BY <1>4, <1>10, <1>13 DEF ex, v, D, R, A, deny

\* Gate cases tell what serve does.
LEMMA CasesAlwaysTell == Given => CasesTell
<1> SUFFICES ASSUME Given, Decided
             PROVE  Told(Explain(policy, call, counter.count, counter.counted))
  BY DEF CasesTell
<1> DEFINE ex == Explain(policy, call, counter.count, counter.counted)
           c == CaseOf(call, ex, NetCount)
<1>1. ex.verdict = ruling /\ Consistent(ex)
  BY ExplainIs DEF Given
<1>2. CallOfCase(RequestFrom(call, NetCount)) = call
  BY CallOfCaseIs DEF Given
<1>3. c.request = RequestFrom(call, NetCount)
  BY DEF CaseOf
<1>4. c.request.devicesTouched = NetCount
  <2>1. RequestFrom(call, NetCount).devicesTouched = NetCount
    BY RequestFromIs
  <2> HIDE DEF c
  <2> QED BY <1>3, <2>1
<1>5. ExplainCase(policy, c) = ex
  BY <1>2, <1>3, <1>4, ExplainedAlike DEF ExplainCase
<1> HIDE DEF ex
<1>6. StandsFor(c, ex)
  BY <1>1, LineStands
<1> QED BY <1>1, <1>5, <1>6 DEF Told, Reproduced, ex

\* A target written down is read again.
LEMMA WrittenIsRead ==
  ASSUME NEW t, t.known \in BOOLEAN,
         t = [name |-> t.name, role |-> t.role, tags |-> t.tags, known |-> t.known]
  PROVE  LET w == Written(t) IN With(w, "known", "known" \in DOMAIN w => w.known) = t
<1> DEFINE w == Written(t)
           k == "known" \in DOMAIN w => w.known
<1>1. DOMAIN t = {"name", "role", "tags", "known"}
  OBVIOUS
<1>2. /\ DOMAIN w = {"name", "role", "tags"} \cup (IF t.known THEN {} ELSE {"known"})
      /\ \A f \in DOMAIN w : w[f] = t[f]
  BY DEF Written
<1> HIDE DEF w
<1>3. k = t.known
  <2>1. CASE t.known
    BY <1>2, <2>1
  <2>2. CASE ~t.known
    BY <1>2, <2>2
  <2> QED BY <2>1, <2>2
<1> HIDE DEF k
<1> DEFINE x == With(w, "known", k)
<1>4. x = [f \in DOMAIN w \cup {"known"} |-> IF f = "known" THEN k ELSE w[f]]
  BY DEF With
<1>5. DOMAIN w \cup {"known"} = DOMAIN t
  BY <1>1, <1>2
<1>6. \A f \in DOMAIN t : (IF f = "known" THEN k ELSE w[f]) = t[f]
  BY <1>1, <1>2, <1>3, <1>5
<1>7. t = [f \in DOMAIN t |-> t[f]]
  OBVIOUS
<1>8. x = t
  BY <1>4, <1>5, <1>6, <1>7
<1> QED BY <1>8 DEF x, k, w

\* Evaluate's decision has three fields.
LEMMA DecisionFields ==
  ASSUME NEW p, NEW r
  PROVE  DOMAIN Evaluate(p, r) = {"effect", "rule", "obligations"}
<1>1. \A rule : DOMAIN RuleDecision(p, rule, r) = {"effect", "rule", "obligations"}
  BY DEF RuleDecision, Decision
<1>2. \A rule : DOMAIN Denied(rule) = {"effect", "rule", "obligations"}
  BY DEF Denied, Decision
<1> QED BY <1>1, <1>2 DEF Evaluate

\* Told the class and the devices the gate found, policy eval and a class-given
\* case decide as serve does.
LEMMA GivenAlwaysTells ==
  ASSUME Given, Decided, ~Refused(call)
  PROVE  GivenTells(Evaluate(policy, Request(call, counter.count, counter.counted)))
<1> DEFINE q == Request(call, counter.count, counter.counted)
           d == Evaluate(policy, q)
           R == {Resolve(n) : n \in Names(call)}
           W == {Written(t) : t \in R}
           r == [server |-> call.server, tool |-> call.tool, class |-> ruling.class,
                 targets |-> W, devicesTouched |-> NetCount, pendingHolds |-> call.pendingHolds]
           c == GivenCase(R, d)
<1>1. ruling.class = Classification(call, call.args).class
  BY DEF Given, Decide, Verdict
<1>2. q = [server |-> call.server, tool |-> call.tool, class |-> ruling.class, targets |-> R,
           devicesTouched |-> NetCount, pendingHolds |-> call.pendingHolds]
  BY <1>1 DEF Request, NetCount
<1>3. Names(call) \subseteq ValidTarget
  BY NamedValidly
<1>4. d.effect \in Effects /\ DOMAIN d = {"effect", "rule", "obligations"}
  BY EvaluateIs, DecisionFields DEF Given
<1>5. ruling.class \in Classes
  BY <1>1, ClassIsKnown
<1>6. {With(w, "known", "known" \in DOMAIN w => w.known) : w \in W} = R
  <2>1. \A t \in R : LET w == Written(t) IN With(w, "known", "known" \in DOMAIN w => w.known) = t
    <3> SUFFICES ASSUME NEW t \in R
                 PROVE  LET w == Written(t) IN With(w, "known", "known" \in DOMAIN w => w.known) = t
      OBVIOUS
    <3>1. PICK n \in Names(call) : t = Resolve(n)
      OBVIOUS
    <3>2. t = [name |-> t.name, role |-> t.role, tags |-> t.tags, known |-> t.known]
      BY <3>1 DEF Resolve
    <3>3. t.known \in BOOLEAN
      BY <3>1 DEF Resolve
    <3> QED BY <3>2, <3>3, WrittenIsRead
  <2> HIDE DEF R
  <2> QED BY <2>1
<1>7. EvalGiven(policy, call.server, call.tool, ruling.class, Names(call), NetCount,
                call.pendingHolds) = d
  BY <1>2, <1>3 DEF EvalGiven
<1>8. c = [request |-> r, expect |-> d]
  BY DEF GivenCase
<1> HIDE DEF q, d, R, W, c
<1>9. /\ DOMAIN r = {"server", "tool", "class", "targets", "devicesTouched", "pendingHolds"}
      /\ r["class"] = ruling.class /\ r.server = call.server /\ r.tool = call.tool
      /\ r.targets = W /\ r.devicesTouched = NetCount /\ r.pendingHolds = call.pendingHolds
  OBVIOUS
<1> HIDE DEF r
<1>10. c.request = r /\ c.expect = d
  BY <1>8
<1>11. Loads(c)
  <2>1. ~IsGate(c)
    BY <1>9, <1>10 DEF IsGate, ArgumentFields
  <2>2. CheckGiven(r, d)
    BY <1>4, <1>5, <1>9 DEF CheckGiven, GateFields
  <2> QED BY <1>4, <1>10, <2>1, <2>2 DEF Loads
<1>12. RequestOfCase(r) = q
  BY <1>2, <1>6, <1>9 DEF RequestOfCase
<1>13. Evaluate(policy, q) = d
  BY DEF d
<1>14. PassesGiven(policy, c)
  BY <1>10, <1>12, <1>13 DEF PassesGiven, Mismatch, Asserted
<1>15. GivenAgrees(d, c)
  BY <1>7, <1>11, <1>14 DEF GivenAgrees
<1> QED BY <1>15 DEF GivenTells, c, R, d, q

-----------------------------------------------------------------------------
(* policy eval *)

\* The arguments of a call as --arg flags, and the ones with commas.
Parsed(in) == ParseArgs([n \in DOMAIN in.args |-> in.args[n].items[1]])

SentText(in, n) == in.args[n].items[1]

CommaArgs(in) == {n \in DOMAIN in.args : Len(SplitCommas[SentText(in, n)]) > 1}

\* An argument typed is one text.
LEMMA TypedArg ==
  ASSUME NEW in \in Calls, Typed(in), NEW n \in DOMAIN in.args
  PROVE  /\ in.args[n].kind = "string" /\ in.args[n].items = <<SentText(in, n)>>
         /\ SentText(in, n) # NonString
         /\ SentText(in, n) \in DOMAIN SplitCommas
         /\ Len(SplitCommas[SentText(in, n)]) \in Nat
         /\ DOMAIN SplitCommas[SentText(in, n)] = 1..Len(SplitCommas[SentText(in, n)])
<1>1. in.args[n].kind = "string"
  BY DEF Typed
<1>2. WellFormed(in.args[n])
  BY CallsAssumption
<1>3. in.args[n].items = <<SentText(in, n)>> /\ SentText(in, n) # NonString
  BY <1>1, <1>2 DEF WellFormed, SentText
<1>4. SentText(in, n) \in DOMAIN SplitCommas
  BY <1>1, DecodedAssumption DEF SentText
<1>5. /\ Len(SplitCommas[SentText(in, n)]) \in Nat
      /\ SplitCommas[SentText(in, n)] =
           [i \in 1..Len(SplitCommas[SentText(in, n)]) |-> SplitCommas[SentText(in, n)][i]]
  BY <1>4, DecodedAssumption
<1> DEFINE S == SplitCommas[SentText(in, n)]
           m == Len(S)
<1>6. S = [i \in 1..m |-> S[i]]
  BY <1>5
<1> HIDE DEF S, m
<1>7. DOMAIN S = 1..m
  BY <1>6
<1> QED BY <1>1, <1>3, <1>4, <1>5, <1>7 DEF S, m

\* What --arg makes of it: an array where there are commas, the same without.
LEMMA ParsedIs ==
  ASSUME NEW in \in Calls, Typed(in)
  PROVE  /\ DOMAIN Parsed(in) = DOMAIN in.args
         /\ \A n \in CommaArgs(in) :
              /\ Parsed(in)[n].kind = "list"
              /\ Parsed(in)[n].items = [i \in 1..Len(SplitCommas[SentText(in, n)]) |->
                                          Trim(SplitCommas[SentText(in, n)][i])]
         /\ \A n \in DOMAIN in.args \ CommaArgs(in) : Parsed(in)[n] = in.args[n]
         /\ CommaArgs(in) = {} => Parsed(in) = in.args
<1> DEFINE kv == [n \in DOMAIN in.args |-> in.args[n].items[1]]
<1>1. DOMAIN kv = DOMAIN in.args /\ \A n \in DOMAIN in.args : kv[n] = SentText(in, n)
  BY DEF SentText
<1> HIDE DEF kv
<1>2. Parsed(in) = [n \in DOMAIN in.args |-> ParseArg(SentText(in, n))]
  BY <1>1 DEF Parsed, ParseArgs, kv
<1>3. ASSUME NEW n \in CommaArgs(in)
      PROVE  /\ ParseArg(SentText(in, n)).kind = "list"
             /\ ParseArg(SentText(in, n)).items =
                  [i \in 1..Len(SplitCommas[SentText(in, n)]) |->
                     Trim(SplitCommas[SentText(in, n)][i])]
  <2>1. /\ Len(SplitCommas[SentText(in, n)]) > 1
        /\ DOMAIN SplitCommas[SentText(in, n)] = 1..Len(SplitCommas[SentText(in, n)])
    BY TypedArg DEF CommaArgs
  <2> QED BY <2>1 DEF ParseArg
<1>4. ASSUME NEW n \in DOMAIN in.args \ CommaArgs(in)
      PROVE  ParseArg(SentText(in, n)) = in.args[n]
  <2>1. ~(Len(SplitCommas[SentText(in, n)]) > 1)
    BY DEF CommaArgs
  <2>2. ParseArg(SentText(in, n)) = [kind |-> "string", items |-> <<SentText(in, n)>>]
    BY <2>1 DEF ParseArg
  <2>3. in.args[n] = [kind |-> in.args[n].kind, items |-> in.args[n].items]
    BY DecodedAssumption
  <2>4. in.args[n].kind = "string" /\ in.args[n].items = <<SentText(in, n)>>
    BY TypedArg
  <2> QED BY <2>2, <2>3, <2>4
<1>5. CommaArgs(in) \subseteq DOMAIN in.args
  BY DEF CommaArgs
<1>6. ASSUME CommaArgs(in) = {} PROVE Parsed(in) = in.args
  <2>1. in.args = [n \in DOMAIN in.args |-> in.args[n]]
    BY DecodedAssumption
  <2> QED BY <1>2, <1>4, <1>6, <2>1
<1> QED BY <1>2, <1>3, <1>4, <1>5, <1>6

\* As many of a finite set's values.
LEMMA FiniteImage ==
  ASSUME NEW f, IsFiniteSet(DOMAIN f)
  PROVE  IsFiniteSet({f[x] : x \in DOMAIN f})
<1> DEFINE S == DOMAIN f
           g == [x \in S |-> f[x]]
           T == {f[x] : x \in S}
<1>1. g \in Surjection(S, T)
  BY DEF Surjection
<1> HIDE DEF S, g, T
<1>2. IsFiniteSet(S)
  BY DEF S
<1>3. IsFiniteSet(T)
  BY <1>1, <1>2, FS_Surjection
<1> QED BY <1>3 DEF T, S

\* An array of parts counts no more than the text they were parts of.
LEMMA FewerCounted ==
  ASSUME NEW in \in Calls, Typed(in), NEW params
  PROVE  /\ CountParams(params, in.args, TRUE) \in Nat
         /\ CountParams(params, Parsed(in), TRUE) \in Nat
         /\ CountParams(params, Parsed(in), TRUE) <= CountParams(params, in.args, TRUE)
<1> DEFINE P == params \cap DOMAIN in.args
           m(p) == Len(SplitCommas[SentText(in, p)])
           S == Counted(params, in.args, TRUE)
           T == Counted(params, Parsed(in), TRUE)
<1>1. ASSUME NEW p \in P
      PROVE  CountValues(p, in.args[p], TRUE) = {<<p, 1, k>> : k \in 1..m(p)} /\ m(p) \in Nat
  <2>1. /\ in.args[p].items = <<SentText(in, p)>> /\ SentText(in, p) # NonString
        /\ m(p) \in Nat
    BY TypedArg
  <2>2. CountString(SentText(in, p), TRUE) = m(p)
    BY <2>1 DEF CountString
  <2>3. DOMAIN in.args[p].items = {1} /\ in.args[p].items[1] = SentText(in, p)
    BY <2>1
  <2> HIDE DEF m
  <2> QED BY <2>1, <2>2, <2>3 DEF CountValues
<1>2. IsFiniteSet(S)
  <2> DEFINE F == [p \in P |-> CountValues(p, in.args[p], TRUE)]
  <2>1. IsFiniteSet(P)
    <3>1. IsFiniteSet(DOMAIN in.args)
      BY DecodedAssumption
    <3> QED BY <3>1, FS_Subset
  <2>2. ASSUME NEW p \in P PROVE IsFiniteSet(CountValues(p, in.args[p], TRUE))
    <3> DEFINE g == [k \in 1..m(p) |-> <<p, 1, k>>]
    <3>1. m(p) \in Nat /\ CountValues(p, in.args[p], TRUE) = {<<p, 1, k>> : k \in 1..m(p)}
      BY <1>1
    <3>2. IsFiniteSet(1..m(p))
      <4> HIDE DEF m
      <4> QED BY <3>1, FS_Interval
    <3>3. DOMAIN g = 1..m(p) /\ {g[k] : k \in DOMAIN g} = {<<p, 1, k>> : k \in 1..m(p)}
      <4> HIDE DEF m
      <4> QED OBVIOUS
    <3> HIDE DEF g, m
    <3>4. IsFiniteSet({g[k] : k \in DOMAIN g})
      BY <3>2, <3>3, FiniteImage
    <3> QED BY <3>1, <3>3, <3>4
  <2>3. DOMAIN F = P /\ S = UNION {F[p] : p \in DOMAIN F}
    BY DEF Counted
  <2>4. \A p \in P : F[p] = CountValues(p, in.args[p], TRUE)
    OBVIOUS
  <2> HIDE DEF F, P, S
  <2>5. IsFiniteSet({F[p] : p \in DOMAIN F})
    BY <2>1, <2>3, FiniteImage
  <2>6. \A U \in {F[p] : p \in DOMAIN F} : IsFiniteSet(U)
    BY <2>2, <2>3, <2>4
  <2> DEFINE Z == {F[p] : p \in DOMAIN F}
  <2>7. IsFiniteSet(Z) /\ (\A U \in Z : IsFiniteSet(U)) /\ S = UNION Z
    BY <2>3, <2>5, <2>6
  <2> HIDE DEF Z
  <2> QED BY <2>7, FS_UNION
<1>3. ASSUME NEW x \in T
      PROVE  \E p \in P : \/ p \notin CommaArgs(in) /\ \E k \in 1..m(p) : x = <<p, 1, k>>
                          \/ p \in CommaArgs(in) /\ \E i \in 1..m(p) : x = <<p, i, 1>>
  <2>1. DOMAIN Parsed(in) = DOMAIN in.args
    BY ParsedIs
  <2>2. PICK p \in P : x \in CountValues(p, Parsed(in)[p], TRUE)
    BY <2>1 DEF Counted
  <2>3. CASE p \notin CommaArgs(in)
    <3>1. Parsed(in)[p] = in.args[p]
      BY <2>3, ParsedIs
    <3> HIDE DEF m
    <3> QED BY <1>1, <2>2, <2>3, <3>1
  <2>4. CASE p \in CommaArgs(in)
    <3>1. Parsed(in)[p].items = [i \in 1..m(p) |-> Trim(SplitCommas[SentText(in, p)][i])]
      BY <2>4, ParsedIs
    <3>2. /\ SentText(in, p) \in DOMAIN SplitCommas /\ DOMAIN SplitCommas[SentText(in, p)] = 1..m(p)
      BY TypedArg
    <3>3. PICK i \in DOMAIN Parsed(in)[p].items :
            \E k \in 1..CountString(Parsed(in)[p].items[i], TRUE) : x = <<p, i, k>>
      BY <2>2 DEF CountValues
    <3> DEFINE part == SplitCommas[SentText(in, p)][i]
    <3>4. i \in 1..m(p) /\ Parsed(in)[p].items[i] = Trim(part)
      BY <3>1, <3>3
    <3>5. Trim(part) # NonString /\ Len(SplitCommas[Trim(part)]) \in {0, 1}
      BY <3>2, <3>4, DecodedAssumption
    <3>6. CountString(Trim(part), TRUE) \in {0, 1}
      BY <3>5 DEF CountString
    <3> HIDE DEF m, part
    <3> DEFINE c == CountString(Trim(part), TRUE)
    <3>7. \A k \in 1..c : k = 1
      <4>1. c \in {0, 1}
        BY <3>6
      <4> HIDE DEF c
      <4> QED BY <4>1
    <3>8. x = <<p, i, 1>>
      BY <3>3, <3>4, <3>7
    <3> QED BY <2>4, <3>4, <3>8
  <2> QED BY <2>3, <2>4
<1>4. ASSUME NEW p \in P, NEW k \in 1..m(p) PROVE <<p, 1, k>> \in S
  BY <1>1 DEF Counted
<1> DEFINE f == [x \in T |-> IF x[1] \in CommaArgs(in) THEN <<x[1], 1, x[2]>> ELSE x]
<1> HIDE DEF S, T, m, P
<1>5. f \in Injection(T, S)
  <2>1. \A x \in T : f[x] \in S
    BY <1>3, <1>4
  <2>2. ASSUME NEW x \in T, NEW y \in T, f[x] = f[y] PROVE x = y
    <3>1. f[x] = (IF x[1] \in CommaArgs(in) THEN <<x[1], 1, x[2]>> ELSE x)
          /\ f[y] = (IF y[1] \in CommaArgs(in) THEN <<y[1], 1, y[2]>> ELSE y)
      OBVIOUS
    <3> HIDE DEF f
    <3>2. PICK p \in P : \/ p \notin CommaArgs(in) /\ \E k \in 1..m(p) : x = <<p, 1, k>>
                         \/ p \in CommaArgs(in) /\ \E i \in 1..m(p) : x = <<p, i, 1>>
      BY <1>3, Zenon
    <3>3. PICK q \in P : \/ q \notin CommaArgs(in) /\ \E k \in 1..m(q) : y = <<q, 1, k>>
                         \/ q \in CommaArgs(in) /\ \E i \in 1..m(q) : y = <<q, i, 1>>
      BY <1>3, Zenon
    <3>4. x[1] = p /\ y[1] = q
      BY <3>2, <3>3
    <3>5. f[x][1] = p /\ f[y][1] = q
      BY <3>1, <3>2, <3>3, <3>4
    <3>6. p = q
      BY <2>2, <3>5
    <3>7. CASE p \in CommaArgs(in)
      <4>1. PICK i : x = <<p, i, 1>>
        BY <3>2, <3>7
      <4>2. PICK j : y = <<p, j, 1>>
        BY <3>3, <3>6, <3>7
      <4>3. f[x] = <<p, 1, i>> /\ f[y] = <<p, 1, j>>
        BY <3>1, <3>7, <4>1, <4>2
      <4> QED BY <2>2, <4>1, <4>2, <4>3
    <3>8. CASE p \notin CommaArgs(in)
      BY <2>2, <3>1, <3>4, <3>6, <3>8
    <3> QED BY <3>7, <3>8
  <2>3. f \in [T -> S]
    BY <2>1
  <2> HIDE DEF f
  <2>4. \A x, y \in T : f[x] = f[y] => x = y
    BY <2>2, Zenon
  <2> QED BY <2>3, <2>4 DEF Injection, IsInjective
<1> HIDE DEF f
<1>6. IsFiniteSet(T) /\ Cardinality(T) <= Cardinality(S)
  BY <1>2, <1>5, FS_Injection
<1>7. Cardinality(S) \in Nat /\ Cardinality(T) \in Nat
  BY <1>2, <1>6, FS_CardinalityType
<1> QED BY <1>6, <1>7 DEF CountParams, S, T

\* Only a parameter that names devices has commas, and none that names one
\* device does.
LEMMA CommaArgsName ==
  ASSUME NEW in \in Calls, Typed(in), ~Refused(in), NEW n \in CommaArgs(in)
  PROVE  LET spec == SpecOf(in)
         IN /\ n \in DOMAIN in.args /\ n \in DeviceParams(spec) /\ n \notin spec.targetParams
            /\ n \notin spec.commandParams \cup spec.configParams \cup CapabilityParams(spec)
<1> DEFINE spec == SpecOf(in)
<1>1. InProfile(in)
  BY DEF Typed
<1>2. n \in DOMAIN in.args /\ n \in DeviceParams(spec)
  BY DEF CommaArgs, Typed, SentText
<1>3. DeviceParams(spec) \cap
         (spec.commandParams \cup spec.configParams \cup CapabilityParams(spec)) = {}
  BY <1>1, NamedOnceAssumption DEF InProfile, HasProfile, SpecOf
<1>4. ASSUME n \in spec.targetParams PROVE FALSE
  <2>1. in.args[n].items = <<SentText(in, n)>>
    BY <1>2, TypedArg
  <2>2. SentText(in, n) \in Items(in.args, n)
    BY <1>2, <2>1 DEF Items
  <2>3. SentText(in, n) \in SentNames(spec, in.args)
    BY <1>4, <2>2 DEF SentNames
  <2>4. SentText(in, n) \in ValidTarget
    BY <1>1, <2>3 DEF Refused, BadTarget
  <2>5. SplitCommas[SentText(in, n)] = <<SentText(in, n)>>
    BY <2>4, TargetsAssumption
  <2>6. Len(SplitCommas[SentText(in, n)]) = 1
    BY <2>5
  <2> DEFINE m == Len(SplitCommas[SentText(in, n)])
  <2>7. m > 1
    BY DEF CommaArgs
  <2> HIDE DEF m
  <2>8. m = 1
    BY <2>6 DEF m
  <2> QED BY <2>7, <2>8
<1> QED BY <1>2, <1>3, <1>4

\* An array of device names is the text they were parts of.
LEMMA PartsAlike ==
  ASSUME NEW in \in Calls, Typed(in), ~Refused(in), NEW n \in CommaArgs(in),
         n \in SpecOf(in).targetsParams
  PROVE  SplitParam(Parsed(in), n) = SplitParam(in.args, n)
<1> DEFINE S == SplitCommas[SentText(in, n)]
           m == Len(S)
           spec == SpecOf(in)
<1>1. n \in DOMAIN in.args /\ InProfile(in)
  BY DEF CommaArgs, Typed
<1>2. in.args[n].kind = "string" /\ DOMAIN S = 1..m
  BY <1>1, TypedArg
<1>3. SplitParam(in.args, n) = {S[i] : i \in 1..m}
  BY <1>2 DEF SplitParam, SentText
<1>4. /\ n \in DOMAIN Parsed(in) /\ Parsed(in)[n].kind = "list"
      /\ Parsed(in)[n].items = [i \in 1..m |-> Trim(S[i])]
  BY <1>1, ParsedIs
<1> HIDE DEF S, m
<1>5. \A i \in 1..m : Trim(S[i]) = S[i]
  <2>1. SplitParam(in.args, n) \subseteq SentNames(spec, in.args)
    BY <1>1 DEF SentNames
  <2>2. SentNames(spec, in.args) \subseteq ValidTarget
    BY <1>1 DEF Refused, BadTarget
  <2> QED BY <1>3, <2>1, <2>2, DecodedAssumption
<1>6. SplitParam(Parsed(in), n) = {Trim(S[i]) : i \in 1..m}
  BY <1>4 DEF SplitParam, Items
<1> QED BY <1>3, <1>5, <1>6

\* As arguments the gate checks and classifies, the flags are the call's.
LEMMA ParsedAlike ==
  ASSUME NEW in \in Calls, Typed(in), ~Refused(in)
  PROVE  LET spec == SpecOf(in)
         IN /\ ~OverCaps(spec, Parsed(in))
            /\ UnnamedArgs(spec, Parsed(in)) = {} /\ MalformedArgs(spec, Parsed(in)) = {}
            /\ ~BadTarget(spec, Parsed(in)) /\ ~NoDeviceNamed(spec, Parsed(in))
            /\ SentNames(spec, Parsed(in)) = SentNames(spec, in.args)
            /\ ClassifyTool(spec, Parsed(in)) = ClassifyTool(spec, in.args)
<1> DEFINE spec == SpecOf(in)
           a == in.args
           b == Parsed(in)
           C == CommaArgs(in)
<1>1. /\ InProfile(in) /\ ~OverCaps(spec, a) /\ UnnamedArgs(spec, a) = {}
      /\ MalformedArgs(spec, a) = {} /\ ~BadTarget(spec, a) /\ ~NoDeviceNamed(spec, a)
  BY DEF Typed, Refused, Readable
<1>2. /\ DOMAIN b = DOMAIN a /\ C \subseteq DOMAIN a
      /\ \A n \in DOMAIN a \ C : b[n] = a[n]
  BY ParsedIs DEF CommaArgs
<1>3. ASSUME NEW n \in C
      PROVE  /\ n \in DOMAIN a /\ n \in DeviceParams(spec) /\ n \notin spec.targetParams
             /\ n \notin spec.commandParams \cup spec.configParams \cup CapabilityParams(spec)
  BY CommaArgsName
<1>4. ASSUME NEW n \in C
      PROVE  /\ a[n].kind = "string" /\ b[n].kind = "list"
             /\ \A i \in DOMAIN b[n].items : b[n].items[i] # NonString
             /\ Len(SplitCommas[a[n].items[1]]) > 1
  <2> DEFINE S == SplitCommas[SentText(in, n)]
             m == Len(S)
  <2>1. n \in DOMAIN in.args
    BY <1>2
  <2>2. a[n].kind = "string" /\ SentText(in, n) \in DOMAIN SplitCommas /\ DOMAIN S = 1..m
    BY <2>1, TypedArg
  <2>3. b[n].kind = "list" /\ b[n].items = [i \in 1..m |-> Trim(S[i])]
    BY ParsedIs
  <2>4. \A i \in 1..m : Trim(S[i]) # NonString
    BY <2>2, DecodedAssumption
  <2>5. m > 1
    BY DEF CommaArgs
  <2>6. Len(SplitCommas[a[n].items[1]]) > 1
    BY <2>5 DEF SentText
  <2> HIDE DEF S, m
  <2> QED BY <2>2, <2>3, <2>4, <2>6
<1>5. \A n : n \notin C => Items(b, n) = Items(a, n)
  BY <1>2 DEF Items
<1>6. ~OverCaps(spec, b)
  <2>1. TooManyCommands(spec, b) <=> TooManyCommands(spec, a)
    <3>1. \A p \in spec.commandParams \cap DOMAIN a : b[p] = a[p]
      BY <1>2, <1>3
    <3>2. Counted(spec.commandParams, b, FALSE) = Counted(spec.commandParams, a, FALSE)
      BY <1>2, <3>1 DEF Counted
    <3> QED BY <3>2 DEF TooManyCommands, CountParams
  <2>2. TooManyTargets(spec, b) => TooManyTargets(spec, a)
    <3> DEFINE params == spec.targetParams \cup spec.targetsParams \cup spec.groupParams
               x == CountParams(params, a, TRUE)
               y == CountParams(params, b, TRUE)
    <3>1. x \in Nat /\ y \in Nat /\ y <= x
      BY FewerCounted
    <3>2. (TooManyTargets(spec, a) <=> x > MaxTargets) /\ (TooManyTargets(spec, b) <=> y > MaxTargets)
      BY DEF TooManyTargets
    <3> HIDE DEF x, y
    <3> QED BY <3>1, <3>2, CapsAssumption
  <2> QED BY <1>1, <2>1, <2>2 DEF OverCaps
<1>7. UnnamedArgs(spec, b) = {}
  BY <1>1, <1>2 DEF UnnamedArgs
<1>8. MalformedArgs(spec, b) = {}
  <2>1. \A n \in C : StringOrStrings(b[n]) /\ ~MayParse(spec, n, b[n])
    BY <1>4 DEF StringOrStrings, MayParse
  <2>2. \A n \in DOMAIN a \ C : n \in MalformedArgs(spec, b) <=> n \in MalformedArgs(spec, a)
    BY <1>2 DEF MalformedArgs
  <2>3. \A n \in C : n \notin MalformedArgs(spec, b)
    BY <1>3, <2>1 DEF MalformedArgs
  <2>4. MalformedArgs(spec, b) \subseteq DOMAIN a
    BY <1>2 DEF MalformedArgs
  <2> QED BY <1>1, <2>2, <2>3, <2>4
<1>9. SentNames(spec, b) = SentNames(spec, a)
  <2>1. \A p \in spec.targetParams : Items(b, p) = Items(a, p)
    BY <1>3, <1>5
  <2>2. \A p \in spec.targetsParams \cap DOMAIN a : SplitParam(b, p) = SplitParam(a, p)
    <3> SUFFICES ASSUME NEW p \in spec.targetsParams \cap DOMAIN a
                 PROVE  SplitParam(b, p) = SplitParam(a, p)
      OBVIOUS
    <3>1. CASE p \in C
      BY <3>1, PartsAlike
    <3>2. CASE p \notin C
      BY <1>2, <1>5, <3>2 DEF SplitParam
    <3> QED BY <3>1, <3>2
  <2> QED BY <1>2, <2>1, <2>2 DEF SentNames
<1>10. ~BadTarget(spec, b)
  <2>1. \A p \in spec.targetParams \cap DOMAIN b : b[p] = a[p] /\ p \in DOMAIN a
    BY <1>2, <1>3
  <2>2. \A p \in spec.targetsParams \cap DOMAIN b : b[p].kind = "other" => a[p].kind = "other" /\ p \in DOMAIN a
    BY <1>2, <1>4
  <2> QED BY <1>1, <1>9, <2>1, <2>2 DEF BadTarget
<1>11. ~NoDeviceNamed(spec, b)
  <2>1. CASE Exempt(spec)
    BY <2>1 DEF NoDeviceNamed
  <2>2. CASE ~Exempt(spec)
    <3>1. ~SelectsGroup(spec, a) /\ ~(DeclaresTargets(spec) /\ SentNames(spec, a) = {})
      BY <1>1, <2>2 DEF NoDeviceNamed
    <3>2. \A p \in spec.groupParams \cap DOMAIN a : p \notin C
      <4> SUFFICES ASSUME NEW p \in spec.groupParams \cap DOMAIN a, p \in C PROVE FALSE
        OBVIOUS
      <4>1. a[p].kind = "string" /\ Len(SplitCommas[a[p].items[1]]) > 1
        BY <1>4
      <4>2. SplitCommas[a[p].items[1]] # <<>>
        BY <4>1
      <4> QED BY <3>1, <4>1, <4>2 DEF SelectsGroup
    <3>3. ~SelectsGroup(spec, b)
      BY <1>2, <3>1, <3>2 DEF SelectsGroup
    <3> QED BY <1>9, <3>1, <3>3 DEF NoDeviceNamed
  <2> QED BY <2>1, <2>2
<1>12. ClassifyTool(spec, b) = ClassifyTool(spec, a)
  <2>1. \A p \in spec.commandParams \cup spec.configParams : Items(b, p) = Items(a, p)
    BY <1>3, <1>5
  <2>2. Commands(spec, b) = Commands(spec, a) /\ ConfigLines(spec, b) = ConfigLines(spec, a)
    BY <2>1 DEF Commands, ConfigLines
  <2>3. ConfigFormat(spec, b) = ConfigFormat(spec, a)
    <3>1. CASE "config_format" \in C
      <4>1. a["config_format"].items[1] \notin DOMAIN DataFormats
        <5>1. Len(SplitCommas[a["config_format"].items[1]]) > 1
          BY <1>4, <3>1
        <5> DEFINE t == a["config_format"].items[1]
                   m == Len(SplitCommas[t])
        <5>2. t \in DOMAIN DataFormats => m \in {0, 1}
          BY DecodedAssumption
        <5>3. m > 1
          BY <5>1
        <5> HIDE DEF m
        <5> QED BY <5>2, <5>3
      <4>2. b["config_format"].kind = "list"
        BY <1>4, <3>1
      <4> QED BY <4>1, <4>2 DEF ConfigFormat
    <3>2. CASE "config_format" \notin C
      BY <1>2, <3>2 DEF ConfigFormat
    <3> QED BY <3>1, <3>2
  <2>4. ASSUME spec.capabilityParam # NoParam
        PROVE  ClassifyCapability(spec, b) = ClassifyCapability(spec, a)
    <3>1. spec.capabilityParam \notin C
      BY <1>3, <2>4 DEF CapabilityParams
    <3> QED BY <1>2, <3>1 DEF ClassifyCapability
  <2>5. ClassifyByCommands(spec, b) = ClassifyByCommands(spec, a)
    BY <2>2 DEF ClassifyByCommands
  <2> QED BY <2>2, <2>3, <2>4, <2>5 DEF ClassifyTool
<1> QED BY <1>6, <1>7, <1>8, <1>9, <1>10, <1>11, <1>12

\* Given the arguments as flags, policy eval decides as serve does.
LEMMA FlagsTell ==
  ASSUME Given, Decided, Typed(call)
  PROVE  EvalGate(policy, call.server, call.tool,
                  [n \in DOMAIN call.args |-> call.args[n].items[1]],
                  NetCount, call.pendingHolds) = ruling
<1> DEFINE spec == SpecOf(call)
           in == [server |-> call.server, tool |-> call.tool, parse |-> "", args |-> Parsed(call),
                  readOnlyHint |-> "absent", destructiveHint |-> "absent",
                  pendingHolds |-> call.pendingHolds]
<1>1. /\ in.server = call.server /\ in.tool = call.tool /\ in.args = Parsed(call)
      /\ in.pendingHolds = call.pendingHolds
      /\ in.readOnlyHint # "false" /\ in.destructiveHint # "true"
  OBVIOUS
<1>2. in.parse = call.parse
  <2>1. call.parse = ""
    BY DEF Typed
  <2> QED BY <2>1
<1>3. EvalGate(policy, call.server, call.tool,
               [n \in DOMAIN call.args |-> call.args[n].items[1]],
               NetCount, call.pendingHolds) = Decide(policy, in, NetCount, {})
  BY DEF EvalGate, Parsed
<1> HIDE DEF in
<1>4. /\ InProfile(call) /\ InProfile(in) /\ HasProfile(call) /\ HasProfile(in)
      /\ SpecOf(in) = spec
  BY <1>1 DEF Typed, InProfile, HasProfile, SpecOf
<1>5. ~Raises(in) /\ ~Raises(call)
  BY <1>1 DEF Raises, Typed
<1>6. \A args : /\ Classification(in, args) = ClassifyTool(spec, args)
                /\ Classification(call, args) = ClassifyTool(spec, args)
  BY <1>4, <1>5 DEF Classification
<1>7. ruling = Decide(policy, call, counter.count, counter.counted) /\ call \in Calls
  BY DEF Given
<1>8. ASSUME ~Refused(in), ~Refused(call), Names(in) = Names(call),
             ClassifyTool(spec, in.args) = ClassifyTool(spec, call.args)
      PROVE  Decide(policy, in, NetCount, {}) = ruling
  <2>1. DevicesTouched(NetCount, {}, Names(call))
          = DevicesTouched(counter.count, counter.counted, Names(call))
    BY NetCountIs DEF NetCount
  <2>2. Classification(in, in.args) = Classification(call, call.args)
    BY <1>6, <1>8
  <2>3. Request(in, NetCount, {}) = Request(call, counter.count, counter.counted)
    BY <1>1, <1>8, <2>1, <2>2 DEF Request
  <2> QED BY <1>7, <1>8, <2>2, <2>3 DEF Decide
<1>9. CASE CommaArgs(call) = {}
  <2>1. in.args = call.args
    BY <1>1, <1>7, <1>9, ParsedIs
  <2>2. Readable(in) = Readable(call)
    BY <1>2, <1>4, <2>1 DEF Readable
  <2>3. Refused(in) = Refused(call)
    BY <1>4, <2>1, <2>2 DEF Refused
  <2>4. Names(in) = Names(call)
    BY <1>4, <2>1 DEF Names
  <2>5. CASE Refused(call)
    <3>1. Classification(in, IF Readable(in) THEN in.args ELSE NoArgs)
            = Classification(call, IF Readable(call) THEN call.args ELSE NoArgs)
      BY <1>6, <2>1, <2>2
    <3>2. Decide(policy, in, NetCount, {}) = ruling
      BY <1>7, <2>3, <2>5, <3>1 DEF Decide
    <3> QED BY <1>3, <3>2
  <2>6. CASE ~Refused(call)
    BY <1>3, <1>8, <2>1, <2>3, <2>4, <2>6
  <2> QED BY <2>5, <2>6
<1>10. CASE CommaArgs(call) # {}
  <2>1. ~Refused(call)
    BY <1>10 DEF CommaArgs, Typed, SentText
  <2>2. /\ ~OverCaps(spec, in.args)
        /\ UnnamedArgs(spec, in.args) = {} /\ MalformedArgs(spec, in.args) = {}
        /\ ~BadTarget(spec, in.args) /\ ~NoDeviceNamed(spec, in.args)
        /\ SentNames(spec, in.args) = SentNames(spec, call.args)
        /\ ClassifyTool(spec, in.args) = ClassifyTool(spec, call.args)
    BY <1>1, <1>7, <2>1, ParsedAlike
  <2>3. Readable(in)
    BY <1>2, <1>4, <2>1, <2>2 DEF Readable, Refused
  <2>4. ~Refused(in)
    BY <1>4, <2>2, <2>3 DEF Refused
  <2>5. Names(in) = Names(call)
    BY <1>4, <2>2 DEF Names
  <2> QED BY <1>3, <1>8, <2>1, <2>2, <2>4, <2>5
<1> QED BY <1>9, <1>10

\* policy test and policy eval tell what serve does, for every policy, profile,
\* inventory, counter and call: a line written down as a gate case loads and
\* passes, and with any one expectation changed it does not; eval by class, eval
\* by flags and a class-given case come to the decision of serve (gate.Explain,
\* policytest check and runGate, policy.go's eval).
THEOREM TestsAlwaysTell == CallSpec => []TestsTell
<1>1. Given => EvalAgrees
  BY GivenAlwaysTells, FlagsTell DEF EvalAgrees
<1>2. Given => TestsTell
  BY <1>1, CasesAlwaysTell DEF TestsTell
<1> QED BY AlwaysGiven, <1>2, PTL

-----------------------------------------------------------------------------
(* What a verdict that forwards a call guarantees *)

\* Resolving names (Gate.resolve) neither merges nor loses any: the request
\* counts as many targets as the call has names.
LEMMA ResolveKeepsCount ==
  ASSUME NEW S, IsFiniteSet(S)
  PROVE  Cardinality({Resolve(n) : n \in S}) = Cardinality(S)
<1> DEFINE T == {Resolve(n) : n \in S}
           f == [n \in S |-> Resolve(n)]
<1>1. \A n : Resolve(n).name = n
  BY DEF Resolve
<1>2. f \in Surjection(S, T)
  BY DEF Surjection
<1>3. f \in Injection(S, T)
  <2>1. \A a, b \in S : f[a] = f[b] => a = b
    BY <1>1
  <2> QED  BY <2>1 DEF Injection, IsInjective
<1> QED  BY <1>2, <1>3, FS_Surjection

\* policy.Evaluate allows nothing over the device cap.
LEMMA AllowIsWithinCap ==
  ASSUME NEW p, NEW r, Evaluate(p, r).effect = "allow"
  PROVE  ~OverDeviceCap(p, r) /\ p.loaded
BY DEF Evaluate, Denied, Decision

\* A refusal is never forwarded and has no targets (refuse, verdict).
LEMMA RefusalIsDeny ==
  ASSUME NEW rule, NEW classified
  PROVE  /\ Verdict(Denied(rule), classified, {}).forward = FALSE
         /\ Verdict(Denied(rule), classified, {}).targets = {}
BY DEF Verdict, Denied, Decision

\* Gate.Decide: the devices of a forwarded call are valid names, and with
\* those its counter key has counted before they stay within max_devices.
THEOREM ForwardIsWithinCap ==
  ASSUME NEW pol, pol.maxDevices \in Nat, NEW in,
         NEW count \in Nat, NEW counted, IsFiniteSet(counted),
         Decide(pol, in, count, counted).forward
  PROVE  /\ Decide(pol, in, count, counted).targets \subseteq ValidTarget
         /\ pol.maxDevices > 0 =>
              count + Cardinality(Decide(pol, in, count, counted).targets \ counted)
                <= pol.maxDevices
<1> DEFINE T == Decide(pol, in, count, counted).targets
           r == Request(in, count, counted)
<1>1. ~Refused(in)
  BY RefusalIsDeny DEF Decide
<1>2. T = Names(in) /\ Evaluate(pol, r).effect = "allow"
  BY <1>1 DEF Decide, Verdict
<1>3. T \subseteq ValidTarget /\ IsFiniteSet(T)
  BY <1>1, <1>2, NamedValidly
<1>4. ASSUME pol.maxDevices > 0
      PROVE  count + Cardinality(T \ counted) <= pol.maxDevices
  <2>1. ~(DeviceTotal(r) > pol.maxDevices)
    BY <1>2, <1>4, AllowIsWithinCap DEF OverDeviceCap
  <2>2. DeviceTotal(r) = DevicesTouched(count, counted, T) + Cardinality(T)
    BY <1>2, <1>3, ResolveKeepsCount DEF DeviceTotal, Request
  <2>3. /\ Cardinality(T) \in Nat
        /\ Cardinality(T \cap counted) \in Nat
        /\ Cardinality(T \ counted) = Cardinality(T) - Cardinality(T \cap counted)
    BY <1>3, FS_CardinalityType, FS_Intersection, FS_Difference
  <2>4. DevicesTouched(count, counted, T) >= count - Cardinality(T \cap counted)
        /\ DevicesTouched(count, counted, T) \in Int
    BY <2>3 DEF DevicesTouched
  <2> QED  BY <2>1, <2>2, <2>3, <2>4
<1> QED  BY <1>3, <1>4

Critical(c) == pc[c] \in {"locked", "counting"}

-----------------------------------------------------------------------------
(* Arithmetic of the counters *)

\* The devices granted, with those of one more call, are no more than the
\* count before the call and its new names.
LEMMA GrantArithmetic ==
  ASSUME NEW G, IsFiniteSet(G), NEW U, IsFiniteSet(U), NEW T, IsFiniteSet(T),
         NEW e \in Nat, Cardinality(G \ U) <= e
  PROVE  /\ Cardinality(G) <= Cardinality(U) + e
         /\ Cardinality(G \cup T) <= (Cardinality(U) + e) + Cardinality(T \ U)
<1> DEFINE F == (G \ U) \cup U
           N == F \cup (T \ U)
<1>1. IsFiniteSet(G \ U) /\ IsFiniteSet(T \ U)
  BY FS_Difference
<1>2. /\ Cardinality(G \ U) \in Nat /\ Cardinality(U) \in Nat
      /\ Cardinality(T \ U) \in Nat
  BY <1>1, FS_CardinalityType
<1>3. IsFiniteSet(F) /\ Cardinality(F) = Cardinality(G \ U) + Cardinality(U)
  <2>1. (G \ U) \cap U = {}
    OBVIOUS
  <2> QED  BY <1>1, <1>2, <2>1, FS_Union, FS_EmptySet
<1>4. IsFiniteSet(N) /\ Cardinality(N) <= Cardinality(F) + Cardinality(T \ U)
  <2>1. /\ IsFiniteSet(N)
        /\ Cardinality(N) = Cardinality(F) + Cardinality(T \ U) - Cardinality(F \cap (T \ U))
    BY <1>1, <1>3, FS_Union
  <2>2. Cardinality(F \cap (T \ U)) \in Nat
    BY <1>3, FS_Intersection, FS_CardinalityType
  <2> QED  BY <1>2, <1>3, <2>1, <2>2
<1>5. G \in SUBSET F /\ (G \cup T) \in SUBSET N
  OBVIOUS
<1>6. Cardinality(G) <= Cardinality(F) /\ Cardinality(G \cup T) <= Cardinality(N)
  BY <1>3, <1>4, <1>5, FS_Subset
<1>7. Cardinality(G) \in Nat /\ Cardinality(G \cup T) \in Nat /\ Cardinality(N) \in Nat
  BY <1>4, FS_Union, FS_CardinalityType
<1> QED  BY <1>2, <1>3, <1>4, <1>6, <1>7

\* touch: what is newly forgotten is at most what is added to extra.
LEMMA TouchArithmetic ==
  ASSUME NEW G, IsFiniteSet(G), NEW U, IsFiniteSet(U), NEW T, IsFiniteSet(T),
         NEW R \in SUBSET (T \ U), NEW e \in Nat, Cardinality(G \ U) <= e
  PROVE  /\ e + (Cardinality(T \ U) - Cardinality(R)) \in Nat
         /\ e <= e + (Cardinality(T \ U) - Cardinality(R))
         /\ Cardinality((G \cup T) \ (U \cup R)) <= e + (Cardinality(T \ U) - Cardinality(R))
<1> DEFINE L == (T \ U) \ R
           W == (G \ U) \cup L
<1>1. IsFiniteSet(G \ U) /\ IsFiniteSet(T \ U)
  BY FS_Difference
<1>2. /\ Cardinality(G \ U) \in Nat /\ Cardinality(T \ U) \in Nat /\ Cardinality(R) \in Nat
      /\ Cardinality(R) <= Cardinality(T \ U)
  BY <1>1, FS_Subset, FS_CardinalityType
<1>3. IsFiniteSet(L) /\ Cardinality(L) = Cardinality(T \ U) - Cardinality(R)
  <2>1. (T \ U) \cap R = R
    OBVIOUS
  <2> QED  BY <1>1, <2>1, FS_Difference
<1>4. IsFiniteSet(W) /\ Cardinality(W) <= Cardinality(G \ U) + Cardinality(L)
  <2>1. /\ IsFiniteSet(W)
        /\ Cardinality(W) = Cardinality(G \ U) + Cardinality(L) - Cardinality((G \ U) \cap L)
    BY <1>1, <1>3, FS_Union
  <2>2. Cardinality((G \ U) \cap L) \in Nat
    BY <1>1, FS_Intersection, FS_CardinalityType
  <2> QED  BY <1>2, <1>3, <2>1, <2>2
<1>5. ((G \cup T) \ (U \cup R)) \in SUBSET W
  OBVIOUS
<1>6. /\ Cardinality((G \cup T) \ (U \cup R)) <= Cardinality(W)
      /\ Cardinality((G \cup T) \ (U \cup R)) \in Nat
  BY <1>4, <1>5, FS_Subset, FS_CardinalityType
<1>7. Cardinality(W) \in Nat
  BY <1>4, FS_CardinalityType
<1> QED  BY <1>2, <1>3, <1>4, <1>6, <1>7

-----------------------------------------------------------------------------
(* The invariant is inductive *)

\* A proxy that has just started satisfies the inductive invariant.
LEMMA InitIInv == Init => IInv
<1> SUFFICES ASSUME Init PROVE IInv
  OBVIOUS
<1>1. Cardinality({}) = 0
  BY FS_EmptySet
<1>2. TypeOK
  BY <1>1, DispatchAssumption DEF Init, TypeOK, Stages, Results
<1>3. verdict = [c \in Callers |-> verdict[c]]
  BY DEF Init
<1>4. LockHeldByDecider
  BY DEF Init, LockHeldByDecider
<1>5. DecisionIsCurrent
  BY DEF Init, DecisionIsCurrent
<1>6. ForgottenIsCounted
  <2> SUFFICES ASSUME NEW r \in Requests
               PROVE  Cardinality(granted[r.principal] \ touched[CounterKey(r)])
                        <= extra[CounterKey(r)]
    BY DEF ForgottenIsCounted
  <2>1. r.principal \in Principals /\ CounterKey(r) \in Keys
    BY DispatchAssumption DEF Keys
  <2>2. granted[r.principal] = {} /\ extra[CounterKey(r)] = 0
    BY <2>1 DEF Init
  <2>3. granted[r.principal] \ touched[CounterKey(r)] = {}
    BY <2>2
  <2> QED  BY <1>1, <2>2, <2>3
<1>7. GrantedWithinCap
  BY <1>1, DispatchAssumption DEF Init, GrantedWithinCap
<1>8. ForwardedIsGranted /\ ReachedIsGranted
  BY DEF Init, ForwardedIsGranted, ReachedIsGranted
<1> QED  BY <1>2, <1>3, <1>4, <1>5, <1>6, <1>7, <1>8 DEF IInv

\* The counters' part of the invariant reads no call's state.
LEMMA CountersUnchanged ==
  ASSUME IInv, UNCHANGED <<touched, extra, granted>>
  PROVE  ForgottenIsCounted' /\ GrantedWithinCap'
BY DEF IInv, ForgottenIsCounted, GrantedWithinCap

\* A call moves between two stages outside the lock, with no change to any
\* counter: every step of gated but those of lock, decideLocked and Send.
LEMMA QuietStep ==
  ASSUME IInv, NEW c \in Callers,
         NEW s \in Stages \ {"idle", "locked", "counting"}, NEW v,
         pc[c] \in Stages \ {"idle", "locked", "counting"},
         pc' = [pc EXCEPT ![c] = s],
         verdict' = [verdict EXCEPT ![c] = v],
         s \in {"decided", "forwarding", "sent"} /\ v.forward
           => v.targets \subseteq granted[req[c].principal],
         s \in {"forwarding", "sent"} => v.forward,
         lines' \in [Callers -> Nat], result' \in [Callers -> Results],
         UNCHANGED <<req, cancelled, counterVars, exited, history>>
  PROVE  IInv'
<1> USE DEF IInv, counterVars, history
<1>1. TypeOK'
  BY DEF TypeOK
<1>2. verdict' = [d \in Callers |-> verdict'[d]]
  OBVIOUS
<1>3. LockHeldByDecider'
  BY DEF TypeOK, LockHeldByDecider, KeyOf
<1>4. DecisionIsCurrent'
  BY DEF TypeOK, DecisionIsCurrent, KeyOf, TouchedCount
<1>5. ForwardedIsGranted'
  BY DEF TypeOK, ForwardedIsGranted
<1>6. ReachedIsGranted'
  BY DEF ReachedIsGranted
<1> QED  BY <1>1, <1>2, <1>3, <1>4, <1>5, <1>6, CountersUnchanged

\* A caller starts a call, or starts one again.
LEMMA ArriveStep ==
  ASSUME IInv, NEW c \in Callers, NEW r \in Requests, Arrive(c, r)
  PROVE  IInv'
<1> USE DEF IInv, Arrive, counterVars, history
<1>1. TypeOK'
  BY DEF TypeOK, Stages, Results
<1>2. verdict' = [d \in Callers |-> verdict'[d]]
  OBVIOUS
<1>3. LockHeldByDecider'
  BY DEF TypeOK, LockHeldByDecider, KeyOf
<1>4. DecisionIsCurrent'
  BY DEF TypeOK, DecisionIsCurrent, KeyOf, TouchedCount
<1>5. ForwardedIsGranted'
  BY DEF TypeOK, ForwardedIsGranted
<1>6. ReachedIsGranted'
  BY DEF ReachedIsGranted
<1> QED  BY <1>1, <1>2, <1>3, <1>4, <1>5, <1>6, CountersUnchanged

\* Taking the slot: the caller becomes the only one past the lock.
LEMMA TakeSlotStep ==
  ASSUME IInv, NEW c \in Callers, pc[c] \in {"lock", "waiting"}, TakeSlot(c),
         UNCHANGED <<req, cancelled, verdict, lines, result, touched, extra, exited, history>>
  PROVE  IInv'
<1> USE DEF IInv, TakeSlot, history
<1>0. KeyOf(c) \in Keys
  BY DEF TypeOK, KeyOf, Keys
<1>1. TypeOK'
  BY <1>0 DEF TypeOK, Stages
<1>2. LockHeldByDecider'
  <2> SUFFICES ASSUME NEW k \in Keys
               PROVE  /\ sem'[k] = {d \in Callers : pc'[d] \in {"locked", "counting"}
                                                     /\ KeyOf(d) = k}
                      /\ \A a, b \in sem'[k] : a = b
    BY DEF LockHeldByDecider, KeyOf
  <2>1. sem[k] = {d \in Callers : pc[d] \in {"locked", "counting"} /\ KeyOf(d) = k}
        /\ \A a, b \in sem[k] : a = b
    BY DEF LockHeldByDecider
  <2>2. CASE k = KeyOf(c)
    BY <1>0, <2>1, <2>2 DEF TypeOK
  <2>3. CASE k # KeyOf(c)
    BY <1>0, <2>1, <2>3 DEF TypeOK
  <2> QED  BY <2>2, <2>3
<1>3. DecisionIsCurrent'
  BY DEF TypeOK, DecisionIsCurrent, KeyOf, TouchedCount
<1>4. ForwardedIsGranted'
  BY DEF TypeOK, ForwardedIsGranted
<1>5. ReachedIsGranted'
  BY DEF ReachedIsGranted
<1> QED  BY <1>1, <1>2, <1>3, <1>4, <1>5, CountersUnchanged

\* Decide, or its panic: the verdict is about the counters as they are.
LEMMA DecideStep ==
  ASSUME IInv, NEW c \in Callers, GateDecides(c) \/ GatePanics(c)
  PROVE  IInv'
<1> USE DEF IInv, counterVars, history
<1>0. /\ pc[c] = "locked" /\ pc' = [pc EXCEPT ![c] = "counting"]
      /\ UNCHANGED <<req, cancelled, lines, result, counterVars, exited, history>>
  BY DEF GateDecides, GatePanics
<1>1. PICK v : /\ verdict' = [verdict EXCEPT ![c] = v]
               /\ v \in {ProxyRefusal("default:internal_error"),
                         Decide(Policy, req[c].in, TouchedCount(KeyOf(c)), touched[KeyOf(c)])}
  BY DEF GateDecides, GatePanics
<1>2. TypeOK'
  BY <1>0 DEF TypeOK, Stages
<1>3. verdict' = [d \in Callers |-> verdict'[d]]
  BY <1>1
<1>4. LockHeldByDecider'
  BY <1>0 DEF TypeOK, LockHeldByDecider, KeyOf
<1>5. DecisionIsCurrent'
  BY <1>0, <1>1 DEF TypeOK, DecisionIsCurrent, KeyOf, TouchedCount
<1>6. ForwardedIsGranted'
  BY <1>0, <1>1 DEF TypeOK, ForwardedIsGranted
<1>7. ReachedIsGranted'
  BY <1>0 DEF ReachedIsGranted
<1> QED  BY <1>0, <1>2, <1>3, <1>4, <1>5, <1>6, <1>7, CountersUnchanged

\* Sending: the devices reached were granted when the call was counted.
LEMMA SendStep ==
  ASSUME IInv, NEW c \in Callers, Send(c)
  PROVE  IInv'
<1> USE DEF IInv, Send, counterVars
<1>0. /\ req[c] \in Requests /\ req[c].principal \in Principals
      /\ verdict[c].targets \subseteq granted[req[c].principal]
  BY DispatchAssumption DEF TypeOK, ForwardedIsGranted
<1>1. TypeOK'
  BY <1>0 DEF TypeOK, Stages
<1>2. LockHeldByDecider'
  BY DEF TypeOK, LockHeldByDecider, KeyOf
<1>3. DecisionIsCurrent'
  BY DEF TypeOK, DecisionIsCurrent, KeyOf, TouchedCount
<1>4. ForwardedIsGranted'
  BY DEF TypeOK, ForwardedIsGranted
<1>5. ReachedIsGranted'
  BY <1>0 DEF TypeOK, ReachedIsGranted
<1> QED  BY <1>1, <1>2, <1>3, <1>4, <1>5, CountersUnchanged

\* The devices a call is counted for: those of its verdict if it is let through.
Charged(c) == IF verdict[c].forward THEN verdict[c].targets ELSE {}

\* The step that counts a call keeps its principal within max_devices: the
\* verdict was reached on the count that is still there.
LEMMA ChargeIsWithinCap ==
  ASSUME IInv, NEW c \in Callers, pc[c] = "counting"
  PROVE  /\ req[c] \in Requests /\ req[c].principal \in Principals /\ KeyOf(c) \in Keys
         /\ Charged(c) \subseteq ValidTarget
         /\ Policy.maxDevices > 0 =>
              Cardinality(granted[req[c].principal] \cup Charged(c)) <= Policy.maxDevices
<1> DEFINE k == KeyOf(c)
           p == req[c].principal
           T == Charged(c)
<1> USE DEF IInv
<1>1. req[c] \in Requests /\ p \in Principals /\ k \in Keys
  BY DispatchAssumption DEF TypeOK, KeyOf, Keys
<1>2. /\ IsFiniteSet(touched[k]) /\ IsFiniteSet(granted[p])
      /\ Cardinality(touched[k]) \in Nat /\ extra[k] \in Nat
      /\ Cardinality(granted[p] \ touched[k]) <= extra[k]
  <2>1. touched[k] \in SUBSET ValidTarget /\ granted[p] \in SUBSET ValidTarget
        /\ extra[k] \in Nat
    BY <1>1 DEF TypeOK
  <2>2. Cardinality(granted[p] \ touched[k]) <= extra[k]
    BY <1>1 DEF ForgottenIsCounted, KeyOf
  <2> QED  BY <2>1, <2>2, ValidTargetAssumption, FS_Subset, FS_CardinalityType
<1>3. CASE ~verdict[c].forward
  <2>1. T = {}
    BY <1>3 DEF Charged
  <2>2. granted[p] \cup T = granted[p]
    BY <2>1
  <2> QED  BY <1>1, <2>1, <2>2 DEF GrantedWithinCap
<1>4. CASE verdict[c].forward
  <2>1. ~ProxyRefusal("default:internal_error").forward
    BY RefusalIsDeny DEF ProxyRefusal
  <2>2. verdict[c] = Decide(Policy, req[c].in, TouchedCount(k), touched[k])
    BY <1>4, <2>1 DEF DecisionIsCurrent
  <2>3. T = verdict[c].targets
    BY <1>4 DEF Charged
  <2>4. TouchedCount(k) \in Nat /\ TouchedCount(k) = Cardinality(touched[k]) + extra[k]
    BY <1>2 DEF TouchedCount
  <2>5. /\ T \subseteq ValidTarget
        /\ Policy.maxDevices > 0 =>
             TouchedCount(k) + Cardinality(T \ touched[k]) <= Policy.maxDevices
    <3> DEFINE V == Decide(Policy, req[c].in, TouchedCount(k), touched[k])
    <3>1. V.forward /\ V.targets = T
      BY <1>4, <2>2, <2>3
    <3>2. /\ V.targets \subseteq ValidTarget
          /\ Policy.maxDevices > 0 =>
               TouchedCount(k) + Cardinality(V.targets \ touched[k]) <= Policy.maxDevices
      <4> HIDE DEF k
      <4> QED  BY <1>2, <2>4, <3>1, DispatchAssumption, ForwardIsWithinCap
    <3> QED  BY <3>1, <3>2
  <2>6. IsFiniteSet(T)
    BY <2>5, ValidTargetAssumption, FS_Subset
  <2>7. /\ Cardinality(granted[p] \cup T)
             <= (Cardinality(touched[k]) + extra[k]) + Cardinality(T \ touched[k])
        /\ Cardinality(granted[p] \cup T) \in Nat
        /\ Cardinality(T \ touched[k]) \in Nat
    BY <1>2, <2>6, GrantArithmetic, FS_Union, FS_Difference, FS_CardinalityType
  <2> QED  BY <1>1, <2>4, <2>5, <2>7, DispatchAssumption
<1> QED  BY <1>3, <1>4

\* touch and unlock.
LEMMA CountStep ==
  ASSUME IInv, NEW c \in Callers, CountAndUnlock(c)
  PROVE  IInv'
<1> DEFINE k == KeyOf(c)
           p == req[c].principal
           T == Charged(c)
<1> USE DEF IInv
<1>0. /\ pc[c] = "counting"
      /\ granted' = [granted EXCEPT ![p] = @ \cup T]
      /\ sem' = [sem EXCEPT ![k] = {}]
      /\ pc' = [pc EXCEPT ![c] = "decided"]
      /\ UNCHANGED <<req, cancelled, verdict, lines, result, exited, reached>>
  BY DEF CountAndUnlock, Charged
<1>1. PICK R \in Remembered(k, T) :
        /\ touched' = [touched EXCEPT ![k] = @ \cup R]
        /\ extra' = [extra EXCEPT ![k] = @ + (Cardinality(T \ touched[k]) - Cardinality(R))]
  BY DEF CountAndUnlock, Charged
<1>2. /\ req[c] \in Requests /\ p \in Principals /\ k \in Keys
      /\ T \subseteq ValidTarget
      /\ Policy.maxDevices > 0 => Cardinality(granted[p] \cup T) <= Policy.maxDevices
  BY <1>0, ChargeIsWithinCap
<1>3. /\ touched[k] \in SUBSET ValidTarget /\ extra[k] \in Nat
      /\ IsFiniteSet(touched[k]) /\ IsFiniteSet(T)
      /\ Cardinality(touched[k]) \in Nat
      /\ Cardinality(touched[k]) <= MaxTouchedNames
  BY <1>2, ValidTargetAssumption, FS_Subset, FS_CardinalityType DEF TypeOK
<1>4. R \in SUBSET (T \ touched[k]) /\ IsFiniteSet(R) /\ Cardinality(R) \in Nat
      /\ Cardinality(touched[k] \cup R) <= MaxTouchedNames
  <2>1. R \in SUBSET (T \ touched[k])
        /\ Cardinality(R) <= MaxTouchedNames - Cardinality(touched[k])
    <3>1. IsFiniteSet(T \ touched[k]) /\ Cardinality(T \ touched[k]) \in Nat
      BY <1>3, FS_Difference, FS_CardinalityType
    <3> QED  BY <1>3, <3>1, DispatchAssumption DEF Remembered
  <2>2. IsFiniteSet(R) /\ Cardinality(R) \in Nat
    BY <1>3, <2>1, FS_Difference, FS_Subset, FS_CardinalityType
  <2>3. touched[k] \cap R = {}
    BY <2>1
  <2>4. Cardinality(touched[k] \cup R) = Cardinality(touched[k]) + Cardinality(R)
    <3>1. Cardinality(touched[k] \cup R)
            = Cardinality(touched[k]) + Cardinality(R) - Cardinality(touched[k] \cap R)
      BY <1>3, <2>2, FS_Union
    <3>2. Cardinality(touched[k] \cap R) = 0
      BY <2>3, FS_EmptySet
    <3> QED  BY <1>3, <2>2, <3>1, <3>2
  <2> QED  BY <1>3, <2>1, <2>2, <2>4, DispatchAssumption
<1>5. extra[k] + (Cardinality(T \ touched[k]) - Cardinality(R)) \in Nat
      /\ extra[k] <= extra[k] + (Cardinality(T \ touched[k]) - Cardinality(R))
  <2>1. IsFiniteSet({}) /\ Cardinality({} \ touched[k]) <= extra[k]
    <3>1. {} \ touched[k] = {}
      OBVIOUS
    <3> QED  BY <1>3, <3>1, FS_EmptySet
  <2> QED  BY <1>3, <1>4, <2>1, TouchArithmetic
<1>6. TypeOK'
  BY <1>0, <1>1, <1>2, <1>3, <1>4, <1>5 DEF TypeOK, Stages
<1>7. \A d \in Callers : d # c /\ pc[d] \in {"locked", "counting"} => KeyOf(d) # k
  BY <1>0, <1>2 DEF LockHeldByDecider
<1>8. LockHeldByDecider'
  <2> SUFFICES ASSUME NEW j \in Keys
               PROVE  /\ sem'[j] = {d \in Callers : pc'[d] \in {"locked", "counting"}
                                                     /\ KeyOf(d) = j}
                      /\ \A a, b \in sem'[j] : a = b
    BY <1>0 DEF LockHeldByDecider, KeyOf
  <2>1. /\ sem[j] = {d \in Callers : pc[d] \in {"locked", "counting"} /\ KeyOf(d) = j}
        /\ \A a, b \in sem[j] : a = b
    BY DEF LockHeldByDecider
  <2>2. CASE j = k
    BY <1>0, <1>2, <1>7, <2>2 DEF TypeOK
  <2>3. CASE j # k
    BY <1>0, <1>2, <2>1, <2>3 DEF TypeOK
  <2> QED  BY <2>2, <2>3
<1>9. DecisionIsCurrent'
  <2> SUFFICES ASSUME NEW d \in Callers, pc'[d] = "counting"
               PROVE  verdict'[d] \in
                        {ProxyRefusal("default:internal_error"),
                         Decide(Policy, req[d].in, TouchedCount(KeyOf(d))', touched'[KeyOf(d)])}
    BY <1>0 DEF DecisionIsCurrent, KeyOf, TouchedCount
  <2>1. d # c /\ pc[d] = "counting"
    BY <1>0 DEF TypeOK
  <2>2. KeyOf(d) # k /\ KeyOf(d) \in Keys
    BY <1>7, <2>1 DEF TypeOK, KeyOf, Keys
  <2>3. touched'[KeyOf(d)] = touched[KeyOf(d)] /\ extra'[KeyOf(d)] = extra[KeyOf(d)]
    BY <1>1, <2>2 DEF TypeOK
  <2>4. TouchedCount(KeyOf(d))' = TouchedCount(KeyOf(d))
    BY <1>0, <2>3 DEF TouchedCount, KeyOf
  <2> QED  BY <1>0, <2>1, <2>3, <2>4 DEF DecisionIsCurrent
<1>10. ForgottenIsCounted'
  <2> SUFFICES ASSUME NEW r \in Requests
               PROVE  Cardinality(granted'[r.principal] \ touched'[CounterKey(r)])
                        <= extra'[CounterKey(r)]
    BY DEF ForgottenIsCounted, CounterKey
  <2>0. /\ r.principal \in Principals /\ CounterKey(r) \in Keys
        /\ Cardinality(granted[r.principal] \ touched[CounterKey(r)]) <= extra[CounterKey(r)]
        /\ IsFiniteSet(granted[r.principal])
    <3>1. granted[r.principal] \in SUBSET ValidTarget
      BY DispatchAssumption DEF TypeOK
    <3> QED  BY <3>1, ValidTargetAssumption, FS_Subset, DispatchAssumption
             DEF ForgottenIsCounted, Keys
  <2>1. CASE r.principal = p
    <3>1. CounterKey(r) = k
      BY <2>1 DEF CounterKey, KeyOf
    <3>2. /\ granted'[p] = granted[p] \cup T
          /\ touched'[k] = touched[k] \cup R
          /\ extra'[k] = extra[k] + (Cardinality(T \ touched[k]) - Cardinality(R))
      BY <1>0, <1>1, <1>2 DEF TypeOK
    <3>3. IsFiniteSet(granted[p]) /\ Cardinality(granted[p] \ touched[k]) <= extra[k]
      BY <2>0, <2>1, <3>1
    <3>4. Cardinality((granted[p] \cup T) \ (touched[k] \cup R))
            <= extra[k] + (Cardinality(T \ touched[k]) - Cardinality(R))
      BY <1>3, <1>4, <3>3, TouchArithmetic
    <3> QED  BY <2>1, <3>1, <3>2, <3>4
  <2>2. CASE r.principal # p /\ CounterKey(r) = k
    <3>1. /\ granted'[r.principal] = granted[r.principal]
          /\ touched'[k] = touched[k] \cup R
          /\ extra'[k] >= extra[k] /\ extra'[k] \in Nat
      BY <1>0, <1>1, <1>2, <1>3, <1>5, <2>0, <2>2 DEF TypeOK
    <3>2. (granted[r.principal] \ (touched[k] \cup R)) \in SUBSET (granted[r.principal] \ touched[k])
      OBVIOUS
    <3>3. Cardinality(granted[r.principal] \ (touched[k] \cup R))
            <= Cardinality(granted[r.principal] \ touched[k])
          /\ Cardinality(granted[r.principal] \ touched[k]) \in Nat
          /\ Cardinality(granted[r.principal] \ (touched[k] \cup R)) \in Nat
      BY <2>0, <3>2, FS_Difference, FS_Subset, FS_CardinalityType
    <3> QED  BY <1>3, <2>0, <2>2, <3>1, <3>3
  <2>3. CASE r.principal # p /\ CounterKey(r) # k
    BY <1>0, <1>1, <1>2, <2>0, <2>3 DEF TypeOK
  <2> QED  BY <2>1, <2>2, <2>3
<1>11. GrantedWithinCap'
  BY <1>0, <1>2 DEF TypeOK, GrantedWithinCap
<1>12. ForwardedIsGranted'
  <2>1. granted'[p] = granted[p] \cup T
        /\ \A q \in Principals : granted[q] \subseteq granted'[q]
    BY <1>0, <1>2 DEF TypeOK
  <2>2. \A d \in Callers : pc[d] # "idle" => req[d].principal \in Principals
    BY DispatchAssumption DEF TypeOK
  <2> QED  BY <1>0, <2>1, <2>2 DEF TypeOK, ForwardedIsGranted, Charged
<1>13. ReachedIsGranted'
  BY <1>0, <1>2 DEF TypeOK, ReachedIsGranted
<1>14. verdict' = [d \in Callers |-> verdict'[d]]
  BY <1>0
<1> QED  BY <1>6, <1>8, <1>9, <1>10, <1>11, <1>12, <1>13, <1>14

\* No call's step: a context or a process ends.
LEMMA EnvironmentStep ==
  ASSUME IInv, UNCHANGED <<pc, req, verdict, lines, result, counterVars, history>>,
         cancelled' \subseteq Callers, exited' \subseteq Servers
  PROVE  IInv'
<1> USE DEF IInv, counterVars, history
<1>1. TypeOK'
  BY DEF TypeOK
<1>2. LockHeldByDecider' /\ DecisionIsCurrent'
  BY DEF LockHeldByDecider, DecisionIsCurrent, KeyOf, TouchedCount
<1>3. ForwardedIsGranted' /\ ReachedIsGranted'
  BY DEF ForwardedIsGranted, ReachedIsGranted
<1> QED  BY <1>1, <1>2, <1>3, CountersUnchanged

\* A quiet step that leaves the verdict alone, and one that ends the call.
LEMMA QuietMove ==
  ASSUME IInv, NEW c \in Callers,
         NEW s \in {"lock", "waiting", "done"},
         pc[c] \in Stages \ {"idle", "locked", "counting"},
         pc' = [pc EXCEPT ![c] = s],
         lines' \in [Callers -> Nat], result' \in [Callers -> Results],
         UNCHANGED <<req, cancelled, verdict, counterVars, exited, history>>
  PROVE  IInv'
<1>1. verdict' = [verdict EXCEPT ![c] = verdict[c]]
  BY DEF IInv
<1>2. s \in Stages \ {"idle", "locked", "counting"} /\ s \notin {"decided", "forwarding", "sent"}
  BY DEF Stages
<1> QED  BY <1>1, <1>2, QuietStep

\* A call outside the lock returns to its agent (the returns of gated and forward).
LEMMA ReturnStep ==
  ASSUME IInv, NEW c \in Callers, NEW res \in Results, Return(c, res),
         pc[c] \in Stages \ {"idle", "locked", "counting"},
         lines' \in [Callers -> Nat],
         UNCHANGED <<req, cancelled, verdict, counterVars, exited, history>>
  PROVE  IInv'
<1>1. result' \in [Callers -> Results]
  BY DEF Return, IInv, TypeOK
<1> QED  BY <1>1, QuietMove DEF Return

\* The steps of gated outside the lock are quiet.
LEMMA QuietActions ==
  ASSUME IInv, NEW c \in Callers,
         \/ StateRefused(c) \/ DownAtEntry(c) \/ TooLarge(c) \/ ToLock(c) \/ GiveUp(c)
         \/ LogDecision(c) \/ DownAtForward(c) \/ CancelledUnsent(c) \/ Finish(c)
  PROVE  IInv'
<1> USE DEF Stages
<1>1. lines \in [Callers -> Nat] /\ result \in [Callers -> Results]
      /\ {"stateError", "down", "ctxError", "refused", "answered"} \subseteq Results
  BY DEF IInv, TypeOK, Results
<1>2. CASE StateRefused(c) \/ DownAtEntry(c) \/ GiveUp(c) \/ DownAtForward(c) \/ CancelledUnsent(c)
  BY <1>1, <1>2, ReturnStep DEF StateRefused, DownAtEntry, GiveUp, DownAtForward, CancelledUnsent
<1>3. CASE Finish(c)
  BY <1>1, <1>3, ReturnStep DEF Finish
<1>4. CASE TooLarge(c)
  <2>1. ~ProxyRefusal("default:bad_arguments").forward
    BY RefusalIsDeny DEF ProxyRefusal
  <2> QED  BY <1>1, <1>4, <2>1, QuietStep DEF TooLarge, Proceeds
<1>5. CASE ToLock(c)
  BY <1>1, <1>5, QuietMove DEF ToLock, Proceeds
<1>6. CASE LogDecision(c)
  <2>1. lines' \in [Callers -> Nat] /\ pc[c] = "decided"
        /\ UNCHANGED <<req, cancelled, verdict, counterVars, exited, history>>
    BY <1>1, <1>6 DEF LogDecision
  <2>2. CASE verdict[c].forward
    <3>1. verdict[c].targets \subseteq granted[req[c].principal]
      BY <2>1, <2>2 DEF IInv, ForwardedIsGranted
    <3>2. verdict' = [verdict EXCEPT ![c] = verdict[c]]
      BY <2>1 DEF IInv
    <3>3. pc' = [pc EXCEPT ![c] = "forwarding"] /\ result' \in [Callers -> Results]
      BY <1>1, <1>6, <2>2 DEF LogDecision
    <3> QED  BY <2>1, <2>2, <3>1, <3>2, <3>3, QuietStep
  <2>3. CASE ~verdict[c].forward
    <3>1. Return(c, "refused")
      BY <1>6, <2>3 DEF LogDecision
    <3> QED  BY <1>1, <2>1, <3>1, ReturnStep
  <2> QED  BY <2>2, <2>3
<1> QED  BY <1>2, <1>3, <1>4, <1>5, <1>6

\* Taking the slot at once, or starting to wait for it.
LEMMA TryLockStep ==
  ASSUME IInv, NEW c \in Callers, TryLock(c)
  PROVE  IInv'
<1>1. CASE TakeSlot(c)
  BY <1>1, TakeSlotStep DEF TryLock
<1>2. CASE ~TakeSlot(c)
  <2>1. /\ pc[c] = "lock" /\ pc' = [pc EXCEPT ![c] = "waiting"]
        /\ UNCHANGED <<req, cancelled, verdict, lines, result, counterVars, exited, history>>
    BY <1>2 DEF TryLock, counterVars
  <2>2. lines' \in [Callers -> Nat] /\ result' \in [Callers -> Results]
    BY <2>1 DEF IInv, TypeOK
  <2> QED  BY <2>1, <2>2, QuietMove DEF Stages
<1> QED  BY <1>1, <1>2

\* Every step of a call, of an agent and of an upstream keeps the invariant.
LEMMA NextIInv == IInv /\ [Next]_vars => IInv'
<1> SUFFICES ASSUME IInv, [Next]_vars PROVE IInv'
  OBVIOUS
<1>1. ASSUME NEW c \in Callers, NEW r \in Requests, Arrive(c, r) PROVE IInv'
  BY <1>1, ArriveStep
<1>2. ASSUME NEW c \in Callers, Step(c) PROVE IInv'
  <2>1. CASE TryLock(c)
    BY <2>1, TryLockStep
  <2>2. CASE Acquire(c)
    BY <2>2, TakeSlotStep DEF Acquire
  <2>3. CASE GateDecides(c) \/ GatePanics(c)
    BY <2>3, DecideStep
  <2>4. CASE CountAndUnlock(c)
    BY <2>4, CountStep
  <2>5. CASE Send(c)
    BY <2>5, SendStep
  <2> QED  BY <1>2, <2>1, <2>2, <2>3, <2>4, <2>5, QuietActions DEF Step
<1>3. ASSUME NEW c \in Callers, Cancel(c) PROVE IInv'
  BY <1>3, EnvironmentStep DEF Cancel, IInv, TypeOK
<1>4. ASSUME NEW s \in Servers, UpstreamExits(s) PROVE IInv'
  BY <1>4, EnvironmentStep DEF UpstreamExits, callVars, IInv, TypeOK
<1>5. CASE UNCHANGED vars
  BY <1>5, EnvironmentStep DEF vars, counterVars, history, IInv, TypeOK
<1> QED  BY <1>1, <1>2, <1>3, <1>4, <1>5 DEF Next

\* The inductive invariant holds of every behaviour of the dispatch path (gated,
\* decide, forward).
THEOREM Inductive == Spec => []IInv
BY InitIInv, NextIInv, PTL DEF Spec

-----------------------------------------------------------------------------
(* What follows from it *)

\* Type correctness of the dispatch path.
THEOREM TypeCorrect == Spec => []TypeOK
<1>1. IInv => TypeOK
  BY DEF IInv
<1> QED  BY Inductive, <1>1, PTL

\* The key's lock is exclusive and is never left behind (decide).
THEOREM LockIsExclusive == Spec => []LockHeldByDecider
<1>1. IInv => LockHeldByDecider
  BY DEF IInv
<1> QED  BY Inductive, <1>1, PTL

\* No decision is taken on counters another call has changed (decideLocked).
THEOREM NoStaleDecision == Spec => []DecisionIsCurrent
<1>1. IInv => DecisionIsCurrent
  BY DEF IInv
<1> QED  BY Inductive, <1>1, PTL

\* The count of a key errs high, never low (touch, maxTouchedNames).
THEOREM CountNeverLow == Spec => []CountErrsHigh
<1>1. IInv => CountErrsHigh
  <2> SUFFICES ASSUME IInv, NEW r \in Requests
               PROVE  Cardinality(granted[r.principal]) <= TouchedCount(CounterKey(r))
    BY DEF CountErrsHigh
  <2>1. /\ granted[r.principal] \in SUBSET ValidTarget
        /\ touched[CounterKey(r)] \in SUBSET ValidTarget /\ extra[CounterKey(r)] \in Nat
        /\ Cardinality(granted[r.principal] \ touched[CounterKey(r)]) <= extra[CounterKey(r)]
    BY DispatchAssumption DEF IInv, TypeOK, ForgottenIsCounted, Keys
  <2>2. IsFiniteSet(granted[r.principal]) /\ IsFiniteSet(touched[CounterKey(r)])
    BY <2>1, ValidTargetAssumption, FS_Subset
  <2> QED  BY <2>1, <2>2, GrantArithmetic DEF TouchedCount
<1> QED  BY Inductive, <1>1, PTL

\* defaults.session.max_devices holds for every principal, whatever its calls
\* and sessions do at the same time.
THEOREM MaxDevices == Spec => []MaxDevicesHeld
<1>1. IInv => MaxDevicesHeld
  <2> SUFFICES ASSUME IInv, NEW p \in Principals, Policy.maxDevices > 0
               PROVE  Cardinality(reached[p]) <= Policy.maxDevices
    BY DEF MaxDevicesHeld
  <2>1. /\ granted[p] \in SUBSET ValidTarget /\ reached[p] \in SUBSET granted[p]
        /\ Cardinality(granted[p]) <= Policy.maxDevices
    BY DEF IInv, TypeOK, ReachedIsGranted, GrantedWithinCap
  <2>2. IsFiniteSet(granted[p])
    BY <2>1, ValidTargetAssumption, FS_Subset
  <2>3. IsFiniteSet(reached[p]) /\ Cardinality(reached[p]) <= Cardinality(granted[p])
    BY <2>1, <2>2, FS_Subset
  <2>4. Cardinality(reached[p]) \in Nat /\ Cardinality(granted[p]) \in Nat
    BY <2>2, <2>3, FS_CardinalityType
  <2> QED  BY <2>1, <2>3, <2>4, DispatchAssumption
<1> QED  BY Inductive, <1>1, PTL

\* Dispatch implements DeviceBudget: counting a forwarded call is a grant
\* within the cap, sending it reaches only what was granted, and no other
\* step of the proxy touches either.
THEOREM Refinement == Spec => BudgetHeld
<1>1. Init => Budget!BudgetInit
  BY DEF Init, Budget!BudgetInit
<1>2. IInv /\ [Next]_vars => [Budget!BudgetNext]_(Budget!budgetVars)
  <2> SUFFICES ASSUME IInv, [Next]_vars
               PROVE  Budget!BudgetNext \/ UNCHANGED <<granted, reached>>
    BY DEF Budget!budgetVars
  <2>1. ASSUME NEW c \in Callers, CountAndUnlock(c) PROVE Budget!BudgetNext
    <3>1. /\ req[c].principal \in Principals
          /\ Charged(c) \in SUBSET ValidTarget
          /\ Policy.maxDevices > 0 =>
               Cardinality(granted[req[c].principal] \cup Charged(c)) <= Policy.maxDevices
      BY <2>1, ChargeIsWithinCap DEF CountAndUnlock
    <3>2. Budget!Grant(req[c].principal, Charged(c))
      BY <2>1, <3>1 DEF Budget!Cardinality, Cardinality, Budget!Grant, Budget!Within, CountAndUnlock, Charged
    <3> QED  BY <3>1, <3>2 DEF Budget!BudgetNext
  <2>2. ASSUME NEW c \in Callers, Send(c) PROVE Budget!BudgetNext
    <3>1. req[c].principal \in Principals
      BY <2>2, DispatchAssumption DEF Send, IInv, TypeOK
    <3>2. verdict[c].targets \subseteq granted[req[c].principal]
      BY <2>2 DEF Send, IInv, ForwardedIsGranted
    <3>3. verdict[c].targets \in SUBSET ValidTarget
      BY <3>1, <3>2 DEF IInv, TypeOK
    <3>4. Budget!Reached(req[c].principal, verdict[c].targets)
      BY <2>2, <3>2 DEF Budget!Reached, Send
    <3> QED  BY <3>1, <3>3, <3>4 DEF Budget!BudgetNext
  <2>3. ASSUME NEW c \in Callers, Step(c), ~CountAndUnlock(c), ~Send(c)
        PROVE  UNCHANGED <<granted, reached>>
    BY <2>3 DEF Step, history, StateRefused, DownAtEntry, TooLarge, ToLock, TryLock,
         Acquire, GiveUp, GateDecides, GatePanics, LogDecision, DownAtForward,
         CancelledUnsent, Finish
  <2>4. ASSUME NEW c \in Callers, Cancel(c) \/ \E r \in Requests : Arrive(c, r)
        PROVE  UNCHANGED <<granted, reached>>
    BY <2>4 DEF Cancel, Arrive, history
  <2>5. ASSUME NEW s \in Servers, UpstreamExits(s) PROVE UNCHANGED <<granted, reached>>
    BY <2>5 DEF UpstreamExits, history
  <2>6. CASE UNCHANGED vars
    BY <2>6 DEF vars
  <2> QED  BY <2>1, <2>2, <2>3, <2>4, <2>5, <2>6 DEF Next
<1> QED  BY Inductive, <1>1, <1>2, PTL DEF Spec, BudgetHeld, Budget!BudgetSpec

-----------------------------------------------------------------------------
(* The decision line *)

\* Where a call is, whether it has been decided, and its decision lines.
LinesSoFar(c) ==
  /\ pc[c] \in {"entered", "lock", "waiting", "locked"} => lines[c] = 0 /\ verdict[c] = NoVerdict
  /\ pc[c] \in {"counting", "decided"} => lines[c] = 0 /\ verdict[c] # NoVerdict
  /\ pc[c] \in {"forwarding", "sent"} => lines[c] = 1 /\ verdict[c] # NoVerdict /\ verdict[c].forward
  /\ pc[c] = "done" => /\ lines[c] = IF verdict[c] = NoVerdict THEN 0 ELSE 1
                       /\ result[c] = "answered" => verdict[c] # NoVerdict

\* A verdict of the gate or of the proxy is not the absence of one.
LEMMA VerdictIsOne ==
  ASSUME NEW c \in Callers
  PROVE  /\ Decide(Policy, req[c].in, TouchedCount(KeyOf(c)), touched[KeyOf(c)]) # NoVerdict
         /\ \A rule : ProxyRefusal(rule) # NoVerdict
<1>1. \A d, k, t : Verdict(d, k, t) # NoVerdict
  BY DEF Verdict, NoVerdict
<1> QED BY <1>1 DEF Decide, ProxyRefusal

\* A step of a call changes no other call's line.
LEMMA LineOfOthers ==
  ASSUME IInv, NEW c \in Callers, NEW d \in Callers, d # c, LinesSoFar(d),
         Step(c) \/ Cancel(c) \/ \E r \in Requests : Arrive(c, r)
  PROVE  LinesSoFar(d)'
<1>1. pc'[d] = pc[d] /\ lines'[d] = lines[d] /\ verdict'[d] = verdict[d] /\ result'[d] = result[d]
  <2>1. /\ pc \in [Callers -> Stages] /\ lines \in [Callers -> Nat] /\ result \in [Callers -> Results]
        /\ verdict = [x \in Callers |-> verdict[x]]
    BY DEF IInv, TypeOK
  <2> HIDE DEF Decide, ProxyRefusal
  <2>2. CASE StateRefused(c) \/ DownAtEntry(c) \/ TooLarge(c) \/ ToLock(c)
    BY <2>1, <2>2 DEF StateRefused, DownAtEntry, TooLarge, ToLock, Return
  <2>3. CASE TryLock(c) \/ Acquire(c) \/ GiveUp(c)
    BY <2>1, <2>3 DEF TryLock, Acquire, GiveUp, TakeSlot, Return
  <2>4. CASE GateDecides(c) \/ GatePanics(c) \/ CountAndUnlock(c)
    BY <2>1, <2>4 DEF GateDecides, GatePanics, CountAndUnlock
  <2>5. CASE LogDecision(c) \/ DownAtForward(c) \/ Send(c) \/ CancelledUnsent(c) \/ Finish(c)
    BY <2>1, <2>5 DEF LogDecision, DownAtForward, Send, CancelledUnsent, Finish, Return
  <2>6. CASE Cancel(c)
    BY <2>6 DEF Cancel
  <2>7. CASE \E r \in Requests : Arrive(c, r)
    BY <2>1, <2>7 DEF Arrive
  <2> QED BY <2>2, <2>3, <2>4, <2>5, <2>6, <2>7 DEF Step
<1> QED BY <1>1 DEF LinesSoFar

\* A call's own steps.
LEMMA LineOfCaller ==
  ASSUME IInv, NEW c \in Callers, LinesSoFar(c),
         Step(c) \/ Cancel(c) \/ \E r \in Requests : Arrive(c, r)
  PROVE  LinesSoFar(c)'
<1>1. /\ pc \in [Callers -> Stages] /\ lines \in [Callers -> Nat] /\ result \in [Callers -> Results]
      /\ verdict = [x \in Callers |-> verdict[x]]
  BY DEF IInv, TypeOK
<1>2. CASE StateRefused(c) \/ DownAtEntry(c) \/ GiveUp(c)
  BY <1>1, <1>2 DEF StateRefused, DownAtEntry, GiveUp, Return, LinesSoFar
<1>3. CASE TooLarge(c)
  BY <1>1, <1>3, VerdictIsOne DEF TooLarge, Proceeds, LinesSoFar
<1>4. CASE ToLock(c) \/ TryLock(c) \/ Acquire(c)
  BY <1>1, <1>4 DEF ToLock, Proceeds, TryLock, Acquire, TakeSlot, LinesSoFar
<1>5. CASE GateDecides(c) \/ GatePanics(c)
  <2>1. pc[c] = "locked" /\ pc'[c] = "counting" /\ lines'[c] = lines[c]
    BY <1>1, <1>5 DEF GateDecides, GatePanics
  <2>2. verdict'[c] # NoVerdict
    BY <1>1, <1>5, VerdictIsOne DEF GateDecides, GatePanics
  <2> QED BY <2>1, <2>2 DEF LinesSoFar
<1>6. CASE CountAndUnlock(c)
  BY <1>1, <1>6 DEF CountAndUnlock, LinesSoFar
<1>7. CASE LogDecision(c)
  BY <1>1, <1>7 DEF LogDecision, Return, LinesSoFar
<1>8. CASE DownAtForward(c) \/ Send(c) \/ CancelledUnsent(c)
  BY <1>1, <1>8 DEF DownAtForward, Send, CancelledUnsent, Return, LinesSoFar
<1>9. CASE Finish(c)
  BY <1>1, <1>9 DEF Finish, Return, LinesSoFar
<1>10. CASE Cancel(c)
  BY <1>10 DEF Cancel, LinesSoFar
<1>11. CASE \E r \in Requests : Arrive(c, r)
  BY <1>1, <1>11 DEF Arrive, LinesSoFar
<1> QED BY <1>2, <1>3, <1>4, <1>5, <1>6, <1>7, <1>8, <1>9, <1>10, <1>11 DEF Step

\* Every call the gate or the argument cap decides has its one decision line
\* before anything is sent and keeps it whatever ends the call (ADR 0026 step 8:
\* decideAndRespond, forward), for any number of calls.
THEOREM AlwaysOneDecisionLine == Spec => []OneDecisionLine
<1>1. Init => \A c \in Callers : LinesSoFar(c)
  BY DEF Init, LinesSoFar
<1>2. IInv /\ (\A c \in Callers : LinesSoFar(c)) /\ [Next]_vars => (\A c \in Callers : LinesSoFar(c))'
  <2> SUFFICES ASSUME IInv, \A c \in Callers : LinesSoFar(c), [Next]_vars, NEW d \in Callers
               PROVE  LinesSoFar(d)'
    OBVIOUS
  <2>1. CASE \E c \in Callers : Step(c) \/ Cancel(c) \/ \E r \in Requests : Arrive(c, r)
    BY <2>1, LineOfOthers, LineOfCaller
  <2>2. CASE \E s \in Servers : UpstreamExits(s)
    BY <2>2 DEF UpstreamExits, callVars, LinesSoFar
  <2>3. CASE UNCHANGED vars
    BY <2>3 DEF vars, LinesSoFar
  <2> QED BY <2>1, <2>2, <2>3 DEF Next
<1>3. (\A c \in Callers : LinesSoFar(c)) => OneDecisionLine
  BY DEF LinesSoFar, OneDecisionLine
<1> QED BY Inductive, <1>1, <1>2, <1>3, PTL DEF Spec
=============================================================================
