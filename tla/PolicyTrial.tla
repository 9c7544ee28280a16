---------------------------- MODULE PolicyTrial ----------------------------
(***************************************************************************)
(* What an operator is told of a decision, and what predicts it: the       *)
(* decision line serve logs and the error its agent gets (internal/gate    *)
(* record.go and text.go), the cases of policy test (internal/policytest)  *)
(* and one policy eval (cmd/fathomgate policy.go).                         *)
(*                                                                         *)
(* A case has the fields its file gives: a field that is left out is not   *)
(* in the domain of the record.  A text is the parts it is put together    *)
(* from.  Arguments over the proxy's size cap, which no case can hold, are *)
(* not in the universe of calls.                                           *)
(***************************************************************************)
EXTENDS GateCall

CONSTANTS
  ArgNames,         \* every argument name, in the order of sort.Strings
  MaxLoggedNames,   \* maxLoggedNames
  Trim(_)           \* strings.TrimSpace

Sources == {"profile", "capability_table", "fallback", "annotation_raise",
            "downgrade", "reclassify"}

ParseErrors == {"invalid_utf8", "invalid_json", "not_object", "duplicate_key",
                "trailing_data", "too_many_commands", "too_many_targets"}

BadArguments == "default:bad_arguments"

\* A decoded call: finitely many arguments, and a text's parts have no comma.
ASSUME DecodedAssumption ==
  /\ \A in \in Calls :
       /\ in.parse \in ParseErrors \cup {""}
       /\ IsFiniteSet(DOMAIN in.args)
       /\ in.args = [n \in DOMAIN in.args |->
                       [kind |-> in.args[n].kind, items |-> in.args[n].items]]
       /\ \A n \in DOMAIN in.args : IsFiniteSet(DOMAIN in.args[n].items)
  /\ \A t \in DOMAIN SplitCommas :
       /\ SplitCommas[t] = [i \in 1..Len(SplitCommas[t]) |-> SplitCommas[t][i]]
       /\ Len(SplitCommas[t]) \in Nat
       /\ \A i \in DOMAIN SplitCommas[t] :
            /\ Trim(SplitCommas[t][i]) # NonString
            /\ Len(SplitCommas[Trim(SplitCommas[t][i])]) \in {0, 1}
  /\ \A in \in Calls : \A n \in DOMAIN in.args :
       in.args[n].kind = "string" => in.args[n].items[1] \in DOMAIN SplitCommas
  /\ \A t \in ValidTarget : Trim(t) = t
  /\ \A t \in DOMAIN DataFormats : Len(SplitCommas[t]) \in {0, 1}

\* The loader's validateArgs: an argument is named once.
ASSUME NamedOnceAssumption ==
  \A s \in DOMAIN Profiles : \A t \in DOMAIN Profiles[s] :
    LET spec == Profiles[s][t]
    IN DeviceParams(spec) \cap
         (spec.commandParams \cup spec.configParams \cup CapabilityParams(spec)) = {}

\* A record with a field more, or another value of it.
With(r, field, value) ==
  [f \in DOMAIN r \cup {field} |-> IF f = field THEN value ELSE r[f]]

-----------------------------------------------------------------------------
(* The decision line and the tool error *)

\* What decide leaves beside the decision.
ParseError(in) ==
  IF in.parse # "" THEN in.parse
  ELSE IF Readable(in) THEN ""
  ELSE IF TooManyCommands(SpecOf(in), in.args) THEN "too_many_commands"
  ELSE "too_many_targets"

Unnamed(in) ==
  CASE ~Readable(in) \/ ~HasProfile(in) -> {}
    [] Readable(in) /\ InProfile(in) -> UnnamedArgs(SpecOf(in), in.args)
    [] Readable(in) /\ HasProfile(in) /\ ~InProfile(in) -> DOMAIN in.args

Malformed(in) ==
  IF Readable(in) /\ InProfile(in) THEN MalformedArgs(SpecOf(in), in.args) ELSE {}

\* The fixed reason of a refusal, by the first check that fails.
RefusalReason(in) ==
  IF ParseError(in) # "" THEN ParseError(in)
  ELSE IF Unnamed(in) # {} THEN "unnamed"
  ELSE IF Malformed(in) # {}
       THEN IF Malformed(in) = CapabilityParams(SpecOf(in)) THEN "capability" ELSE "malformed"
  ELSE IF BadTarget(SpecOf(in), in.args) THEN "bad_target"
  ELSE IF SelectsGroup(SpecOf(in), in.args) THEN "group"
  ELSE "no_target"

\* Evaluate's own reasons, which quote names and counts, are never shown.
DenyReason(p, in, decision) ==
  CASE decision.rule = BadArguments -> RefusalReason(in)
    [] decision.rule = "default:no-match" /\ ~p.loaded -> "no policy loaded"
    [] OTHER -> decision.rule

\* The first obligation that cannot be met is named, if the vocabulary has it; no
\* rule of a policy carries two of them.
UnmetReason(obligations) ==
  obligations \cap {"dry_run", "diff", "timed_rollback"}

NoError == [verb |-> "", rule |-> "", class |-> "", reason |-> {}, unknown |-> FALSE]

\* Text for the agent, beside the tool's name; none for a call that is forwarded.
ErrorText(decision, v, deny, unknown) ==
  LET error(verb, reason, suffix) ==
        [verb |-> verb, rule |-> decision.rule, class |-> v.class,
         reason |-> reason, unknown |-> suffix]
  IN CASE v.forward -> NoError
       [] ~v.forward /\ decision.effect = "allow" ->
            error("cannot run", UnmetReason(decision.obligations \ Forwardable), FALSE)
       [] decision.effect = "hold" -> error("held", {"no approvals yet"}, FALSE)
       [] decision.effect = "deny" ->
            error("denied", {deny},
                  unknown /\ decision.rule # "default:unknown_target")

\* Names are agent text: sorted, cut to a few, with the number left out.
CapNames(names) ==
  LET upTo(j) == Cardinality({k \in 1..j : ArgNames[k] \in names})
      kept    == {n \in names : \E j \in DOMAIN ArgNames :
                                   ArgNames[j] = n /\ upTo(j) <= MaxLoggedNames}
  IN [names |-> kept, more |-> Cardinality(names \ kept)]

NoNames == [names |-> {}, more |-> 0]

\* The attributes every line has, by key.
Record(in, decision, v, resolved, deny) ==
  [server         |-> in.server,
   tool           |-> in.tool,
   class          |-> v.class,
   class_source   |-> v.source,
   targets        |-> {t.name : t \in resolved},
   roles          |-> {<<t.name, t.role>> : t \in resolved},
   unknown_target |-> \E t \in resolved : ~t.known,
   decision       |-> v.effect,
   rule_id        |-> v.rule,
   reason         |-> CASE decision.effect = "deny"  -> deny
                        [] decision.effect = "hold"  -> "no approvals yet"
                        [] decision.effect = "allow" -> decision.rule,
   obligations    |-> decision.obligations,
   forwarded      |-> v.forward]

\* The attributes a line has where there is something to say.
Shown(in) ==
  {f \in {"parse_error", "unnamed_args", "malformed_args"} :
     CASE f = "parse_error"    -> ParseError(in) # ""
       [] f = "unnamed_args"   -> Unnamed(in) # {}
       [] f = "malformed_args" -> Malformed(in) # {}}

Detail(in) ==
  [f \in Shown(in) |-> CASE f = "parse_error"    -> ParseError(in)
                         [] f = "unnamed_args"   -> CapNames(Unnamed(in))
                         [] f = "malformed_args" -> CapNames(Malformed(in))]

Explanation(in, decision, resolved, v, deny) ==
  [verdict  |-> v,
   decision |-> decision,
   error    |-> ErrorText(decision, v, deny, \E t \in resolved : ~t.known),
   record   |-> Record(in, decision, v, resolved, deny),
   detail   |-> Detail(in)]

Explained(p, in, decision, resolved) ==
  Explanation(in, decision, resolved,
              Verdict(decision, Classification(in, IF Readable(in) THEN in.args ELSE NoArgs),
                      {t.name : t \in resolved}),
              DenyReason(p, in, decision))

\* Explain: the steps of Decide, and the operator's detail of them.
Explain(p, in, count, counted) ==
  Explained(p, in,
            IF Refused(in) THEN Denied(BadArguments) ELSE Evaluate(p, Request(in, count, counted)),
            IF Refused(in) THEN {} ELSE {Resolve(n) : n \in Names(in)})

-----------------------------------------------------------------------------
(* policy test *)

GateFields == {"class", "class_source", "targets", "unknown_target", "parse_error",
               "unnamed_args", "malformed_args", "forwarded", "tool_error"}

ExpectFields == GateFields \cup {"effect", "rule", "obligations"}

ArgumentFields == {"arguments", "argumentsJSON"}

IsGate(c) == ArgumentFields \cap DOMAIN c.request # {}

Within(e, field, values) == field \in DOMAIN e => e[field] \in values

\* A case that could never pass, or could pass for the wrong reason, is not
\* loaded.
CheckGiven(r, e) ==
  /\ "class" \in DOMAIN r /\ r.class \in Classes
  /\ "annotations" \notin DOMAIN r
  /\ DOMAIN e \cap GateFields = {}

CheckGate(r, e) ==
  /\ ~(ArgumentFields \subseteq DOMAIN r)
  /\ DOMAIN r \cap {"class", "targets"} = {}
  /\ "rule" \in DOMAIN e
  /\ Within(e, "class", Classes)
  /\ Within(e, "class_source", Sources)
  /\ Within(e, "parse_error", ParseErrors)
  /\ DOMAIN e \cap {"parse_error", "unnamed_args", "malformed_args"} # {} => e.rule = BadArguments

\* Parse and RunFile: the rules of a case, and that a gate case names a
\* server with a profile.
Loads(c) ==
  /\ c.expect.effect \in Effects
  /\ IF IsGate(c)
     THEN CheckGate(c.request, c.expect) /\ c.request.server \in DOMAIN Profiles
     ELSE CheckGiven(c.request, c.expect)

Asserted(e, field, value) == field \in DOMAIN e => e[field] = value

Mismatch(e, decision) ==
  \/ e.effect # decision.effect
  \/ ~Asserted(e, "rule", decision.rule)

\* Mutant: an asserted list the line does not have is not looked at.
SameNamesWhenLogged(e, field, detail) ==
  field \in DOMAIN detail => Asserted(e, field, detail[field])

\* An assertion on a list the line may leave out: empty says it is not there.
SameNames(e, field, detail) ==
  Asserted(e, field, IF field \in DOMAIN detail THEN detail[field] ELSE NoNames)

\* runGate's assertions; a case passes when none of them fails.
AgreesGate(e, ex) ==
  /\ ~Mismatch(e, ex.decision)
  /\ Asserted(e, "class", ex.verdict.class)
  /\ Asserted(e, "class_source", ex.verdict.source)
  /\ Asserted(e, "obligations", ex.record.obligations)
  /\ Asserted(e, "targets", ex.verdict.targets)
  /\ Asserted(e, "unknown_target", ex.record.unknown_target)
  /\ "parse_error" \in DOMAIN e =>
       "parse_error" \in DOMAIN ex.detail /\ e.parse_error = ex.detail["parse_error"]
  /\ SameNames(e, "unnamed_args", ex.detail)
  /\ SameNames(e, "malformed_args", ex.detail)
  /\ Asserted(e, "forwarded", ex.verdict.forward)
  /\ Asserted(e, "tool_error", ex.error)

\* The call of a gate case; the hints absent unless annotations give them,
\* and no names already counted.
CallOfCase(r) ==
  LET sent  == IF "argumentsJSON" \in DOMAIN r THEN r.argumentsJSON
               ELSE [parse |-> "", args |-> r.arguments]
      hints == IF "annotations" \in DOMAIN r THEN r.annotations
               ELSE [readOnlyHint |-> "absent", destructiveHint |-> "absent"]
  IN [server |-> r.server, tool |-> r.tool, parse |-> sent.parse, args |-> sent.args,
      readOnlyHint |-> hints.readOnlyHint, destructiveHint |-> hints.destructiveHint,
      pendingHolds |-> r.pendingHolds]

\* The request of a class-given case; a target is known unless it says not.
RequestOfCase(r) ==
  [server |-> r.server, tool |-> r.tool, class |-> r.class,
   targets |-> IF "targets" \notin DOMAIN r THEN {}
               ELSE {With(t, "known", "known" \in DOMAIN t => t.known) : t \in r.targets},
   devicesTouched |-> r.devicesTouched, pendingHolds |-> r.pendingHolds]

ExplainCase(p, c) == Explain(p, CallOfCase(c.request), c.request.devicesTouched, {})

PassesGiven(p, c) ==
  LET d == Evaluate(p, RequestOfCase(c.request))
  IN ~Mismatch(c.expect, d) /\ Asserted(c.expect, "obligations", d.obligations)

-----------------------------------------------------------------------------
(* policy eval *)

\* With --class and --target: the names as internal/gate takes them.
EvalGiven(p, server, tool, class, names, touched, holds) ==
  IF names \subseteq ValidTarget
  THEN Evaluate(p, [server |-> server, tool |-> tool, class |-> class,
                    targets |-> {Resolve(n) : n \in names},
                    devicesTouched |-> touched, pendingHolds |-> holds])
  ELSE Denied(BadArguments)

\* --arg key=value: a value with commas becomes an array of trimmed parts.
ParseArg(text) ==
  LET parts == SplitCommas[text]
  IN IF Len(parts) > 1
     THEN [kind |-> "list", items |-> [i \in DOMAIN parts |-> Trim(parts[i])]]
     ELSE [kind |-> "string", items |-> <<text>>]

ParseArgs(kv) == [k \in DOMAIN kv |-> ParseArg(kv[k])]

\* With --profile: the verdict of the gate on the call, with no annotations.
EvalGate(p, server, tool, kv, touched, holds) ==
  Decide(p, [server |-> server, tool |-> tool, parse |-> "", args |-> ParseArgs(kv),
             readOnlyHint |-> "absent", destructiveHint |-> "absent", pendingHolds |-> holds],
         touched, {})

-----------------------------------------------------------------------------
(* Properties *)

\* A gate case written down from a decision line: the call, and every field of
\* the line; unnamed_args and its like only where the line has them.
RequestFrom(in, touched) ==
  With([server |-> in.server, tool |-> in.tool, devicesTouched |-> touched,
        pendingHolds |-> in.pendingHolds,
        annotations  |-> [readOnlyHint    |-> in.readOnlyHint,
                          destructiveHint |-> in.destructiveHint]],
       IF in.parse = "" THEN "arguments" ELSE "argumentsJSON",
       IF in.parse = "" THEN in.args ELSE [parse |-> in.parse, args |-> in.args])

ExpectFrom(ex) ==
  LET told == [effect |-> ex.record.decision, rule |-> ex.record.rule_id,
               obligations |-> ex.record.obligations, class |-> ex.record.class,
               class_source |-> ex.record.class_source, targets |-> ex.record.targets,
               unknown_target |-> ex.record.unknown_target,
               forwarded |-> ex.record.forwarded, tool_error |-> ex.error]
  IN [f \in DOMAIN told \cup DOMAIN ex.detail |->
        IF f \in DOMAIN told THEN told[f] ELSE ex.detail[f]]

CaseOf(in, ex, touched) == [request |-> RequestFrom(in, touched), expect |-> ExpectFrom(ex)]

\* What another expectation of the same call may say.
Alternatives(p, field) ==
  CASE field = "effect"         -> Effects
    [] field = "rule"           -> {p.rules[i].id : i \in DOMAIN p.rules} \cup {BadArguments}
    [] field = "class"          -> Classes
    [] field = "class_source"   -> Sources
    [] field = "obligations"    -> {{}, {"redact"}}
    [] field = "targets"        -> {{}, DOMAIN Inventory}
    [] field \in {"unknown_target", "forwarded"} -> BOOLEAN
    [] field = "parse_error"    -> ParseErrors
    [] field = "tool_error"     -> {NoError}
    [] field \in {"unnamed_args", "malformed_args"} ->
         {NoNames, [names |-> {"cmds"}, more |-> 1]}

\* The line says so; of a refusal, leaving a list out of the line and an empty
\* list are the same.
Says(c, field, value) ==
  \/ field \in DOMAIN c.expect /\ c.expect[field] = value
  \/ /\ field \in {"unnamed_args", "malformed_args"} \ DOMAIN c.expect
     /\ c.expect.rule = BadArguments /\ value = NoNames

NetCount == DevicesTouched(counter.count, counter.counted, Names(call))

\* A case is loaded and passes on what the gate says of its call just when each
\* of its expectations is what the line says.
StandsFor(c, again) ==
  \A field \in ExpectFields :
    \A value \in Alternatives(policy, field)
                  \cup {c.expect[f] : f \in {field} \cap DOMAIN c.expect} :
      LET other == [c EXCEPT !.expect = With(@, field, value)]
      IN (Loads(other) /\ AgreesGate(other.expect, again))
           <=> (HasProfile(call) /\ Says(c, field, value))

Reproduced(c) == StandsFor(c, ExplainCase(policy, c))

Told(ex) == ex.verdict = ruling /\ Reproduced(CaseOf(call, ex, NetCount))

\* The decision line is reproducible and a suite vouches for it (gate.Explain,
\* record, check, runGate).  Written down as a gate case with the devices the
\* session had touched beside its own, a line of serve loads (unless the
\* server has no profile, when no case can stand for it) and passes; change
\* any one expectation and it no longer does both.
CasesTell == Decided => Told(Explain(policy, call, counter.count, counter.counted))

\* What --arg can give: strings, with commas only where devices are named and
\* serve takes the text as it is: policy eval trims the parts, serve does not.
Typed(in) ==
  /\ in.parse = "" /\ InProfile(in) /\ ~Raises(in)
  /\ \A n \in DOMAIN in.args :
       /\ in.args[n].kind = "string"
       /\ Len(SplitCommas[in.args[n].items[1]]) > 1
            => n \in DeviceParams(SpecOf(in)) /\ ~Refused(in)

\* The class-given case of a decision: a target that is known does not say so.
Written(t) ==
  [f \in {"name", "role", "tags"} \cup (IF t.known THEN {} ELSE {"known"}) |-> t[f]]

GivenCase(targets, decision) ==
  [request |->
     [server |-> call.server, tool |-> call.tool, class |-> ruling.class,
      targets |-> {Written(t) : t \in targets},
      devicesTouched |-> NetCount, pendingHolds |-> call.pendingHolds],
   expect |-> decision]

GivenAgrees(decision, c) ==
  /\ EvalGiven(policy, call.server, call.tool, ruling.class, Names(call),
               NetCount, call.pendingHolds) = decision
  /\ Loads(c) /\ PassesGiven(policy, c)

GivenTells(decision) ==
  GivenAgrees(decision, GivenCase({Resolve(n) : n \in Names(call)}, decision))

\* The three other ways to ask (policy eval by class or by arguments, a
\* class-given case) decide as serve does: told the class and the devices the
\* gate found, or given the arguments as --arg flags, where a list of devices
\* is an array and not the text the agent sent.
EvalAgrees ==
  Decided =>
    /\ ~Refused(call) =>
         GivenTells(Evaluate(policy, Request(call, counter.count, counter.counted)))
    /\ Typed(call) =>
         EvalGate(policy, call.server, call.tool,
                  [n \in DOMAIN call.args |-> call.args[n].items[1]],
                  NetCount, call.pendingHolds) = ruling

\* policy test and policy eval tell what serve does.
TestsTell == CasesTell /\ EvalAgrees
=============================================================================
