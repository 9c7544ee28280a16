---------------------------- MODULE PolicyEngine ----------------------------
(***************************************************************************)
(* internal/policy: Evaluate(policy, request) -> Decision, a pure function *)
(* of the loaded policy and one classified, resolved request.              *)
(*                                                                         *)
(* A policy is a record                                                    *)
(*   loaded        FALSE for the nil policy                                *)
(*   unknownTarget defaults.unknown_target: "unset", "allow" or "deny"     *)
(*   maxDevices, maxPending   defaults.session.*; 0 means no cap           *)
(*   rules         the rules in file order                                 *)
(* A rule's matchers are sets; the empty set is a matcher left out of the  *)
(* file.  A glob pattern is the set of the names it matches, and a name is *)
(* the sequence of its dot-separated parts, so <<"eos", "run">> is "run"   *)
(* prefixed with its server.  A numeric range is the set of its bounds.    *)
(*                                                                         *)
(* A request carries a set of targets: the gate has removed repeats, and   *)
(* two targets of one request never share a name.                          *)
(***************************************************************************)
EXTENDS Integers, Sequences, FiniteSets

Classes == {"READ_OPERATIONAL", "READ_CONFIG", "WRITE_CONFIG",
            "EXEC_ARBITRARY", "INVENTORY_READ", "LAB_LIFECYCLE", "LOCAL_ADMIN"}

Effects == {"allow", "hold", "deny"}

-----------------------------------------------------------------------------
(* Rule matching *)

GlobAny(patterns, name) == \E p \in patterns : name \in p

\* The tool without a leading "<server>." part.
BareTool(r) ==
  IF Len(r.tool) > 1 /\ r.tool[1] = r.server THEN Tail(r.tool) ELSE r.tool

Contains(range, n) ==
  \A b \in range : CASE b.op = "gt"  -> n > b.at
                     [] b.op = "gte" -> n >= b.at
                     [] b.op = "lt"  -> n < b.at
                     [] b.op = "lte" -> n <= b.at
                     [] b.op = "eq"  -> n = b.at

Matches(rule, r) ==
  /\ rule.class # {}   => r.class \in rule.class
  /\ rule.servers # {} => GlobAny(rule.servers, <<r.server>>)
  /\ rule.tools # {}   => \/ GlobAny(rule.tools, BareTool(r))
                          \/ GlobAny(rule.tools, <<r.server>> \o BareTool(r))
  /\ rule.deviceRoles # {} =>
       r.targets # {} /\ \A t \in r.targets : t.role \in rule.deviceRoles
  /\ rule.deviceTags # {} =>
       r.targets # {} /\ \A t \in r.targets : t.tags \cap rule.deviceTags # {}
  /\ Contains(rule.targetsCount, Cardinality(r.targets))

-----------------------------------------------------------------------------
(* Evaluate *)

Decision(effect, rule, obligations) ==
  [effect |-> effect, rule |-> rule, obligations |-> obligations]

Denied(rule) == Decision("deny", rule, {})

UnknownTargets(r) == {t \in r.targets : ~t.known}

\* Devices the session would have touched once this request ran.
DeviceTotal(r) == r.devicesTouched + Cardinality(r.targets)

\* Mutant: the request's own devices are not added.
OverDeviceCapBefore(p, r) == p.maxDevices > 0 /\ r.devicesTouched > p.maxDevices

OverDeviceCap(p, r) == p.maxDevices > 0 /\ DeviceTotal(r) > p.maxDevices

\* A hold over the pending cap becomes a deny; the rule's obligations stay.
RuleDecision(p, rule, r) ==
  IF rule.effect = "hold" /\ p.maxPending > 0 /\ r.pendingHolds >= p.maxPending
  THEN Decision("deny", "default:session.max_pending", rule.obligations)
  ELSE Decision(rule.effect, rule.id, rule.obligations)

Matching(p, r) == {i \in DOMAIN p.rules : Matches(p.rules[i], r)}

First(S) == CHOOSE i \in S : \A j \in S : i <= j

Evaluate(p, r) ==
  IF ~p.loaded THEN Denied("default:no-match")
  ELSE IF UnknownTargets(r) # {} /\ p.unknownTarget # "allow"
       THEN Denied("default:unknown_target")
  ELSE IF OverDeviceCap(p, r) THEN Denied("default:session.max_devices")
  ELSE IF Matching(p, r) = {} THEN Denied("default:no-match")
  ELSE RuleDecision(p, p.rules[First(Matching(p, r))], r)
=============================================================================
