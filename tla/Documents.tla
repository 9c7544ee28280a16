----------------------------- MODULE Documents ------------------------------
(***************************************************************************)
(* The policy and profile files fathomgate accepts: policy.Parse,          *)
(* classify.ParseProfile and the profile sets of internal/configset.  A    *)
(* decoded document keeps what the file says, lists as sequences; an       *)
(* accepted one becomes the policy and the ToolSpecs the gate decides with.*)
(*                                                                         *)
(* Unreadable stands for every file that gives no document: configfile's   *)
(* checks refuse it, it is too large, or it is not strict YAML.            *)
(***************************************************************************)
EXTENDS Classify, PolicyEngine

SE == INSTANCE SequencesExt

CONSTANTS
  Unreadable,        \* a file that yields no document
  BadGlob,           \* a glob path.Match refuses
  NoRange,           \* a rule without when.targets_count
  NoApproval,        \* a rule without approval
  NoList,            \* a tool without args
  NotPrintable,      \* texts with a byte outside 0x21 to 0x7e
  MaxCapabilityID,   \* maxCapabilityID
  LowerCase(_),      \* strings.ToLower
  JunosLoadTools     \* configDialects: <<server, tool>> that load Junos configuration

KnownObligations == {"dry_run", "diff", "timed_rollback", "redact", "canary_first",
                     "require_ticket", "notify"}

\* No surrounding space, and not empty.
Trimmed(s) == s # "" /\ SubSeq(s, 1, 1) # " " /\ SubSeq(s, Len(s), Len(s)) # " "

Blank(s) == \A i \in 1..Len(s) : SubSeq(s, i, i) = " "

-----------------------------------------------------------------------------
(* The policy *)

DefaultPrefix(id) == Len(id) >= 8 /\ SubSeq(id, 1, 8) = "default:"

DefaultRules == {"default:bad_arguments", "default:no-match", "default:unknown_target",
                 "default:session.max_devices", "default:session.max_pending"}

\* Every built-in rule has the prefix no rule of a policy may have.
ASSUME DefaultsAssumption == \A id \in DefaultRules : DefaultPrefix(id)

RuleFields == {"id", "effect", "class", "servers", "tools", "deviceRoles", "deviceTags",
               "targetsCount", "obligations", "approval"}

\* What the decoder makes of a policy, right or wrong: rules in a sequence.
IsPolicyDoc(p) ==
  \A i \in DOMAIN p.rules : i \in Nat /\ p.rules[i] = [f \in RuleFields |-> p.rules[i][f]]

\* gt at or above lt can never match; the other pairs are not compared.
EmptyRange(range) ==
  \/ range = {}
  \/ \E a, b \in range : a.op = "gt" /\ b.op = "lt" /\ a.at >= b.at

\* Rule.validate.
ValidRule(r) ==
  /\ ~Blank(r.id) /\ ~DefaultPrefix(r.id)
  /\ r.effect \in Effects
  /\ r.class \subseteq Classes
  /\ BadGlob \notin r.tools \cup r.servers
  /\ r.obligations \subseteq KnownObligations
  /\ r.approval # NoApproval => r.effect = "hold" /\ r.approval >= 0
  /\ r.targetsCount # NoRange => ~EmptyRange(r.targetsCount)

\* Policy.Validate.
ValidPolicy(p) ==
  /\ p.version = 1
  /\ p.unknownTarget \in {"unset", "allow", "deny"}
  /\ p.maxDevices >= 0 /\ p.maxPending >= 0
  /\ p.rules # <<>>
  /\ \A i \in DOMAIN p.rules : ValidRule(p.rules[i])
  /\ \A i, j \in DOMAIN p.rules : p.rules[i].id = p.rules[j].id => i = j

\* policy.Parse, for a document that passed: an unset default is deny.
ParsePolicy(p) ==
  [loaded        |-> TRUE,
   unknownTarget |-> IF p.unknownTarget = "unset" THEN "deny" ELSE p.unknownTarget,
   maxDevices    |-> p.maxDevices,
   maxPending    |-> p.maxPending,
   rules         |-> [i \in DOMAIN p.rules |->
     [p.rules[i] EXCEPT !.targetsCount = IF @ = NoRange THEN {} ELSE @]]]

-----------------------------------------------------------------------------
(* A profile *)

CapabilityList(t) == IF t.capabilityParam = "" THEN <<>> ELSE <<t.capabilityParam>>

NamedList(t) ==
  t.targetParams \o t.targetsParams \o t.groupParams \o t.commandParams \o t.configParams
    \o CapabilityList(t) \o t.args

NoRepeats(list) == \A i, j \in DOMAIN list : list[i] = list[j] => i = j

\* ToolSpec.validateArgs.
ValidArgs(t) ==
  /\ t.args # NoList
  /\ LET named == NamedList(t)
     IN /\ \A n \in SE!ToSet(named) \cup SE!ToSet(t.refusedArgs) : Trimmed(n)
        /\ NoRepeats(named) /\ NoRepeats(t.refusedArgs)
        /\ SE!ToSet(named) \cap SE!ToSet(t.refusedArgs) = {}

\* Mutant: a meta-tool may have commands and configuration too.
ValidCapabilityWithContent(t, tables) ==
  \/ t.capabilityParam = "" /\ t.capabilityTable = ""
  \/ /\ t.capabilityParam # "" /\ t.capabilityTable \in DOMAIN tables
     /\ t.class = "EXEC_ARBITRARY"

\* ToolSpec.validateCapability.
ValidCapability(t, tables) ==
  \/ t.capabilityParam = "" /\ t.capabilityTable = ""
  \/ /\ t.capabilityParam # "" /\ t.capabilityTable # ""
     /\ t.capabilityTable \in DOMAIN tables
     /\ t.class = "EXEC_ARBITRARY"
     /\ t.commandParams = <<>> /\ t.configParams = <<>>

ValidCapabilityID(id) ==
  Len(id) \in 1..MaxCapabilityID /\ id \notin NotPrintable /\ id \notin ParsesAsJSON

ValidTable(name, table) ==
  /\ Trimmed(name)
  /\ DOMAIN table # {}
  /\ \A id \in DOMAIN table : ValidCapabilityID(id) /\ table[id] \in Classes
  /\ \A a, b \in DOMAIN table : LowerCase(a) = LowerCase(b) => a = b

\* Profile.Validate.
ValidProfile(p) ==
  /\ ~Blank(p.server)
  /\ DOMAIN p.tools # {}
  /\ \A n \in DOMAIN p.tools :
       /\ p.tools[n].class \in Classes
       /\ ValidArgs(p.tools[n])
       /\ ValidCapability(p.tools[n], p.capabilities)
  /\ \A name \in DOMAIN p.capabilities :
       /\ ValidTable(name, p.capabilities[name])
       /\ \E n \in DOMAIN p.tools : p.tools[n].capabilityTable = name

\* The entry the gate decides with.
SpecFrom(p, n) ==
  LET t == p.tools[n]
  IN [class           |-> t.class,
      neverDowngrade  |-> t.neverDowngrade,
      targetParams    |-> SE!ToSet(t.targetParams),
      targetsParams   |-> SE!ToSet(t.targetsParams),
      groupParams     |-> SE!ToSet(t.groupParams),
      commandParams   |-> SE!ToSet(t.commandParams),
      configParams    |-> SE!ToSet(t.configParams),
      args            |-> SE!ToSet(t.args),
      capabilityParam |-> IF t.capabilityParam = "" THEN NoParam ELSE t.capabilityParam,
      capabilities    |-> IF t.capabilityTable = "" THEN [id \in {} |-> {}]
                          ELSE p.capabilities[t.capabilityTable],
      junosLoad       |-> <<p.server, n>> \in JunosLoadTools]

ParseProfile(p) == [n \in DOMAIN p.tools |-> SpecFrom(p, n)]

\* A parameter in a file is a text, never the mark of its absence.
IsProfileDoc(p) == \A n \in DOMAIN p.tools : p.tools[n].capabilityParam # NoParam

-----------------------------------------------------------------------------
(* A directory of profiles.  An entry is [ext, name, doc]: name is the file *)
(* name without its extension.                                              *)

\* A directory has one file of a name.
IsDir(dir) ==
  dir.entries # Unreadable =>
    /\ \A e \in dir.entries : e.doc # Unreadable => IsProfileDoc(e.doc)
    /\ \A a, b \in dir.entries : a.name = b.name /\ a.ext = b.ext => a = b

\* An entry that looks like a profile and would not be loaded.
RefusedEntry(e) == e.ext \in {"dir", ".yml"}

\* Mutant: a profile file may have any name.
GoodProfileFileAnyName(e) == e.doc # Unreadable /\ ValidProfile(e.doc)

GoodProfileFile(e) == e.doc # Unreadable /\ ValidProfile(e.doc) /\ e.doc.server = e.name

\* ProfileDir: every entry is loaded, or is not a profile, or refuses them all.
ProfileDir(dir) ==
  /\ dir.entries # Unreadable
  /\ \A e \in dir.entries : ~RefusedEntry(e) /\ (e.ext = ".yaml" => GoodProfileFile(e))
  /\ \E e \in dir.entries : e.ext = ".yaml"

\* ByServer.
ByServer(dir) ==
  LET docs == {e.doc : e \in {x \in dir.entries : x.ext = ".yaml"}}
  IN [s \in {d.server : d \in docs} |-> ParseProfile(CHOOSE d \in docs : d.server = s)]
=============================================================================
