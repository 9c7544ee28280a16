--------------------------- MODULE InventoryChain ---------------------------
(***************************************************************************)
(* internal/inventory: the chain a decoded inventory.yaml builds, what it  *)
(* answers for a name, and what lint says about the file.                  *)
(*                                                                         *)
(* A file is [devices, roles], both in file order.  A device is [name,     *)
(* role, site, tags, status] and a pattern [match, role, site, tags]; "" is*)
(* a field left out, tags are sets.  A regular expression is opaque: the   *)
(* constants say which ones do not compile and which names each matches.   *)
(*                                                                         *)
(* The chain File.Chain builds has one name authority, the device list,    *)
(* and one enricher, the patterns; Chain.Resolve's loop over later         *)
(* authorities has nothing to run on until one exists.                     *)
(***************************************************************************)
EXTENDS Integers, Sequences

CONSTANTS
  Normalize(_),        \* lower case, without surrounding space
  BadRegex,            \* the match texts that do not compile
  RegexMatches(_, _)   \* does a match text match a name

ASSUME NormalizeAssumption == Normalize("") = ""

Unlisted == [name |-> "", role |-> "", site |-> "", tags |-> {}, status |-> ""]

\* No provider has supplied anything yet.
NoSources == [role |-> "", site |-> "", status |-> "", tags |-> [t \in {} |-> ""]]

DeviceFields == {"name", "role", "site", "tags", "status"}

\* What the decoder makes of an inventory file, right or wrong.
IsInventoryDoc(f) ==
  /\ f = [x \in {"devices", "roles"} |-> f[x]]
  /\ \A j \in DOMAIN f.devices : f.devices[j] = [x \in DeviceFields |-> f.devices[j][x]]
  /\ f.roles \in Seq({f.roles[i] : i \in DOMAIN f.roles})

-----------------------------------------------------------------------------
(* Loading: NewStatic, NewPatterns, File.Chain *)

NewStatic(devices) ==
  /\ \A i \in DOMAIN devices :
       Normalize(devices[i].name) # "" /\ Normalize(devices[i].status) # "pattern"
  /\ \A i, j \in DOMAIN devices :
       Normalize(devices[i].name) = Normalize(devices[j].name) => i = j

NewPatterns(roles) ==
  \A i \in DOMAIN roles :
    LET p == roles[i]
    IN p.match \notin {""} \cup BadRegex /\ (p.role # "" \/ p.site # "" \/ p.tags # {})

FileChain(f) == NewStatic(f.devices) /\ NewPatterns(f.roles)

-----------------------------------------------------------------------------
(* Lookup *)

StaticResolve(devices, name) ==
  LET hits == {i \in DOMAIN devices : Normalize(devices[i].name) = Normalize(name)}
  IN IF hits = {} THEN Unlisted ELSE devices[CHOOSE i \in hits : TRUE]

\* Mutant: the last pattern to set a field wins.
AttributeLast(t, p, listed) ==
  IF ~RegexMatches(p.match, listed) THEN t
  ELSE [t EXCEPT !.role = IF p.role # "" THEN p.role ELSE @,
                 !.site = IF p.site # "" THEN p.site ELSE @,
                 !.tags = @ \cup p.tags]

\* The first pattern to set role or site wins it, tags accumulate.
Attribute(t, p, listed) ==
  IF ~RegexMatches(p.match, listed) THEN t
  ELSE [t EXCEPT !.role = IF @ = "" THEN p.role ELSE @,
                 !.site = IF @ = "" THEN p.site ELSE @,
                 !.tags = @ \cup p.tags]

\* Patterns.Attributes.
Attributes(roles, listed) ==
  LET t[i \in 0..Len(roles)] ==
        IF i = 0 THEN [Unlisted EXCEPT !.name = listed]
        ELSE Attribute(t[i - 1], roles[i], listed)
  IN t[Len(roles)]

\* merge: fill the allowed fields still empty, and say who filled them.
Merge(acc, t, label, fields) ==
  LET fills(field) == field \in fields /\ acc.out[field] = "" /\ t[field] # ""
      added        == IF "tags" \in fields THEN t.tags \ acc.out.tags ELSE {}
      out(field)   == IF fills(field) THEN t[field] ELSE acc.out[field]
      src(field)   == IF fills(field) THEN label ELSE acc.src[field]
  IN [out |-> [acc.out EXCEPT !.role = out("role"), !.site = out("site"),
                              !.status = out("status"), !.tags = @ \cup added],
      src |-> [role |-> src("role"), site |-> src("site"), status |-> src("status"),
               tags |-> [t2 \in DOMAIN acc.src.tags \cup added |->
                           IF t2 \in added THEN label ELSE acc.src.tags[t2]]]]

FieldsAll == {"role", "site", "status", "tags"}

FieldsEnricher == {"role", "site", "tags"}

\* Chain.Resolve: the device's own record, then the patterns.
ResolveName(f, name) ==
  LET own  == StaticResolve(f.devices, name)
      none == [out |-> [Unlisted EXCEPT !.name = own.name], src |-> NoSources]
  IN Merge(Merge(none, own, "static", FieldsAll),
           Attributes(f.roles, own.name), "pattern", FieldsEnricher)

Listed(f, name) == StaticResolve(f.devices, name) # Unlisted

\* Known: only the spelling the record carries.
Known(f, name) == Listed(f, name) /\ StaticResolve(f.devices, name).name = name

-----------------------------------------------------------------------------
(* What lint says: PatternWarnings, PatternEffects, inventoryLint *)

Usable(p) == p.match \notin {""} \cup BadRegex

\* The patterns that match no listed device.
PatternWarnings(f) ==
  {i \in DOMAIN f.roles :
     /\ Usable(f.roles[i])
     /\ \A j \in DOMAIN f.devices : ~RegexMatches(f.roles[i].match, f.devices[j].name)}

Effect(i, verb, field, value) == [pattern |-> i, verb |-> verb, field |-> field, value |-> value]

\* What pattern i does to a device whose fields stand at acc.
PatternEffect(acc, own, i, p) ==
  LET field(name, given) ==
        IF given = "" \/ given = acc[name] THEN {}
        ELSE {Effect(i, IF acc[name] = "" THEN "sets" ELSE "not applied", name, given)}
      added == p.tags \ acc.tags
      new   == field("role", p.role) \cup field("site", p.site)
                 \cup {Effect(i, "adds", "tag", t) : t \in added}
  IN [role |-> IF acc.role = "" THEN p.role ELSE acc.role,
      site |-> IF acc.site = "" THEN p.site ELSE acc.site,
      tags |-> acc.tags \cup added,
      effects   |-> acc.effects \cup new,
      conflicts |-> acc.conflicts \cup
        IF own.role # "" /\ (added # {} \/ Effect(i, "not applied", "role", p.role) \in new)
        THEN {i} ELSE {}]

\* PatternEffects for one listed device: its effects, and the patterns whose
\* line adds that the device's own record says otherwise.
PatternEffects(f, own) ==
  LET acc[i \in 0..Len(f.roles)] ==
        IF i = 0 THEN [role |-> own.role, site |-> own.site, tags |-> own.tags,
                       effects |-> {}, conflicts |-> {}]
        ELSE IF Usable(f.roles[i]) /\ RegexMatches(f.roles[i].match, own.name)
        THEN PatternEffect(acc[i - 1], own, i, f.roles[i])
        ELSE acc[i - 1]
  IN acc[Len(f.roles)]

\* inventoryLint's problems: devices no call can name, and idle patterns.
LintProblems(f, validNames) ==
  {f.devices[j].name : j \in {j \in DOMAIN f.devices : f.devices[j].name \notin validNames}}
    \cup {f.roles[i].match : i \in PatternWarnings(f)}

LintClean(f, validNames) == FileChain(f) /\ LintProblems(f, validNames) = {}

\* inventoryResolve for one name: why it is unknown, and the patterns that
\* match a name nothing lists.
Explain(f, name) ==
  IF Known(f, name) THEN [known |-> TRUE, reason |-> "", patterns |-> {}]
  ELSE IF Listed(f, name) THEN [known |-> FALSE, reason |-> "spelling", patterns |-> {}]
  ELSE [known |-> FALSE, reason |-> "unlisted",
        patterns |-> {i \in DOMAIN f.roles : RegexMatches(f.roles[i].match, name)}]
=============================================================================
