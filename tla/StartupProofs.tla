---------------------------- MODULE StartupProofs ----------------------------
(***************************************************************************)
(* What `fathomgate serve` has in force once it has started, proved for    *)
(* any command line, environment and files.                                *)
(*                                                                         *)
(* The inductive invariant says what each stage has loaded: the            *)
(* configuration the accepted command line gives, the policy, inventory    *)
(* and profiles of the files it names, and the warnings about them.  What  *)
(* is promised then follows from what the checks of each file accept.      *)
(***************************************************************************)
EXTENDS Startup, FiniteSetTheorems, SequenceTheorems, WellFoundedInduction, TLAPS

-----------------------------------------------------------------------------
(* The inductive invariant *)

Started == stage \notin {"parse", "exit"}

Parsed == FlagParse(input.args)

\* The configuration is the one the command line gives.
ConfigLoaded ==
  Started => Accepted(input, Parsed) /\ cfg = Config(input, Parsed)

PolicyDoc == OnDisk(input.disk.policies, cfg.policy)

PolicyLoaded ==
  stage \in {"inventory", "profiles", "gate"} \/ Gated =>
    PolicyDoc # Unreadable /\ ValidPolicy(PolicyDoc) /\ pipe.policy = ParsePolicy(PolicyDoc)

InventoryDoc == OnDisk(input.disk.inventories, cfg.inventory)

FileLoaded ==
  stage \in {"profiles", "gate"} \/ Gated =>
    IF cfg.inventory = "" THEN pipe.file = NoFile
    ELSE InventoryDoc # Unreadable /\ FileChain(InventoryDoc) /\ pipe.file = InventoryDoc

ProfilesDoc ==
  IF cfg.profiles = "" THEN input.disk.embedded ELSE OnDisk(input.disk.profiles, cfg.profiles)

ProfilesLoaded ==
  stage = "gate" \/ Gated =>
    /\ ProfilesDoc # Unreadable /\ ProfileDir(ProfilesDoc)
    /\ pipe.profiles = WithServer(ByServer(ProfilesDoc), cfg.server)

\* The warnings of each file.
WarnsOf(path, pol, f) ==
  IF path = ""
  THEN IF pol.unknownTarget = "allow" THEN {} ELSE {Warn("no_inventory", "", {})}
  ELSE {Warn("pattern", f.roles[i].match, {}) : i \in PatternWarnings(f)}

InventoryWarns == WarnsOf(cfg.inventory, pipe.policy, pipe.file)

ProfileWarns ==
  IF cfg.server \in DOMAIN ByServer(ProfilesDoc) THEN {}
  ELSE {Warn("no_profile", cfg.server, {})}

WarningsGiven ==
  /\ stage = "inventory" => pipe.warns = {}
  /\ stage = "profiles" => pipe.warns = InventoryWarns
  /\ stage = "gate" => pipe.warns = InventoryWarns \cup ProfileWarns
  /\ Gated => pipe.warns = InventoryWarns \cup ProfileWarns \cup PolicyWarnings(pipe.policy)

PipeFields == {"gate", "policy", "file", "profiles", "warns"}

\* How far a start is: nothing is loaded before its stage, and only a start
\* that is ready has a gate.
Progress ==
  /\ input \in Inputs
  /\ stage \in Stages
  /\ code \in {0, 2} /\ (code = 2 => stage = "exit")
  /\ pipe = [f \in PipeFields |-> pipe[f]]
  /\ pipe.gate \in BOOLEAN /\ (pipe.gate => stage = "ready")
  /\ stage \in {"parse", "policy"} => pipe = NoPipe
  /\ stage = "inventory" => pipe.file = NoFile

StartInv ==
  Progress /\ ConfigLoaded /\ PolicyLoaded /\ FileLoaded /\ ProfilesLoaded /\ WarningsGiven

LEMMA InitStartInv == Init => StartInv
<1> SUFFICES ASSUME Init PROVE StartInv
  OBVIOUS
<1>1. stage = "parse" /\ ~Gated /\ ~Started
  BY DEF Init, Gated, Started
<1>2. /\ NoPipe = [f \in PipeFields |-> NoPipe[f]]
      /\ ~NoPipe.gate /\ NoPipe.gate \in BOOLEAN
  BY DEF NoPipe, PipeFields
<1>3. /\ pipe = NoPipe /\ stage = "parse" /\ code = 0 /\ input \in Inputs
  BY DEF Init
<1>4. Progress
  BY <1>2, <1>3 DEF Progress, Stages
<1> QED
  BY <1>1, <1>4 DEF StartInv, ConfigLoaded, PolicyLoaded, FileLoaded, ProfilesLoaded,
                    WarningsGiven

\* What the parts of the invariant are about besides the stage.
LEMMA PartsUnchanged ==
  ASSUME UNCHANGED <<input, cfg>>
  PROVE  /\ UNCHANGED Parsed /\ UNCHANGED PolicyDoc /\ UNCHANGED InventoryDoc
         /\ UNCHANGED ProfilesDoc /\ UNCHANGED ProfileWarns
BY DEF Parsed, PolicyDoc, InventoryDoc, ProfilesDoc, ProfileWarns

LEMMA ExitStep ==
  ASSUME StartInv, UNCHANGED <<input, pipe>>, ~pipe.gate, stage' = "exit", code' \in {0, 2}
  PROVE  StartInv'
<1>1. ~Gated' /\ ~Started'
  BY DEF Gated, Started
<1>2. Progress'
  BY DEF StartInv, Progress, Stages
<1> QED
  BY <1>1, <1>2 DEF StartInv, ConfigLoaded, PolicyLoaded, FileLoaded, ProfilesLoaded,
                    WarningsGiven

LEMMA ParseStep == StartInv /\ ParseServe => StartInv'
<1> SUFFICES ASSUME StartInv, ParseServe PROVE StartInv'
  OBVIOUS
<1>0. stage = "parse" /\ ~pipe.gate /\ UNCHANGED <<input, pipe>> /\ code \in {0, 2}
  BY DEF ParseServe, StartInv, Progress
<1>1. CASE Accepted(input, Parsed)
  <2>1. cfg' = Config(input, Parsed) /\ stage' = "policy" /\ UNCHANGED code
    BY <1>1 DEF ParseServe, Parsed
  <2>2. ~Gated' /\ Parsed' = Parsed
    BY <1>0, <2>1 DEF Gated, Parsed
  <2>3. Progress'
    BY <1>0, <2>1 DEF StartInv, Progress, Stages
  <2>4. ConfigLoaded'
    BY <1>0, <1>1, <2>1, <2>2 DEF ConfigLoaded
  <2> QED
    BY <2>1, <2>2, <2>3, <2>4 DEF StartInv, PolicyLoaded, FileLoaded, ProfilesLoaded,
                                  WarningsGiven
<1>2. CASE ~Accepted(input, Parsed)
  <2>1. stage' = "exit" /\ code' \in {0, 2}
    BY <1>2 DEF ParseServe, Parsed, Exit
  <2> QED BY <1>0, <2>1, ExitStep
<1> QED BY <1>1, <1>2

LEMMA NoPolicyStep == StartInv /\ LoadNoPolicy => StartInv'
<1> SUFFICES ASSUME StartInv, LoadNoPolicy PROVE StartInv'
  OBVIOUS
<1>1. /\ stage = "policy" /\ stage' = "ready" /\ UNCHANGED <<input, cfg, code>>
      /\ pipe = NoPipe /\ pipe' = [pipe EXCEPT !.warns = {Warn("no_policy", "", {})}]
  BY DEF LoadNoPolicy, StartInv, Progress
<1>2. ~pipe'.gate /\ pipe' = [f \in PipeFields |-> pipe'[f]] /\ pipe'.gate \in BOOLEAN
  BY <1>1 DEF NoPipe, PipeFields
<1>3. ~Gated'
  BY <1>1, <1>2 DEF Gated
<1>4. Progress'
  BY <1>1, <1>2 DEF StartInv, Progress, Stages
<1>5. ConfigLoaded'
  BY <1>1, PartsUnchanged DEF StartInv, ConfigLoaded, Started
<1> QED
  BY <1>1, <1>3, <1>4, <1>5 DEF StartInv, PolicyLoaded, FileLoaded, ProfilesLoaded,
                                WarningsGiven

LEMMA PolicyStep == StartInv /\ LoadPolicy => StartInv'
<1> SUFFICES ASSUME StartInv, LoadPolicy PROVE StartInv'
  OBVIOUS
<1>1. /\ stage = "policy" /\ UNCHANGED <<input, cfg>> /\ code \in {0, 2}
      /\ pipe = NoPipe
  BY DEF LoadPolicy, StartInv, Progress
<1>2. CASE PolicyDoc # Unreadable /\ ValidPolicy(PolicyDoc)
  <2>1. /\ pipe' = [pipe EXCEPT !.policy = ParsePolicy(PolicyDoc)]
        /\ stage' = "inventory" /\ UNCHANGED code
    BY <1>2 DEF LoadPolicy, PolicyDoc
  <2>2. /\ pipe' = [f \in PipeFields |-> pipe'[f]] /\ pipe'.gate = FALSE
        /\ pipe'.policy = ParsePolicy(PolicyDoc) /\ pipe'.file = NoFile /\ pipe'.warns = {}
    BY <1>1, <2>1 DEF NoPipe, PipeFields
  <2>3. ~Gated'
    BY <2>1 DEF Gated
  <2>4. Progress'
    BY <1>1, <2>1, <2>2 DEF StartInv, Progress, Stages
  <2>5. ConfigLoaded'
    BY <1>1, PartsUnchanged DEF StartInv, ConfigLoaded, Started
  <2>6. PolicyLoaded'
    BY <1>1, <1>2, <2>2, PartsUnchanged DEF PolicyLoaded
  <2> QED
    BY <2>1, <2>2, <2>3, <2>4, <2>5, <2>6 DEF StartInv, FileLoaded, ProfilesLoaded,
                                              WarningsGiven
<1>3. CASE ~(PolicyDoc # Unreadable /\ ValidPolicy(PolicyDoc))
  <2>1. stage' = "exit" /\ code' = 2 /\ UNCHANGED pipe
    BY <1>3 DEF LoadPolicy, PolicyDoc, Exit
  <2> QED BY <1>1, <2>1, ExitStep DEF NoPipe
<1> QED BY <1>2, <1>3

\* A step that loads one file leaves the rest of the pipe alone.
LEMMA NoInventoryStep == StartInv /\ LoadNoInventory => StartInv'
<1> SUFFICES ASSUME StartInv, LoadNoInventory PROVE StartInv'
  OBVIOUS
<1> DEFINE W == IF pipe.policy.unknownTarget = "allow" THEN {} ELSE {Warn("no_inventory", "", {})}
<1>1. /\ stage = "inventory" /\ cfg.inventory = "" /\ UNCHANGED <<input, cfg, code>>
      /\ pipe' = [pipe EXCEPT !.warns = @ \cup W] /\ stage' = "profiles"
      /\ pipe = [f \in PipeFields |-> pipe[f]] /\ pipe.gate = FALSE /\ pipe.file = NoFile
      /\ pipe.warns = {}
  BY DEF LoadNoInventory, StartInv, Progress, WarningsGiven
<1> HIDE DEF W
<1>2. /\ pipe' = [f \in PipeFields |-> pipe'[f]] /\ pipe'.gate = FALSE
      /\ pipe'.policy = pipe.policy /\ pipe'.file = NoFile /\ pipe'.warns = W
  BY <1>1 DEF PipeFields
<1>3. ~Gated'
  BY <1>1 DEF Gated
<1>4. Progress'
  BY <1>1, <1>2 DEF StartInv, Progress, Stages
<1>5. ConfigLoaded'
  BY <1>1, PartsUnchanged DEF StartInv, ConfigLoaded, Started
<1>6. PolicyLoaded'
  BY <1>1, <1>2, PartsUnchanged DEF StartInv, PolicyLoaded
<1>7. FileLoaded'
  BY <1>1, <1>2, PartsUnchanged DEF FileLoaded
<1>8. InventoryWarns' = W
  BY <1>1, <1>2 DEF InventoryWarns, WarnsOf, W
<1> QED
  BY <1>1, <1>2, <1>3, <1>4, <1>5, <1>6, <1>7, <1>8 DEF StartInv, ProfilesLoaded, WarningsGiven

LEMMA InventoryStep == StartInv /\ LoadInventory => StartInv'
<1> SUFFICES ASSUME StartInv, LoadInventory PROVE StartInv'
  OBVIOUS
<1>1. /\ stage = "inventory" /\ cfg.inventory # "" /\ UNCHANGED <<input, cfg>>
      /\ pipe = [f \in PipeFields |-> pipe[f]] /\ pipe.gate = FALSE
      /\ pipe.warns = {} /\ code \in {0, 2}
  BY DEF LoadInventory, StartInv, Progress, WarningsGiven
<1>2. CASE cfg.inventory \notin CSVPaths /\ InventoryDoc # Unreadable /\ FileChain(InventoryDoc)
  <2> DEFINE f == InventoryDoc
             W == {Warn("pattern", f.roles[i].match, {}) : i \in PatternWarnings(f)}
  <2>1. /\ pipe' = [pipe EXCEPT !.file = f, !.warns = @ \cup W]
        /\ stage' = "profiles" /\ UNCHANGED code
    BY <1>2 DEF LoadInventory, InventoryDoc
  <2>2. InventoryDoc' = f /\ InventoryDoc # Unreadable /\ FileChain(f)
    BY <1>1, <1>2, PartsUnchanged
  <2>3. ASSUME pipe'.file = f PROVE InventoryWarns' = W
    BY <1>1, <2>3 DEF InventoryWarns, WarnsOf
  <2> HIDE DEF f, W
  <2>4. /\ pipe' = [x \in PipeFields |-> pipe'[x]] /\ pipe'.gate = FALSE
        /\ pipe'.policy = pipe.policy /\ pipe'.file = f /\ pipe'.warns = W
    BY <1>1, <2>1 DEF PipeFields
  <2>5. ~Gated'
    BY <2>1 DEF Gated
  <2>6. Progress'
    BY <1>1, <2>1, <2>4 DEF StartInv, Progress, Stages
  <2>7. ConfigLoaded'
    BY <1>1, PartsUnchanged DEF StartInv, ConfigLoaded, Started
  <2>8. PolicyLoaded'
    BY <1>1, <2>4, PartsUnchanged DEF StartInv, PolicyLoaded
  <2>9. FileLoaded'
    BY <1>1, <2>4, <2>2, PartsUnchanged DEF FileLoaded, f
  <2> QED
    BY <2>1, <2>3, <2>4, <2>5, <2>6, <2>7, <2>8, <2>9
    DEF StartInv, ProfilesLoaded, WarningsGiven
<1>3. CASE ~(cfg.inventory \notin CSVPaths /\ InventoryDoc # Unreadable /\ FileChain(InventoryDoc))
  <2>1. stage' = "exit" /\ code' = 2 /\ UNCHANGED pipe
    BY <1>3 DEF LoadInventory, InventoryDoc, Exit
  <2> QED BY <1>1, <2>1, ExitStep
<1> QED BY <1>2, <1>3

LEMMA ProfilesStep == StartInv /\ LoadProfiles => StartInv'
<1> SUFFICES ASSUME StartInv, LoadProfiles PROVE StartInv'
  OBVIOUS
<1>1. /\ stage = "profiles" /\ UNCHANGED <<input, cfg>>
      /\ pipe = [f \in PipeFields |-> pipe[f]] /\ pipe.gate = FALSE
      /\ pipe.warns = InventoryWarns /\ code \in {0, 2}
  BY DEF LoadProfiles, StartInv, Progress, WarningsGiven
<1>2. CASE ProfilesDoc # Unreadable /\ ProfileDir(ProfilesDoc)
  <2> DEFINE ps == WithServer(ByServer(ProfilesDoc), cfg.server)
  <2>1. /\ pipe' = [pipe EXCEPT !.profiles = ps, !.warns = @ \cup ProfileWarns]
        /\ stage' = "gate" /\ UNCHANGED code
    BY <1>2 DEF LoadProfiles, ProfilesDoc, ProfileWarns
  <2>2. UNCHANGED <<ProfilesDoc, ProfileWarns>>
    BY <1>1, PartsUnchanged
  <2>3. /\ pipe' = [x \in PipeFields |-> pipe'[x]] /\ pipe'.gate = FALSE
        /\ pipe'.policy = pipe.policy /\ pipe'.file = pipe.file
        /\ pipe'.profiles = ps /\ pipe'.warns = InventoryWarns \cup ProfileWarns
    BY <1>1, <2>1 DEF PipeFields
  <2>4. UNCHANGED InventoryWarns
    BY <1>1, <2>3 DEF InventoryWarns
  <2>5. ~Gated'
    BY <2>1 DEF Gated
  <2>6. Progress'
    BY <1>1, <2>1, <2>3 DEF StartInv, Progress, Stages
  <2>7. ConfigLoaded'
    BY <1>1, PartsUnchanged DEF StartInv, ConfigLoaded, Started
  <2>8. PolicyLoaded'
    BY <1>1, <2>3, PartsUnchanged DEF StartInv, PolicyLoaded
  <2>9. FileLoaded'
    BY <1>1, <2>3, PartsUnchanged DEF StartInv, FileLoaded
  <2>10. ProfilesLoaded'
    BY <1>1, <1>2, <2>2, <2>3 DEF ProfilesLoaded
  <2> HIDE DEF ps
  <2> QED
    BY <2>1, <2>2, <2>3, <2>4, <2>5, <2>6, <2>7, <2>8, <2>9, <2>10
    DEF StartInv, WarningsGiven
<1>3. CASE ~(ProfilesDoc # Unreadable /\ ProfileDir(ProfilesDoc))
  <2>1. stage' = "exit" /\ code' = 2 /\ UNCHANGED pipe
    BY <1>3 DEF LoadProfiles, ProfilesDoc, Exit
  <2> QED BY <1>1, <2>1, ExitStep
<1> QED BY <1>2, <1>3

LEMMA GateStep == StartInv /\ NewGate => StartInv'
<1> SUFFICES ASSUME StartInv, NewGate PROVE StartInv'
  OBVIOUS
<1>1. /\ stage = "gate" /\ UNCHANGED <<input, cfg, code>> /\ stage' = "ready"
      /\ pipe = [f \in PipeFields |-> pipe[f]]
      /\ pipe.warns = InventoryWarns \cup ProfileWarns /\ code \in {0, 2}
      /\ pipe' = [pipe EXCEPT !.gate = TRUE, !.warns = @ \cup PolicyWarnings(pipe.policy)]
  BY DEF NewGate, StartInv, Progress, WarningsGiven
<1>2. /\ pipe' = [x \in PipeFields |-> pipe'[x]] /\ pipe'.gate = TRUE
      /\ pipe'.policy = pipe.policy /\ pipe'.file = pipe.file
      /\ pipe'.profiles = pipe.profiles
      /\ pipe'.warns = InventoryWarns \cup ProfileWarns \cup PolicyWarnings(pipe.policy)
  BY <1>1 DEF PipeFields
<1>3. UNCHANGED <<InventoryWarns, ProfileWarns, ProfilesDoc>>
  BY <1>1, <1>2, PartsUnchanged DEF InventoryWarns
<1>4. Gated'
  BY <1>1, <1>2 DEF Gated
<1>5. Progress'
  BY <1>1, <1>2 DEF StartInv, Progress, Stages
<1>6. ConfigLoaded'
  BY <1>1, PartsUnchanged DEF StartInv, ConfigLoaded, Started
<1>7. PolicyLoaded'
  BY <1>1, <1>2, PartsUnchanged DEF StartInv, PolicyLoaded
<1>8. FileLoaded'
  BY <1>1, <1>2, PartsUnchanged DEF StartInv, FileLoaded
<1>9. ProfilesLoaded'
  BY <1>1, <1>2, <1>3 DEF StartInv, ProfilesLoaded
<1>10. WarningsGiven'
  BY <1>1, <1>2, <1>3 DEF WarningsGiven
<1> QED
  BY <1>5, <1>6, <1>7, <1>8, <1>9, <1>10 DEF StartInv

\* Every state of a start has loaded what its stage says.
THEOREM StartInvHolds == Spec => []StartInv
<1>1. StartInv /\ [Next]_vars => StartInv'
  <2> SUFFICES ASSUME StartInv, [Next]_vars PROVE StartInv'
    OBVIOUS
  <2>1. CASE UNCHANGED vars
    <3>1. UNCHANGED <<input, stage, cfg, pipe, code>>
      BY <2>1 DEF vars
    <3>2. UNCHANGED <<Gated, Started, InventoryWarns>>
      BY <3>1 DEF Gated, Started, InventoryWarns
    <3> QED
      BY <3>1, <3>2, PartsUnchanged
      DEF StartInv, Progress, ConfigLoaded, PolicyLoaded, FileLoaded, ProfilesLoaded,
          WarningsGiven
  <2>2. CASE Next
    BY <2>2, ParseStep, NoPolicyStep, PolicyStep, NoInventoryStep, InventoryStep, ProfilesStep,
       GateStep DEF Next
  <2> QED BY <2>1, <2>2
<1> QED BY InitStartInv, <1>1, PTL DEF Spec

-----------------------------------------------------------------------------
(* Induction *)

\* A set of naturals that is not empty has a least member.
LEMMA NatLeast ==
  ASSUME NEW T, T \subseteq Nat, T # {}
  PROVE  \E x \in T : \A y \in T : ~(y < x)
<1> DEFINE R == {ss \in Nat \X Nat : ss[1] < ss[2]}
<1>1. IsWellFoundedOn(R, Nat)
  BY NatLessThanWellFounded DEF OpToRel
<1> HIDE DEF R
<1>2. \E x \in T : \A y \in T : ~ (<<y, x>> \in R)
  BY <1>1, WFMin
<1> QED BY <1>2 DEF R

\* Induction up to n, stated for a set: what a loop over n items computes is
\* proved with it.
LEMMA Upto ==
  ASSUME NEW n \in Nat, NEW S, 0 \in S, \A i \in 1..n : i - 1 \in S => i \in S
  PROVE  0..n \subseteq S
<1>1. SUFFICES ASSUME (0..n) \ S # {} PROVE FALSE
  OBVIOUS
<1>2. PICK x \in (0..n) \ S : \A y \in (0..n) \ S : ~(y < x)
  <2>1. (0..n) \ S \subseteq Nat
    OBVIOUS
  <2> QED BY <1>1, <2>1, NatLeast
<1>3. x \in 1..n /\ x - 1 \in 0..n
  BY <1>2
<1>4. x - 1 \in S
  BY <1>2, <1>3
<1> QED BY <1>4, <1>3, <1>2

\* f is what a loop over n items computes: f[i] is G of i and f[i - 1].
IsLoop(f, n, T, t0, G) ==
  f \in [0..n -> T] /\ f[0] = t0 /\ \A i \in 1..n : f[i] = G[<<i, f[i - 1]>>]

\* A loop over n items whose states are in T computes something.
LEMMA LoopExists ==
  ASSUME NEW T, NEW n \in Nat, NEW t0 \in T, NEW G \in [(1..n) \X T -> T]
  PROVE  \E f : IsLoop(f, n, T, t0, G)
<1> DEFINE S == {m \in 0..n : \E f : IsLoop(f, m, T, t0, G)}
<1>1. 0 \in S
  <2>1. IsLoop([i \in 0..0 |-> t0], 0, T, t0, G)
    BY DEF IsLoop
  <2> QED BY <2>1
<1>2. ASSUME NEW k \in 1..n, k - 1 \in S PROVE k \in S
  <2>1. PICK f : IsLoop(f, k - 1, T, t0, G)
    BY <1>2
  <2> DEFINE g == [i \in 0..k |-> IF i = k THEN G[<<k, f[k - 1]>>] ELSE f[i]]
  <2>2. <<k, f[k - 1]>> \in (1..n) \X T
    BY <2>1 DEF IsLoop
  <2>3. g \in [0..k -> T]
    BY <2>1, <2>2 DEF IsLoop
  <2>4. ASSUME NEW i \in 1..k PROVE g[i] = G[<<i, g[i - 1]>>]
    <3>1. CASE i = k
      <4>1. g[i - 1] = f[k - 1] /\ g[k] = G[<<k, f[k - 1]>>]
        BY <3>1
      <4> QED BY <3>1, <4>1
    <3>2. CASE i # k
      BY <3>2, <2>1 DEF IsLoop
    <3> QED BY <3>1, <3>2
  <2>5. g[0] = t0
    BY <2>1 DEF IsLoop
  <2>6. IsLoop(g, k, T, t0, G)
    BY <2>3, <2>4, <2>5 DEF IsLoop
  <2> QED BY <2>6
<1> HIDE DEF S
<1>3. n \in S
  BY <1>1, <1>2, Upto
<1> QED BY <1>3 DEF S

-----------------------------------------------------------------------------
(* The flags *)

\* The value of a flag that is not set.
Unset == ""

Texts(args) == {AsText(args[i]) : i \in DOMAIN args} \cup {args[i].value : i \in DOMAIN args}
                 \cup {"true"}

Flags == BoolFlags \cup ValueFlags

Givens(args) == [Flags -> Seq(Texts(args))]

\* What FlagParse may hold after any number of arguments.
Parses(args) == [mode : {"flags", "value", "rest", "error", "help"}, pending : ValueFlags \cup {Unset},
                 consumed : Nat, given : Givens(args)]

LEMMA SetFlagType ==
  ASSUME NEW args, NEW acc \in Parses(args), NEW name \in Flags \cup {Unset},
         NEW value \in Texts(args)
  PROVE  SetFlag(acc, name, value) \in Parses(args)
<1>1. acc.given \in [Flags -> Seq(Texts(args))]
  BY DEF Parses, Givens
<1>2. [acc.given EXCEPT ![name] = Append(@, value)] \in Givens(args)
  <2>1. CASE name \in Flags
    BY <1>1, <2>1, AppendProperties DEF Givens
  <2>2. CASE name \notin Flags
    BY <1>1, <2>2 DEF Givens
  <2> QED BY <2>1, <2>2
<1>3. [acc EXCEPT !.mode = "flags", !.given[name] = Append(@, value)] \in Parses(args)
  BY <1>2 DEF Parses
<1>4. [acc EXCEPT !.mode = "error"] \in Parses(args)
  BY DEF Parses
<1> QED BY <1>3, <1>4 DEF SetFlag

LEMMA TakeArgType ==
  ASSUME NEW args, NEW acc \in Parses(args), NEW i \in DOMAIN args
  PROVE  TakeArg(acc, args[i]) \in Parses(args)
<1> DEFINE t == args[i]
           more == [acc EXCEPT !.consumed = @ + 1]
<1>1. AsText(t) \in Texts(args) /\ t.value \in Texts(args) /\ "true" \in Texts(args)
  BY DEF Texts
<1> HIDE DEF t
<1>0. acc.consumed + 1 \in Nat /\ acc.pending \in Flags \cup {Unset}
  <2>1. acc.consumed \in Nat /\ acc.pending \in ValueFlags \cup {Unset}
    BY DEF Parses
  <2> QED BY <2>1 DEF Flags
<1>2. more \in Parses(args)
  BY <1>0 DEF Parses
<1> HIDE DEF more
<1>3. SetFlag(more, acc.pending, AsText(t)) \in Parses(args)
  BY <1>0, <1>1, <1>2, SetFlagType
<1>4. TakeFlag(more, t) \in Parses(args)
  <2>1. [more EXCEPT !.mode = "help"] \in Parses(args) /\ [more EXCEPT !.mode = "error"] \in Parses(args)
    BY <1>2 DEF Parses
  <2>2. ASSUME t.name \in ValueFlags
        PROVE  [more EXCEPT !.mode = "value", !.pending = t.name] \in Parses(args)
    BY <1>2, <2>2 DEF Parses
  <2>3. ASSUME t.name \in Flags, NEW v \in Texts(args) PROVE SetFlag(more, t.name, v) \in Parses(args)
    BY <1>2, <2>3, SetFlagType
  <2> QED BY <1>1, <2>1, <2>2, <2>3 DEF TakeFlag, Flags
<1>5. /\ [acc EXCEPT !.mode = "rest"] \in Parses(args)
      /\ [acc EXCEPT !.mode = "error"] \in Parses(args)
      /\ [acc EXCEPT !.mode = "rest", !.consumed = @ + 1] \in Parses(args)
  BY <1>0 DEF Parses
<1>6. TakeArg(acc, t) \in Parses(args)
  BY <1>3, <1>4, <1>5 DEF TakeArg, more
<1> QED BY <1>6 DEF t

IsParse(f, args) ==
  /\ f \in [0..Len(args) -> Parses(args)]
  /\ f[0] = Unparsed
  /\ \A i \in 1..Len(args) : f[i] = TakeArg(f[i - 1], args[i])

\* FlagParse is the last state of a loop over the arguments.
LEMMA FlagParseIs ==
  ASSUME NEW args \in Seq(ArgTokens)
  PROVE  \E f : IsParse(f, args) /\ FlagParse(args) = f[Len(args)]
<1> DEFINE n == Len(args)
           T == Parses(args)
           D(f) == [i \in 0..n |-> IF i = 0 THEN Unparsed ELSE TakeArg(f[i - 1], args[i])]
           c == CHOOSE f : f = D(f)
<1>1. n \in Nat /\ DOMAIN args = 1..n
  OBVIOUS
<1>2. Unparsed \in T
  <2>1. [m \in Flags |-> <<>>] \in [Flags -> Seq(Texts(args))]
    OBVIOUS
  <2> QED BY <2>1 DEF Unparsed, Unset, Parses, Givens, Flags
<1>3. \A i \in 1..n, acc \in T : TakeArg(acc, args[i]) \in T
  BY <1>1, TakeArgType
<1> DEFINE G == [p \in (1..n) \X T |-> TakeArg(p[2], args[p[1]])]
<1>4. \E f : IsLoop(f, n, T, Unparsed, G)
  <2>1. G \in [(1..n) \X T -> T]
    BY <1>3
  <2> HIDE DEF G, T, n
  <2> QED BY <1>1, <1>2, <2>1, LoopExists
<1>5. PICK f : f \in [0..n -> T] /\ f[0] = Unparsed /\ \A i \in 1..n : f[i] = G[<<i, f[i - 1]>>]
  <2> HIDE DEF G, T, n
  <2> QED BY <1>4 DEF IsLoop
<1>6. \A i \in 1..n : f[i] = TakeArg(f[i - 1], args[i])
  <2> SUFFICES ASSUME NEW i \in 1..n PROVE f[i] = TakeArg(f[i - 1], args[i])
    OBVIOUS
  <2>1. <<i, f[i - 1]>> \in (1..n) \X T
    BY <1>1, <1>5
  <2> HIDE DEF T, n
  <2> QED BY <1>5, <2>1
<1>7. f = D(f)
  <2> HIDE DEF T, n
  <2> QED BY <1>1, <1>5, <1>6
<1>8. c = D(c)
  <2> HIDE DEF D
  <2> QED BY <1>7
<1>9. FlagParse(args) = c[n]
  BY DEF FlagParse
<1> HIDE DEF c, T, n
<1>10. c[0] = Unparsed /\ \A i \in 1..n : c[i] = TakeArg(c[i - 1], args[i])
  BY <1>8, <1>1
<1>11. \A i \in 0..n : c[i] \in T
  <2> DEFINE S == {i \in 0..n : c[i] \in T}
  <2>1. 0 \in S /\ \A i \in 1..n : i - 1 \in S => i \in S
    BY <1>1, <1>2, <1>3, <1>10
  <2> HIDE DEF S
  <2>2. 0..n \subseteq S
    BY <2>1, <1>1, Upto
  <2> QED BY <2>2 DEF S
<1>12. c \in [0..n -> T]
  BY <1>8, <1>11
<1>13. IsParse(c, args)
  BY <1>10, <1>12 DEF IsParse, T, n
<1> QED BY <1>13, <1>9 DEF n

-----------------------------------------------------------------------------
(* Every --policy, --inventory and --profiles is in force *)

IsValue(args, i) ==
  /\ i > 1 /\ args[i - 1].kind = "flag"
  /\ args[i - 1].name \in ValueFlags
  /\ args[i - 1].value = NoValue

ValueOf(args, i) == IF args[i].value # NoValue THEN args[i].value ELSE AsText(args[i + 1])

OnceAt(args, i) == args[i].kind = "flag" /\ args[i].name \in OnceFlags /\ ~IsValue(args, i)

\* Where parsing stands after i arguments.
Place(acc, args, i) ==
  /\ acc.mode = "flags" => acc.consumed = i
  /\ acc.mode = "value" =>
       /\ acc.consumed = i /\ i >= 1
       /\ args[i].kind = "flag" /\ args[i].name \in ValueFlags /\ args[i].value = NoValue
       /\ acc.pending = args[i].name
  /\ acc.mode = "rest" => acc.consumed <= i

\* The flags read so far are given as they stand there, the one that waits
\* for its value aside.
Given(acc, args, i) ==
  acc.mode \in {"flags", "value", "rest"} =>
    \A j \in 1..Len(args) :
      (j <= acc.consumed /\ ~(acc.mode = "value" /\ j = i) /\ OnceAt(args, j))
        => ValueOf(args, j) \in {Unset, Value(acc.given, args[j].name)}

\* A flag that was set has its value, and had none if it is set once.
LEMMA SetFlagGives ==
  ASSUME NEW args, NEW acc \in Parses(args), NEW name \in Flags, NEW value \in Texts(args),
         SetFlag(acc, name, value).mode # "error"
  PROVE  LET new == SetFlag(acc, name, value)
         IN /\ new.mode = "flags" /\ new.consumed = acc.consumed
            /\ Value(new.given, name) = value
            /\ name \in OnceFlags => Value(acc.given, name) = Unset
            /\ \A m \in Flags : m # name => Value(new.given, m) = Value(acc.given, m)
<1> DEFINE new == SetFlag(acc, name, value)
<1>1. /\ ~(name \in OnceFlags /\ Value(acc.given, name) # Unset)
      /\ new = [acc EXCEPT !.mode = "flags", !.given[name] = Append(@, value)]
  <2>1. ASSUME name \in OnceFlags, Value(acc.given, name) # Unset PROVE FALSE
    <3>1. new = [acc EXCEPT !.mode = "error"]
      BY <2>1 DEF SetFlag, Unset
    <3> QED BY <3>1 DEF Parses
  <2> QED BY <2>1 DEF SetFlag, Unset
<1>2. acc.given \in [Flags -> Seq(Texts(args))]
  BY DEF Parses, Givens
<1>3. /\ new.mode = "flags" /\ new.consumed = acc.consumed
      /\ new.given = [acc.given EXCEPT ![name] = Append(@, value)]
  BY <1>1 DEF Parses
<1> HIDE DEF new
<1>4. /\ new.given[name] = Append(acc.given[name], value)
      /\ \A m \in Flags : m # name => new.given[m] = acc.given[m]
  BY <1>2, <1>3
<1>5. Value(new.given, name) = value
  <2> DEFINE q == acc.given[name]
  <2>1. q \in Seq(Texts(args))
    BY <1>2
  <2>2. Append(q, value) # <<>> /\ Append(q, value)[Len(Append(q, value))] = value
    BY <2>1, AppendProperties
  <2> QED BY <1>4, <2>2 DEF Value, SE!Last
<1>6. \A m \in Flags : m # name => Value(new.given, m) = Value(acc.given, m)
  BY <1>4 DEF Value
<1> QED BY <1>1, <1>3, <1>5, <1>6 DEF new

\* The same, for the flags seen.
LEMMA SetFlagKeeps ==
  ASSUME NEW args \in Seq(ArgTokens), NEW acc \in Parses(args), NEW i \in 1..Len(args),
         NEW name \in Flags, NEW value \in Texts(args), NEW k \in 1..i,
         acc.consumed = i,
         \A j \in 1..Len(args) :
           j < k /\ OnceAt(args, j) => ValueOf(args, j) \in {Unset, Value(acc.given, args[j].name)},
         \A j \in k..i : OnceAt(args, j) => args[j].name = name /\ ValueOf(args, j) = value
  PROVE  LET new == SetFlag(acc, name, value) IN Place(new, args, i) /\ Given(new, args, i)
<1> DEFINE new == SetFlag(acc, name, value)
<1>1. CASE new.mode = "error"
  BY <1>1 DEF Place, Given
<1>2. CASE new.mode # "error"
  <2>1. /\ new.mode = "flags" /\ new.consumed = i /\ Value(new.given, name) = value
        /\ name \in OnceFlags => Value(acc.given, name) = Unset
        /\ \A m \in Flags : m # name => Value(new.given, m) = Value(acc.given, m)
    BY <1>2, SetFlagGives
  <2> HIDE DEF new
  <2>2. Place(new, args, i)
    BY <2>1 DEF Place
  <2>3. ASSUME NEW j \in 1..Len(args), j <= i, OnceAt(args, j)
        PROVE  ValueOf(args, j) \in {Unset, Value(new.given, args[j].name)}
    <3>1. args[j].name \in OnceFlags /\ args[j].name \in Flags
      BY <2>3 DEF OnceAt, Flags, ValueFlags
    <3>2. CASE j < k
      <4>1. ValueOf(args, j) \in {Unset, Value(acc.given, args[j].name)}
        BY <3>2, <2>3
      <4> QED BY <4>1, <3>1, <2>1
    <3>3. CASE ~(j < k)
      <4>1. j \in k..i
        BY <3>3, <2>3
      <4> QED BY <4>1, <2>3, <2>1
    <3> QED BY <3>2, <3>3
  <2>4. Given(new, args, i)
    BY <2>1, <2>3 DEF Given
  <2> QED BY <2>2, <2>4 DEF new
<1> QED BY <1>1, <1>2

LEMMA TakeArgKeeps ==
  ASSUME NEW args \in Seq(ArgTokens), NEW i \in 1..Len(args), NEW acc \in Parses(args),
         Place(acc, args, i - 1), Given(acc, args, i - 1)
  PROVE  LET new == TakeArg(acc, args[i]) IN Place(new, args, i) /\ Given(new, args, i)
<1> DEFINE t == args[i]
           more == [acc EXCEPT !.consumed = @ + 1]
           new == TakeArg(acc, t)
<1> SUFFICES Place(new, args, i) /\ Given(new, args, i)
  OBVIOUS
<1> HIDE DEF new
<1>0. /\ i \in DOMAIN args /\ AsText(t) \in Texts(args) /\ t.value \in Texts(args)
      /\ "true" \in Texts(args)
  BY DEF Texts
<1>1. /\ acc.consumed \in Nat /\ acc.pending \in ValueFlags \cup {Unset}
      /\ acc.mode \in {"flags", "value", "rest", "error", "help"}
  BY DEF Parses
<1>2. more \in Parses(args) /\ more.consumed = acc.consumed + 1 /\ more.given = acc.given
      /\ more.mode = acc.mode /\ more.pending = acc.pending
  <2>1. acc.consumed + 1 \in Nat
    BY <1>1
  <2> QED BY <2>1 DEF Parses
<1>3. CASE acc.mode = "value"
  <2>1. /\ acc.consumed = i - 1 /\ i - 1 >= 1 /\ args[i - 1].kind = "flag"
        /\ args[i - 1].name \in ValueFlags /\ args[i - 1].value = NoValue
        /\ acc.pending = args[i - 1].name
    BY <1>3 DEF Place
  <2>2. new = SetFlag(more, acc.pending, AsText(t))
    BY <1>3 DEF TakeArg, new
  <2>3. acc.pending \in Flags /\ more.consumed = i
    BY <2>1, <1>2 DEF Flags
  <2>4. \A j \in 1..Len(args) :
          j < i - 1 /\ OnceAt(args, j) => ValueOf(args, j) \in {Unset, Value(more.given, args[j].name)}
    BY <1>2, <1>3, <2>1 DEF Given
  <2>5. ~OnceAt(args, i) /\ ValueOf(args, i - 1) = AsText(t)
    BY <2>1 DEF OnceAt, IsValue, ValueOf
  <2>6. \A j \in (i - 1)..i : OnceAt(args, j) => args[j].name = acc.pending /\ ValueOf(args, j) = AsText(t)
    <3> SUFFICES ASSUME NEW j \in (i - 1)..i, OnceAt(args, j)
                 PROVE  args[j].name = acc.pending /\ ValueOf(args, j) = AsText(t)
      OBVIOUS
    <3>1. j = i - 1
      BY <2>5
    <3> QED BY <3>1, <2>1, <2>5
  <2>7. i - 1 \in 1..i
    BY <2>1
  <2> HIDE DEF t, more
  <2>8. LET nn == SetFlag(more, acc.pending, AsText(t)) IN Place(nn, args, i) /\ Given(nn, args, i)
    BY <1>0, <1>2, <2>3, <2>4, <2>6, <2>7, SetFlagKeeps
  <2> QED BY <2>2, <2>8
<1>4. CASE acc.mode = "flags"
  <2>1. acc.consumed = i - 1 /\ more.consumed = i
    BY <1>4, <1>2 DEF Place
  <2>2. \A j \in 1..Len(args) :
          j < i /\ OnceAt(args, j) => ValueOf(args, j) \in {Unset, Value(acc.given, args[j].name)}
    BY <1>4, <2>1 DEF Given
  <2>3. CASE t.kind = "word"
    <3>1. new = [acc EXCEPT !.mode = "rest"]
      BY <2>3, <1>4 DEF TakeArg, new
    <3>2. new.mode = "rest" /\ new.consumed = i - 1 /\ new.given = acc.given
      BY <3>1, <2>1 DEF Parses
    <3> QED BY <3>2, <2>2 DEF Place, Given
  <2>4. CASE t.kind = "dashdash"
    <3>1. new = [acc EXCEPT !.mode = "rest", !.consumed = @ + 1]
      BY <2>4, <1>4 DEF TakeArg, new
    <3>2. new.mode = "rest" /\ new.consumed = i /\ new.given = acc.given
      BY <3>1, <2>1 DEF Parses
    <3>3. ~OnceAt(args, i)
      BY <2>4 DEF OnceAt
    <3> QED BY <3>2, <3>3, <2>2 DEF Place, Given
  <2>5. CASE t.kind = "bad"
    <3>1. new = [acc EXCEPT !.mode = "error"]
      BY <2>5, <1>4 DEF TakeArg, new
    <3>2. new.mode = "error"
      BY <3>1 DEF Parses
    <3> QED BY <3>2 DEF Place, Given
  <2>6. CASE t.kind = "flag"
    <3>1. new = TakeFlag(more, t)
      BY <2>6, <1>4 DEF TakeArg, new
    <3>2. CASE new.mode \in {"error", "help"}
      BY <3>2 DEF Place, Given
    <3>3. ASSUME NEW v \in Texts(args), t.name \in Flags, new = SetFlag(more, t.name, v),
                 OnceAt(args, i) => ValueOf(args, i) = v
          PROVE  Place(new, args, i) /\ Given(new, args, i)
      <4>1. \A j \in i..i : OnceAt(args, j) => args[j].name = t.name /\ ValueOf(args, j) = v
        BY <3>3
      <4>2. \A j \in 1..Len(args) :
              j < i /\ OnceAt(args, j) => ValueOf(args, j) \in {Unset, Value(more.given, args[j].name)}
        BY <2>2, <1>2
      <4>3. t.name \in Flags /\ i \in 1..i
        BY <3>3
      <4> HIDE DEF t, more
      <4> QED BY <1>2, <2>1, <3>3, <4>1, <4>2, <4>3, SetFlagKeeps
    <3>4. CASE t.name \in BoolFlags /\ t.value \in {NoValue, "true", "false"} /\ t.name \notin {"h", "help"}
      <4>1. new = SetFlag(more, t.name, IF t.value = NoValue THEN "true" ELSE t.value)
        BY <3>1, <3>4 DEF TakeFlag
      <4>2. ~OnceAt(args, i) /\ t.name \in Flags
        BY <3>4 DEF OnceAt, OnceFlags, BoolFlags, Flags
      <4> HIDE DEF t, more
      <4> QED BY <4>1, <4>2, <1>0, <3>3
    <3>5. CASE t.name \in ValueFlags /\ t.value # NoValue /\ t.name \notin {"h", "help"} /\ t.name \notin BoolFlags
      <4>1. new = SetFlag(more, t.name, t.value)
        BY <3>1, <3>5 DEF TakeFlag
      <4>2. t.name \in Flags /\ ValueOf(args, i) = t.value
        BY <3>5 DEF Flags, ValueOf
      <4> HIDE DEF t, more
      <4> QED BY <4>1, <4>2, <1>0, <3>3
    <3>6. CASE t.name \in ValueFlags /\ t.value = NoValue /\ t.name \notin {"h", "help"} /\ t.name \notin BoolFlags
      <4>1. new = [more EXCEPT !.mode = "value", !.pending = t.name]
        BY <3>1, <3>6 DEF TakeFlag
      <4>2. new.mode = "value" /\ new.pending = t.name /\ new.consumed = i /\ new.given = acc.given
        BY <4>1, <1>2, <2>1 DEF Parses
      <4>3. Place(new, args, i)
        BY <4>2, <3>6, <2>6 DEF Place
      <4>4. Given(new, args, i)
        BY <4>2, <2>2 DEF Given
      <4> QED BY <4>3, <4>4
    <3>7. CASE \/ t.name \in {"h", "help"}
               \/ t.name \in BoolFlags /\ t.value \notin {NoValue, "true", "false"}
               \/ t.name \notin BoolFlags \cup ValueFlags
      <4>1. new = [more EXCEPT !.mode = "help"] \/ new = [more EXCEPT !.mode = "error"]
        BY <3>1, <3>7 DEF TakeFlag
      <4>2. new.mode \in {"error", "help"}
        BY <4>1, <1>2 DEF Parses
      <4> QED BY <4>2, <3>2
    <3> QED BY <3>4, <3>5, <3>6, <3>7
  <2>7. t.kind \in {"word", "dashdash", "bad", "flag"}
    <3>1. t \in ArgTokens
      OBVIOUS
    <3> HIDE DEF t
    <3> QED BY <3>1 DEF ArgTokens
  <2> QED BY <2>3, <2>4, <2>5, <2>6, <2>7
<1>5. CASE acc.mode \in {"rest", "error", "help"}
  <2>1. new = acc
    BY <1>5 DEF TakeArg, new
  <2>2. acc.mode = "rest" => acc.consumed <= i - 1
    BY DEF Place
  <2>3. Place(acc, args, i)
    BY <1>1, <1>5, <2>2 DEF Place
  <2>4. Given(acc, args, i)
    BY <1>1, <1>5 DEF Given
  <2> QED BY <2>1, <2>3, <2>4
<1> QED BY <1>1, <1>3, <1>4, <1>5

\* Accepted arguments give every once-flag its value, wherever it stands.
LEMMA FlagsGiven ==
  ASSUME NEW in, in.args \in Seq(ArgTokens), Accepted(in, FlagParse(in.args)),
         NEW j \in 1..Len(in.args), OnceAt(in.args, j)
  PROVE  ValueOf(in.args, j) \in {Unset, Value(FlagParse(in.args).given, in.args[j].name)}
<1> DEFINE args == in.args
           n == Len(args)
<1>0. n \in Nat /\ args \in Seq(ArgTokens)
  OBVIOUS
<1>1. PICK f : IsParse(f, args) /\ FlagParse(args) = f[n]
  BY FlagParseIs
<1>2. \A i \in 0..n : Place(f[i], args, i) /\ Given(f[i], args, i)
  <2> DEFINE S == {i \in 0..n : Place(f[i], args, i) /\ Given(f[i], args, i)}
  <2>1. 0 \in S
    <3>1. f[0].mode = "flags" /\ f[0].consumed = 0
      <4>1. Unparsed.mode = "flags" /\ Unparsed.consumed = 0
        BY DEF Unparsed
      <4> QED BY <1>1, <4>1 DEF IsParse
    <3>2. Place(f[0], args, 0)
      BY <3>1 DEF Place
    <3>3. Given(f[0], args, 0)
      BY <3>1 DEF Given
    <3> QED BY <3>2, <3>3, <1>0
  <2>2. ASSUME NEW i \in 1..n, i - 1 \in S PROVE i \in S
    <3>1. f[i - 1] \in Parses(args) /\ f[i] = TakeArg(f[i - 1], args[i])
      BY <1>1, <2>2, <1>0 DEF IsParse
    <3>2. Place(f[i - 1], args, i - 1) /\ Given(f[i - 1], args, i - 1)
      BY <2>2
    <3>3. Place(f[i], args, i) /\ Given(f[i], args, i)
      BY <3>1, <3>2, <1>0, TakeArgKeeps
    <3> QED BY <3>3
  <2> HIDE DEF S
  <2>3. 0..n \subseteq S
    BY <1>0, <2>1, <2>2, Upto
  <2> QED BY <2>3 DEF S
<1> DEFINE p == FlagParse(args)
<1>3. Place(p, args, n) /\ Given(p, args, n)
  BY <1>0, <1>1, <1>2
<1>4. p.mode \in {"flags", "rest"} /\ \A i \in p.consumed + 1 .. n : ~NamesReserved(args[i])
  BY DEF Accepted, RestAccepted
<1>5. p \in Parses(args)
  BY <1>0, <1>1 DEF IsParse
<1>6. p.consumed \in Nat
  BY <1>5 DEF Parses
<1>7. j <= p.consumed
  <2>1. NamesReserved(args[j])
    BY DEF OnceAt, NamesReserved, UpstreamReserved
  <2>2. j \in 1..n
    OBVIOUS
  <2> HIDE DEF p, n
  <2> QED BY <2>1, <2>2, <1>4, <1>6, <1>0
<1>8. p.mode # "value" /\ p.mode \in {"flags", "value", "rest"}
  BY <1>4
<1> HIDE DEF p
<1>9. ValueOf(args, j) \in {Unset, Value(p.given, args[j].name)}
  BY <1>3, <1>7, <1>8 DEF Given
<1> QED BY <1>9 DEF p

LEMMA FlagsInForceIf == StartInv => FlagsInForce
<1> SUFFICES ASSUME StartInv, Started, NEW j \in DOMAIN input.args, OnceAt(input.args, j)
             PROVE  ValueOf(input.args, j) \in {Unset, cfg[input.args[j].name]}
  BY DEF Unset, FlagsInForce, OnceAt, IsValue, ValueOf, Started
<1>1. input.args \in Seq(ArgTokens)
  BY InputsAssumption DEF StartInv, Progress
<1>2. Accepted(input, Parsed) /\ cfg = Config(input, Parsed)
  BY DEF StartInv, ConfigLoaded
<1>3. j \in 1..Len(input.args)
  BY <1>1
<1>4. ValueOf(input.args, j) \in {Unset, Value(Parsed.given, input.args[j].name)}
  BY <1>1, <1>2, <1>3, FlagsGiven DEF Parsed
<1>5. input.args[j].name \in OnceFlags
  BY DEF OnceAt
<1>6. \A n \in OnceFlags : cfg[n] = Value(Parsed.given, n)
  <2>1. /\ cfg.policy = Value(Parsed.given, "policy")
        /\ cfg.inventory = Value(Parsed.given, "inventory")
        /\ cfg.profiles = Value(Parsed.given, "profiles")
    BY <1>2 DEF Config
  <2> QED BY <2>1 DEF OnceFlags
<1> QED BY <1>4, <1>5, <1>6

-----------------------------------------------------------------------------
(* The upstream's environment *)

\* What was given of a flag is a sequence of texts of the command line.
LEMMA GivenType ==
  ASSUME NEW args \in Seq(ArgTokens), NEW name \in Flags
  PROVE  FlagParse(args).given[name] \in Seq(Texts(args))
<1>1. PICK f : IsParse(f, args) /\ FlagParse(args) = f[Len(args)]
  BY FlagParseIs
<1>2. FlagParse(args) \in Parses(args)
  BY <1>1 DEF IsParse
<1>3. FlagParse(args).given \in [Flags -> Seq(Texts(args))]
  BY <1>2 DEF Parses, Givens
<1> QED BY <1>3

\* PassNames keeps names that were given, in order.
LEMMA PassNamesType ==
  ASSUME NEW X, NEW pass \in Seq(X), NEW goos
  PROVE  PassNames(pass, goos) \in Seq({pass[i] : i \in DOMAIN pass})
<1> DEFINE R == {pass[i] : i \in DOMAIN pass}
           T == Seq(R)
           n == Len(pass)
           D(f) == [i \in 0..n |-> IF i = 0 THEN <<>> ELSE PassName(f[i - 1], pass[i], goos)]
           c == CHOOSE f : f = D(f)
           G == [q \in (1..n) \X T |-> PassName(q[2], pass[q[1]], goos)]
<1>1. n \in Nat /\ DOMAIN pass = 1..n /\ <<>> \in T
  OBVIOUS
<1>2. ASSUME NEW i \in 1..n, NEW q \in T PROVE PassName(q, pass[i], goos) \in T
  <2>1. pass[i] \in R
    BY <1>1
  <2>2. Append(q, pass[i]) \in T
    BY <2>1, AppendProperties
  <2> QED BY <2>2 DEF PassName
<1>3. G \in [(1..n) \X T -> T]
  BY <1>2
<1>4. PICK f : f \in [0..n -> T] /\ f[0] = <<>> /\ \A i \in 1..n : f[i] = G[<<i, f[i - 1]>>]
  <2> HIDE DEF G, T, n
  <2>1. \E f : IsLoop(f, n, T, <<>>, G)
    BY <1>1, <1>3, LoopExists
  <2> QED BY <2>1 DEF IsLoop
<1> HIDE DEF T
<1>5. \A i \in 1..n : f[i] = PassName(f[i - 1], pass[i], goos)
  <2> SUFFICES ASSUME NEW i \in 1..n PROVE f[i] = PassName(f[i - 1], pass[i], goos)
    OBVIOUS
  <2>1. <<i, f[i - 1]>> \in (1..n) \X T
    BY <1>1, <1>4
  <2> QED BY <1>4, <2>1
<1> HIDE DEF n
<1>6. f = D(f)
  BY <1>1, <1>4, <1>5
<1>7. c = D(c)
  <2> HIDE DEF D
  <2> QED BY <1>6
<1>8. PassNames(pass, goos) = c[n]
  BY DEF PassNames, n
<1> HIDE DEF c
<1>9. c[0] = <<>> /\ \A i \in 1..n : c[i] = PassName(c[i - 1], pass[i], goos)
  BY <1>7, <1>1
<1>10. n \in {i \in 0..n : c[i] \in T}
  <2> DEFINE S == {i \in 0..n : c[i] \in T}
  <2>1. 0 \in S /\ \A i \in 1..n : i - 1 \in S => i \in S
    BY <1>1, <1>2, <1>9
  <2> HIDE DEF S
  <2>2. 0..n \subseteq S
    BY <2>1, <1>1, Upto
  <2>3. n \in S
    BY <2>2, <1>1
  <2> QED BY <2>3 DEF S
<1> QED BY <1>8, <1>10 DEF T

\* A finite set can be put in a sequence.
LEMMA SetToSeqType ==
  ASSUME NEW S, IsFiniteSet(S)
  PROVE  SE!SetToSeq(S) \in Seq(S)
<1>1. Cardinality(S) \in Nat /\ ExistsBijection(1..Cardinality(S), S)
  BY FS_CardinalityType
<1>2. PICK g : g \in Bijection(1..Cardinality(S), S)
  BY <1>1 DEF ExistsBijection
<1>3. g \in [1..Cardinality(S) -> S] /\ SE!IsInjective(g)
  BY <1>2 DEF Bijection, Injection, IsInjective, SE!IsInjective
<1>4. SE!SetToSeq(S) \in [1..Cardinality(S) -> S]
  <2> DEFINE F == {f \in [1..Cardinality(S) -> S] : SE!IsInjective(f)}
  <2>1. F # {}
    BY <1>3
  <2>2. (CHOOSE f : f \in F) \in F
    BY <2>1
  <2>3. SE!Cardinality(S) = Cardinality(S)
    BY DEF SE!Cardinality, Cardinality, SE!IsFiniteSet, IsFiniteSet
  <2> QED BY <2>2, <2>3 DEF SE!SetToSeq
<1> QED BY <1>1, <1>4

AllowedOf(in) == {k \in DOMAIN in.env : EnvAllowed(k, in.goos)}

PassedEntry(in, name) == <<name, CHOOSE v \in Lookup(in.env, name, in.goos) : TRUE>>

\* The upstream's environment: entries of the allow-list, of the names passed,
\* all of them, and of --upstream-env.
EnvParts(env, in, c) ==
  /\ Len(env) \in Nat /\ DOMAIN env = 1..Len(env)
  /\ \A i \in DOMAIN env :
       \/ \E k \in AllowedOf(in) : env[i] = <<k, in.env[k]>>
       \/ \E j \in DOMAIN c.passNames : env[i] = PassedEntry(in, c.passNames[j])
       \/ \E j \in DOMAIN c.upstreamEnv : env[i] = EnvKey[c.upstreamEnv[j]]
  /\ \A j \in DOMAIN c.passNames :
       \E i \in DOMAIN env : env[i] = PassedEntry(in, c.passNames[j])

LEMMA ChildEnvIs ==
  ASSUME NEW in, IsEnvironment(in.env, in.goos), NEW c, NEW X, NEW Y,
         c.passNames \in Seq(X), c.upstreamEnv \in Seq(Y)
  PROVE  EnvParts(ChildEnv(in, c), in, c)
<1> DEFINE K == AllowedOf(in)
           S == {<<k, in.env[k]>> : k \in K}
           a == SE!SetToSeq(S)
           b == [j \in DOMAIN c.passNames |-> PassedEntry(in, c.passNames[j])]
           d == [j \in DOMAIN c.upstreamEnv |-> EnvKey[c.upstreamEnv[j]]]
           B == {b[j] : j \in DOMAIN c.passNames}
           E == {d[j] : j \in DOMAIN c.upstreamEnv}
           U == S \cup B \cup E
<1>1. IsFiniteSet(S)
  <2>1. IsFiniteSet(K)
    BY FS_Subset DEF IsEnvironment, AllowedOf
  <2> DEFINE h == [k \in K |-> <<k, in.env[k]>>]
  <2>2. h \in Surjection(K, S)
    BY DEF Surjection
  <2> HIDE DEF h, K, S
  <2> QED BY <2>1, <2>2, FS_Surjection
<1>2. a \in Seq(S)
  <2> HIDE DEF S
  <2> QED BY <1>1, SetToSeqType
<1>3. b \in Seq(B) /\ d \in Seq(E)
  <2>1. b \in [1..Len(c.passNames) -> B] /\ Len(c.passNames) \in Nat
    OBVIOUS
  <2>2. d \in [1..Len(c.upstreamEnv) -> E] /\ Len(c.upstreamEnv) \in Nat
    OBVIOUS
  <2> HIDE DEF b, d, B, E
  <2>3. b \in Seq(B)
    BY <2>1
  <2>4. d \in Seq(E)
    BY <2>2
  <2> QED BY <2>3, <2>4
<1>4. ChildEnv(in, c) = a \o b \o d
  BY DEF ChildEnv, AllowedOf, PassedEntry
<1>5. /\ \A x \in S : \E k \in AllowedOf(in) : x = <<k, in.env[k]>>
      /\ \A x \in B : \E j \in DOMAIN c.passNames : x = PassedEntry(in, c.passNames[j])
      /\ \A x \in E : \E j \in DOMAIN c.upstreamEnv : x = EnvKey[c.upstreamEnv[j]]
  OBVIOUS
<1>6. /\ DOMAIN b = DOMAIN c.passNames
      /\ \A j \in DOMAIN c.passNames : b[j] = PassedEntry(in, c.passNames[j])
  OBVIOUS
<1> HIDE DEF a, b, d, S, B, E
<1>7. a \in Seq(U) /\ b \in Seq(U) /\ d \in Seq(U)
  BY <1>2, <1>3
<1> HIDE DEF U
<1> DEFINE env == a \o b \o d
<1>8. env \in Seq(U) /\ Len(env) = (Len(a) + Len(b)) + Len(d)
  BY <1>7
<1>9. \A i \in 1..Len(env) : \/ i \in 1..Len(a) /\ env[i] = a[i]
                             \/ i - Len(a) \in 1..Len(b) /\ env[i] = b[i - Len(a)]
                             \/ i - Len(a) - Len(b) \in 1..Len(d) /\ env[i] = d[i - Len(a) - Len(b)]
  BY <1>7
<1>10. \A j \in 1..Len(b) : Len(a) + j \in 1..Len(env) /\ env[Len(a) + j] = b[j]
  BY <1>7
<1>11. \A i \in 1..Len(env) : env[i] \in S \/ env[i] \in B \/ env[i] \in E
  BY <1>9, <1>2, <1>3
<1> HIDE DEF env
<1>12. Len(env) \in Nat /\ DOMAIN env = 1..Len(env)
  BY <1>8
<1>13. \A i \in DOMAIN env :
         \/ \E k \in AllowedOf(in) : env[i] = <<k, in.env[k]>>
         \/ \E j \in DOMAIN c.passNames : env[i] = PassedEntry(in, c.passNames[j])
         \/ \E j \in DOMAIN c.upstreamEnv : env[i] = EnvKey[c.upstreamEnv[j]]
  BY <1>5, <1>11, <1>12
<1>14. \A j \in DOMAIN c.passNames : \E i \in DOMAIN env : env[i] = PassedEntry(in, c.passNames[j])
  <2> SUFFICES ASSUME NEW j \in DOMAIN c.passNames
               PROVE  \E i \in DOMAIN env : env[i] = PassedEntry(in, c.passNames[j])
    OBVIOUS
  <2>1. j \in 1..Len(b) /\ b[j] = PassedEntry(in, c.passNames[j])
    BY <1>3, <1>6
  <2> QED BY <2>1, <1>10, <1>12
<1>15. ChildEnv(in, c) = env
  BY <1>4 DEF env
<1> QED BY <1>12, <1>13, <1>14, <1>15 DEF EnvParts

\* What an accepted command line gives the upstream's environment.
LEMMA EnvGiven ==
  ASSUME StartInv, Started
  PROVE  /\ IsEnvironment(input.env, input.goos)
         /\ cfg.upstreamEnv \in Seq(Texts(input.args))
         /\ \E X : cfg.passNames \in Seq(X)
         /\ \A j \in DOMAIN cfg.upstreamEnv :
              ~IsFathomgateEnvName(EnvKey[cfg.upstreamEnv[j]][1], input.goos)
         /\ \A i \in DOMAIN cfg.passNames :
              /\ ~IsFathomgateEnvName(cfg.passNames[i], input.goos)
              /\ Lookup(input.env, cfg.passNames[i], input.goos) # {}
              /\ \A j \in DOMAIN cfg.upstreamEnv :
                   ~SameEnvName(cfg.passNames[i], EnvKey[cfg.upstreamEnv[j]][1], input.goos)
<1> DEFINE env == Parsed.given["upstream-env"]
           pass == Parsed.given["upstream-env-pass"]
           R == {pass[i] : i \in DOMAIN pass}
<1>1. input.args \in Seq(ArgTokens) /\ IsEnvironment(input.env, input.goos)
  BY InputsAssumption DEF StartInv, Progress
<1>2. Accepted(input, Parsed) /\ cfg = Config(input, Parsed)
  BY DEF StartInv, ConfigLoaded
<1>3. env \in Seq(Texts(input.args)) /\ pass \in Seq(Texts(input.args))
  <2>1. "upstream-env" \in Flags /\ "upstream-env-pass" \in Flags
    BY DEF Flags, ValueFlags
  <2> QED BY <1>1, <2>1, GivenType DEF Parsed
<1> HIDE DEF pass, env
<1>4. cfg.upstreamEnv = env /\ cfg.passNames = PassNames(pass, input.goos)
  BY <1>2 DEF Config, env, pass
<1>5. cfg.passNames \in Seq(R)
  BY <1>3, <1>4, PassNamesType
<1>6. EnvAccepted(env, pass, input.goos) /\ PassSet(input, pass)
  BY <1>2 DEF Accepted, env, pass
<1>7. \A i \in DOMAIN cfg.passNames : \E j \in DOMAIN pass : cfg.passNames[i] = pass[j]
  <2>1. \A i \in DOMAIN cfg.passNames : cfg.passNames[i] \in R
    <3> HIDE DEF R
    <3> QED BY <1>5
  <2> QED BY <2>1
<1>8. \A i \in DOMAIN cfg.passNames :
              /\ ~IsFathomgateEnvName(cfg.passNames[i], input.goos)
              /\ Lookup(input.env, cfg.passNames[i], input.goos) # {}
              /\ \A j \in DOMAIN env : ~SameEnvName(cfg.passNames[i], EnvKey[env[j]][1], input.goos)
  BY <1>6, <1>7 DEF EnvAccepted, PassSet
<1>9. \A j \in DOMAIN env : ~IsFathomgateEnvName(EnvKey[env[j]][1], input.goos)
  BY <1>6 DEF EnvAccepted
<1> HIDE DEF R
<1> QED BY <1>1, <1>3, <1>4, <1>5, <1>8, <1>9

LEMMA ChildEnvHere ==
  ASSUME StartInv, Started
  PROVE  EnvParts(ChildEnv(input, cfg), input, cfg)
<1>1. PICK X : cfg.passNames \in Seq(X)
  BY EnvGiven
<1>2. IsEnvironment(input.env, input.goos) /\ cfg.upstreamEnv \in Seq(Texts(input.args))
  BY EnvGiven
<1> QED BY <1>1, <1>2, ChildEnvIs

LEMMA FoldedIs ==
  /\ \A a, b : SameEnvName(a, b, input.goos) <=> Folded(a) = Folded(b)
  /\ \A k : IsFathomgateEnvName(k, input.goos)
              <=> Len(k) >= 11 /\ Folded(SubSeq(k, 1, 11)) = Folded("FATHOMGATE_")
<1>1. \A a, b : SameEnvName(a, b, input.goos) <=> Folded(a) = Folded(b)
  BY DEF SameEnvName, Folded
<1>2. Len(OwnPrefix) = 11
  BY BaseEnvAssumption
<1>3. \A k : IsFathomgateEnvName(k, input.goos)
              <=> Len(k) >= 11 /\ SameEnvName(SubSeq(k, 1, 11), OwnPrefix, input.goos)
  BY <1>2 DEF IsFathomgateEnvName
<1>4. OwnPrefix = "FATHOMGATE_"
  BY DEF OwnPrefix
<1> QED BY <1>1, <1>3, <1>4

\* No variable of the allow-list is fathomgate's own.
LEMMA AllowedIsClean ==
  ASSUME IsEnvironment(input.env, input.goos), NEW k \in AllowedOf(input)
  PROVE  ~IsFathomgateEnvName(k, input.goos)
<1>1. PICK a \in BaseEnvNames[input.goos] : SameEnvName(k, a, input.goos)
  BY DEF AllowedOf, EnvAllowed
<1>2. ~IsFathomgateEnvName(a, input.goos)
  BY BaseEnvAssumption DEF IsEnvironment
<1>3. CASE input.goos # "windows"
  BY <1>1, <1>2, <1>3 DEF SameEnvName
<1>4. CASE input.goos = "windows"
  <2> DEFINE kh == SubSeq(k, 1, 11)
             ah == SubSeq(a, 1, 11)
  <2>1. LowerCase(k) = LowerCase(a)
    BY <1>1, <1>4 DEF SameEnvName
  <2>2. Len(k) = Len(a) /\ (Len(a) >= 11 => LowerCase(kh) = LowerCase(ah))
    BY <1>1, <2>1 DEF IsEnvironment, AllowedOf
  <2>3. ~(Len(a) >= 11 /\ LowerCase(ah) = LowerCase("FATHOMGATE_"))
    BY <1>2, <1>4, FoldedIs DEF Folded
  <2>4. ~(Len(k) >= 11 /\ LowerCase(kh) = LowerCase("FATHOMGATE_"))
    <3> HIDE DEF kh, ah
    <3> QED BY <2>2, <2>3
  <2> QED BY <2>4, <1>4, FoldedIs DEF Folded
<1> QED BY <1>3, <1>4

LEMMA ChildEnvCleanIf == StartInv => ChildEnvClean
<1> SUFFICES ASSUME StartInv, Started, NEW e \in SE!ToSet(ChildEnv(input, cfg))
             PROVE  /\ ~(Len(e[1]) >= 11 /\ Folded(SubSeq(e[1], 1, 11)) = Folded("FATHOMGATE_"))
                    /\ \/ Folded(e[1]) \in {Folded(a) : a \in BaseEnvNames[input.goos]}
                       \/ e[1] \in SE!ToSet(cfg.passNames)
                       \/ e \in {EnvKey[x] : x \in SE!ToSet(cfg.upstreamEnv)}
  BY DEF ChildEnvClean, Started
<1> DEFINE env == ChildEnv(input, cfg)
           clean == ~IsFathomgateEnvName(e[1], input.goos)
           from == \/ Folded(e[1]) \in {Folded(a) : a \in BaseEnvNames[input.goos]}
                   \/ e[1] \in SE!ToSet(cfg.passNames)
                   \/ e \in {EnvKey[x] : x \in SE!ToSet(cfg.upstreamEnv)}
<1>2. PICK i \in DOMAIN env : e = env[i]
  BY DEF SE!ToSet
<1> HIDE DEF env
<1>3. \/ \E k \in AllowedOf(input) : e = <<k, input.env[k]>>
      \/ \E j \in DOMAIN cfg.passNames : e = PassedEntry(input, cfg.passNames[j])
      \/ \E j \in DOMAIN cfg.upstreamEnv : e = EnvKey[cfg.upstreamEnv[j]]
  BY <1>2, ChildEnvHere DEF env, EnvParts
<1>4. ASSUME NEW k \in AllowedOf(input), e = <<k, input.env[k]>> PROVE clean /\ from
  <2>1. e[1] = k
    BY <1>4
  <2>2. PICK a \in BaseEnvNames[input.goos] : SameEnvName(k, a, input.goos)
    BY DEF AllowedOf, EnvAllowed
  <2>3. Folded(k) = Folded(a)
    BY <2>2, FoldedIs
  <2> QED BY <2>1, <2>3, EnvGiven, AllowedIsClean
<1>5. ASSUME NEW j \in DOMAIN cfg.passNames, e = PassedEntry(input, cfg.passNames[j]) PROVE clean /\ from
  <2>1. e[1] = cfg.passNames[j]
    BY <1>5 DEF PassedEntry
  <2> QED BY <2>1, EnvGiven DEF SE!ToSet
<1>6. ASSUME NEW j \in DOMAIN cfg.upstreamEnv, e = EnvKey[cfg.upstreamEnv[j]] PROVE clean /\ from
  BY <1>6, EnvGiven DEF SE!ToSet
<1>7. clean /\ from
  BY <1>3, <1>4, <1>5, <1>6
<1> HIDE DEF from
<1>8. ~(Len(e[1]) >= 11 /\ Folded(SubSeq(e[1], 1, 11)) = Folded("FATHOMGATE_"))
  BY <1>7, FoldedIs
<1> QED BY <1>7, <1>8 DEF from

\* A set of positions that is not empty has a last one.
LEMMA LastExists ==
  ASSUME NEW n \in Nat, NEW M, M \subseteq 1..n, M # {}
  PROVE  \E i \in M : \A j \in M : j <= i
<1> DEFINE T == {n - i : i \in M}
<1>1. T \subseteq Nat /\ T # {}
  <2>1. \A i \in M : n - i \in Nat
    OBVIOUS
  <2>2. T # {}
    OBVIOUS
  <2> QED BY <2>1, <2>2
<1>2. PICK x \in T : \A y \in T : ~(y < x)
  <2> HIDE DEF T
  <2> QED BY <1>1, NatLeast
<1>3. PICK i \in M : x = n - i
  BY <1>2
<1>4. \A j \in M : ~(n - j < n - i)
  BY <1>2, <1>3
<1>5. \A j \in M : j <= i
  BY <1>4, <1>3
<1> QED BY <1>5

LEMMA PassedValueSeenIf == StartInv => PassedValueSeen
<1> DEFINE env == ChildEnv(input, cfg)
           mine(n) == {i \in DOMAIN env : Folded(env[i][1]) = Folded(n)}
           last(n) == CHOOSE i \in mine(n) : \A j \in mine(n) : j <= i
<1> SUFFICES ASSUME StartInv, Started, NEW n \in SE!ToSet(cfg.passNames)
             PROVE  \E k \in DOMAIN input.env :
                      Folded(k) = Folded(n) /\ env[last(n)][2] = input.env[k]
  BY DEF PassedValueSeen, Started
<1>2. PICK m \in DOMAIN cfg.passNames : n = cfg.passNames[m]
  BY DEF SE!ToSet
<1> HIDE DEF env
<1>3. /\ Len(env) \in Nat /\ DOMAIN env = 1..Len(env)
      /\ \A i \in DOMAIN env :
           \/ \E k \in AllowedOf(input) : env[i] = <<k, input.env[k]>>
           \/ \E j \in DOMAIN cfg.passNames : env[i] = PassedEntry(input, cfg.passNames[j])
           \/ \E j \in DOMAIN cfg.upstreamEnv : env[i] = EnvKey[cfg.upstreamEnv[j]]
      /\ \A j \in DOMAIN cfg.passNames :
           \E i \in DOMAIN env : env[i] = PassedEntry(input, cfg.passNames[j])
  BY ChildEnvHere DEF env, EnvParts
<1>4. mine(n) # {} /\ mine(n) \subseteq 1..Len(env)
  <2>1. PICK i \in DOMAIN env : env[i] = PassedEntry(input, n)
    BY <1>2, <1>3
  <2>2. env[i][1] = n
    BY <2>1 DEF PassedEntry
  <2> QED BY <2>2, <1>3
<1> DEFINE i == last(n)
<1>5. i \in mine(n)
  <2> DEFINE M == mine(n)
  <2> HIDE DEF mine, M
  <2>1. \E x \in M : \A j \in M : j <= x
    BY <1>3, <1>4, LastExists DEF M
  <2>2. (CHOOSE x \in M : \A j \in M : j <= x) \in M
    BY <2>1
  <2> QED BY <2>2 DEF M
<1> HIDE DEF last, i
<1>6. i \in DOMAIN env /\ Folded(env[i][1]) = Folded(n)
  BY <1>5
<1>7. ASSUME NEW k \in AllowedOf(input), env[i] = <<k, input.env[k]>>
      PROVE  \E kk \in DOMAIN input.env : Folded(kk) = Folded(n) /\ env[i][2] = input.env[kk]
  <2>1. k \in DOMAIN input.env /\ env[i][1] = k /\ env[i][2] = input.env[k]
    BY <1>7 DEF AllowedOf
  <2> QED BY <2>1, <1>6
<1>8. ASSUME NEW j \in DOMAIN cfg.passNames, env[i] = PassedEntry(input, cfg.passNames[j])
      PROVE  \E kk \in DOMAIN input.env : Folded(kk) = Folded(n) /\ env[i][2] = input.env[kk]
  <2> DEFINE L == Lookup(input.env, cfg.passNames[j], input.goos)
             v == CHOOSE v \in L : TRUE
  <2>1. v \in L
    <3>1. L # {}
      BY EnvGiven
    <3> HIDE DEF L
    <3> QED BY <3>1
  <2>2. env[i][1] = cfg.passNames[j] /\ env[i][2] = v
    BY <1>8 DEF PassedEntry
  <2> HIDE DEF v
  <2>3. PICK k \in DOMAIN input.env : SameEnvName(k, cfg.passNames[j], input.goos) /\ v = input.env[k]
    BY <2>1 DEF Lookup
  <2>4. Folded(k) = Folded(n)
    BY <2>2, <2>3, <1>6, FoldedIs
  <2> QED BY <2>2, <2>3, <2>4
<1>9. ASSUME NEW j \in DOMAIN cfg.upstreamEnv, env[i] = EnvKey[cfg.upstreamEnv[j]] PROVE FALSE
  <2>1. ~SameEnvName(n, env[i][1], input.goos)
    BY <1>2, <1>9, EnvGiven
  <2> QED BY <2>1, <1>6, FoldedIs
<1>10. \E k \in DOMAIN input.env : Folded(k) = Folded(n) /\ env[i][2] = input.env[k]
  BY <1>3, <1>6, <1>7, <1>8, <1>9
<1> QED BY <1>10 DEF i

-----------------------------------------------------------------------------
(* The listener *)

\* Two accepted token files with one text are the same file entry.
LEMMA OneTokenOneFile ==
  ASSUME NEW disk, IsTokenDisk(disk), NEW entries, TokenFilesAccepted(entries, disk),
         NEW i \in DOMAIN entries, NEW j \in DOMAIN entries,
         LET files == TokenFiles(entries, disk)
         IN \/ TrimOneNewline(files[i].token).text = TrimOneNewline(files[j].token).text
            \/ files[i].name = files[j].name
  PROVE  i = j
<1> DEFINE files == TokenFiles(entries, disk)
           p == TokenEntry[entries[i]][2]
           q == TokenEntry[entries[j]][2]
           a == disk.tokens[p]
           b == disk.tokens[q]
<1>1. DOMAIN files = DOMAIN entries /\ files[i].token = a /\ files[j].token = b
  BY DEF TokenFiles
<1>2. p \in DOMAIN disk.tokens /\ q \in DOMAIN disk.tokens
  BY DEF TokenFilesAccepted
<1>3. /\ CheckListenToken(TrimOneNewline(a)) /\ CheckListenToken(TrimOneNewline(b))
      /\ files[i].name = files[j].name \/ SameToken(a, b) => i = j
  BY <1>1 DEF TokenFilesAccepted
<1>4. /\ a = [f \in {"text", "len", "clean", "newlines"} |-> a[f]]
      /\ b = [f \in {"text", "len", "clean", "newlines"} |-> b[f]]
      /\ a.text = b.text => a.len = b.len
      /\ a.clean \in BOOLEAN /\ b.clean \in BOOLEAN
  BY <1>2 DEF IsTokenDisk
<1> HIDE DEF a, b, files
<1>5. ASSUME TrimOneNewline(a).text = TrimOneNewline(b).text PROVE SameToken(a, b)
  <2> DEFINE x == TrimOneNewline(a)
             y == TrimOneNewline(b)
  <2>1. /\ x = [f \in {"text", "len", "clean", "newlines"} |-> x[f]]
        /\ y = [f \in {"text", "len", "clean", "newlines"} |-> y[f]]
        /\ x.text = a.text /\ y.text = b.text /\ x.len = a.len /\ y.len = b.len
    BY <1>4 DEF TrimOneNewline
  <2>2. x.clean = TRUE /\ y.clean = TRUE /\ x.newlines = 0 /\ y.newlines = 0
    <3>1. x.clean \in BOOLEAN /\ y.clean \in BOOLEAN
      BY <2>1, <1>4 DEF TrimOneNewline
    <3> QED BY <3>1, <1>3 DEF CheckListenToken
  <2> HIDE DEF x, y
  <2>3. x.text = y.text /\ x.len = y.len
    BY <2>1, <1>5, <1>4 DEF x, y
  <2>4. x = y
    BY <2>1, <2>2, <2>3
  <2> QED BY <2>4 DEF SameToken, x, y
<1> QED BY <1>1, <1>3, <1>5 DEF files

LEMMA OneTokenIf == StartInv => OneTokenOnePrincipal
<1> SUFFICES ASSUME StartInv, Started, NEW a \in cfg.tokens, NEW b \in cfg.tokens,
                    a.token.text = b.token.text \/ a.name = b.name
             PROVE  a = b
  BY DEF OneTokenOnePrincipal, Started
<1> DEFINE entries == Parsed.given["listen-token-file"]
           disk == input.disk
<1>1. /\ Accepted(input, Parsed) /\ cfg = Config(input, Parsed)
      /\ IsEnvironment(input.env, input.goos) /\ IsTokenDisk(disk)
  BY InputsAssumption DEF StartInv, Progress, ConfigLoaded, IsDisk
<1>2. cfg.tokens = IF Value(Parsed.given, "listen") # "" THEN Tokens(input, entries) ELSE {}
  BY <1>1 DEF Config
<1>3. TokensAccepted(input, entries) /\ cfg.tokens = Tokens(input, entries)
  BY <1>1, <1>2 DEF Accepted
<1> HIDE DEF entries
<1>4. CASE EnvToken(input) # {}
  <2>1. \A v, w \in EnvToken(input) : v = w
    <3> SUFFICES ASSUME NEW v \in EnvToken(input), NEW w \in EnvToken(input) PROVE v = w
      OBVIOUS
    <3> DEFINE name == "FATHOMGATE_LISTEN_TOKEN"
    <3>1. PICK k \in DOMAIN input.env : SameEnvName(k, name, input.goos) /\ v = input.env[k]
      BY DEF EnvToken, Lookup
    <3>2. PICK l \in DOMAIN input.env : SameEnvName(l, name, input.goos) /\ w = input.env[l]
      BY DEF EnvToken, Lookup
    <3>3. SameEnvName(k, l, input.goos)
      BY <3>1, <3>2 DEF SameEnvName
    <3>4. k = l
      BY <3>3, <1>1 DEF IsEnvironment
    <3> QED BY <3>1, <3>2, <3>4
  <2>2. cfg.tokens = {[name |-> "env", token |-> disk.envTokens[v]] : v \in EnvToken(input)}
    BY <1>3, <1>4 DEF Tokens
  <2> QED BY <2>1, <2>2
<1>5. CASE EnvToken(input) = {}
  <2> DEFINE files == TokenFiles(entries, disk)
  <2>1. TokenFilesAccepted(entries, disk)
    BY <1>3, <1>5 DEF TokensAccepted
  <2>2. cfg.tokens = {[f EXCEPT !.token = TrimOneNewline(@)] : f \in SE!ToSet(files)}
    BY <1>3, <1>5 DEF Tokens
  <2>3. DOMAIN files = DOMAIN entries
    BY DEF TokenFiles
  <2>4. \A i \in DOMAIN entries : files[i] = [name |-> files[i].name, token |-> files[i].token]
    BY DEF TokenFiles
  <2> HIDE DEF files
  <2>5. PICK i \in DOMAIN entries : a = [files[i] EXCEPT !.token = TrimOneNewline(@)]
    BY <2>2, <2>3 DEF SE!ToSet
  <2>6. PICK j \in DOMAIN entries : b = [files[j] EXCEPT !.token = TrimOneNewline(@)]
    BY <2>2, <2>3 DEF SE!ToSet
  <2>7. /\ a.name = files[i].name /\ a.token = TrimOneNewline(files[i].token)
        /\ b.name = files[j].name /\ b.token = TrimOneNewline(files[j].token)
    BY <2>4, <2>5, <2>6
  <2>8. i = j
    BY <1>1, <2>1, <2>7, OneTokenOneFile DEF files
  <2> QED BY <2>5, <2>6, <2>8
<1> QED BY <1>4, <1>5

LEMMA TypeOKIf == StartInv => TypeOK
<1> SUFFICES ASSUME StartInv PROVE TypeOK
  OBVIOUS
<1>1. /\ stage \in Stages /\ code \in {0, 2} /\ (code = 2 => stage = "exit")
      /\ pipe.gate => stage = "ready"
  BY DEF StartInv, Progress
<1>2. ASSUME Started
      PROVE  /\ cfg.noPolicy # (cfg.policy # "")
             /\ cfg.listen \in {"", "127.0.0.1", "::1"} /\ (cfg.listen # "" => cfg.tokens # {})
  <2> DEFINE given == Parsed.given
             entries == given["listen-token-file"]
  <2>1. Accepted(input, Parsed) /\ cfg = Config(input, Parsed) /\ input.args \in Seq(ArgTokens)
    BY <1>2, InputsAssumption DEF StartInv, Progress, ConfigLoaded
  <2>2. entries \in Seq(Texts(input.args))
    <3>1. "listen-token-file" \in Flags
      BY DEF Flags, ValueFlags
    <3> QED BY <2>1, <3>1, GivenType DEF Parsed
  <2> HIDE DEF given, entries
  <2>3. /\ cfg.noPolicy = (Value(given, "no-policy") = "true") /\ cfg.policy = Value(given, "policy")
        /\ cfg.listen = IF Value(given, "listen") # "" THEN ListenHosts[Value(given, "listen")] ELSE ""
        /\ cfg.tokens = IF Value(given, "listen") # "" THEN Tokens(input, entries) ELSE {}
    BY <2>1 DEF Config, given, entries
  <2>4. PipelineAccepted(given)
    BY <2>1 DEF Accepted, given
  <2>5. Value(given, "listen") # "" =>
          Value(given, "listen") \in DOMAIN ListenHosts /\ TokensAccepted(input, entries)
    BY <2>1 DEF Accepted, given, entries
  <2>6. cfg.noPolicy # (cfg.policy # "")
    BY <2>3, <2>4 DEF PipelineAccepted, OnceFlags
  <2>7. cfg.listen \in {"", "127.0.0.1", "::1"}
    BY <2>3, <2>5, ListenAssumption
  <2>8. TokensAccepted(input, entries) => Tokens(input, entries) # {}
    <3>1. CASE EnvToken(input) # {}
      BY <3>1 DEF Tokens
    <3>2. ASSUME EnvToken(input) = {}, entries # <<>> PROVE Tokens(input, entries) # {}
      <4>1. 1 \in DOMAIN entries
        BY <2>2, <3>2
      <4>2. DOMAIN TokenFiles(entries, input.disk) = DOMAIN entries
        BY DEF TokenFiles
      <4>3. SE!ToSet(TokenFiles(entries, input.disk)) # {}
        BY <4>1, <4>2 DEF SE!ToSet
      <4> QED BY <3>2, <4>3 DEF Tokens
    <3> QED BY <3>1, <3>2 DEF TokensAccepted
  <2> QED BY <2>3, <2>5, <2>6, <2>7, <2>8
<1> QED BY <1>1, <1>2 DEF TypeOK, Started

\* The command line and the environment are in force as written (parseServe,
\* loadListenTokens, baseEnv), for every command line and environment: each
\* pipeline flag wherever it stands, an upstream environment with nothing of
\* fathomgate's own in it, and one principal for each bearer token.
THEOREM CommandLineAlwaysInForce == Spec => []CommandLineInForce
<1>1. StartInv => CommandLineInForce
  BY TypeOKIf, FlagsInForceIf, ChildEnvCleanIf, PassedValueSeenIf, OneTokenIf
  DEF CommandLineInForce
<1> QED BY <1>1, StartInvHolds, PTL

-----------------------------------------------------------------------------
(* The policy in force *)

PolicyOK(pol) ==
  /\ pol.loaded = TRUE
  /\ pol.unknownTarget \in {"allow", "deny"}
  /\ DOMAIN pol.rules \subseteq Nat
  /\ \A i \in DOMAIN pol.rules :
       /\ pol.rules[i].effect \in Effects
       /\ pol.rules[i].obligations \subseteq KnownObligations
       /\ pol.rules[i].id \notin DefaultRules
  /\ \A i, j \in DOMAIN pol.rules : pol.rules[i].id = pol.rules[j].id => i = j

\* What Policy.Validate checked, Parse keeps.
LEMMA ParsedPolicyOK ==
  ASSUME NEW doc, IsPolicyDoc(doc), ValidPolicy(doc)
  PROVE  PolicyOK(ParsePolicy(doc))
<1> DEFINE pol == ParsePolicy(doc)
           kept(r) == [r EXCEPT !.targetsCount = IF @ = NoRange THEN {} ELSE @]
<1>1. pol.loaded = TRUE /\ pol.rules = [i \in DOMAIN doc.rules |-> kept(doc.rules[i])]
  BY DEF ParsePolicy
<1>2. pol.unknownTarget \in {"allow", "deny"}
  <2>1. pol.unknownTarget = IF doc.unknownTarget = "unset" THEN "deny" ELSE doc.unknownTarget
    BY DEF ParsePolicy
  <2>2. doc.unknownTarget \in {"unset", "allow", "deny"}
    BY DEF ValidPolicy
  <2> QED BY <2>1, <2>2
<1>3. ASSUME NEW i \in DOMAIN doc.rules
      PROVE  LET r == doc.rules[i]
             IN kept(r).id = r.id /\ kept(r).effect = r.effect /\ kept(r).obligations = r.obligations
  <2> DEFINE r == doc.rules[i]
  <2>1. r = [f \in RuleFields |-> r[f]]
    BY DEF IsPolicyDoc
  <2> HIDE DEF r
  <2>2. kept(r).id = r.id /\ kept(r).effect = r.effect /\ kept(r).obligations = r.obligations
    BY <2>1 DEF RuleFields
  <2> QED BY <2>2 DEF r
<1>4. ASSUME NEW i \in DOMAIN doc.rules
      PROVE  LET r == doc.rules[i]
             IN i \in Nat /\ r.effect \in Effects /\ r.obligations \subseteq KnownObligations
                /\ r.id \notin DefaultRules
  <2>1. i \in Nat /\ ValidRule(doc.rules[i])
    BY DEF IsPolicyDoc, ValidPolicy
  <2>2. ~DefaultPrefix(doc.rules[i].id)
    BY <2>1 DEF ValidRule
  <2>3. doc.rules[i].id \notin DefaultRules
    BY <2>2, DefaultsAssumption
  <2>4. doc.rules[i].effect \in Effects /\ doc.rules[i].obligations \subseteq KnownObligations
    BY <2>1 DEF ValidRule
  <2> QED BY <2>1, <2>3, <2>4
<1>5. \A i, j \in DOMAIN doc.rules : doc.rules[i].id = doc.rules[j].id => i = j
  BY DEF ValidPolicy
<1> HIDE DEF pol, kept
<1>6. DOMAIN pol.rules = DOMAIN doc.rules /\ \A i \in DOMAIN doc.rules : pol.rules[i] = kept(doc.rules[i])
  BY <1>1
<1>7. PolicyOK(pol)
  BY <1>1, <1>2, <1>3, <1>4, <1>5, <1>6 DEF PolicyOK
<1> QED BY <1>7 DEF pol

\* The policy of a gate is one that was accepted.
LEMMA PolicyHere ==
  ASSUME StartInv, Gated
  PROVE  PolicyOK(pipe.policy)
<1>1. PolicyDoc # Unreadable /\ ValidPolicy(PolicyDoc) /\ pipe.policy = ParsePolicy(PolicyDoc)
  BY DEF StartInv, PolicyLoaded
<1>2. IsPolicyDoc(PolicyDoc)
  <2>1. IsDisk(input.disk)
    BY InputsAssumption DEF StartInv, Progress
  <2>2. cfg.policy \in DOMAIN input.disk.policies /\ PolicyDoc = input.disk.policies[cfg.policy]
    BY <1>1 DEF PolicyDoc, OnDisk
  <2> QED BY <1>1, <2>1, <2>2 DEF IsDisk
<1> QED BY <1>1, <1>2, ParsedPolicyOK

LEMMA FirstIsLeast ==
  ASSUME NEW S, S \subseteq Nat, S # {}
  PROVE  Gate!First(S) \in S
<1>1. \E i \in S : \A j \in S : i <= j
  <2>1. PICK x \in S : \A y \in S : ~(y < x)
    BY NatLeast
  <2>2. \A j \in S : x <= j
    BY <2>1
  <2> QED BY <2>2
<1> QED BY <1>1 DEF Gate!First

\* A decision is a default that denies, or is one rule's.
LEMMA EvaluateIs ==
  ASSUME NEW pol, PolicyOK(pol), NEW r
  PROVE  LET d == Gate!Evaluate(pol, r)
         IN /\ \/ d.effect = "deny" /\ d.rule \in DefaultRules
               \/ \E i \in DOMAIN pol.rules :
                    /\ d.effect = pol.rules[i].effect /\ d.rule = pol.rules[i].id
                    /\ d.obligations = pol.rules[i].obligations
            /\ Gate!UnknownTargets(r) # {} /\ pol.unknownTarget # "allow" => d.effect = "deny"
<1> DEFINE d == Gate!Evaluate(pol, r)
<1>1. \A x \in DefaultRules : Gate!Denied(x).effect = "deny" /\ Gate!Denied(x).rule = x
  BY DEF Gate!Denied, Gate!Decision
<1>2. pol.loaded = TRUE
  BY DEF PolicyOK
<1>3. /\ "default:no-match" \in DefaultRules /\ "default:unknown_target" \in DefaultRules
      /\ "default:session.max_devices" \in DefaultRules
      /\ "default:session.max_pending" \in DefaultRules
  BY DEF DefaultRules
<1>4. CASE Gate!UnknownTargets(r) # {} /\ pol.unknownTarget # "allow"
  <2>1. d = Gate!Denied("default:unknown_target")
    BY <1>2, <1>4 DEF Gate!Evaluate
  <2> QED BY <2>1, <1>1, <1>3
<1>5. CASE ~(Gate!UnknownTargets(r) # {} /\ pol.unknownTarget # "allow")
  <2>1. CASE Gate!OverDeviceCap(pol, r)
    <3>1. d = Gate!Denied("default:session.max_devices")
      BY <1>2, <1>5, <2>1 DEF Gate!Evaluate
    <3> QED BY <3>1, <1>1, <1>3, <1>5
  <2>2. CASE ~Gate!OverDeviceCap(pol, r) /\ Gate!Matching(pol, r) = {}
    <3>1. d = Gate!Denied("default:no-match")
      BY <1>2, <1>5, <2>2 DEF Gate!Evaluate
    <3> QED BY <3>1, <1>1, <1>3, <1>5
  <2>3. CASE ~Gate!OverDeviceCap(pol, r) /\ Gate!Matching(pol, r) # {}
    <3> DEFINE i == Gate!First(Gate!Matching(pol, r))
    <3>1. d = Gate!RuleDecision(pol, pol.rules[i], r)
      BY <1>2, <1>5, <2>3 DEF Gate!Evaluate
    <3>2. i \in DOMAIN pol.rules
      <4>1. Gate!Matching(pol, r) \subseteq DOMAIN pol.rules
        BY DEF Gate!Matching
      <4>2. Gate!Matching(pol, r) \subseteq Nat
        BY <4>1 DEF PolicyOK
      <4> QED BY <2>3, <4>1, <4>2, FirstIsLeast
    <3> HIDE DEF i
    <3>3. \/ d = Gate!Decision("deny", "default:session.max_pending", pol.rules[i].obligations)
          \/ d = Gate!Decision(pol.rules[i].effect, pol.rules[i].id, pol.rules[i].obligations)
      BY <3>1 DEF Gate!RuleDecision
    <3> HIDE DEF d
    <3>4. \/ d.effect = "deny" /\ d.rule = "default:session.max_pending"
          \/ /\ d.effect = pol.rules[i].effect /\ d.rule = pol.rules[i].id
             /\ d.obligations = pol.rules[i].obligations
      BY <3>3 DEF Gate!Decision
    <3>5. \/ d.effect = "deny" /\ d.rule \in DefaultRules
          \/ \E k \in DOMAIN pol.rules :
                    /\ d.effect = pol.rules[k].effect /\ d.rule = pol.rules[k].id
                    /\ d.obligations = pol.rules[k].obligations
      BY <3>4, <3>2, <1>3
    <3> QED BY <3>5, <1>5 DEF d
  <2> QED BY <2>1, <2>2, <2>3
<1> QED BY <1>4, <1>5

-----------------------------------------------------------------------------
(* The verdict on a call *)

\* A verdict refuses bad arguments, or is what the policy says.
VerdictIs(in) ==
  LET v == Decided(in)
      c == CallHere(in)
      d == Gate!Evaluate(pipe.policy, Gate!Request(c, 0, {}))
  IN IF Gate!Refused(c)
     THEN v.forward = FALSE /\ v.effect = "deny" /\ v.rule = "default:bad_arguments"
     ELSE /\ v.effect = d.effect /\ v.rule = d.rule
          /\ v.forward = (d.effect = "allow" /\ d.obligations \subseteq Gate!Forwardable)

LEMMA DecidedIs ==
  ASSUME NEW in
  PROVE  VerdictIs(in)
<1> DEFINE v == Decided(in)
           c == CallHere(in)
           d == Gate!Evaluate(pipe.policy, Gate!Request(c, 0, {}))
<1>1. CASE Gate!Refused(c)
  <2>1. PICK k : v = Gate!Verdict(Gate!Denied("default:bad_arguments"), k, {})
    BY <1>1 DEF Decided, Gate!Decide
  <2> HIDE DEF v
  <2>2. v.forward = FALSE /\ v.effect = "deny" /\ v.rule = "default:bad_arguments"
    BY <2>1 DEF Gate!Verdict, Gate!Denied, Gate!Decision
  <2> QED BY <1>1, <2>2 DEF VerdictIs, v
<1>2. CASE ~Gate!Refused(c)
  <2>1. PICK k, n : v = Gate!Verdict(d, k, n)
    BY <1>2 DEF Decided, Gate!Decide
  <2> HIDE DEF v, d
  <2>2. /\ v.effect = d.effect /\ v.rule = d.rule
        /\ v.forward = (d.effect = "allow" /\ d.obligations \subseteq Gate!Forwardable)
    BY <2>1 DEF Gate!Verdict
  <2> QED BY <1>2, <2>2 DEF VerdictIs, v, d
<1> QED BY <1>1, <1>2

\* The rule a verdict names: a default that denies, or one of the policy's.
LEMMA VerdictHasRule ==
  ASSUME StartInv, Gated, NEW in
  PROVE  LET v == Decided(in)
             rules == pipe.policy.rules
         IN \/ v.effect = "deny" /\ v.forward = FALSE /\ v.rule \in DefaultRules
            \/ \E i \in DOMAIN rules :
                 /\ v.effect = rules[i].effect /\ v.rule = rules[i].id
                 /\ v.forward = (v.effect = "allow" /\ rules[i].obligations \subseteq Gate!Forwardable)
<1> DEFINE v == Decided(in)
           c == CallHere(in)
           d == Gate!Evaluate(pipe.policy, Gate!Request(c, 0, {}))
<1>1. VerdictIs(in)
  BY DecidedIs
<1>2. PolicyOK(pipe.policy)
  BY PolicyHere
<1>3. \/ d.effect = "deny" /\ d.rule \in DefaultRules
      \/ \E i \in DOMAIN pipe.policy.rules :
           /\ d.effect = pipe.policy.rules[i].effect /\ d.rule = pipe.policy.rules[i].id
           /\ d.obligations = pipe.policy.rules[i].obligations
  BY <1>2, EvaluateIs
<1>4. "default:bad_arguments" \in DefaultRules
  BY DEF DefaultRules
<1>5. IF Gate!Refused(c)
      THEN v.forward = FALSE /\ v.effect = "deny" /\ v.rule = "default:bad_arguments"
      ELSE /\ v.effect = d.effect /\ v.rule = d.rule
           /\ v.forward = (d.effect = "allow" /\ d.obligations \subseteq Gate!Forwardable)
  BY <1>1 DEF VerdictIs
<1> HIDE DEF v, c, d
<1>6. \/ v.effect = "deny" /\ v.forward = FALSE /\ v.rule \in DefaultRules
      \/ \E i \in DOMAIN pipe.policy.rules :
           /\ v.effect = pipe.policy.rules[i].effect /\ v.rule = pipe.policy.rules[i].id
           /\ v.forward = (v.effect = "allow"
                             /\ pipe.policy.rules[i].obligations \subseteq Gate!Forwardable)
  BY <1>3, <1>4, <1>5
<1> QED BY <1>6 DEF v

LEMMA VerdictNamesItsCauseIf == StartInv => VerdictNamesItsCause
<1> SUFFICES ASSUME StartInv, Gated, NEW in \in Calls
             PROVE  LET v  == Decided(in)
                        by == {i \in DOMAIN pipe.policy.rules : pipe.policy.rules[i].id = v.rule}
                    IN \/ \E i \in by : by = {i} /\ pipe.policy.rules[i].effect = v.effect
                       \/ by = {} /\ v.effect = "deny"
  BY DEF VerdictNamesItsCause
<1> DEFINE v == Decided(in)
           rules == pipe.policy.rules
           by == {i \in DOMAIN rules : rules[i].id = v.rule}
<1>1. /\ \A i \in DOMAIN rules : rules[i].id \notin DefaultRules
      /\ \A i, j \in DOMAIN rules : rules[i].id = rules[j].id => i = j
  BY PolicyHere DEF PolicyOK
<1>2. \/ v.effect = "deny" /\ v.rule \in DefaultRules
      \/ \E i \in DOMAIN rules : v.effect = rules[i].effect /\ v.rule = rules[i].id
  BY VerdictHasRule
<1> HIDE DEF v
<1>3. v.rule \in DefaultRules => by = {}
  BY <1>1
<1>4. ASSUME NEW i \in DOMAIN rules, v.effect = rules[i].effect, v.rule = rules[i].id
      PROVE  i \in by /\ by = {i} /\ rules[i].effect = v.effect
  BY <1>1, <1>4
<1>5. \/ \E i \in by : by = {i} /\ rules[i].effect = v.effect
      \/ by = {} /\ v.effect = "deny"
  BY <1>2, <1>3, <1>4
<1> QED BY <1>5 DEF v

-----------------------------------------------------------------------------
(* The start-up warnings *)

\* The warnings of the policy, by kind.
LEMMA PolicyWarningsAre ==
  ASSUME NEW pol
  PROVE  \A w : w \in PolicyWarnings(pol) <=>
           \/ pol.unknownTarget = "allow" /\ w = Warn("unknown_target_allow", "", {})
           \/ \E o \in KnownObligations :
                /\ AllowRulesWith(pol.rules, o) # {}
                /\ w = Warn(IF o \in CarriedUntil THEN "carried" ELSE "cannot_meet", o,
                            AllowRulesWith(pol.rules, o))
           \/ LET holds == {pol.rules[i].id : i \in {i \in DOMAIN pol.rules : pol.rules[i].effect = "hold"}}
              IN holds # {} /\ w = Warn("hold", "", holds)
BY DEF PolicyWarnings, ObligationWarnings

LEMMA WarnFields ==
  \A kind, about, rules : /\ Warn(kind, about, rules).kind = kind
                          /\ Warn(kind, about, rules).about = about
                          /\ Warn(kind, about, rules).rules = rules
BY DEF Warn

\* The warnings of the inventory and the profiles name no rule and are of
\* their own kinds.
LEMMA OtherWarningsAre ==
  /\ \A w \in InventoryWarns :
       /\ w.kind \in {"no_inventory", "pattern"}
       /\ w.kind = "no_inventory" => cfg.inventory = "" /\ pipe.policy.unknownTarget # "allow"
  /\ \A w \in ProfileWarns :
       /\ w.kind = "no_profile"
       /\ cfg.server \notin DOMAIN ByServer(ProfilesDoc)
<1>1. \A w \in InventoryWarns :
       /\ w.kind \in {"no_inventory", "pattern"}
       /\ w.kind = "no_inventory" => cfg.inventory = "" /\ pipe.policy.unknownTarget # "allow"
  <2>1. ASSUME NEW w \in InventoryWarns, cfg.inventory # Unset
        PROVE  \E m : w = Warn("pattern", m, {})
    BY <2>1 DEF InventoryWarns, WarnsOf, Unset
  <2>2. ASSUME NEW w \in InventoryWarns, cfg.inventory = Unset
        PROVE  w = Warn("no_inventory", Unset, {}) /\ pipe.policy.unknownTarget # "allow"
    BY <2>2 DEF InventoryWarns, WarnsOf, Unset
  <2>3. \A w \in InventoryWarns :
         /\ w.kind \in {"no_inventory", "pattern"}
         /\ w.kind = "no_inventory" => cfg.inventory = Unset /\ pipe.policy.unknownTarget # "allow"
    BY <2>1, <2>2, WarnFields
  <2> QED BY <2>3 DEF Unset
<1>2. \A w \in ProfileWarns :
       /\ w.kind = "no_profile"
       /\ cfg.server \notin DOMAIN ByServer(ProfilesDoc)
  BY WarnFields DEF ProfileWarns
<1> QED BY <1>1, <1>2

\* What a policy warning of a kind says.
LEMMA PolicyKinds ==
  ASSUME NEW pol, NEW w \in PolicyWarnings(pol)
  PROVE  /\ w.kind \in {"unknown_target_allow", "carried", "cannot_meet", "hold"}
         /\ w.kind = "unknown_target_allow" => pol.unknownTarget = "allow"
         /\ w.kind = "cannot_meet" =>
              \E o \in KnownObligations \ CarriedUntil : w.rules = AllowRulesWith(pol.rules, o)
         /\ w.kind = "hold" =>
              w.rules = {pol.rules[i].id : i \in {i \in DOMAIN pol.rules : pol.rules[i].effect = "hold"}}
<1> DEFINE H == {pol.rules[i].id : i \in {i \in DOMAIN pol.rules : pol.rules[i].effect = "hold"}}
<1>1. CASE w = Warn("unknown_target_allow", Unset, {}) /\ pol.unknownTarget = "allow"
  BY <1>1, WarnFields
<1>2. ASSUME NEW o \in KnownObligations,
             w = Warn(IF o \in CarriedUntil THEN "carried" ELSE "cannot_meet", o,
                      AllowRulesWith(pol.rules, o))
      PROVE  /\ w.kind \in {"carried", "cannot_meet"}
             /\ w.kind = "cannot_meet" => o \notin CarriedUntil
             /\ w.rules = AllowRulesWith(pol.rules, o)
  BY <1>2, WarnFields
<1>3. CASE w = Warn("hold", Unset, H)
  <2> HIDE DEF H
  <2>1. w.kind = "hold" /\ w.rules = H
    BY <1>3, WarnFields
  <2> QED BY <2>1 DEF H
<1>4. \/ pol.unknownTarget = "allow" /\ w = Warn("unknown_target_allow", Unset, {})
      \/ \E o \in KnownObligations :
           /\ AllowRulesWith(pol.rules, o) # {}
           /\ w = Warn(IF o \in CarriedUntil THEN "carried" ELSE "cannot_meet", o,
                       AllowRulesWith(pol.rules, o))
      \/ H # {} /\ w = Warn("hold", Unset, H)
  BY PolicyWarningsAre DEF Unset
<1> QED BY <1>1, <1>2, <1>3, <1>4

LEMMA UnenforcedIsWarnedIf == StartInv => UnenforcedIsWarned
<1> SUFFICES ASSUME StartInv, Gated, NEW in \in Calls
             PROVE  LET v  == Decided(in)
                        by == {r \in Rules : r.id = v.rule}
                    IN /\ v.forward => \A r \in by : \A o \in r.obligations :
                            \E w \in pipe.warns : w.kind = "carried" /\ w.about = o /\ r.id \in w.rules
                       /\ v.forward => ~\E w \in pipe.warns :
                            w.kind \in {"cannot_meet", "hold"} /\ v.rule \in w.rules
                       /\ ~v.forward /\ v.effect # "deny" => \E w \in pipe.warns :
                            w.kind \in {"cannot_meet", "hold"} /\ v.rule \in w.rules
  BY DEF UnenforcedIsWarned
<1> DEFINE v == Decided(in)
           rules == pipe.policy.rules
           by == {r \in Rules : r.id = v.rule}
           H == {rules[i].id : i \in {i \in DOMAIN rules : rules[i].effect = "hold"}}
<1>1. PolicyOK(pipe.policy)
  BY PolicyHere
<1>2. \/ v.effect = "deny" /\ v.forward = FALSE
      \/ \E i \in DOMAIN rules :
           /\ v.effect = rules[i].effect /\ v.rule = rules[i].id
           /\ v.forward = (v.effect = "allow" /\ rules[i].obligations \subseteq Gate!Forwardable)
  BY VerdictHasRule
<1>3. pipe.warns = InventoryWarns \cup ProfileWarns \cup PolicyWarnings(pipe.policy)
  BY DEF StartInv, WarningsGiven
<1>4. Gate!Forwardable \cap KnownObligations = CarriedUntil /\ CarriedUntil \subseteq KnownObligations
  BY DEF Gate!Forwardable, KnownObligations, CarriedUntil
<1>5. \A o \in KnownObligations : AllowRulesWith(rules, o) # {} =>
        Warn(IF o \in CarriedUntil THEN "carried" ELSE "cannot_meet", o, AllowRulesWith(rules, o))
          \in pipe.warns
  BY <1>3, PolicyWarningsAre
<1>6. H # {} => Warn("hold", Unset, H) \in pipe.warns
  BY <1>3, PolicyWarningsAre DEF Unset
<1> HIDE DEF v
<1>7. ASSUME NEW i \in DOMAIN rules, v.effect = rules[i].effect, v.rule = rules[i].id,
             v.forward = (v.effect = "allow" /\ rules[i].obligations \subseteq Gate!Forwardable)
      PROVE  /\ v.forward => \A r \in by : \A o \in r.obligations :
                  \E w \in pipe.warns : w.kind = "carried" /\ w.about = o /\ r.id \in w.rules
             /\ v.forward => ~\E w \in pipe.warns :
                  w.kind \in {"cannot_meet", "hold"} /\ v.rule \in w.rules
             /\ ~v.forward /\ v.effect # "deny" => \E w \in pipe.warns :
                  w.kind \in {"cannot_meet", "hold"} /\ v.rule \in w.rules
  <2>1. /\ rules[i].obligations \subseteq KnownObligations /\ rules[i].effect \in Effects
        /\ \A j \in DOMAIN rules : rules[j].id = v.rule => j = i
    BY <1>1, <1>7 DEF PolicyOK
  <2>2. ASSUME v.forward, NEW r \in by, NEW o \in r.obligations
        PROVE  \E w \in pipe.warns : w.kind = "carried" /\ w.about = o /\ r.id \in w.rules
    <3>1. r = rules[i]
      BY <2>1, <2>2 DEF Rules
    <3>2. o \in CarriedUntil /\ o \in KnownObligations /\ rules[i].effect = "allow"
      BY <1>7, <2>1, <2>2, <3>1, <1>4
    <3>3. r.id \in AllowRulesWith(rules, o)
      BY <3>1, <3>2, <2>2 DEF AllowRulesWith
    <3> DEFINE w == Warn("carried", o, AllowRulesWith(rules, o))
    <3>4. w \in pipe.warns
      BY <1>5, <3>2, <3>3
    <3>5. w.kind = "carried" /\ w.about = o /\ r.id \in w.rules
      BY <3>3, WarnFields
    <3> HIDE DEF w
    <3> QED BY <3>4, <3>5
  <2>3. ASSUME v.forward, NEW w \in pipe.warns, w.kind \in {"cannot_meet", "hold"}, v.rule \in w.rules
        PROVE  FALSE
    <3>1. w \in PolicyWarnings(pipe.policy)
      BY <1>3, <2>3, OtherWarningsAre
    <3>2. rules[i].effect = "allow" /\ rules[i].obligations \subseteq Gate!Forwardable
      BY <1>7, <2>3
    <3>3. CASE w.kind = "cannot_meet"
      <4>1. PICK o \in KnownObligations \ CarriedUntil : w.rules = AllowRulesWith(rules, o)
        BY <3>1, <3>3, PolicyKinds
      <4>2. PICK j \in DOMAIN rules : rules[j].id = v.rule /\ o \in rules[j].obligations
        BY <4>1, <2>3 DEF AllowRulesWith
      <4> QED BY <4>1, <4>2, <2>1, <3>2, <1>4
    <3>4. CASE w.kind = "hold"
      <4>1. w.rules = H
        BY <3>1, <3>4, PolicyKinds
      <4>2. PICK j \in DOMAIN rules : rules[j].id = v.rule /\ rules[j].effect = "hold"
        BY <4>1, <2>3
      <4> QED BY <4>2, <2>1, <3>2
    <3> QED BY <3>3, <3>4, <2>3
  <2>4. ASSUME ~v.forward, v.effect # "deny"
        PROVE  \E w \in pipe.warns : w.kind \in {"cannot_meet", "hold"} /\ v.rule \in w.rules
    <3>1. CASE rules[i].effect = "hold"
      <4>1. v.rule \in H
        BY <1>7, <3>1
      <4> DEFINE w == Warn("hold", Unset, H)
      <4> HIDE DEF H
      <4>2. w \in pipe.warns /\ w.kind = "hold" /\ v.rule \in w.rules
        BY <1>6, <4>1, WarnFields
      <4> HIDE DEF w
      <4> QED BY <4>2
    <3>2. CASE rules[i].effect = "allow"
      <4>1. PICK o \in rules[i].obligations : o \notin Gate!Forwardable
        BY <1>7, <2>4, <3>2
      <4>2. o \in KnownObligations /\ o \notin CarriedUntil
        BY <4>1, <2>1, <1>4
      <4>3. v.rule \in AllowRulesWith(rules, o)
        BY <4>1, <3>2, <1>7 DEF AllowRulesWith
      <4> DEFINE w == Warn("cannot_meet", o, AllowRulesWith(rules, o))
      <4>4. w \in pipe.warns
        BY <4>2, <4>3, <1>5
      <4>5. w.kind = "cannot_meet" /\ v.rule \in w.rules
        BY <4>3, WarnFields
      <4> HIDE DEF w
      <4> QED BY <4>4, <4>5
    <3>3. rules[i].effect \in {"allow", "hold"}
      BY <1>7, <2>1, <2>4 DEF Effects
    <3> QED BY <3>1, <3>2, <3>3
  <2> HIDE DEF by
  <2> QED BY <2>2, <2>3, <2>4
<1>8. /\ v.forward => \A r \in by : \A o \in r.obligations :
           \E w \in pipe.warns : w.kind = "carried" /\ w.about = o /\ r.id \in w.rules
      /\ v.forward => ~\E w \in pipe.warns :
           w.kind \in {"cannot_meet", "hold"} /\ v.rule \in w.rules
      /\ ~v.forward /\ v.effect # "deny" => \E w \in pipe.warns :
           w.kind \in {"cannot_meet", "hold"} /\ v.rule \in w.rules
  <2> HIDE DEF by
  <2> QED BY <1>2, <1>7
<1> QED BY <1>8 DEF v

\* The call put to the gate is the one given, for the server served.
LEMMA CallHereIs ==
  ASSUME NEW in \in Calls
  PROVE  CallHere(in).server = cfg.server /\ CallHere(in).args = in.args
BY CallsAssumption DEF CallHere, CallFields

\* A name the gate knows is one the device list spells so.
LEMMA KnownIsListed ==
  ASSUME NEW f, NEW n, Known(f, n)
  PROVE  \E j \in DOMAIN f.devices : f.devices[j].name = n
<1> DEFINE hits == {i \in DOMAIN f.devices : Normalize(f.devices[i].name) = Normalize(n)}
<1>1. hits # {}
  BY DEF Known, Listed, StaticResolve
<1>2. (CHOOSE i \in hits : TRUE) \in hits
  BY <1>1
<1>3. StaticResolve(f.devices, n) = f.devices[CHOOSE i \in hits : TRUE]
  BY <1>1 DEF StaticResolve
<1> QED BY <1>2, <1>3 DEF Known

\* A name no device list spells so is an unknown target of the request.
LEMMA UnknownHere ==
  ASSUME NEW c, NEW n \in Gate!Names(c),
         \A j \in DOMAIN pipe.file.devices : pipe.file.devices[j].name # n
  PROVE  Gate!UnknownTargets(Gate!Request(c, 0, {})) # {}
<1>1. n \notin DOMAIN KnownDevices(pipe.file)
  BY KnownIsListed DEF KnownDevices
<1>2. PICK role : Gate!Resolve(n) = [name |-> n, role |-> role, tags |-> {}, known |-> FALSE]
  BY <1>1 DEF Gate!Resolve
<1>3. ~Gate!Resolve(n).known
  BY <1>2
<1>4. Gate!Request(c, 0, {}).targets = {Gate!Resolve(m) : m \in Gate!Names(c)}
  BY DEF Gate!Request
<1>5. Gate!Resolve(n) \in Gate!UnknownTargets(Gate!Request(c, 0, {}))
  BY <1>3, <1>4 DEF Gate!UnknownTargets
<1> QED BY <1>5

\* Such a call is denied unless the policy lets unknown targets by.
LEMMA UnknownIsDenied ==
  ASSUME StartInv, Gated, NEW in, pipe.policy.unknownTarget # "allow",
         NEW n \in Gate!Names(CallHere(in)),
         \A j \in DOMAIN pipe.file.devices : pipe.file.devices[j].name # n
  PROVE  Decided(in).effect = "deny" /\ Decided(in).forward = FALSE
<1> DEFINE d == Gate!Evaluate(pipe.policy, Gate!Request(CallHere(in), 0, {}))
<1>1. Gate!UnknownTargets(Gate!Request(CallHere(in), 0, {})) # {}
  BY UnknownHere
<1>2. d.effect = "deny"
  BY <1>1, PolicyHere, EvaluateIs
<1> HIDE DEF d
<1> QED BY <1>2, DecidedIs DEF VerdictIs, d

\* Where no profile is loaded for the server, the warning says so, and no
\* call names a device.
LEMMA NoProfileHere ==
  ASSUME StartInv, Gated, NEW in \in Calls, cfg.server \notin DOMAIN ByServer(ProfilesDoc)
  PROVE  Gate!HasProfile(CallHere(in)) /\ ~Gate!InProfile(CallHere(in))
<1> DEFINE c == CallHere(in)
<1>1. pipe.profiles = WithServer(ByServer(ProfilesDoc), cfg.server)
  BY DEF StartInv, ProfilesLoaded
<1>2. cfg.server \in DOMAIN pipe.profiles /\ pipe.profiles[cfg.server] = NoTools
  BY <1>1 DEF WithServer
<1>3. c.server = cfg.server /\ DOMAIN NoTools = {}
  BY CallHereIs DEF NoTools
<1> HIDE DEF c
<1>4. Gate!HasProfile(c) /\ ~Gate!InProfile(c)
  BY <1>2, <1>3 DEF Gate!HasProfile, Gate!InProfile
<1> QED BY <1>4 DEF c

LEMMA UnknownIsWarnedIf == StartInv => UnknownIsWarned
<1> SUFFICES ASSUME StartInv, Gated, NEW in \in Calls
             PROVE  LET v     == Decided(in)
                        named == Gate!Names(CallHere(in))
                        own   == {pipe.file.devices[j].name : j \in DOMAIN pipe.file.devices}
                    IN /\ v.forward /\ ~(named \subseteq own)
                            => /\ Warned("unknown_target_allow")
                               /\ ~Warned("no_inventory") /\ ~Warned("no_profile")
                       /\ Warned("no_inventory") /\ named # {} => v.effect = "deny"
                       /\ Warned("no_profile") /\ DOMAIN in.args # {}
                            => v.rule = "default:bad_arguments"
  BY DEF UnknownIsWarned
<1> DEFINE v     == Decided(in)
           c     == CallHere(in)
           named == Gate!Names(c)
           own   == {pipe.file.devices[j].name : j \in DOMAIN pipe.file.devices}
<1>1. pipe.warns = InventoryWarns \cup ProfileWarns \cup PolicyWarnings(pipe.policy)
  BY DEF StartInv, WarningsGiven
<1>2. pipe.policy.unknownTarget \in {"allow", "deny"}
  BY PolicyHere DEF PolicyOK
<1>3. Warned("no_inventory") => cfg.inventory = "" /\ pipe.policy.unknownTarget # "allow"
  BY <1>1, OtherWarningsAre, PolicyKinds DEF Warned
<1>4. Warned("no_profile") => cfg.server \notin DOMAIN ByServer(ProfilesDoc)
  BY <1>1, OtherWarningsAre, PolicyKinds DEF Warned
<1>5. pipe.policy.unknownTarget = "allow" => Warned("unknown_target_allow")
  <2>1. SUFFICES ASSUME pipe.policy.unknownTarget = "allow"
                 PROVE  \E w \in pipe.warns : w.kind = "unknown_target_allow"
    BY DEF Warned
  <2>2. Warn("unknown_target_allow", Unset, {}) \in pipe.warns
    BY <1>1, <2>1, PolicyWarningsAre DEF Unset
  <2>3. Warn("unknown_target_allow", Unset, {}).kind = "unknown_target_allow"
    BY WarnFields
  <2> QED BY <2>2, <2>3
<1>6. Warned("no_profile") => Gate!HasProfile(c) /\ ~Gate!InProfile(c) /\ named = {}
  BY <1>4, NoProfileHere DEF Gate!Names
<1>7. ASSUME v.forward, ~(named \subseteq own)
      PROVE  /\ Warned("unknown_target_allow")
             /\ ~Warned("no_inventory") /\ ~Warned("no_profile")
  <2>1. PICK n \in named : n \notin own
    BY <1>7
  <2>2. pipe.policy.unknownTarget = "allow"
    <3>1. SUFFICES ASSUME pipe.policy.unknownTarget # "allow" PROVE FALSE
      OBVIOUS
    <3>2. v.forward = FALSE
      BY <2>1, <3>1, UnknownIsDenied
    <3> QED BY <3>2, <1>7
  <2> QED BY <2>1, <2>2, <1>3, <1>5, <1>6
<1>8. ASSUME Warned("no_inventory"), named # {} PROVE v.effect = "deny"
  <2>1. pipe.file = NoFile /\ pipe.policy.unknownTarget # "allow"
    BY <1>3, <1>8 DEF StartInv, FileLoaded
  <2>2. DOMAIN pipe.file.devices = {}
    BY <2>1 DEF NoFile
  <2>3. PICK n : n \in named
    BY <1>8
  <2> QED BY <2>1, <2>2, <2>3, UnknownIsDenied
<1>9. ASSUME Warned("no_profile"), DOMAIN in.args # {} PROVE v.rule = "default:bad_arguments"
  <2>1. Gate!Refused(c)
    BY <1>6, <1>9, CallHereIs DEF Gate!Refused
  <2>2. VerdictIs(in)
    BY DecidedIs
  <2> QED BY <2>1, <2>2 DEF VerdictIs
<1> QED BY <1>7, <1>8, <1>9

\* The start-up warnings tell the truth about the gate, whatever files it was
\* given and whatever call is put to it (loadPipeline, policyWarnings).
THEOREM WarningsAlwaysTell == Spec => []WarningsTell
<1>1. StartInv => WarningsTell
  BY UnknownIsWarnedIf, UnenforcedIsWarnedIf DEF WarningsTell
<1> QED BY <1>1, StartInvHolds, PTL

-----------------------------------------------------------------------------
(* The profiles in force *)

\* What Profile.Validate leaves of a tool's entry.
SpecOK(spec) ==
  spec.capabilityParam # NoParam =>
    /\ spec.class = "EXEC_ARBITRARY"
    /\ spec.commandParams = {} /\ spec.configParams = {}
    /\ \A id \in DOMAIN spec.capabilities : id \notin ParsesAsJSON

LEMMA SpecFromOK ==
  ASSUME NEW p, IsProfileDoc(p), ValidProfile(p), NEW n \in DOMAIN p.tools
  PROVE  /\ SpecOK(SpecFrom(p, n))
         /\ SpecFrom(p, n).capabilityParam = NoParam => DOMAIN SpecFrom(p, n).capabilities = {}
<1> DEFINE t == p.tools[n]
           spec == SpecFrom(p, n)
<1>1. ValidCapability(t, p.capabilities) /\ t.capabilityParam # NoParam
  BY DEF ValidProfile, IsProfileDoc
<1>2. /\ spec.class = t.class
      /\ spec.commandParams = SE!ToSet(t.commandParams)
      /\ spec.configParams = SE!ToSet(t.configParams)
      /\ spec.capabilityParam = IF t.capabilityParam = Unset THEN NoParam ELSE t.capabilityParam
      /\ spec.capabilities = IF t.capabilityTable = Unset THEN [id \in {} |-> {}]
                             ELSE p.capabilities[t.capabilityTable]
  BY DEF SpecFrom, Unset
<1>3. \/ t.capabilityParam = Unset /\ t.capabilityTable = Unset
      \/ /\ t.capabilityParam # Unset /\ t.capabilityTable # Unset
         /\ t.capabilityTable \in DOMAIN p.capabilities
         /\ t.class = "EXEC_ARBITRARY"
         /\ t.commandParams = <<>> /\ t.configParams = <<>>
  BY <1>1 DEF ValidCapability, Unset
<1>4. SE!ToSet(<<>>) = {}
  BY DEF SE!ToSet
<1>5. \A name \in DOMAIN p.capabilities : \A id \in DOMAIN p.capabilities[name] :
        id \notin ParsesAsJSON
  BY DEF ValidProfile, ValidTable, ValidCapabilityID
<1> HIDE DEF t, spec
<1>6. /\ SpecOK(spec)
      /\ spec.capabilityParam = NoParam => DOMAIN spec.capabilities = {}
  BY <1>1, <1>2, <1>3, <1>4, <1>5 DEF SpecOK, t
<1> QED BY <1>6 DEF spec

\* The directory the profiles came from is one, and it was accepted.
LEMMA DirHere ==
  ASSUME StartInv, Gated
  PROVE  /\ ProfileDir(ProfilesDoc) /\ IsDir(ProfilesDoc)
         /\ pipe.profiles = WithServer(ByServer(ProfilesDoc), cfg.server)
         /\ cfg.profiles # "" => ProfilesDoc = input.disk.profiles[cfg.profiles]
<1>1. /\ ProfilesDoc # Unreadable /\ ProfileDir(ProfilesDoc)
      /\ pipe.profiles = WithServer(ByServer(ProfilesDoc), cfg.server)
  BY DEF StartInv, ProfilesLoaded
<1>2. IsDisk(input.disk)
  BY InputsAssumption DEF StartInv, Progress
<1>3. IsDir(input.disk.embedded)
      /\ \A q \in DOMAIN input.disk.profiles : input.disk.profiles[q] # Unreadable => IsDir(input.disk.profiles[q])
  BY <1>2 DEF IsDisk
<1>4. IsDir(ProfilesDoc) /\ (cfg.profiles # Unset => ProfilesDoc = input.disk.profiles[cfg.profiles])
  BY <1>1, <1>3 DEF ProfilesDoc, OnDisk, Unset
<1> QED BY <1>1, <1>4 DEF Unset

\* An accepted directory: one file of a server's name, which is its server.
LEMMA ByServerIs ==
  ASSUME NEW dir, ProfileDir(dir), IsDir(dir)
  PROVE  /\ \A e \in dir.entries : e.ext = ".yaml" =>
              e.name \in DOMAIN ByServer(dir) /\ ByServer(dir)[e.name] = ParseProfile(e.doc)
         /\ \A s \in DOMAIN ByServer(dir) : \E e \in dir.entries :
              /\ e.ext = ".yaml" /\ IsProfileDoc(e.doc) /\ ValidProfile(e.doc)
              /\ ByServer(dir)[s] = ParseProfile(e.doc)
<1> DEFINE files == {x \in dir.entries : x.ext = ".yaml"}
           docs == {e.doc : e \in files}
<1>1. ByServer(dir) = [s \in {d.server : d \in docs} |-> ParseProfile(CHOOSE d \in docs : d.server = s)]
  BY DEF ByServer
<1>2. \A e \in files : /\ e.doc.server = e.name /\ ValidProfile(e.doc) /\ IsProfileDoc(e.doc)
                       /\ e.doc \in docs
  BY DEF ProfileDir, GoodProfileFile, IsDir
<1>3. \A a, b \in files : a.doc.server = b.doc.server => a = b
  BY <1>2 DEF ProfileDir, IsDir
<1> HIDE DEF files
<1>4. \A a, b \in docs : a.server = b.server => a = b
  BY <1>3
<1>5. \A a \in docs : (CHOOSE d \in docs : d.server = a.server) = a
  BY <1>4
<1>6. \A a \in docs : a.server \in DOMAIN ByServer(dir) /\ ByServer(dir)[a.server] = ParseProfile(a)
  <2> HIDE DEF docs
  <2> TAKE a \in docs
  <2>1. a.server \in {d.server : d \in docs}
    OBVIOUS
  <2>2. ByServer(dir)[a.server] = ParseProfile(CHOOSE d \in docs : d.server = a.server)
    BY <1>1, <2>1
  <2> QED BY <1>1, <1>5, <2>1, <2>2
<1>7. \A s \in DOMAIN ByServer(dir) : \E a \in docs : a.server = s
  BY <1>1
<1>8. \A e \in files : e.name \in DOMAIN ByServer(dir) /\ ByServer(dir)[e.name] = ParseProfile(e.doc)
  BY <1>2, <1>6
<1>9. \A s \in DOMAIN ByServer(dir) : \E e \in files :
        /\ IsProfileDoc(e.doc) /\ ValidProfile(e.doc) /\ ByServer(dir)[s] = ParseProfile(e.doc)
  <2> TAKE s \in DOMAIN ByServer(dir)
  <2>1. PICK a \in docs : a.server = s
    BY <1>7
  <2>2. PICK e \in files : a = e.doc
    BY <2>1
  <2> QED BY <2>1, <2>2, <1>2, <1>6
<1> QED BY <1>8, <1>9 DEF files

LEMMA ProfilesInForceIf == StartInv => ProfilesInForce
<1> SUFFICES ASSUME StartInv, Gated, cfg.profiles # "",
                    NEW e \in input.disk.profiles[cfg.profiles].entries,
                    e.ext \in {".yaml", ".yml"}
             PROVE  e.name \in DOMAIN pipe.profiles /\ pipe.profiles[e.name] = ParseProfile(e.doc)
  BY DEF ProfilesInForce
<1>1. ProfileDir(ProfilesDoc) /\ IsDir(ProfilesDoc) /\ e \in ProfilesDoc.entries
  BY DirHere
<1>2. e.ext = ".yaml"
  BY <1>1 DEF ProfileDir, RefusedEntry
<1>3. e.name \in DOMAIN ByServer(ProfilesDoc) /\ ByServer(ProfilesDoc)[e.name] = ParseProfile(e.doc)
  BY <1>1, <1>2, ByServerIs
<1>4. pipe.profiles = WithServer(ByServer(ProfilesDoc), cfg.server)
  BY DirHere
<1> QED BY <1>3, <1>4 DEF WithServer

\* Every entry of a profile in force is one that was accepted.
LEMMA SpecsHere ==
  ASSUME StartInv, Gated, NEW s \in DOMAIN pipe.profiles, NEW n \in DOMAIN pipe.profiles[s]
  PROVE  LET spec == pipe.profiles[s][n]
         IN /\ SpecOK(spec)
            /\ spec.capabilityParam = NoParam => DOMAIN spec.capabilities = {}
<1>1. ProfileDir(ProfilesDoc) /\ IsDir(ProfilesDoc)
      /\ pipe.profiles = WithServer(ByServer(ProfilesDoc), cfg.server)
  BY DirHere
<1>2. s \in DOMAIN ByServer(ProfilesDoc) /\ pipe.profiles[s] = ByServer(ProfilesDoc)[s]
  <2>1. \/ s \in DOMAIN ByServer(ProfilesDoc) /\ pipe.profiles[s] = ByServer(ProfilesDoc)[s]
        \/ pipe.profiles[s] = NoTools
    BY <1>1 DEF WithServer
  <2>2. DOMAIN NoTools = {}
    BY DEF NoTools
  <2> QED BY <2>1, <2>2
<1>3. PICK e \in ProfilesDoc.entries :
        IsProfileDoc(e.doc) /\ ValidProfile(e.doc) /\ pipe.profiles[s] = ParseProfile(e.doc)
  BY <1>1, <1>2, ByServerIs
<1>4. n \in DOMAIN e.doc.tools /\ pipe.profiles[s][n] = SpecFrom(e.doc, n)
  BY <1>3 DEF ParseProfile
<1> QED BY <1>3, <1>4, SpecFromOK

LEMMA CapabilitiesUsableIf == StartInv => CapabilitiesUsable
<1> SUFFICES ASSUME StartInv, Gated, NEW s \in DOMAIN pipe.profiles,
                    NEW n \in DOMAIN pipe.profiles[s],
                    NEW id \in DOMAIN pipe.profiles[s][n].capabilities
             PROVE  LET spec == pipe.profiles[s][n]
                        args == [p \in {spec.capabilityParam} |-> Str(id)]
                    IN /\ UnnamedArgs(spec, args) = {} /\ MalformedArgs(spec, args) = {}
                       /\ ClassifyTool(spec, args).class = spec.capabilities[id]
  BY DEF CapabilitiesUsable
<1> DEFINE spec == pipe.profiles[s][n]
           q    == spec.capabilityParam
           args == [p \in {q} |-> Str(id)]
<1>1. q # NoParam /\ spec.configParams = {} /\ spec.commandParams = {} /\ id \notin ParsesAsJSON
  BY SpecsHere DEF SpecOK
<1>2. Str(id).kind = "string" /\ Str(id).items[1] = id
  BY DEF Str
<1>3. DOMAIN args = {q} /\ args[q] = Str(id)
  OBVIOUS
<1>4. CapabilityParams(spec) = {q}
  BY <1>1 DEF CapabilityParams
<1> HIDE DEF args, q
<1>5. UnnamedArgs(spec, args) = {}
  BY <1>3, <1>4 DEF UnnamedArgs, NamedArgs
<1>6. MalformedArgs(spec, args) = {}
  BY <1>1, <1>2, <1>3, <1>4 DEF MalformedArgs, StringOrStrings, MayParse
<1>7. ClassifyTool(spec, args).class = spec.capabilities[id]
  BY <1>1, <1>2, <1>3 DEF ClassifyTool, ClassifyCapability, Result, q
<1> QED BY <1>5, <1>6, <1>7 DEF args, q

\* A command the allow-list does not know makes a call EXEC_ARBITRARY, read
\* or not.
LEMMA UnreadCommandClass ==
  ASSUME NEW spec, SpecOK(spec), spec.class \in {"READ_OPERATIONAL", "EXEC_ARBITRARY"},
         NEW args,
         \/ \E t \in Gate!Commands(spec, args) : CommandClass(t) = "EXEC_ARBITRARY"
         \/ Gate!Commands(spec, args) = {} /\ spec.commandParams # {}
  PROVE  Gate!ClassifyTool(spec, args).class = "EXEC_ARBITRARY"
<1>1. spec.commandParams # {}
  BY DEF Gate!Commands
<1>2. spec.capabilityParam = NoParam
  BY <1>1 DEF SpecOK
<1>3. Gate!ClassifyCommands(Gate!Commands(spec, args)) = "EXEC_ARBITRARY"
  BY DEF Gate!ClassifyCommands
<1>4. Gate!ClassifyByCommands(spec, args).class = "EXEC_ARBITRARY"
  <2>1. \E source : Gate!ClassifyByCommands(spec, args) = Gate!Result("EXEC_ARBITRARY", source)
    BY <1>3 DEF Gate!ClassifyByCommands
  <2> QED BY <2>1 DEF Gate!Result
<1>5. \/ Gate!ClassifyTool(spec, args) = Gate!Result("EXEC_ARBITRARY", "reclassify")
      \/ Gate!ClassifyTool(spec, args) = Gate!ClassifyByCommands(spec, args)
  BY <1>1, <1>2 DEF Gate!ClassifyTool
<1> QED BY <1>4, <1>5 DEF Gate!Result

LEMMA CommandsAreReadIf == StartInv => CommandsAreRead
<1> SUFFICES ASSUME StartInv, Gated, NEW in \in Calls,
                    Gate!InProfile(CallHere(in)),
                    Gate!SpecOf(CallHere(in)).class \in {"READ_OPERATIONAL", "EXEC_ARBITRARY"},
                    \E t \in Commands(Gate!SpecOf(CallHere(in)), CallHere(in).args) :
                      CommandClass(t) = "EXEC_ARBITRARY"
             PROVE  Decided(in).class = "EXEC_ARBITRARY"
  BY DEF CommandsAreRead
<1> DEFINE c    == CallHere(in)
           spec == Gate!SpecOf(c)
<1>1. SpecOK(spec)
  <2>1. c.server \in DOMAIN pipe.profiles /\ c.tool \in DOMAIN pipe.profiles[c.server]
    BY DEF Gate!InProfile, Gate!HasProfile
  <2> QED BY <2>1, SpecsHere DEF Gate!SpecOf
<1>2. \E t \in Gate!Commands(spec, c.args) : CommandClass(t) = "EXEC_ARBITRARY"
  BY DEF Commands, Items, Gate!Commands, Gate!Items
<1>3. Gate!ClassifyTool(spec, c.args).class = "EXEC_ARBITRARY"
  BY <1>1, <1>2, UnreadCommandClass
<1>4. Gate!ClassifyTool(spec, Gate!NoArgs).class = "EXEC_ARBITRARY"
  <2>1. Gate!Commands(spec, Gate!NoArgs) = {}
    BY DEF Gate!Commands, Gate!Items, Gate!NoArgs
  <2>2. spec.commandParams # {}
    BY <1>2 DEF Gate!Commands
  <2> QED BY <1>1, <2>1, <2>2, UnreadCommandClass
<1> HIDE DEF c, spec
<1>5. ASSUME NEW args, Gate!ClassifyTool(spec, args).class = "EXEC_ARBITRARY"
      PROVE  Gate!Classification(c, args).class = "EXEC_ARBITRARY"
  BY <1>5 DEF Gate!Classification, Gate!Result, spec, c
<1>6. \E d, n : Decided(in) = Gate!Verdict(d, Gate!Classification(c, c.args), n)
                \/ Decided(in) = Gate!Verdict(d, Gate!Classification(c, Gate!NoArgs), n)
  BY DEF Decided, Gate!Decide, c
<1> QED BY <1>3, <1>4, <1>5, <1>6 DEF Gate!Verdict

\* What Parse and ParseProfile accept does what it says in the gate: the rule
\* a verdict names, every capability listed, every command, every profile.
THEOREM DocumentsAlwaysInForce == Spec => []DocumentsInForce
<1>1. StartInv => DocumentsInForce
  BY VerdictNamesItsCauseIf, CapabilitiesUsableIf, CommandsAreReadIf, ProfilesInForceIf
  DEF DocumentsInForce
<1> QED BY <1>1, StartInvHolds, PTL

-----------------------------------------------------------------------------
(* The inventory in force *)

LEMMA FileHere ==
  ASSUME StartInv, Gated
  PROVE  IsInventoryDoc(pipe.file) /\ FileChain(pipe.file)
<1>1. IF cfg.inventory = Unset THEN pipe.file = NoFile
      ELSE InventoryDoc # Unreadable /\ FileChain(InventoryDoc) /\ pipe.file = InventoryDoc
  BY DEF StartInv, FileLoaded, Unset
<1>2. CASE pipe.file = NoFile
  <2>1. /\ NoFile = [x \in {"devices", "roles"} |-> NoFile[x]]
        /\ NoFile.devices = <<>> /\ NoFile.roles = <<>>
    BY DEF NoFile
  <2>2. IsInventoryDoc(NoFile)
    <3>1. <<>> \in Seq({NoFile.roles[i] : i \in DOMAIN NoFile.roles}) /\ DOMAIN NoFile.devices = {}
      BY <2>1
    <3> QED BY <2>1, <3>1 DEF IsInventoryDoc
  <2>3. NewStatic(<<>>) /\ NewPatterns(<<>>)
    BY DEF NewStatic, NewPatterns
  <2> QED BY <1>2, <2>1, <2>2, <2>3 DEF FileChain
<1>3. CASE InventoryDoc # Unreadable /\ FileChain(InventoryDoc) /\ pipe.file = InventoryDoc
  <2>1. IsDisk(input.disk)
    BY InputsAssumption DEF StartInv, Progress
  <2>2. IsInventoryDoc(InventoryDoc)
    BY <1>3, <2>1 DEF InventoryDoc, OnDisk, IsDisk
  <2> QED BY <1>3, <2>2
<1> QED BY <1>1, <1>2, <1>3

\* What the device list answers: the one device of a name, or none.
LEMMA StaticIs ==
  ASSUME NEW devices, NewStatic(devices), NEW n
  PROVE  /\ \A j \in DOMAIN devices : Normalize(devices[j].name) = Normalize(n)
                                        => StaticResolve(devices, n) = devices[j]
         /\ StaticResolve(devices, n) # Unlisted =>
              \E j \in DOMAIN devices : /\ Normalize(devices[j].name) = Normalize(n)
                                        /\ StaticResolve(devices, n) = devices[j]
<1> DEFINE hits == {i \in DOMAIN devices : Normalize(devices[i].name) = Normalize(n)}
<1>1. \A j \in hits : hits = {j}
  BY DEF NewStatic
<1>2. StaticResolve(devices, n) = IF hits = {} THEN Unlisted ELSE devices[CHOOSE i \in hits : TRUE]
  BY DEF StaticResolve
<1>3. hits # {} => (CHOOSE i \in hits : TRUE) \in hits
  OBVIOUS
<1> QED BY <1>1, <1>2, <1>3

\* Every listed device answers to its own name.
LEMMA OwnName ==
  ASSUME NEW f, IsInventoryDoc(f), FileChain(f), NEW j \in DOMAIN f.devices
  PROVE  StaticResolve(f.devices, f.devices[j].name) = f.devices[j] /\ Known(f, f.devices[j].name)
<1>1. StaticResolve(f.devices, f.devices[j].name) = f.devices[j]
  BY StaticIs DEF FileChain
<1>2. f.devices[j] # Unlisted
  <2>1. Normalize(f.devices[j].name) # Unset
    BY DEF FileChain, NewStatic, Unset
  <2>2. Normalize(Unset) = Unset
    BY NormalizeAssumption DEF Unset
  <2>3. Unlisted.name = Unset
    BY DEF Unlisted, Unset
  <2> QED BY <2>1, <2>2, <2>3
<1> QED BY <1>1, <1>2 DEF Known, Listed

LEMMA OneSpellingIf == StartInv => OneSpelling
<1> SUFFICES ASSUME NEW a \in DOMAIN KnownDevices(pipe.file), NEW b \in DOMAIN KnownDevices(pipe.file),
                    Normalize(a) = Normalize(b)
             PROVE  a = b
  BY DEF OneSpelling
<1>1. Known(pipe.file, a) /\ Known(pipe.file, b)
  BY DEF KnownDevices
<1>2. StaticResolve(pipe.file.devices, a) = StaticResolve(pipe.file.devices, b)
  BY DEF StaticResolve
<1> QED BY <1>1, <1>2 DEF Known

\* The warnings about patterns are those of the file in force.
LEMMA PatternWarned ==
  ASSUME StartInv, Gated
  PROVE  \A w : w \in pipe.warns /\ w.kind = "pattern" <=>
           \E i \in PatternWarnings(pipe.file) : w = Warn("pattern", pipe.file.roles[i].match, {})
<1>1. pipe.warns = InventoryWarns \cup ProfileWarns \cup PolicyWarnings(pipe.policy)
  BY DEF StartInv, WarningsGiven
<1>2. ASSUME NEW w \in pipe.warns, w.kind = "pattern" PROVE w \in InventoryWarns /\ cfg.inventory # Unset
  <2>1. w \in InventoryWarns
    BY <1>1, <1>2, OtherWarningsAre, PolicyKinds
  <2>2. ASSUME cfg.inventory = Unset PROVE FALSE
    <3>1. w = Warn("no_inventory", Unset, {})
      BY <2>1, <2>2 DEF InventoryWarns, WarnsOf, Unset
    <3> QED BY <3>1, <1>2, WarnFields
  <2> QED BY <2>1, <2>2
<1>3. cfg.inventory # Unset =>
        InventoryWarns = {Warn("pattern", pipe.file.roles[i].match, {}) : i \in PatternWarnings(pipe.file)}
  BY DEF InventoryWarns, WarnsOf, Unset
<1>4. cfg.inventory = Unset => PatternWarnings(pipe.file) = {}
  <2>1. cfg.inventory = Unset => pipe.file = NoFile
    BY DEF StartInv, FileLoaded, Unset
  <2>2. DOMAIN NoFile.roles = {}
    BY DEF NoFile
  <2> QED BY <2>1, <2>2 DEF PatternWarnings
<1>5. \A i : Warn("pattern", pipe.file.roles[i].match, {}).kind = "pattern"
  BY WarnFields
<1> QED BY <1>1, <1>2, <1>3, <1>4, <1>5

LEMMA LintAgreesIf == StartInv => LintAgrees
<1> SUFFICES ASSUME StartInv, Gated
             PROVE  /\ LintClean(pipe.file, ValidTarget) <=>
                         /\ ~Warned("pattern")
                         /\ \A j \in DOMAIN pipe.file.devices :
                              pipe.file.devices[j].name \in DOMAIN KnownDevices(pipe.file)
                    /\ \A n \in ValidTarget :
                         Explain(pipe.file, n).reason = "spelling" =>
                           \E m \in DOMAIN KnownDevices(pipe.file)
                                       \cup LintProblems(pipe.file, ValidTarget) :
                             m # n /\ Normalize(m) = Normalize(n)
  BY DEF LintAgrees
<1> DEFINE f == pipe.file
           known == DOMAIN KnownDevices(f)
<1>1. IsInventoryDoc(f) /\ FileChain(f)
  BY FileHere
<1>2. known = {n \in ValidTarget : Known(f, n)}
  BY DEF KnownDevices
<1>3. \A j \in DOMAIN f.devices : f.devices[j].name \in known <=> f.devices[j].name \in ValidTarget
  BY <1>1, <1>2, OwnName
<1>4. Warned("pattern") <=> PatternWarnings(f) # {}
  BY PatternWarned DEF Warned
<1> HIDE DEF f
<1>5. LintClean(f, ValidTarget) <=>
        /\ ~Warned("pattern")
        /\ \A j \in DOMAIN f.devices : f.devices[j].name \in known
  <2> HIDE DEF known
  <2>1. LintProblems(f, ValidTarget) = {} <=>
          /\ PatternWarnings(f) = {}
          /\ \A j \in DOMAIN f.devices : f.devices[j].name \in ValidTarget
    BY DEF LintProblems
  <2> QED BY <2>1, <1>1, <1>3, <1>4 DEF LintClean
<1>6. ASSUME NEW n \in ValidTarget, Explain(f, n).reason = "spelling"
      PROVE  \E m \in known \cup LintProblems(f, ValidTarget) :
               m # n /\ Normalize(m) = Normalize(n)
  <2>1. CASE Known(f, n)
    <3>1. Explain(f, n) = [known |-> TRUE, reason |-> Unset, patterns |-> {}]
      BY <2>1 DEF Explain, Unset
    <3>2. Unset # "spelling"
      BY DEF Unset
    <3>3. Explain(f, n).reason = Unset
      BY <3>1
    <3> QED BY <3>2, <3>3, <1>6
  <2>2. CASE ~Known(f, n) /\ Listed(f, n)
    <3>1. PICK j \in DOMAIN f.devices : /\ Normalize(f.devices[j].name) = Normalize(n)
                                        /\ StaticResolve(f.devices, n) = f.devices[j]
      BY <2>2, <1>1, StaticIs DEF Listed, FileChain
    <3>2. f.devices[j].name # n
      BY <2>2, <3>1 DEF Known
    <3> HIDE DEF known
    <3>3. f.devices[j].name \in known \cup LintProblems(f, ValidTarget)
      BY <1>3 DEF LintProblems
    <3> QED BY <3>1, <3>2, <3>3
  <2>3. CASE ~Known(f, n) /\ ~Listed(f, n)
    <3>1. Explain(f, n).reason = "unlisted"
      BY <2>3 DEF Explain
    <3> QED BY <3>1, <1>6
  <2> QED BY <2>1, <2>2, <2>3
<1> QED BY <1>5, <1>6 DEF f

-----------------------------------------------------------------------------
(* What the patterns do *)

PatternTags(roles) == UNION {roles[i].tags : i \in DOMAIN roles}

PatternRoles(roles) == {roles[i].role : i \in DOMAIN roles} \cup {Unset}

PatternSites(roles) == {roles[i].site : i \in DOMAIN roles} \cup {Unset}

Attributed(roles, listed) ==
  [name : {listed}, role : PatternRoles(roles), site : PatternSites(roles),
   tags : SUBSET PatternTags(roles), status : {Unset}]

NoAttributes(listed) == [Unlisted EXCEPT !.name = listed]

\* t is what the loop of Attributes goes through.
IsAttributes(t, roles, listed) ==
  /\ t \in [0..Len(roles) -> Attributed(roles, listed)]
  /\ t[0] = NoAttributes(listed)
  /\ \A i \in 1..Len(roles) : t[i] = Attribute(t[i - 1], roles[i], listed)

LEMMA NoAttributesIs ==
  ASSUME NEW listed
  PROVE  NoAttributes(listed) = [name |-> listed, role |-> Unset, site |-> Unset, tags |-> {},
                                 status |-> Unset]
<1>1. Unlisted = [name |-> Unset, role |-> Unset, site |-> Unset, tags |-> {}, status |-> Unset]
  BY DEF Unlisted, Unset
<1> QED BY <1>1 DEF NoAttributes

\* One pattern, field by field.
LEMMA AttributeIs ==
  ASSUME NEW roles, NEW listed, NEW t \in Attributed(roles, listed), NEW p
  PROVE  /\ ~RegexMatches(p.match, listed) => Attribute(t, p, listed) = t
         /\ RegexMatches(p.match, listed) =>
              Attribute(t, p, listed) =
                [name |-> t.name, role |-> IF t.role = Unset THEN p.role ELSE t.role,
                 site |-> IF t.site = Unset THEN p.site ELSE t.site,
                 tags |-> t.tags \cup p.tags, status |-> t.status]
<1>1. ~RegexMatches(p.match, listed) => Attribute(t, p, listed) = t
  BY DEF Attribute
<1>2. RegexMatches(p.match, listed) =>
        Attribute(t, p, listed) =
          [t EXCEPT !.role = IF @ = Unset THEN p.role ELSE @,
                    !.site = IF @ = Unset THEN p.site ELSE @,
                    !.tags = @ \cup p.tags]
  BY DEF Attribute, Unset
<1> QED BY <1>1, <1>2 DEF Attributed

LEMMA AttributesIs ==
  ASSUME NEW X, NEW roles \in Seq(X), NEW listed
  PROVE  \E t : IsAttributes(t, roles, listed) /\ Attributes(roles, listed) = t[Len(roles)]
<1> DEFINE n == Len(roles)
           T == Attributed(roles, listed)
           t0 == NoAttributes(listed)
           D(f) == [i \in 0..n |-> IF i = 0 THEN t0 ELSE Attribute(f[i - 1], roles[i], listed)]
           c == CHOOSE f : f = D(f)
           G == [q \in (1..n) \X T |-> Attribute(q[2], roles[q[1]], listed)]
<1>1. n \in Nat /\ DOMAIN roles = 1..n
  OBVIOUS
<1>2. t0 \in T
  BY NoAttributesIs DEF Attributed, PatternRoles, PatternSites
<1>3. ASSUME NEW i \in 1..n, NEW t \in T PROVE Attribute(t, roles[i], listed) \in T
  <2> DEFINE p == roles[i]
  <2>1. /\ p.role \in PatternRoles(roles) /\ p.site \in PatternSites(roles)
        /\ p.tags \subseteq PatternTags(roles)
    BY <1>1 DEF PatternRoles, PatternSites, PatternTags
  <2>2. /\ t.name = listed /\ t.status = Unset /\ t.tags \subseteq PatternTags(roles)
        /\ t.role \in PatternRoles(roles) /\ t.site \in PatternSites(roles)
    BY DEF Attributed
  <2> HIDE DEF p, n
  <2>3. CASE RegexMatches(p.match, listed)
    <3>1. Attribute(t, p, listed) =
                [name |-> t.name, role |-> IF t.role = Unset THEN p.role ELSE t.role,
                 site |-> IF t.site = Unset THEN p.site ELSE t.site,
                 tags |-> t.tags \cup p.tags, status |-> t.status]
      BY <2>3, AttributeIs
    <3> QED BY <3>1, <2>1, <2>2 DEF Attributed, p
  <2>4. CASE ~RegexMatches(p.match, listed)
    BY <2>4, AttributeIs DEF p
  <2> QED BY <2>3, <2>4
<1>4. PICK f : f \in [0..n -> T] /\ f[0] = t0 /\ \A i \in 1..n : f[i] = G[<<i, f[i - 1]>>]
  <2>1. G \in [(1..n) \X T -> T]
    BY <1>3
  <2> HIDE DEF G, T, n, t0
  <2>2. \E f : IsLoop(f, n, T, t0, G)
    BY <1>1, <1>2, <2>1, LoopExists
  <2> QED BY <2>2 DEF IsLoop
<1> HIDE DEF T
<1>5. \A i \in 1..n : f[i] = Attribute(f[i - 1], roles[i], listed)
  <2> SUFFICES ASSUME NEW i \in 1..n PROVE f[i] = Attribute(f[i - 1], roles[i], listed)
    OBVIOUS
  <2>1. <<i, f[i - 1]>> \in (1..n) \X T
    BY <1>1, <1>4
  <2> QED BY <1>4, <2>1
<1> HIDE DEF n, t0
<1>6. f = D(f)
  BY <1>1, <1>4, <1>5
<1>7. c = D(c)
  <2> HIDE DEF D
  <2> QED BY <1>6
<1>8. Attributes(roles, listed) = c[n]
  BY DEF Attributes, n, t0, NoAttributes
<1> HIDE DEF c
<1>9. c[0] = t0 /\ \A i \in 1..n : c[i] = Attribute(c[i - 1], roles[i], listed)
  BY <1>7, <1>1
<1>10. \A i \in 0..n : c[i] \in T
  <2> DEFINE S == {i \in 0..n : c[i] \in T}
  <2>1. 0 \in S /\ \A i \in 1..n : i - 1 \in S => i \in S
    BY <1>1, <1>2, <1>3, <1>9
  <2> HIDE DEF S
  <2>2. 0..n \subseteq S
    BY <2>1, <1>1, Upto
  <2> QED BY <2>2 DEF S
<1>11. c \in [0..n -> T]
  BY <1>7, <1>10
<1>12. IsAttributes(c, roles, listed)
  BY <1>9, <1>11 DEF IsAttributes, T, n, t0
<1> QED BY <1>12, <1>8 DEF n

\* A pattern that does not match a name can be left out.
LEMMA AttributesWithout ==
  ASSUME NEW X, NEW roles \in Seq(X), NEW listed, NEW k \in DOMAIN roles,
         ~RegexMatches(roles[k].match, listed)
  PROVE  Attributes(SE!RemoveAt(roles, k), listed) = Attributes(roles, listed)
<1> DEFINE less == SE!RemoveAt(roles, k)
           n == Len(roles)
<1>1. /\ n \in Nat /\ k \in 1..n /\ less \in Seq(X) /\ Len(less) = n - 1
      /\ \A i \in 1..n - 1 : less[i] = IF i < k THEN roles[i] ELSE roles[i + 1]
  <2>1. n \in Nat /\ k \in 1..n
    OBVIOUS
  <2> DEFINE a == SubSeq(roles, 1, k - 1)
             b == SubSeq(roles, k + 1, n)
  <2>2. a \in Seq(X) /\ Len(a) = k - 1 /\ \A i \in 1..k - 1 : a[i] = roles[i]
    BY <2>1, SubSeqProperties
  <2>3. b \in Seq(X) /\ Len(b) = n - k /\ \A i \in 1..n - k : b[i] = roles[k + i]
    BY <2>1, SubSeqProperties
  <2>4. less = a \o b
    BY DEF SE!RemoveAt
  <2> HIDE DEF a, b, less, n
  <2>5. less \in Seq(X) /\ Len(less) = n - 1
    <3>1. less \in Seq(X) /\ Len(less) = Len(a) + Len(b)
      BY <2>2, <2>3, <2>4, ConcatProperties
    <3> QED BY <2>1, <2>2, <2>3, <3>1
  <2>6. ASSUME NEW i \in 1..n - 1 PROVE less[i] = IF i < k THEN roles[i] ELSE roles[i + 1]
    <3>1. less[i] = IF i <= k - 1 THEN a[i] ELSE b[i - (k - 1)]
      <4>1. i \in 1..Len(a) + Len(b) /\ Len(a) = k - 1
        BY <2>1, <2>2, <2>3
      <4>2. less[i] = IF i <= Len(a) THEN a[i] ELSE b[i - Len(a)]
        BY <2>2, <2>3, <2>4, <4>1, ConcatProperties
      <4> QED BY <4>1, <4>2
    <3>2. CASE i < k
      BY <2>1, <2>2, <3>1, <3>2
    <3>3. CASE ~(i < k)
      <4>1. i - (k - 1) \in 1..n - k /\ k + (i - (k - 1)) = i + 1 /\ ~(i <= k - 1)
        BY <2>1, <3>3
      <4> QED BY <2>3, <3>1, <3>3, <4>1
    <3> QED BY <3>2, <3>3
  <2> QED BY <2>1, <2>5, <2>6
<1>2. PICK t : IsAttributes(t, roles, listed) /\ Attributes(roles, listed) = t[n]
  BY AttributesIs
<1>3. PICK u : IsAttributes(u, less, listed) /\ Attributes(less, listed) = u[n - 1]
  BY <1>1, AttributesIs
<1> HIDE DEF less, n
<1>4. /\ t[0] = NoAttributes(listed) /\ \A i \in 1..n : t[i] = Attribute(t[i - 1], roles[i], listed)
      /\ u[0] = NoAttributes(listed) /\ \A i \in 1..n - 1 : u[i] = Attribute(u[i - 1], less[i], listed)
  BY <1>1, <1>2, <1>3 DEF IsAttributes, n
<1>5. t[k] = t[k - 1]
  BY <1>1, <1>4 DEF Attribute
<1> DEFINE S == {i \in 0..n - 1 : u[i] = IF i < k THEN t[i] ELSE t[i + 1]}
<1>6. 0 \in S
  BY <1>1, <1>4
<1>7. ASSUME NEW i \in 1..n - 1, i - 1 \in S PROVE i \in S
  <2>1. u[i] = Attribute(u[i - 1], less[i], listed)
    BY <1>4
  <2>2. CASE i < k
    <3>1. u[i - 1] = t[i - 1] /\ less[i] = roles[i] /\ i \in 1..n
      BY <1>1, <1>7, <2>2
    <3>2. u[i] = t[i]
      BY <3>1, <2>1, <1>4
    <3> QED BY <3>2, <2>2, <1>1
  <2>3. CASE ~(i < k)
    <3>1. u[i - 1] = t[i] /\ less[i] = roles[i + 1] /\ i + 1 \in 1..n /\ (i + 1) - 1 = i
      BY <1>1, <1>5, <1>7, <2>3
    <3>2. t[i + 1] = Attribute(t[(i + 1) - 1], roles[i + 1], listed)
      BY <3>1, <1>4
    <3>3. u[i] = t[i + 1]
      BY <3>1, <3>2, <2>1
    <3> QED BY <3>3, <2>3, <1>1
  <2> QED BY <2>2, <2>3
<1>8. n - 1 \in S
  <2> HIDE DEF S
  <2>1. n - 1 \in Nat
    BY <1>1
  <2>2. 0..n - 1 \subseteq S
    BY <2>1, <1>6, <1>7, Upto
  <2> QED BY <2>1, <2>2
<1>9. u[n - 1] = t[n]
  BY <1>1, <1>5, <1>8
<1> QED BY <1>9, <1>2, <1>3 DEF less

\* What Chain.Resolve makes of a listed device: its own record, with what it
\* leaves out taken from the patterns.
LEMMA ResolveIs ==
  ASSUME NEW f, NEW n, NEW d, StaticResolve(f.devices, n) = d,
         d = [x \in DeviceFields |-> d[x]]
  PROVE  LET r == ResolveName(f, n)
             a == Attributes(f.roles, d.name)
         IN /\ r.out.role = IF d.role = Unset /\ a.role # Unset THEN a.role ELSE d.role
            /\ r.out.site = IF d.site = Unset /\ a.site # Unset THEN a.site ELSE d.site
            /\ r.out.tags = d.tags \cup a.tags
            /\ r.out.status = d.status
            /\ r.src.role = IF d.role = Unset /\ a.role # Unset THEN "pattern"
                            ELSE IF d.role # Unset THEN "static" ELSE Unset
            /\ DOMAIN r.src.tags = d.tags \cup a.tags
            /\ \A t \in d.tags \cup a.tags :
                 r.src.tags[t] = IF t \in a.tags \ d.tags THEN "pattern" ELSE "static"
<1> DEFINE a == Attributes(f.roles, d.name)
           none == [out |-> NoAttributes(d.name), src |-> NoSources]
           own == Merge(none, d, "static", FieldsAll)
           r == Merge(own, a, "pattern", FieldsEnricher)
<1>1. ResolveName(f, n) = r
  BY DEF ResolveName, NoAttributes
<1>2. none = [out |-> [name |-> d.name, role |-> Unset, site |-> Unset, tags |-> {}, status |-> Unset],
              src |-> [role |-> Unset, site |-> Unset, status |-> Unset, tags |-> [t \in {} |-> Unset]]]
  BY NoAttributesIs DEF NoSources, Unset
<1> HIDE DEF none
<1>3. /\ own.out = [name |-> d.name, role |-> d.role, site |-> d.site, tags |-> d.tags,
                    status |-> d.status]
      /\ own.src = [role |-> IF d.role # Unset THEN "static" ELSE Unset,
                    site |-> IF d.site # Unset THEN "static" ELSE Unset,
                    status |-> IF d.status # Unset THEN "static" ELSE Unset,
                    tags |-> [t \in d.tags |-> "static"]]
  BY <1>2 DEF Merge, FieldsAll, Unset
<1> HIDE DEF own
<1>4. /\ r.out.role = IF d.role = Unset /\ a.role # Unset THEN a.role ELSE d.role
      /\ r.out.site = IF d.site = Unset /\ a.site # Unset THEN a.site ELSE d.site
      /\ r.out.tags = d.tags \cup (a.tags \ d.tags)
      /\ r.out.status = d.status
      /\ r.src.role = IF d.role = Unset /\ a.role # Unset THEN "pattern"
                      ELSE IF d.role # Unset THEN "static" ELSE Unset
      /\ r.src.tags = [t \in d.tags \cup (a.tags \ d.tags) |->
                         IF t \in a.tags \ d.tags THEN "pattern" ELSE "static"]
  <2> DEFINE role == IF d.role = Unset /\ a.role # Unset THEN a.role ELSE d.role
             site == IF d.site = Unset /\ a.site # Unset THEN a.site ELSE d.site
             added == a.tags \ d.tags
  <2>1. /\ own.out.role = d.role /\ own.out.site = d.site /\ own.out.tags = d.tags
        /\ own.out.status = d.status /\ own.src.tags = [t \in d.tags |-> "static"]
        /\ own.src.role = IF d.role # Unset THEN "static" ELSE Unset
    BY <1>3
  <2>2. r.out = [own.out EXCEPT !.role = role, !.site = site, !.status = own.out.status,
                                !.tags = @ \cup added]
    BY <2>1 DEF Merge, FieldsEnricher, Unset
  <2>3. r.src.role = IF d.role = Unset /\ a.role # Unset THEN "pattern" ELSE own.src.role
    BY <2>1 DEF Merge, FieldsEnricher, Unset
  <2>4. r.src.tags = [t \in DOMAIN own.src.tags \cup added |->
                        IF t \in added THEN "pattern" ELSE own.src.tags[t]]
    BY <2>1 DEF Merge, FieldsEnricher
  <2> HIDE DEF r, role, site, added
  <2>5. /\ r.out.role = role /\ r.out.site = site
        /\ r.out.tags = d.tags \cup added /\ r.out.status = d.status
    BY <2>2, <1>3
  <2>6. r.src.tags = [t \in d.tags \cup added |-> IF t \in added THEN "pattern" ELSE "static"]
    BY <2>1, <2>4
  <2> QED BY <2>1, <2>3, <2>5, <2>6 DEF role, site, added
<1> HIDE DEF r, a
<1>5. d.tags \cup (a.tags \ d.tags) = d.tags \cup a.tags
  OBVIOUS
<1>6. /\ DOMAIN r.src.tags = d.tags \cup a.tags
      /\ \A t \in d.tags \cup a.tags :
           r.src.tags[t] = IF t \in a.tags \ d.tags THEN "pattern" ELSE "static"
  BY <1>4, <1>5
<1> QED BY <1>1, <1>4, <1>5, <1>6 DEF a

LEMMA IdlePatternsIf == StartInv => IdlePatternsAreIdle
<1> SUFFICES ASSUME StartInv, Gated, NEW i \in DOMAIN pipe.file.roles,
                    Warn("pattern", pipe.file.roles[i].match, {}) \in pipe.warns
             PROVE  KnownDevices(WithoutRole(pipe.file, i)) = KnownDevices(pipe.file)
  BY DEF IdlePatternsAreIdle
<1> DEFINE f == pipe.file
           g == WithoutRole(f, i)
<1>1. IsInventoryDoc(f) /\ FileChain(f)
  BY FileHere
<1>2. \A j \in DOMAIN f.devices : ~RegexMatches(f.roles[i].match, f.devices[j].name)
  <2>1. PICK k \in PatternWarnings(f) :
          Warn("pattern", f.roles[i].match, {}) = Warn("pattern", f.roles[k].match, {})
    BY PatternWarned, WarnFields
  <2>2. f.roles[i].match = f.roles[k].match
    BY <2>1, WarnFields
  <2> QED BY <2>1, <2>2 DEF PatternWarnings
<1> HIDE DEF f
<1>3. g.devices = f.devices /\ g.roles = SE!RemoveAt(f.roles, i)
  BY <1>1 DEF IsInventoryDoc, WithoutRole
<1> HIDE DEF g
<1>4. \A n : Known(g, n) <=> Known(f, n)
  BY <1>3 DEF Known, Listed
<1>5. ASSUME NEW n, Known(f, n)
      PROVE  ResolveName(g, n).out.role = ResolveName(f, n).out.role
             /\ ResolveName(g, n).out.tags = ResolveName(f, n).out.tags
  <2>1. PICK j \in DOMAIN f.devices : StaticResolve(f.devices, n) = f.devices[j]
    BY <1>1, <1>5, StaticIs DEF Known, Listed, FileChain
  <2> DEFINE d == f.devices[j]
  <2>2. d = [x \in DeviceFields |-> d[x]]
    BY <1>1 DEF IsInventoryDoc
  <2>3. Attributes(g.roles, d.name) = Attributes(f.roles, d.name)
    <3>1. f.roles \in Seq({f.roles[x] : x \in DOMAIN f.roles}) /\ i \in DOMAIN f.roles
      BY <1>1 DEF IsInventoryDoc, f
    <3> QED BY <3>1, <1>2, <1>3, AttributesWithout
  <2> HIDE DEF d
  <2>4. StaticResolve(f.devices, n) = d /\ StaticResolve(g.devices, n) = d
    BY <2>1, <1>3 DEF d
  <2>5. ASSUME NEW h, StaticResolve(h.devices, n) = d
        PROVE  LET a == Attributes(h.roles, d.name)
               IN /\ ResolveName(h, n).out.role =
                       IF d.role = Unset /\ a.role # Unset THEN a.role ELSE d.role
                  /\ ResolveName(h, n).out.tags = d.tags \cup a.tags
    BY <2>2, <2>5, ResolveIs
  <2> QED BY <2>3, <2>4, <2>5
<1>6. KnownDevices(g) = KnownDevices(f)
  <2>1. \A n \in {m \in ValidTarget : Known(f, m)} :
          [role |-> ResolveName(g, n).out.role, tags |-> ResolveName(g, n).out.tags]
            = [role |-> ResolveName(f, n).out.role, tags |-> ResolveName(f, n).out.tags]
    BY <1>5
  <2>2. {m \in ValidTarget : Known(f, m)} = {m \in ValidTarget : Known(g, m)}
    BY <1>4
  <2> QED BY <2>1, <2>2 DEF KnownDevices
<1> QED BY <1>6 DEF f, g

\* What PatternEffects goes through for one device.
EffectLines(roles) ==
  [pattern : 1..Len(roles), verb : {"sets", "not applied"}, field : {"role", "site"},
   value : PatternRoles(roles) \cup PatternSites(roles)]
    \cup [pattern : 1..Len(roles), verb : {"adds"}, field : {"tag"}, value : PatternTags(roles)]

Told(roles, own) ==
  [role : PatternRoles(roles) \cup {own.role}, site : PatternSites(roles) \cup {own.site},
   tags : SUBSET (PatternTags(roles) \cup own.tags), effects : SUBSET EffectLines(roles),
   conflicts : SUBSET (1..Len(roles))]

NothingTold(own) ==
  [role |-> own.role, site |-> own.site, tags |-> own.tags, effects |-> {}, conflicts |-> {}]

TellOne(acc, own, i, p) ==
  IF Usable(p) /\ RegexMatches(p.match, own.name) THEN PatternEffect(acc, own, i, p) ELSE acc

\* The lines a pattern adds for a field of a device.
FieldLine(acc, i, name, given) ==
  IF given = Unset \/ given = acc[name] THEN {}
  ELSE {Effect(i, IF acc[name] = Unset THEN "sets" ELSE "not applied", name, given)}

NewLines(acc, i, p) ==
  FieldLine(acc, i, "role", p.role) \cup FieldLine(acc, i, "site", p.site)
    \cup {Effect(i, "adds", "tag", t) : t \in p.tags \ acc.tags}

LEMMA PatternEffectIs ==
  ASSUME NEW acc, NEW own, NEW i, NEW p
  PROVE  LET e == PatternEffect(acc, own, i, p)
         IN /\ e = [role |-> e.role, site |-> e.site, tags |-> e.tags, effects |-> e.effects,
                    conflicts |-> e.conflicts]
            /\ e.role = IF acc.role = Unset THEN p.role ELSE acc.role
            /\ e.site = IF acc.site = Unset THEN p.site ELSE acc.site
            /\ e.tags = acc.tags \cup (p.tags \ acc.tags)
            /\ e.effects = acc.effects \cup NewLines(acc, i, p)
            /\ e.conflicts \subseteq acc.conflicts \cup {i}
<1> DEFINE e == PatternEffect(acc, own, i, p)
<1>1. PICK more \in {{i}, {}} :
        e = [role |-> IF acc.role = Unset THEN p.role ELSE acc.role,
             site |-> IF acc.site = Unset THEN p.site ELSE acc.site,
             tags |-> acc.tags \cup (p.tags \ acc.tags),
             effects |-> acc.effects \cup NewLines(acc, i, p),
             conflicts |-> acc.conflicts \cup more]
  BY DEF PatternEffect, NewLines, FieldLine, Unset
<1> HIDE DEF e
<1>2. /\ e = [role |-> e.role, site |-> e.site, tags |-> e.tags, effects |-> e.effects,
              conflicts |-> e.conflicts]
      /\ e.role = IF acc.role = Unset THEN p.role ELSE acc.role
      /\ e.site = IF acc.site = Unset THEN p.site ELSE acc.site
      /\ e.tags = acc.tags \cup (p.tags \ acc.tags)
      /\ e.effects = acc.effects \cup NewLines(acc, i, p)
      /\ e.conflicts \subseteq acc.conflicts \cup {i}
  BY <1>1
<1> QED BY <1>2 DEF e

LEMMA EffectFields ==
  \A i, verb, field, value :
    /\ Effect(i, verb, field, value).verb = verb
    /\ Effect(i, verb, field, value).field = field
    /\ Effect(i, verb, field, value).value = value
BY DEF Effect

LEMMA TellOneType ==
  ASSUME NEW X, NEW roles \in Seq(X), NEW own, NEW i \in 1..Len(roles), NEW acc \in Told(roles, own)
  PROVE  TellOne(acc, own, i, roles[i]) \in Told(roles, own)
<1> DEFINE p == roles[i]
           e == PatternEffect(acc, own, i, p)
<1>1. /\ p.role \in PatternRoles(roles) /\ p.site \in PatternSites(roles)
      /\ p.tags \subseteq PatternTags(roles) /\ i \in 1..Len(roles)
  <2>1. i \in DOMAIN roles
    OBVIOUS
  <2> QED BY <2>1 DEF PatternRoles, PatternSites, PatternTags
<1>2. /\ acc.role \in PatternRoles(roles) \cup {own.role}
      /\ acc.site \in PatternSites(roles) \cup {own.site}
      /\ acc.tags \subseteq PatternTags(roles) \cup own.tags
      /\ acc.effects \subseteq EffectLines(roles)
      /\ acc.conflicts \subseteq 1..Len(roles)
  BY DEF Told
<1> HIDE DEF p
<1>3. NewLines(acc, i, p) \subseteq EffectLines(roles)
  <2> DEFINE L == EffectLines(roles)
  <2>0. /\ \A verb \in {"sets", "not applied"}, field \in {"role", "site"},
               value \in PatternRoles(roles) \cup PatternSites(roles) :
             Effect(i, verb, field, value) \in L
        /\ \A value \in PatternTags(roles) : Effect(i, "adds", "tag", value) \in L
    BY <1>1 DEF Effect, EffectLines
  <2> HIDE DEF L
  <2>1. FieldLine(acc, i, "role", p.role) \subseteq L
    BY <1>1, <2>0 DEF FieldLine
  <2>2. FieldLine(acc, i, "site", p.site) \subseteq L
    BY <1>1, <2>0 DEF FieldLine
  <2>3. {Effect(i, "adds", "tag", t) : t \in p.tags \ acc.tags} \subseteq L
    BY <1>1, <2>0
  <2> QED BY <2>1, <2>2, <2>3 DEF NewLines, L
<1>4. /\ e = [role |-> e.role, site |-> e.site, tags |-> e.tags, effects |-> e.effects,
              conflicts |-> e.conflicts]
      /\ e.role = IF acc.role = Unset THEN p.role ELSE acc.role
      /\ e.site = IF acc.site = Unset THEN p.site ELSE acc.site
      /\ e.tags = acc.tags \cup (p.tags \ acc.tags)
      /\ e.effects = acc.effects \cup NewLines(acc, i, p)
      /\ e.conflicts \subseteq acc.conflicts \cup {i}
  BY PatternEffectIs
<1> HIDE DEF e
<1>5. /\ e.role \in PatternRoles(roles) \cup {own.role}
      /\ e.site \in PatternSites(roles) \cup {own.site}
      /\ e.tags \subseteq PatternTags(roles) \cup own.tags
      /\ e.effects \subseteq EffectLines(roles)
      /\ e.conflicts \subseteq 1..Len(roles)
  BY <1>1, <1>2, <1>3, <1>4
<1>6. e \in Told(roles, own)
  BY <1>4, <1>5 DEF Told
<1> QED BY <1>6 DEF TellOne, e, p

LEMMA PatternEffectsIs ==
  ASSUME NEW f, NEW X, f.roles \in Seq(X), NEW own
  PROVE  \E e : /\ e[0] = NothingTold(own)
                /\ \A i \in 1..Len(f.roles) : e[i] = TellOne(e[i - 1], own, i, f.roles[i])
                /\ PatternEffects(f, own) = e[Len(f.roles)]
<1> DEFINE roles == f.roles
           n == Len(roles)
           T == Told(roles, own)
           t0 == NothingTold(own)
           D(e) == [i \in 0..n |->
                      IF i = 0 THEN t0
                      ELSE IF Usable(roles[i]) /\ RegexMatches(roles[i].match, own.name)
                      THEN PatternEffect(e[i - 1], own, i, roles[i]) ELSE e[i - 1]]
           c == CHOOSE e : e = D(e)
           G == [q \in (1..n) \X T |-> TellOne(q[2], own, q[1], roles[q[1]])]
<1>1. n \in Nat
  OBVIOUS
<1>2. t0 \in T
  BY DEF NothingTold, Told
<1>3. \A i \in 1..n, t \in T : TellOne(t, own, i, roles[i]) \in T
  BY TellOneType
<1> HIDE DEF roles
<1>4. PICK h : h \in [0..n -> T] /\ h[0] = t0 /\ \A i \in 1..n : h[i] = G[<<i, h[i - 1]>>]
  <2>1. G \in [(1..n) \X T -> T]
    BY <1>3
  <2> HIDE DEF G, T, n, t0
  <2>2. \E h : IsLoop(h, n, T, t0, G)
    BY <1>1, <1>2, <2>1, LoopExists
  <2> QED BY <2>2 DEF IsLoop
<1> HIDE DEF T
<1>5. \A i \in 1..n : h[i] = TellOne(h[i - 1], own, i, roles[i])
  <2> SUFFICES ASSUME NEW i \in 1..n PROVE h[i] = TellOne(h[i - 1], own, i, roles[i])
    OBVIOUS
  <2>1. <<i, h[i - 1]>> \in (1..n) \X T
    BY <1>1, <1>4
  <2> QED BY <1>4, <2>1
<1> HIDE DEF n, t0
<1>6. h = D(h)
  BY <1>1, <1>4, <1>5 DEF TellOne
<1>7. c = D(c)
  <2> HIDE DEF D
  <2> QED BY <1>6
<1>8. PatternEffects(f, own) = c[n]
  BY DEF PatternEffects, n, t0, NothingTold, roles
<1> HIDE DEF c
<1>9. c[0] = t0 /\ \A i \in 1..n : c[i] = TellOne(c[i - 1], own, i, roles[i])
  BY <1>7, <1>1 DEF TellOne
<1> QED BY <1>8, <1>9 DEF n, t0, roles

\* The values told of a field with a verb.
ToldOf(lines, verb, field) == {e.value : e \in {x \in lines : x.verb = verb /\ x.field = field}}

LEMMA ToldOfMore ==
  ASSUME NEW lines, NEW more, NEW verb, NEW field
  PROVE  ToldOf(lines \cup more, verb, field) = ToldOf(lines, verb, field) \cup ToldOf(more, verb, field)
BY DEF ToldOf

LEMMA ToldOfNone == \A verb, field : ToldOf({}, verb, field) = {}
BY DEF ToldOf

LEMMA ToldOfOne ==
  ASSUME NEW i, NEW verb, NEW field, NEW value, NEW verb2, NEW field2
  PROVE  ToldOf({Effect(i, verb, field, value)}, verb2, field2) =
           IF verb = verb2 /\ field = field2 THEN {value} ELSE {}
<1> DEFINE e == Effect(i, verb, field, value)
<1>1. e.verb = verb /\ e.field = field /\ e.value = value
  BY EffectFields
<1> HIDE DEF e
<1>2. ToldOf({e}, verb2, field2) = IF verb = verb2 /\ field = field2 THEN {value} ELSE {}
  BY <1>1 DEF ToldOf
<1> QED BY <1>2 DEF e

LEMMA ToldOfTags ==
  ASSUME NEW i, NEW S, NEW verb, NEW field
  PROVE  ToldOf({Effect(i, "adds", "tag", t) : t \in S}, verb, field) =
           IF verb = "adds" /\ field = "tag" THEN S ELSE {}
<1> DEFINE E == {Effect(i, "adds", "tag", t) : t \in S}
<1>1. \A e \in E : e.verb = "adds" /\ e.field = "tag" /\ e.value \in S
  BY EffectFields
<1>2. \A t \in S : \E e \in E : e.value = t
  BY EffectFields
<1> HIDE DEF E
<1>3. ToldOf(E, verb, field) = IF verb = "adds" /\ field = "tag" THEN S ELSE {}
  <2>1. CASE verb = "adds" /\ field = "tag"
    <3>1. {x \in E : x.verb = verb /\ x.field = field} = E
      BY <1>1, <2>1
    <3>2. {e.value : e \in E} = S
      BY <1>1, <1>2
    <3> QED BY <2>1, <3>1, <3>2 DEF ToldOf
  <2>2. CASE ~(verb = "adds" /\ field = "tag")
    <3>1. {x \in E : x.verb = verb /\ x.field = field} = {}
      BY <1>1, <2>2
    <3> QED BY <2>2, <3>1 DEF ToldOf
  <2> QED BY <2>1, <2>2
<1> QED BY <1>3 DEF E

\* What a pattern's own lines tell.
LEMMA NewLinesTell ==
  ASSUME NEW acc, NEW i, NEW p
  PROVE  LET new == NewLines(acc, i, p)
         IN /\ ToldOf(new, "sets", "role") =
                 IF acc.role = Unset /\ p.role # Unset THEN {p.role} ELSE {}
            /\ ToldOf(new, "sets", "site") =
                 IF acc.site = Unset /\ p.site # Unset THEN {p.site} ELSE {}
            /\ ToldOf(new, "adds", "tag") = p.tags \ acc.tags
<1> DEFINE ofRole == FieldLine(acc, i, "role", p.role)
           ofSite == FieldLine(acc, i, "site", p.site)
           ofTags == {Effect(i, "adds", "tag", t) : t \in p.tags \ acc.tags}
<1>1. /\ ToldOf(ofRole, "sets", "role") =
           IF acc.role = Unset /\ p.role # Unset THEN {p.role} ELSE {}
      /\ ToldOf(ofRole, "sets", "site") = {} /\ ToldOf(ofRole, "adds", "tag") = {}
  <2>1. CASE p.role = Unset \/ p.role = acc.role
    BY <2>1, ToldOfNone DEF FieldLine
  <2>2. CASE ~(p.role = Unset \/ p.role = acc.role)
    <3> DEFINE verb == IF acc.role = Unset THEN "sets" ELSE "not applied"
    <3>1. ofRole = {Effect(i, verb, "role", p.role)}
      BY <2>2 DEF FieldLine
    <3> HIDE DEF verb, ofRole
    <3>2. \A verb2, field2 : ToldOf(ofRole, verb2, field2) =
                               IF verb = verb2 /\ "role" = field2 THEN {p.role} ELSE {}
      BY <3>1, ToldOfOne
    <3> QED BY <2>2, <3>2 DEF verb
  <2> QED BY <2>1, <2>2
<1>2. /\ ToldOf(ofSite, "sets", "site") =
           IF acc.site = Unset /\ p.site # Unset THEN {p.site} ELSE {}
      /\ ToldOf(ofSite, "sets", "role") = {} /\ ToldOf(ofSite, "adds", "tag") = {}
  <2>1. CASE p.site = Unset \/ p.site = acc.site
    BY <2>1, ToldOfNone DEF FieldLine
  <2>2. CASE ~(p.site = Unset \/ p.site = acc.site)
    <3> DEFINE verb == IF acc.site = Unset THEN "sets" ELSE "not applied"
    <3>1. ofSite = {Effect(i, verb, "site", p.site)}
      BY <2>2 DEF FieldLine
    <3> HIDE DEF verb, ofSite
    <3>2. \A verb2, field2 : ToldOf(ofSite, verb2, field2) =
                               IF verb = verb2 /\ "site" = field2 THEN {p.site} ELSE {}
      BY <3>1, ToldOfOne
    <3> QED BY <2>2, <3>2 DEF verb
  <2> QED BY <2>1, <2>2
<1>3. /\ ToldOf(ofTags, "adds", "tag") = p.tags \ acc.tags
      /\ ToldOf(ofTags, "sets", "role") = {} /\ ToldOf(ofTags, "sets", "site") = {}
  <2>1. \A verb, field : ToldOf(ofTags, verb, field) =
                           IF verb = "adds" /\ field = "tag" THEN p.tags \ acc.tags ELSE {}
    <3> DEFINE S == p.tags \ acc.tags
    <3>1. ofTags = {Effect(i, "adds", "tag", t) : t \in S}
      OBVIOUS
    <3> HIDE DEF S, ofTags
    <3>2. \A verb, field : ToldOf(ofTags, verb, field) =
                             IF verb = "adds" /\ field = "tag" THEN S ELSE {}
      BY <3>1, ToldOfTags
    <3> QED BY <3>2 DEF S
  <2> HIDE DEF ofTags
  <2> QED BY <2>1
<1>4. NewLines(acc, i, p) = (ofRole \cup ofSite) \cup ofTags
  BY DEF NewLines
<1> HIDE DEF ofRole, ofSite, ofTags
<1>5. \A verb, field : ToldOf(NewLines(acc, i, p), verb, field) =
        ToldOf(ofRole, verb, field) \cup ToldOf(ofSite, verb, field) \cup ToldOf(ofTags, verb, field)
  <2> TAKE verb, field
  <2>1. ToldOf((ofRole \cup ofSite) \cup ofTags, verb, field) =
          ToldOf(ofRole \cup ofSite, verb, field) \cup ToldOf(ofTags, verb, field)
    BY ToldOfMore
  <2>2. ToldOf(ofRole \cup ofSite, verb, field) =
          ToldOf(ofRole, verb, field) \cup ToldOf(ofSite, verb, field)
    BY ToldOfMore
  <2> QED BY <1>4, <2>1, <2>2
<1> QED BY <1>1, <1>2, <1>3, <1>5

\* Side by side: the fields lint's loop has reached are the device's own with
\* what the patterns have given so far, and its lines tell the difference.
Abreast(e, t, own) ==
  /\ e.role = IF own.role = Unset THEN t.role ELSE own.role
  /\ e.site = IF own.site = Unset THEN t.site ELSE own.site
  /\ e.tags = own.tags \cup t.tags
  /\ ToldOf(e.effects, "sets", "role") = {e.role} \ {own.role}
  /\ ToldOf(e.effects, "sets", "site") = {e.site} \ {own.site}
  /\ ToldOf(e.effects, "adds", "tag") = e.tags \ own.tags

\* One field and one pattern: it is set once, and told then.
LEMMA FieldStep ==
  ASSUME NEW own, NEW e, NEW t, NEW p, NEW lines,
         e = IF own = Unset THEN t ELSE own, lines = {e} \ {own}
  PROVE  LET e2 == IF e = Unset THEN p ELSE e
             t2 == IF t = Unset THEN p ELSE t
         IN /\ e2 = IF own = Unset THEN t2 ELSE own
            /\ lines \cup (IF e = Unset /\ p # Unset THEN {p} ELSE {}) = {e2} \ {own}
<1>1. CASE own # Unset
  BY <1>1
<1>2. CASE own = Unset /\ e = Unset
  BY <1>2
<1>3. CASE own = Unset /\ e # Unset
  BY <1>3
<1> QED BY <1>1, <1>2, <1>3

LEMMA AbreastStep ==
  ASSUME NEW e, NEW own, NEW roles, NEW t \in Attributed(roles, own.name), NEW i, NEW p,
         Usable(p), Abreast(e, t, own)
  PROVE  Abreast(TellOne(e, own, i, p), Attribute(t, p, own.name), own)
<1>1. CASE ~RegexMatches(p.match, own.name)
  BY <1>1, AttributeIs DEF TellOne
<1>2. CASE RegexMatches(p.match, own.name)
  <2> DEFINE e2 == TellOne(e, own, i, p)
             t2 == Attribute(t, p, own.name)
  <2>1. /\ t2.role = IF t.role = Unset THEN p.role ELSE t.role
        /\ t2.site = IF t.site = Unset THEN p.site ELSE t.site
        /\ t2.tags = t.tags \cup p.tags
    <3>1. t2 = [name |-> t.name, role |-> IF t.role = Unset THEN p.role ELSE t.role,
                site |-> IF t.site = Unset THEN p.site ELSE t.site,
                tags |-> t.tags \cup p.tags, status |-> t.status]
      <4> DEFINE listed == own.name
      <4>1. t \in Attributed(roles, listed) /\ RegexMatches(p.match, listed) /\ t2 = Attribute(t, p, listed)
        BY <1>2
      <4> HIDE DEF listed, t2
      <4> QED BY <4>1, AttributeIs
    <3> HIDE DEF t2
    <3> QED BY <3>1
  <2>2. /\ e2.role = IF e.role = Unset THEN p.role ELSE e.role
        /\ e2.site = IF e.site = Unset THEN p.site ELSE e.site
        /\ e2.tags = e.tags \cup (p.tags \ e.tags)
        /\ e2.effects = e.effects \cup NewLines(e, i, p)
    BY <1>2, PatternEffectIs DEF TellOne
  <2> DEFINE new == NewLines(e, i, p)
  <2>3. /\ ToldOf(new, "sets", "role") = IF e.role = Unset /\ p.role # Unset THEN {p.role} ELSE {}
        /\ ToldOf(new, "sets", "site") = IF e.site = Unset /\ p.site # Unset THEN {p.site} ELSE {}
        /\ ToldOf(new, "adds", "tag") = p.tags \ e.tags
    BY NewLinesTell
  <2> HIDE DEF e2, t2, new
  <2>4. \A verb, field : ToldOf(e2.effects, verb, field) =
                           ToldOf(e.effects, verb, field) \cup ToldOf(new, verb, field)
    BY <2>2, ToldOfMore DEF new
  <2>5. /\ e2.role = IF own.role = Unset THEN t2.role ELSE own.role
        /\ ToldOf(e2.effects, "sets", "role") = {e2.role} \ {own.role}
    <3> DEFINE lines == ToldOf(e.effects, "sets", "role")
               o == own.role
               x == e.role
               y == t.role
               q == p.role
    <3>1. x = (IF o = Unset THEN y ELSE o) /\ lines = {x} \ {o}
      BY DEF Abreast
    <3>2. ToldOf(e2.effects, "sets", "role") = lines \cup (IF x = Unset /\ q # Unset THEN {q} ELSE {})
      BY <2>3, <2>4
    <3>3. e2.role = (IF x = Unset THEN q ELSE x) /\ t2.role = (IF y = Unset THEN q ELSE y)
      BY <2>1, <2>2
    <3> HIDE DEF lines, o, x, y, q
    <3>4. /\ e2.role = IF o = Unset THEN t2.role ELSE o
          /\ ToldOf(e2.effects, "sets", "role") = {e2.role} \ {o}
      BY <3>1, <3>2, <3>3, FieldStep
    <3> QED BY <3>4 DEF o
  <2>6. /\ e2.site = IF own.site = Unset THEN t2.site ELSE own.site
        /\ ToldOf(e2.effects, "sets", "site") = {e2.site} \ {own.site}
    <3> DEFINE lines == ToldOf(e.effects, "sets", "site")
               o == own.site
               x == e.site
               y == t.site
               q == p.site
    <3>1. x = (IF o = Unset THEN y ELSE o) /\ lines = {x} \ {o}
      BY DEF Abreast
    <3>2. ToldOf(e2.effects, "sets", "site") = lines \cup (IF x = Unset /\ q # Unset THEN {q} ELSE {})
      BY <2>3, <2>4
    <3>3. e2.site = (IF x = Unset THEN q ELSE x) /\ t2.site = (IF y = Unset THEN q ELSE y)
      BY <2>1, <2>2
    <3> HIDE DEF lines, o, x, y, q
    <3>4. /\ e2.site = IF o = Unset THEN t2.site ELSE o
          /\ ToldOf(e2.effects, "sets", "site") = {e2.site} \ {o}
      BY <3>1, <3>2, <3>3, FieldStep
    <3> QED BY <3>4 DEF o
  <2>7. /\ e2.tags = own.tags \cup t2.tags
        /\ ToldOf(e2.effects, "adds", "tag") = e2.tags \ own.tags
    <3>1. e2.tags = own.tags \cup t2.tags
      BY <2>1, <2>2 DEF Abreast
    <3>2. ToldOf(e2.effects, "adds", "tag") = (e.tags \ own.tags) \cup (p.tags \ e.tags)
      BY <2>3, <2>4 DEF Abreast
    <3>3. own.tags \subseteq e.tags /\ e2.tags = e.tags \cup p.tags
      BY <2>2 DEF Abreast
    <3> QED BY <3>1, <3>2, <3>3
  <2>8. Abreast(e2, t2, own)
    BY <2>5, <2>6, <2>7 DEF Abreast
  <2> QED BY <2>8 DEF e2, t2
<1> QED BY <1>1, <1>2

LEMMA EffectsAre ==
  ASSUME NEW f, IsInventoryDoc(f), FileChain(f), NEW own
  PROVE  Abreast(PatternEffects(f, own), Attributes(f.roles, own.name), own)
<1> DEFINE roles == f.roles
           n == Len(roles)
<1>1. roles \in Seq({roles[i] : i \in DOMAIN roles})
  BY DEF IsInventoryDoc
<1>2. PICK t : IsAttributes(t, roles, own.name) /\ Attributes(roles, own.name) = t[n]
  BY <1>1, AttributesIs
<1>3. PICK e : /\ e[0] = NothingTold(own)
               /\ \A i \in 1..n : e[i] = TellOne(e[i - 1], own, i, roles[i])
               /\ PatternEffects(f, own) = e[n]
  BY <1>1, PatternEffectsIs
<1>4. n \in Nat /\ DOMAIN roles = 1..n
  BY <1>1
<1>5. \A i \in 1..n : Usable(roles[i])
  BY <1>4 DEF FileChain, NewPatterns, Usable
<1> HIDE DEF roles
<1>6. /\ \A i \in 0..n : t[i] \in Attributed(roles, own.name)
      /\ t[0] = NoAttributes(own.name)
      /\ \A i \in 1..n : t[i] = Attribute(t[i - 1], roles[i], own.name)
  BY <1>2 DEF IsAttributes
<1> HIDE DEF n
<1> DEFINE S == {i \in 0..n : Abreast(e[i], t[i], own)}
<1>7. 0 \in S
  <2>1. t[0].role = Unset /\ t[0].site = Unset /\ t[0].tags = {}
    BY <1>6, NoAttributesIs
  <2>2. /\ e[0].role = own.role /\ e[0].site = own.site /\ e[0].tags = own.tags
        /\ e[0].effects = {}
    BY <1>3 DEF NothingTold
  <2>3. Abreast(e[0], t[0], own)
    BY <2>1, <2>2, ToldOfNone DEF Abreast
  <2> QED BY <2>3, <1>4
<1>8. ASSUME NEW i \in 1..n, i - 1 \in S PROVE i \in S
  <2>1. /\ i - 1 \in 0..n /\ t[i - 1] \in Attributed(roles, own.name) /\ Abreast(e[i - 1], t[i - 1], own)
    BY <1>4, <1>6, <1>8
  <2>2. Abreast(TellOne(e[i - 1], own, i, roles[i]), Attribute(t[i - 1], roles[i], own.name), own)
    BY <2>1, <1>5, AbreastStep
  <2> QED BY <2>2, <1>3, <1>4, <1>6
<1>9. n \in S
  <2> HIDE DEF S
  <2>1. 0..n \subseteq S
    BY <1>4, <1>7, <1>8, Upto
  <2> QED BY <2>1, <1>4
<1> QED BY <1>9, <1>2, <1>3 DEF roles

LEMMA EffectsTellIf == StartInv => EffectsTell
<1> SUFFICES ASSUME StartInv, Gated, NEW j \in DOMAIN pipe.file.devices
             PROVE  LET d       == pipe.file.devices[j]
                        r       == ResolveName(pipe.file, d.name)
                        told(verb, field) ==
                          {e.value : e \in {x \in PatternEffects(pipe.file, d).effects :
                                              x.verb = verb /\ x.field = field}}
                    IN /\ {r.out.role} \ {d.role} = told("sets", "role")
                       /\ {r.out.site} \ {d.site} = told("sets", "site")
                       /\ r.out.tags \ d.tags = told("adds", "tag")
                       /\ r.out.status = d.status
                       /\ told("sets", "role") # {} <=> r.src.role = "pattern"
                       /\ told("adds", "tag") = {t \in DOMAIN r.src.tags : r.src.tags[t] = "pattern"}
  BY DEF EffectsTell
<1> DEFINE f == pipe.file
           d == f.devices[j]
           r == ResolveName(f, d.name)
           a == Attributes(f.roles, d.name)
           e == PatternEffects(f, d)
<1>1. IsInventoryDoc(f) /\ FileChain(f)
  BY FileHere
<1>2. Abreast(e, a, d)
  BY <1>1, EffectsAre
<1>3. /\ r.out.role = IF d.role = Unset /\ a.role # Unset THEN a.role ELSE d.role
      /\ r.out.site = IF d.site = Unset /\ a.site # Unset THEN a.site ELSE d.site
      /\ r.out.tags = d.tags \cup a.tags
      /\ r.out.status = d.status
      /\ r.src.role = IF d.role = Unset /\ a.role # Unset THEN "pattern"
                      ELSE IF d.role # Unset THEN "static" ELSE Unset
      /\ DOMAIN r.src.tags = d.tags \cup a.tags
      /\ \A t \in d.tags \cup a.tags :
           r.src.tags[t] = IF t \in a.tags \ d.tags THEN "pattern" ELSE "static"
  <2>1. StaticResolve(f.devices, d.name) = d /\ d = [x \in DeviceFields |-> d[x]]
    BY <1>1, OwnName DEF IsInventoryDoc
  <2> HIDE DEF f, d
  <2> QED BY <2>1, ResolveIs
<1>4. Unset # "pattern"
  BY DEF Unset
<1> HIDE DEF f, d, r, a, e
<1>5. /\ ToldOf(e.effects, "sets", "role") = {r.out.role} \ {d.role}
      /\ ToldOf(e.effects, "sets", "site") = {r.out.site} \ {d.site}
      /\ ToldOf(e.effects, "adds", "tag") = r.out.tags \ d.tags
  BY <1>2, <1>3 DEF Abreast
<1>6. {r.out.role} \ {d.role} # {} <=> r.src.role = "pattern"
  BY <1>3, <1>4
<1>7. r.out.tags \ d.tags = {t \in DOMAIN r.src.tags : r.src.tags[t] = "pattern"}
  BY <1>3
<1> QED BY <1>3, <1>5, <1>6, <1>7 DEF f, d, r, e, ToldOf

\* What the inventory tools say of a file is what the gate does with it:
\* lint's effect lines, its problems, the spelling, the idle patterns.
THEOREM LintAlwaysTells == Spec => []LintTells
<1>1. StartInv => LintTells
  BY OneSpellingIf, EffectsTellIf, IdlePatternsIf, LintAgreesIf DEF LintTells
<1> QED BY <1>1, StartInvHolds, PTL
=============================================================================
