----------------------------- MODULE AuditProofs -----------------------------
(***************************************************************************)
(* What the audit log and the key pair promise, proved for any events, any *)
(* checkpoint distance, any number of faults and any number of keygens.    *)
(***************************************************************************)
EXTENDS MCAudit, SequenceTheorems, WellFoundedInduction, TLAPS

-----------------------------------------------------------------------------
(* Induction *)

\* A set of naturals that is not empty has a least member.
LEMMA NatLeast ==
  ASSUME NEW T, T \subseteq Nat, T # {}
  PROVE  \E x \in T : \A y \in T : ~(y < x)
<1> DEFINE R == {ss \in Nat \X Nat : ss[1] < ss[2]}
<1>1. IsWellFoundedOn(R, Nat)
  BY NatLessThanWellFounded DEF OpToRel
<1> HIDE DEF R
<1>2. \E x \in T : \A y \in T : ~ (<<y, x>> \in R)
  BY <1>1, WFMin
<1>3. QED
  BY <1>2 DEF R

\* Induction over the naturals, stated for a set: what VerifyReader, Rehashed
\* and Said compute line by line is proved with it.
LEMMA NatSetInduction ==
  ASSUME NEW S, S \subseteq Nat, 0 \in S, \A n \in S : n + 1 \in S
  PROVE  S = Nat
<1>1. SUFFICES ASSUME Nat \ S # {} PROVE FALSE
  OBVIOUS
<1>2. PICK x \in Nat \ S : \A y \in Nat \ S : ~(y < x)
  BY <1>1, NatLeast
<1>3. x # 0 /\ x - 1 \in Nat
  BY <1>2
<1>4. x - 1 \in S
  BY <1>2, <1>3
<1>5. x \in S
  BY <1>4, <1>3
<1>6. QED
  BY <1>5, <1>2

\* f[i] is G of i and f[i - 1].
Computes(f, n, t0, G) == f[0] = t0 /\ \A i \in 1..n : f[i] = G[<<i, f[i - 1]>>]

\* There is a function that computes G from t0 step by step.
LEMMA RecursionExists ==
  ASSUME NEW T, NEW n \in Nat, NEW t0 \in T, NEW G \in [(1..n) \X T -> T]
  PROVE  \E f \in [0..n -> T] : Computes(f, n, t0, G)
<1> DEFINE Upto(f, m) == f \in [0..m -> T] /\ f[0] = t0 /\ \A i \in 1..m : f[i] = G[<<i, f[i - 1]>>]
<1> DEFINE S == {m \in Nat : m <= n => \E f : Upto(f, m)}
<1>1. 0 \in S
  <2>1. Upto([i \in 0..0 |-> t0], 0)
    OBVIOUS
  <2>2. QED
    BY <2>1
<1>2. ASSUME NEW m \in S PROVE m + 1 \in S
  <2>1. SUFFICES ASSUME m + 1 <= n PROVE \E f : Upto(f, m + 1)
    OBVIOUS
  <2>2. PICK f : Upto(f, m)
    BY <1>2, <2>1
  <2> DEFINE g == [i \in 0..(m + 1) |-> IF i = m + 1 THEN G[<<m + 1, f[m]>>] ELSE f[i]]
  <2>3. <<m + 1, f[m]>> \in (1..n) \X T
    BY <2>1, <2>2
  <2>4. g \in [0..(m + 1) -> T]
    BY <2>2, <2>3
  <2>5. ASSUME NEW i \in 1..(m + 1) PROVE g[i] = G[<<i, g[i - 1]>>]
    <3>1. CASE i = m + 1
      <4>1. i - 1 = m /\ g[m] = f[m] /\ g[m + 1] = G[<<m + 1, f[m]>>]
        BY <3>1
      <4>2. QED
        BY <3>1, <4>1
    <3>2. CASE i # m + 1
      BY <3>2, <2>2
    <3>3. QED
      BY <3>1, <3>2
  <2>6. g[0] = t0
    BY <2>2
  <2>7. QED
    BY <2>4, <2>5, <2>6
<1> HIDE DEF S
<1>3. S = Nat
  <2>1. S \subseteq Nat
    BY DEF S
  <2>2. QED
    BY <2>1, <1>1, <1>2, NatSetInduction
<1>4. n \in S
  BY <1>3
<1>5. QED
  BY <1>4 DEF S, Computes

-----------------------------------------------------------------------------
(* Replaying a log *)

\* The chain of hashes, the lines of a log and the reports of a replay.
Hash == Seq(Nat \X Events)

CallLine == [type : {"call"}, seq : Nat, event : Events, prev : Hash, hash : Hash]

CheckpointLine == [type : {"checkpoint"}, seq : Nat, hash : Hash, sig : {"key", "other"}]

Line == CallLine \cup CheckpointLine \cup {Torn}

Report == {rep \in [ok : BOOLEAN, lastSeq : Nat, lastHash : Hash] : rep.lastSeq = Len(rep.lastHash)}

Unread == [ok |-> TRUE, lastSeq |-> 0, lastHash |-> GenesisHash]

ReadLine(rep, line, withKey) == IF rep.ok THEN VerifyLine(rep, line, withKey) ELSE rep

\* rep is the sequence of reports of VerifyReader.
IsReplay(rep, lines, withKey) ==
  /\ rep[0] = Unread
  /\ \A i \in 1..Len(lines) : rep[i] = ReadLine(rep[i - 1], lines[i], withKey)

\* Hashing an event makes the chain one longer.
LEMMA HashTypes ==
  ASSUME NEW seq \in Nat, NEW ev \in Events, NEW prev \in Hash
  PROVE  /\ HashEvent(seq, ev, prev) \in Hash
         /\ Len(HashEvent(seq, ev, prev)) = Len(prev) + 1
         /\ EventLine(seq, ev, prev) \in Line
<1>1. HashEvent(seq, ev, prev) \in Hash /\ Len(HashEvent(seq, ev, prev)) = Len(prev) + 1
  BY AppendProperties DEF HashEvent, Hash
<1>2. QED
  BY <1>1 DEF EventLine, Line, CallLine

\* Reading a line makes a report of a report.
LEMMA ReadLineType ==
  ASSUME NEW rep \in Report, NEW line \in Line, NEW withKey \in BOOLEAN
  PROVE  ReadLine(rep, line, withKey) \in Report
<1>1. CASE ~rep.ok
  BY <1>1 DEF ReadLine
<1>2. CASE rep.ok /\ line.type = "checkpoint"
  <2>1. ReadLine(rep, line, withKey) =
          [rep EXCEPT !.ok = /\ line.seq = rep.lastSeq
                             /\ line.hash = rep.lastHash
                             /\ withKey => line.sig = "key"]
    BY <1>2 DEF ReadLine, VerifyLine
  <2>2. QED
    BY <2>1 DEF Report
<1>3. CASE rep.ok /\ line.type = "call"
  <2>1. line \in CallLine
    BY <1>3 DEF Line, CallLine, CheckpointLine, Torn
  <2>2. CASE /\ line.seq = rep.lastSeq + 1
             /\ line.prev = rep.lastHash
             /\ line.hash = HashEvent(line.seq, line.event, rep.lastHash)
    <3>1. ReadLine(rep, line, withKey) = [rep EXCEPT !.lastSeq = line.seq, !.lastHash = line.hash]
      BY <1>3, <2>2 DEF ReadLine, VerifyLine
    <3>2. line.seq \in Nat /\ line.hash \in Hash /\ Len(line.hash) = Len(rep.lastHash) + 1
      <4>1. /\ line.seq \in Nat /\ line.event \in Events /\ line.hash \in Hash
            /\ rep.lastHash \in Hash
        BY <2>1 DEF CallLine, Report
      <4>2. Len(HashEvent(line.seq, line.event, rep.lastHash)) = Len(rep.lastHash) + 1
        BY <4>1, HashTypes
      <4> QED BY <2>2, <4>1, <4>2
    <3>3. /\ ReadLine(rep, line, withKey) = [ok |-> rep.ok, lastSeq |-> line.seq, lastHash |-> line.hash]
          /\ rep.ok \in BOOLEAN /\ rep.lastSeq = Len(rep.lastHash)
      BY <3>1 DEF Report
    <3>4. line.seq = Len(line.hash)
      BY <2>2, <3>2, <3>3
    <3>5. QED
      BY <3>2, <3>3, <3>4 DEF Report
  <2>3. CASE ~(/\ line.seq = rep.lastSeq + 1
               /\ line.prev = rep.lastHash
               /\ line.hash = HashEvent(line.seq, line.event, rep.lastHash))
    <3>1. ReadLine(rep, line, withKey) = [rep EXCEPT !.ok = FALSE]
      BY <1>3, <2>3 DEF ReadLine, VerifyLine
    <3>2. QED
      BY <3>1 DEF Report
  <2>4. QED
    BY <2>2, <2>3
<1>4. CASE rep.ok /\ line.type \notin {"call", "checkpoint"}
  <2>1. ReadLine(rep, line, withKey) = [rep EXCEPT !.ok = FALSE]
    BY <1>4 DEF ReadLine, VerifyLine
  <2>2. QED
    BY <2>1 DEF Report
<1>5. QED
  BY <1>1, <1>2, <1>3, <1>4

\* A log can be replayed from its first line to its last.
LEMMA ReplayExists ==
  ASSUME NEW lines \in Seq(Line), NEW withKey \in BOOLEAN
  PROVE  \E rep \in [0..Len(lines) -> Report] : IsReplay(rep, lines, withKey)
<1> DEFINE G == [p \in (1..Len(lines)) \X Report |-> ReadLine(p[2], lines[p[1]], withKey)]
<1>1. G \in [(1..Len(lines)) \X Report -> Report]
  BY ReadLineType
<1>2. Unread \in Report
  BY DEF Unread, Report, GenesisHash, Hash
<1>3. PICK rep \in [0..Len(lines) -> Report] : Computes(rep, Len(lines), Unread, G)
  <2>1. Len(lines) \in Nat
    OBVIOUS
  <2> HIDE DEF G
  <2>2. QED
    BY <1>1, <1>2, <2>1, RecursionExists
<1>4. ASSUME NEW i \in 1..Len(lines) PROVE rep[i] = ReadLine(rep[i - 1], lines[i], withKey)
  <2>1. <<i, rep[i - 1]>> \in (1..Len(lines)) \X Report
    OBVIOUS
  <2>2. QED
    BY <1>3, <2>1 DEF Computes
<1>5. QED
  BY <1>3, <1>4 DEF IsReplay, Computes

\* Two logs that agree up to line n have the same reports up to there.
LEMMA ReplayUnique ==
  ASSUME NEW lines \in Seq(Line), NEW others \in Seq(Line), NEW n \in Nat,
         n <= Len(lines), n <= Len(others), \A i \in 1..n : lines[i] = others[i],
         NEW withKey, NEW f, NEW g, IsReplay(f, lines, withKey), IsReplay(g, others, withKey)
  PROVE  \A i \in 0..n : f[i] = g[i]
<1> DEFINE S == {i \in Nat : i <= n => f[i] = g[i]}
<1>1. 0 \in S
  BY DEF IsReplay
<1>2. ASSUME NEW i \in S PROVE i + 1 \in S
  <2>1. SUFFICES ASSUME i + 1 <= n PROVE f[i + 1] = g[i + 1]
    OBVIOUS
  <2>2. i + 1 \in 1..Len(lines) /\ i + 1 \in 1..Len(others) /\ i + 1 \in 1..n /\ (i + 1) - 1 = i
    BY <2>1
  <2>3. f[i] = g[i]
    BY <2>1
  <2>4. QED
    BY <2>2, <2>3 DEF IsReplay
<1> HIDE DEF S
<1>3. S \subseteq Nat
  BY DEF S
<1>4. S = Nat
  BY <1>1, <1>2, <1>3, NatSetInduction
<1>5. QED
  BY <1>4 DEF S

\* VerifyReader returns the last report of the replay.
LEMMA VerifyReaderIs ==
  ASSUME NEW lines \in Seq(Line), NEW withKey \in BOOLEAN,
         NEW rep \in [0..Len(lines) -> Report], IsReplay(rep, lines, withKey)
  PROVE  VerifyReader(lines, withKey) = rep[Len(lines)]
<1> DEFINE D(f) == [i \in 0..Len(lines) |->
        IF i = 0 THEN [ok |-> TRUE, lastSeq |-> 0, lastHash |-> GenesisHash]
        ELSE IF f[i - 1].ok THEN VerifyLine(f[i - 1], lines[i], withKey)
        ELSE f[i - 1]]
<1> DEFINE c == CHOOSE f : f = D(f)
<1>1. rep = D(rep)
  <2>1. rep = [i \in 0..Len(lines) |-> rep[i]]
    BY DEF IsReplay
  <2>2. \A i \in 0..Len(lines) : rep[i] = D(rep)[i]
    BY DEF IsReplay, Unread, ReadLine
  <2>3. QED
    BY <2>1, <2>2
<1>2. c = D(c)
  <2> HIDE DEF D
  <2>1. QED
    BY <1>1
<1>3. VerifyReader(lines, withKey) = c[Len(lines)]
  BY DEF VerifyReader
<1> HIDE DEF c
<1>4. IsReplay(c, lines, withKey)
  <2>1. Len(lines) \in Nat
    OBVIOUS
  <2>2. c[0] = Unread
    BY <1>2, <2>1 DEF Unread
  <2>3. ASSUME NEW i \in 1..Len(lines) PROVE c[i] = ReadLine(c[i - 1], lines[i], withKey)
    <3>1. i \in 0..Len(lines) /\ i # 0
      BY <2>1
    <3>2. QED
      BY <1>2, <3>1 DEF ReadLine
  <2>4. QED
    BY <2>2, <2>3 DEF IsReplay
<1>5. QED
  BY <1>3, <1>4, ReplayUnique

\* An empty log verifies.
LEMMA VerifyEmpty ==
  ASSUME NEW withKey \in BOOLEAN
  PROVE  VerifyReader(<<>>, withKey) = Unread
<1>1. <<>> \in Seq(Line) /\ Len(<<>>) = 0
  OBVIOUS
<1>2. PICK rep \in [0..Len(<<>>) -> Report] : IsReplay(rep, <<>>, withKey)
  BY <1>1, ReplayExists
<1>3. QED
  BY <1>1, <1>2, VerifyReaderIs DEF IsReplay

\* VerifyReader returns a report whose seq is the length of its chain.
LEMMA VerifyType ==
  ASSUME NEW lines \in Seq(Line), NEW withKey \in BOOLEAN
  PROVE  VerifyReader(lines, withKey) \in Report
<1>1. PICK rep \in [0..Len(lines) -> Report] : IsReplay(rep, lines, withKey)
  BY ReplayExists
<1>2. VerifyReader(lines, withKey) = rep[Len(lines)]
  BY <1>1, VerifyReaderIs
<1>3. QED
  BY <1>2

\* A log verifies as its lines but the last do, and then the last.
LEMMA VerifyLast ==
  ASSUME NEW lines \in Seq(Line), NEW shorter \in Seq(Line), NEW withKey \in BOOLEAN,
         Len(lines) = Len(shorter) + 1, \A i \in 1..Len(shorter) : lines[i] = shorter[i]
  PROVE  VerifyReader(lines, withKey) = ReadLine(VerifyReader(shorter, withKey), lines[Len(lines)], withKey)
<1>1. PICK rep \in [0..Len(lines) -> Report] : IsReplay(rep, lines, withKey)
  BY ReplayExists
<1>2. PICK sh \in [0..Len(shorter) -> Report] : IsReplay(sh, shorter, withKey)
  BY ReplayExists
<1>3. VerifyReader(lines, withKey) = rep[Len(lines)] /\ VerifyReader(shorter, withKey) = sh[Len(shorter)]
  BY <1>1, <1>2, VerifyReaderIs
<1>4. Len(shorter) \in Nat /\ Len(shorter) <= Len(lines)
  OBVIOUS
<1>5. rep[Len(shorter)] = sh[Len(shorter)]
  BY <1>1, <1>2, <1>4, ReplayUnique
<1>6. rep[Len(lines)] = ReadLine(rep[Len(lines) - 1], lines[Len(lines)], withKey)
  BY <1>1 DEF IsReplay
<1>7. Len(lines) - 1 = Len(shorter)
  BY <1>4
<1>8. QED
  BY <1>3, <1>5, <1>6, <1>7

\* The same for a line that is appended.
LEMMA VerifyAppend ==
  ASSUME NEW lines \in Seq(Line), NEW line \in Line, NEW withKey \in BOOLEAN
  PROVE  VerifyReader(Append(lines, line), withKey) = ReadLine(VerifyReader(lines, withKey), line, withKey)
<1>1. /\ Append(lines, line) \in Seq(Line)
      /\ Len(Append(lines, line)) = Len(lines) + 1
      /\ \A i \in 1..Len(lines) : Append(lines, line)[i] = lines[i]
      /\ Append(lines, line)[Len(lines) + 1] = line
  BY AppendProperties
<1>2. QED
  BY <1>1, VerifyLast

\* A sequence that is not empty is a shorter one and its last element.
LEMMA ButLast ==
  ASSUME NEW T, NEW s \in Seq(T), s # <<>>
  PROVE  \E t \in Seq(T) : Len(s) = Len(t) + 1 /\ \A i \in 1..Len(t) : s[i] = t[i]
<1>1. PICK n \in Nat : Len(s) = n + 1
  <2>1. Len(s) \in Nat \ {0}
    BY EmptySeq
  <2>2. QED
    BY <2>1
<1>2. \A i \in 1..n : s[i] \in T
  BY <1>1
<1> DEFINE t == [i \in 1..n |-> s[i]]
<1>3. t \in [1..n -> T]
  BY <1>2
<1>4. t \in Seq(T) /\ Len(t) = n
  BY <1>3
<1>5. QED
  BY <1>1, <1>4

\* No log that ends with a torn line verifies.
LEMMA VerifyTorn ==
  ASSUME NEW lines \in Seq(Line), lines # <<>>, lines[Len(lines)] = Torn, NEW withKey \in BOOLEAN
  PROVE  ~VerifyReader(lines, withKey).ok
<1>1. PICK shorter \in Seq(Line) :
        Len(lines) = Len(shorter) + 1 /\ \A i \in 1..Len(shorter) : lines[i] = shorter[i]
  BY ButLast
<1>2. VerifyReader(lines, withKey) = ReadLine(VerifyReader(shorter, withKey), Torn, withKey)
  BY <1>1, VerifyLast
<1>3. VerifyReader(shorter, withKey) \in Report
  BY VerifyType
<1>4. QED
  BY <1>2, <1>3 DEF ReadLine, VerifyLine, Report, Torn

\* A log that verifies with the key verifies without it, to the same chain.
LEMMA KeyAgrees ==
  ASSUME NEW lines \in Seq(Line), VerifyWithKey(lines).ok
  PROVE  Verify(lines) = VerifyWithKey(lines)
<1>1. PICK f \in [0..Len(lines) -> Report] : IsReplay(f, lines, TRUE)
  BY ReplayExists
<1>2. PICK g \in [0..Len(lines) -> Report] : IsReplay(g, lines, FALSE)
  BY ReplayExists
<1>3. VerifyWithKey(lines) = f[Len(lines)] /\ Verify(lines) = g[Len(lines)]
  BY <1>1, <1>2, VerifyReaderIs DEF Verify, VerifyWithKey
<1> DEFINE S == {i \in Nat : i <= Len(lines) => (f[i].ok => f[i] = g[i])}
<1>4. 0 \in S
  BY <1>1, <1>2 DEF IsReplay
<1>5. ASSUME NEW i \in S PROVE i + 1 \in S
  <2>1. SUFFICES ASSUME i + 1 <= Len(lines), f[i + 1].ok PROVE f[i + 1] = g[i + 1]
    OBVIOUS
  <2>2. i + 1 \in 1..Len(lines) /\ (i + 1) - 1 = i /\ i \in 0..Len(lines) /\ i <= Len(lines)
    BY <2>1
  <2>3. f[i + 1] = ReadLine(f[i], lines[i + 1], TRUE) /\ g[i + 1] = ReadLine(g[i], lines[i + 1], FALSE)
    BY <1>1, <1>2, <2>2 DEF IsReplay
  <2>4. f[i].ok /\ f[i] = g[i]
    BY <2>1, <2>2, <2>3 DEF ReadLine
  <2>5. f[i] \in Report /\ lines[i + 1] \in Line
    BY <2>2
  <2>6. QED
    BY <2>1, <2>3, <2>4, <2>5 DEF ReadLine, VerifyLine, Report
<1> HIDE DEF S
<1>6. S \subseteq Nat
  BY DEF S
<1>7. S = Nat
  BY <1>4, <1>5, <1>6, NatSetInduction
<1>8. QED
  BY <1>3, <1>7 DEF S

\* A log that verifies verifies up to each of its lines.
LEMMA OkThroughout ==
  ASSUME NEW lines \in Seq(Line), NEW withKey \in BOOLEAN, NEW rep, IsReplay(rep, lines, withKey),
         rep[Len(lines)].ok
  PROVE  \A i \in 0..Len(lines) : rep[i].ok
<1> SUFFICES ASSUME NEW k \in 0..Len(lines), ~rep[k].ok PROVE FALSE
  OBVIOUS
<1> DEFINE S == {i \in Nat : k <= i /\ i <= Len(lines) => ~rep[i].ok}
<1>1. 0 \in S
  OBVIOUS
<1>2. ASSUME NEW i \in S PROVE i + 1 \in S
  <2>1. SUFFICES ASSUME k <= i + 1, i + 1 <= Len(lines) PROVE ~rep[i + 1].ok
    OBVIOUS
  <2>2. CASE k = i + 1
    BY <2>2
  <2>3. CASE k <= i
    <3>1. i + 1 \in 1..Len(lines) /\ (i + 1) - 1 = i /\ ~rep[i].ok
      BY <2>1, <2>3
    <3>2. rep[i + 1] = ReadLine(rep[i], lines[i + 1], withKey)
      BY <3>1 DEF IsReplay
    <3>3. QED
      BY <3>1, <3>2 DEF ReadLine
  <2>4. QED
    BY <2>1, <2>2, <2>3
<1> HIDE DEF S
<1>3. S \subseteq Nat
  BY DEF S
<1>4. S = Nat
  BY <1>1, <1>2, <1>3, NatSetInduction
<1>5. QED
  BY <1>4 DEF S

\* said follows the equations of Said.
IsSaid(said, lines) ==
  /\ said[0] = GenesisHash
  /\ \A i \in 1..Len(lines) :
       said[i] = IF lines[i].type = "call" THEN Append(said[i - 1], <<lines[i].seq, lines[i].event>>)
                 ELSE said[i - 1]

\* Said follows its equations.
LEMMA SaidIs ==
  ASSUME NEW lines \in Seq(Line)
  PROVE  \E said : IsSaid(said, lines) /\ \A n \in 0..Len(lines) : Said(lines, n) = said[n]
<1> DEFINE Next1(p) == IF lines[p[1]].type = "call" THEN Append(p[2], <<lines[p[1]].seq, lines[p[1]].event>>)
                       ELSE p[2]
<1> DEFINE G == [p \in (1..Len(lines)) \X Hash |-> Next1(p)]
<1>1. G \in [(1..Len(lines)) \X Hash -> Hash]
  <2>1. ASSUME NEW p \in (1..Len(lines)) \X Hash PROVE Next1(p) \in Hash
    <3>1. CASE lines[p[1]].type = "call"
      <4>1. lines[p[1]] \in CallLine
        BY <3>1 DEF Line, CheckpointLine, Torn
      <4>2. <<lines[p[1]].seq, lines[p[1]].event>> \in Nat \X Events
        BY <4>1 DEF CallLine
      <4>3. QED
        BY <3>1, <4>2, AppendProperties DEF Hash
    <3>2. CASE lines[p[1]].type # "call"
      BY <3>2
    <3>3. QED
      BY <3>1, <3>2
  <2> HIDE DEF Next1
  <2>2. QED
    BY <2>1
<1>2. GenesisHash \in Hash /\ Len(lines) \in Nat
  BY DEF Hash, GenesisHash
<1>3. PICK f \in [0..Len(lines) -> Hash] : Computes(f, Len(lines), GenesisHash, G)
  <2> HIDE DEF G
  <2>1. QED
    BY <1>1, <1>2, RecursionExists
<1>4. ASSUME NEW i \in 1..Len(lines)
      PROVE  f[i] = IF lines[i].type = "call" THEN Append(f[i - 1], <<lines[i].seq, lines[i].event>>)
                    ELSE f[i - 1]
  <2>1. <<i, f[i - 1]>> \in (1..Len(lines)) \X Hash
    OBVIOUS
  <2>2. QED
    BY <1>3, <2>1 DEF Computes
<1>5. f[0] = GenesisHash
  BY <1>3 DEF Computes
<1> DEFINE D(h) == [i \in 0..Len(lines) |->
        IF i = 0 THEN GenesisHash
        ELSE IF lines[i].type = "call" THEN Append(h[i - 1], <<lines[i].seq, lines[i].event>>)
        ELSE h[i - 1]]
<1> DEFINE c == CHOOSE h : h = D(h)
<1>6. f = D(f)
  <2>1. f = [i \in 0..Len(lines) |-> f[i]]
    OBVIOUS
  <2>2. ASSUME NEW i \in 0..Len(lines) PROVE f[i] = D(f)[i]
    <3>1. CASE i = 0
      BY <1>5, <3>1
    <3>2. CASE i \in 1..Len(lines)
      <4>1. D(f)[i] = IF lines[i].type = "call" THEN Append(f[i - 1], <<lines[i].seq, lines[i].event>>)
                      ELSE f[i - 1]
        BY <3>2
      <4>2. QED
        BY <1>4, <3>2, <4>1
    <3>3. QED
      BY <3>1, <3>2
  <2>3. QED
    BY <2>1, <2>2
<1>7. c = D(c)
  <2> HIDE DEF D
  <2>1. QED
    BY <1>6
<1>8. \A n \in 0..Len(lines) : Said(lines, n) = c[n]
  BY DEF Said
<1> HIDE DEF c
<1>9. IsSaid(c, lines)
  <2>1. c[0] = GenesisHash
    BY <1>7, <1>2
  <2>2. ASSUME NEW i \in 1..Len(lines)
        PROVE  c[i] = IF lines[i].type = "call" THEN Append(c[i - 1], <<lines[i].seq, lines[i].event>>)
                      ELSE c[i - 1]
    <3>1. i \in 0..Len(lines) /\ i # 0
      BY <1>2
    <3>2. QED
      BY <1>7, <3>1
  <2>3. QED
    BY <2>1, <2>2 DEF IsSaid
<1>10. QED
  BY <1>8, <1>9

\* In a log that verifies with the key a checkpoint is signed by the key,
\* and its hash is what the lines before it say.
LEMMA CheckpointTells ==
  ASSUME NEW lines \in Seq(Line), VerifyWithKey(lines).ok,
         NEW n \in 1..Len(lines), lines[n].type = "checkpoint"
  PROVE  lines[n].sig = "key" /\ lines[n].hash = Said(lines, n)
<1>1. PICK rep \in [0..Len(lines) -> Report] : IsReplay(rep, lines, TRUE)
  BY ReplayExists
<1>2. rep[Len(lines)].ok
  BY <1>1, VerifyReaderIs DEF VerifyWithKey
<1>3. \A i \in 0..Len(lines) : rep[i].ok
  BY <1>1, <1>2, OkThroughout
<1>4. PICK said : IsSaid(said, lines) /\ \A i \in 0..Len(lines) : Said(lines, i) = said[i]
  BY SaidIs
<1> DEFINE S == {i \in Nat : i <= Len(lines) => rep[i].lastHash = said[i]}
<1>5. ASSUME NEW i \in 1..Len(lines)
      PROVE  /\ rep[i] = VerifyLine(rep[i - 1], lines[i], TRUE)
             /\ rep[i].ok /\ rep[i - 1].ok
             /\ rep[i - 1] \in Report /\ lines[i] \in Line
  <2>1. i \in 0..Len(lines) /\ i - 1 \in 0..Len(lines)
    OBVIOUS
  <2>2. rep[i] = ReadLine(rep[i - 1], lines[i], TRUE)
    BY <1>1 DEF IsReplay
  <2>3. rep[i].ok /\ rep[i - 1].ok /\ rep[i - 1] \in Report /\ lines[i] \in Line
    BY <1>3, <2>1
  <2>4. QED
    BY <2>2, <2>3 DEF ReadLine
<1>6. 0 \in S
  BY <1>1, <1>4 DEF IsReplay, IsSaid, Unread, GenesisHash
<1>7. ASSUME NEW j \in S PROVE j + 1 \in S
  <2>1. SUFFICES ASSUME j + 1 <= Len(lines) PROVE rep[j + 1].lastHash = said[j + 1]
    OBVIOUS
  <2>2. j + 1 \in 1..Len(lines) /\ (j + 1) - 1 = j /\ rep[j].lastHash = said[j]
    BY <2>1
  <2>3. /\ rep[j + 1] = VerifyLine(rep[j], lines[j + 1], TRUE)
        /\ rep[j + 1].ok /\ rep[j] \in Report /\ lines[j + 1] \in Line
    BY <2>2, <1>5
  <2>4. CASE lines[j + 1].type = "call"
    <3>1. rep[j + 1].lastHash = HashEvent(lines[j + 1].seq, lines[j + 1].event, rep[j].lastHash)
      BY <2>3, <2>4 DEF VerifyLine, Report
    <3>2. QED
      BY <3>1, <2>2, <2>4, <1>4 DEF IsSaid, HashEvent
  <2>5. CASE lines[j + 1].type = "checkpoint"
    <3>1. rep[j + 1].lastHash = rep[j].lastHash
      BY <2>3, <2>5 DEF VerifyLine, Report
    <3>2. QED
      BY <3>1, <2>2, <2>5, <1>4 DEF IsSaid
  <2>6. lines[j + 1].type \in {"call", "checkpoint"}
    BY <2>3 DEF VerifyLine, Report
  <2>7. QED
    BY <2>4, <2>5, <2>6
<1> HIDE DEF S
<1>8. S \subseteq Nat
  BY DEF S
<1>9. S = Nat
  BY <1>6, <1>7, <1>8, NatSetInduction
<1>10. rep[n - 1].lastHash = said[n - 1]
  BY <1>9 DEF S
<1>11. lines[n].sig = "key" /\ lines[n].hash = rep[n - 1].lastHash
  BY <1>5 DEF VerifyLine, Report
<1>12. said[n] = said[n - 1]
  BY <1>4 DEF IsSaid
<1>13. QED
  BY <1>4, <1>10, <1>11, <1>12

-----------------------------------------------------------------------------
(* Edits of the file *)

Rehash == [hash : Hash, line : Line]

\* An edited line has the type of the one it replaces; what is a checkpoint
\* with a signature of the key is the line that was there.
Edited(new, line) ==
  /\ new.type = line.type
  /\ new.type = "checkpoint" /\ new.sig = "key" => new = line

\* A line hashed again is a line, of the type it had, and a checkpoint with
\* another hash has lost its signature.
LEMMA RehashedLineType ==
  ASSUME NEW prev \in Hash, NEW line \in Line
  PROVE  /\ RehashedLine(prev, line) \in Rehash
         /\ Edited(RehashedLine(prev, line).line, line)
<1>1. CASE line.type = "call"
  <2>1. line \in CallLine
    BY <1>1 DEF Line, CheckpointLine, Torn
  <2> DEFINE seq == Len(prev) + 1
             ev == line.event
  <2>2. seq \in Nat /\ ev \in Events
    BY <2>1 DEF CallLine, Hash
  <2>3. RehashedLine(prev, line) =
          [hash |-> EventLine(seq, ev, prev).hash, line |-> EventLine(seq, ev, prev)]
    BY <1>1 DEF RehashedLine
  <2> HIDE DEF seq, ev
  <2>4. HashEvent(seq, ev, prev) \in Hash /\ EventLine(seq, ev, prev) \in Line
    BY <2>2, HashTypes
  <2>5. EventLine(seq, ev, prev).type = "call" /\ EventLine(seq, ev, prev).hash = HashEvent(seq, ev, prev)
    BY DEF EventLine
  <2>6. QED
    BY <1>1, <2>3, <2>4, <2>5 DEF Rehash, Edited
<1>2. CASE line.type = "checkpoint" /\ line.hash # prev
  <2>1. line \in CheckpointLine
    BY <1>2 DEF Line, CallLine, Torn
  <2> DEFINE other == [line EXCEPT !.seq = Len(prev), !.hash = prev, !.sig = "other"]
  <2>2. RehashedLine(prev, line) = [hash |-> prev, line |-> other]
    BY <1>2 DEF RehashedLine
  <2>3. other \in CheckpointLine /\ other.sig = "other"
    <3>1. Len(prev) \in Nat
      BY DEF Hash
    <3>2. QED
      BY <2>1, <3>1 DEF CheckpointLine
  <2> HIDE DEF other
  <2>4. other \in Line /\ other.type = "checkpoint"
    BY <2>3 DEF Line, CheckpointLine
  <2>5. QED
    BY <1>2, <2>2, <2>3, <2>4 DEF Rehash, Edited
<1>3. CASE line.type # "call" /\ ~(line.type = "checkpoint" /\ line.hash # prev)
  <2>1. RehashedLine(prev, line) = [hash |-> prev, line |-> line]
    BY <1>3 DEF RehashedLine
  <2>2. QED
    BY <2>1 DEF Rehash, Edited
<1>4. QED
  BY <1>1, <1>2, <1>3

\* The same for the log that is hashed again.
LEMMA RehashedType ==
  ASSUME NEW lines \in Seq(Line)
  PROVE  /\ Rehashed(lines) \in [1..Len(lines) -> Line]
         /\ \A i \in 1..Len(lines) : Edited(Rehashed(lines)[i], lines[i])
<1> DEFINE G == [p \in (1..Len(lines)) \X Rehash |-> RehashedLine(p[2].hash, lines[p[1]])]
<1> DEFINE t0 == [hash |-> GenesisHash, line |-> Torn]
<1>1. G \in [(1..Len(lines)) \X Rehash -> Rehash]
  <2>1. ASSUME NEW p \in (1..Len(lines)) \X Rehash
        PROVE  RehashedLine(p[2].hash, lines[p[1]]) \in Rehash
    <3>1. p[2].hash \in Hash /\ lines[p[1]] \in Line
      BY DEF Rehash
    <3>2. QED
      BY <3>1, RehashedLineType
  <2>2. QED
    BY <2>1
<1>2. t0 \in Rehash /\ Len(lines) \in Nat
  BY DEF Hash, GenesisHash, Rehash, Line
<1>3. PICK f \in [0..Len(lines) -> Rehash] : Computes(f, Len(lines), t0, G)
  <2> HIDE DEF G, t0
  <2>1. QED
    BY <1>1, <1>2, RecursionExists
<1>4. ASSUME NEW i \in 1..Len(lines) PROVE f[i] = RehashedLine(f[i - 1].hash, lines[i])
  <2>1. <<i, f[i - 1]>> \in (1..Len(lines)) \X Rehash
    OBVIOUS
  <2>2. QED
    BY <1>3, <2>1 DEF Computes
<1>5. f[0] = t0
  BY <1>3 DEF Computes
<1> HIDE DEF t0
<1> DEFINE D(h) == [i \in 0..Len(lines) |->
        IF i = 0 THEN t0 ELSE RehashedLine(h[i - 1].hash, lines[i])]
<1> DEFINE c == CHOOSE h : h = D(h)
<1>6. f = D(f)
  <2>1. f = [i \in 0..Len(lines) |-> f[i]]
    OBVIOUS
  <2>2. ASSUME NEW i \in 0..Len(lines) PROVE f[i] = D(f)[i]
    <3>1. CASE i = 0
      BY <1>5, <3>1
    <3>2. CASE i \in 1..Len(lines)
      BY <1>4, <3>2
    <3>3. QED
      BY <3>1, <3>2
  <2>3. QED
    BY <2>1, <2>2
<1>7. c = D(c)
  <2> HIDE DEF D
  <2>1. QED
    BY <1>6
<1>8. Rehashed(lines) = [i \in 1..Len(lines) |-> c[i].line]
  BY DEF Rehashed, t0
<1> HIDE DEF c
<1> DEFINE S == {i \in Nat : i <= Len(lines) => c[i] \in Rehash}
<1>9. ASSUME NEW i \in 1..Len(lines) PROVE c[i] = RehashedLine(c[i - 1].hash, lines[i])
  <2>1. i \in 0..Len(lines) /\ i # 0
    BY <1>2
  <2>2. QED
    BY <1>7, <2>1
<1>10. 0 \in S
  <2>1. c[0] = t0
    BY <1>7, <1>2
  <2>2. QED
    BY <2>1, <1>2
<1>11. ASSUME NEW i \in S PROVE i + 1 \in S
  <2>1. SUFFICES ASSUME i + 1 <= Len(lines) PROVE c[i + 1] \in Rehash
    OBVIOUS
  <2>2. i + 1 \in 1..Len(lines) /\ (i + 1) - 1 = i /\ c[i] \in Rehash
    BY <2>1
  <2>3. c[i + 1] = RehashedLine(c[i].hash, lines[i + 1])
    BY <1>9, <2>2
  <2>4. c[i].hash \in Hash /\ lines[i + 1] \in Line
    BY <2>2 DEF Rehash
  <2>5. QED
    BY <2>3, <2>4, RehashedLineType
<1> HIDE DEF S
<1>12. S = Nat
  <2>1. S \subseteq Nat
    BY DEF S
  <2>2. QED
    BY <1>10, <1>11, <2>1, NatSetInduction
<1>13. ASSUME NEW i \in 1..Len(lines) PROVE c[i].line \in Line /\ Edited(c[i].line, lines[i])
  <2>1. c[i - 1] \in Rehash /\ c[i] \in Rehash
    BY <1>12 DEF S
  <2>2. c[i - 1].hash \in Hash /\ lines[i] \in Line
    BY <2>1 DEF Rehash
  <2>3. QED
    BY <1>9, <2>1, <2>2, RehashedLineType DEF Rehash
<1>14. QED
  BY <1>8, <1>13

\* The lines of an edited log with a signature of the key are lines it had.
SignedKept(new, lines) ==
  \A i \in 1..Len(new) :
    new[i].type = "checkpoint" /\ new[i].sig = "key" => \E j \in 1..Len(lines) : new[i] = lines[j]

\* A log edited line by line has no signature it did not have.
LEMMA EditedType ==
  ASSUME NEW lines \in Seq(Line), NEW new \in [1..Len(lines) -> Line],
         \A i \in 1..Len(lines) : Edited(new[i], lines[i])
  PROVE  new \in Seq(Line) /\ SignedKept(new, lines)
<1>1. new \in Seq(Line) /\ Len(new) = Len(lines)
  OBVIOUS
<1>2. QED
  BY <1>1 DEF SignedKept, Edited

\* A line put in that is a line of the log, or an event, brings no signature.
LEMMA InsertedType ==
  ASSUME NEW lines \in Seq(Line), NEW n \in 1..Len(lines) + 1, NEW line \in Line,
         line.type = "call" \/ \E m \in 1..Len(lines) : line = lines[m]
  PROVE  Inserted(lines, n, line) \in Seq(Line) /\ SignedKept(Inserted(lines, n, line), lines)
<1> DEFINE a == SubSeq(lines, 1, n - 1)
           b == SubSeq(lines, n, Len(lines))
           OfFile(x) == x.type = "call" \/ \E j \in 1..Len(lines) : x = lines[j]
<1>1. a \in Seq(Line) /\ \A i \in 1..Len(a) : \E j \in 1..Len(lines) : a[i] = lines[j]
  OBVIOUS
<1>2. b \in Seq(Line) /\ \A i \in 1..Len(b) : \E j \in 1..Len(lines) : b[i] = lines[j]
  OBVIOUS
<1>3. Inserted(lines, n, line) = Append(a, line) \o b
  BY DEF Inserted
<1> HIDE DEF a, b
<1> DEFINE c == Append(a, line)
<1>4. c \in Seq(Line) /\ Len(c) = Len(a) + 1 /\ \A i \in 1..Len(c) : c[i] = IF i <= Len(a) THEN a[i] ELSE line
  BY <1>1
<1>5. \A i \in 1..Len(c) : OfFile(c[i])
  BY <1>1, <1>4
<1>6. Inserted(lines, n, line) = c \o b
  BY <1>3
<1> HIDE DEF c
<1>7. /\ c \o b \in Seq(Line) /\ Len(c \o b) = Len(c) + Len(b)
      /\ \A i \in 1..(Len(c) + Len(b)) : (c \o b)[i] = IF i <= Len(c) THEN c[i] ELSE b[i - Len(c)]
  BY <1>2, <1>4, ConcatProperties
<1>8. Len(c) \in Nat /\ Len(b) \in Nat
  BY <1>2, <1>4
<1>9. ASSUME NEW i \in 1..Len(c \o b) PROVE OfFile((c \o b)[i])
  <2>1. CASE i <= Len(c)
    BY <1>5, <1>7, <1>8, <1>9, <2>1
  <2>2. CASE ~(i <= Len(c))
    <3>1. i - Len(c) \in 1..Len(b) /\ (c \o b)[i] = b[i - Len(c)]
      BY <1>7, <1>8, <1>9, <2>2
    <3>2. QED
      BY <1>2, <3>1
  <2>3. QED
    BY <2>1, <2>2
<1>10. QED
  BY <1>6, <1>7, <1>9 DEF SignedKept

\* Rearranging the lines makes no signature.
LEMMA RearrangedType ==
  ASSUME file \in Seq(Line), NEW new \in Rearranged
  PROVE  new \in Seq(Line) /\ SignedKept(new, file)
<1>1. ASSUME NEW n \in 0..Len(file), new = SubSeq(file, 1, n) PROVE new \in Seq(Line) /\ SignedKept(new, file)
  BY <1>1 DEF SignedKept
<1>2. ASSUME NEW n \in 1..Len(file), new = SubSeq(file, 1, n - 1) \o SubSeq(file, n + 1, Len(file))
      PROVE  new \in Seq(Line) /\ SignedKept(new, file)
  <2> DEFINE a == SubSeq(file, 1, n - 1)
             b == SubSeq(file, n + 1, Len(file))
  <2>1. a \in Seq(Line) /\ \A i \in 1..Len(a) : \E j \in 1..Len(file) : a[i] = file[j]
    OBVIOUS
  <2>2. b \in Seq(Line) /\ \A i \in 1..Len(b) : \E j \in 1..Len(file) : b[i] = file[j]
    OBVIOUS
  <2>3. new = a \o b
    BY <1>2
  <2> HIDE DEF a, b
  <2>4. /\ new \in Seq(Line) /\ Len(new) = Len(a) + Len(b)
        /\ \A i \in 1..(Len(a) + Len(b)) : new[i] = IF i <= Len(a) THEN a[i] ELSE b[i - Len(a)]
    BY <2>1, <2>2, <2>3, ConcatProperties
  <2>5. Len(a) \in Nat /\ Len(b) \in Nat
    BY <2>1, <2>2
  <2>6. ASSUME NEW i \in 1..Len(new) PROVE \E j \in 1..Len(file) : new[i] = file[j]
    <3>1. CASE i <= Len(a)
      BY <2>1, <2>4, <2>5, <2>6, <3>1
    <3>2. CASE ~(i <= Len(a))
      <4>1. i - Len(a) \in 1..Len(b) /\ new[i] = b[i - Len(a)]
        BY <2>4, <2>5, <2>6, <3>2
      <4>2. QED
        BY <2>2, <4>1
    <3>3. QED
      BY <3>1, <3>2
  <2>7. QED
    BY <2>4, <2>6 DEF SignedKept
<1>3. ASSUME NEW ev \in Events
      PROVE  EventLine(1, ev, GenesisHash) \in Line /\ EventLine(1, ev, GenesisHash).type = "call"
  <2>1. GenesisHash \in Hash /\ 1 \in Nat
    BY DEF GenesisHash, Hash
  <2>2. QED
    BY <2>1, HashTypes DEF EventLine
<1>4. ASSUME NEW n \in 1..Len(file) + 1, NEW ev \in Events, new = Inserted(file, n, EventLine(1, ev, GenesisHash))
      PROVE  new \in Seq(Line) /\ SignedKept(new, file)
  BY <1>3, <1>4, InsertedType
<1>5. ASSUME NEW n \in 1..Len(file) + 1, NEW m \in 1..Len(file), new = Inserted(file, n, file[m])
      PROVE  new \in Seq(Line) /\ SignedKept(new, file)
  <2>1. file[m] \in Line
    OBVIOUS
  <2>2. QED
    BY <1>5, <2>1, InsertedType
<1>6. ASSUME NEW n \in 1..Len(file), NEW m \in 1..Len(file), new = [file EXCEPT ![n] = file[m], ![m] = file[n]]
      PROVE  new \in Seq(Line) /\ SignedKept(new, file)
  <2>1. /\ new \in Seq(Line) /\ Len(new) = Len(file)
        /\ \A i \in 1..Len(file) : new[i] = file[n] \/ new[i] = file[m] \/ new[i] = file[i]
    BY <1>6
  <2>2. QED
    BY <2>1 DEF SignedKept
<1>7. ASSUME NEW n \in 1..Len(file), NEW ev \in Events, new = [file EXCEPT ![n] = EventLine(1, ev, GenesisHash)]
      PROVE  new \in Seq(Line) /\ SignedKept(new, file)
  <2> DEFINE e == EventLine(1, ev, GenesisHash)
  <2>1. e \in Line /\ e.type = "call"
    BY <1>3
  <2>2. new = [file EXCEPT ![n] = e]
    BY <1>7
  <2> HIDE DEF e
  <2>3. /\ new \in Seq(Line) /\ Len(new) = Len(file)
        /\ \A i \in 1..Len(file) : new[i] = e \/ new[i] = file[i]
    BY <2>1, <2>2
  <2>4. QED
    BY <2>1, <2>3 DEF SignedKept
<1> DEFINE Good(x) == x \in Seq(Line) /\ SignedKept(x, file)
           cut == {SubSeq(file, 1, n) : n \in 0..Len(file)}
           taken == {SubSeq(file, 1, n - 1) \o SubSeq(file, n + 1, Len(file)) : n \in 1..Len(file)}
           added == {Inserted(file, n, EventLine(1, ev, GenesisHash)) : n \in 1..Len(file) + 1, ev \in Events}
           again == {Inserted(file, n, file[m]) : n \in 1..Len(file) + 1, m \in 1..Len(file)}
           swapped == {[file EXCEPT ![n] = file[m], ![m] = file[n]] : n \in 1..Len(file), m \in 1..Len(file)}
           changed == {[file EXCEPT ![n] = EventLine(1, ev, GenesisHash)] : n \in 1..Len(file), ev \in Events}
<1>8. \/ new \in cut \/ new \in taken \/ new \in added \/ new \in again \/ new \in swapped \/ new \in changed
  <2>1. Rearranged = cut \cup taken \cup added \cup again \cup swapped \cup changed
    BY DEF Rearranged
  <2> HIDE DEF cut, taken, added, again, swapped, changed
  <2>2. QED
    BY <2>1
<1>9. /\ new \in cut => Good(new)
      /\ new \in taken => Good(new)
  BY <1>1, <1>2
<1>10. new \in added => Good(new)
  BY <1>4
<1>11. new \in again => Good(new)
  BY <1>5
<1>12. new \in swapped => Good(new)
  BY <1>6
<1>13. new \in changed => Good(new)
  BY <1>7
<1> HIDE DEF cut, taken, added, again, swapped, changed
<1>14. QED
  BY <1>8, <1>9, <1>10, <1>11, <1>12, <1>13

\* No edit of the file makes a signature.
LEMMA EditsType ==
  ASSUME file \in Seq(Line), Edits
  PROVE  file' \in Seq(Line) /\ SignedKept(file', file)
<1>1. PICK lines \in Rearranged :
        \/ file' = lines
        \/ file' = Rehashed(lines)
        \/ file' = [i \in 1..Len(lines) |-> IF lines[i].type = "checkpoint" THEN lines[i]
                                            ELSE Rehashed(lines)[i]]
  BY DEF Edits
<1>2. lines \in Seq(Line) /\ SignedKept(lines, file)
  BY RearrangedType
<1>3. file' \in Seq(Line) /\ SignedKept(file', lines)
  <2>1. CASE file' = lines
    BY <1>2, <2>1 DEF SignedKept
  <2>2. CASE file' = Rehashed(lines)
    BY <1>2, <2>2, RehashedType, EditedType
  <2>3. CASE file' = [i \in 1..Len(lines) |-> IF lines[i].type = "checkpoint" THEN lines[i]
                                             ELSE Rehashed(lines)[i]]
    <3> DEFINE r == Rehashed(lines)
    <3>1. r \in [1..Len(lines) -> Line] /\ \A i \in 1..Len(lines) : Edited(r[i], lines[i])
      BY <1>2, RehashedType
    <3> HIDE DEF r
    <3>2. file' = [i \in 1..Len(lines) |-> IF lines[i].type = "checkpoint" THEN lines[i] ELSE r[i]]
      BY <2>3 DEF r
    <3>3. ASSUME NEW i \in 1..Len(lines) PROVE file'[i] \in Line /\ Edited(file'[i], lines[i])
      BY <1>2, <3>1, <3>2, <3>3 DEF Edited
    <3>4. file' \in [1..Len(lines) -> Line]
      BY <3>2, <3>3
    <3>5. QED
      BY <1>2, <3>3, <3>4, EditedType
  <2>4. QED
    BY <1>1, <2>1, <2>2, <2>3
<1>4. QED
  BY <1>2, <1>3 DEF SignedKept

-----------------------------------------------------------------------------
(* The inductive invariant *)

WriterType == [open : BOOLEAN, lastSeq : Nat, lastHash : Hash, stage : Events \cup {"ready"}]

LogTypes ==
  /\ file \in Seq(Line)
  /\ unterminated \in BOOLEAN /\ (file = <<>> => ~unterminated)
  /\ writer \in WriterType /\ writer.lastSeq = Len(writer.lastHash)
  /\ damaged \in BOOLEAN /\ tampered \in BOOLEAN
  /\ faults \in 0..MaxFaults

\* Between its event and its checkpoint the Writer's chain ends with the
\* event; a line is left unfinished only by damage; a signature of the key
\* is under a hash the Writer has signed, in whatever place the line is now.
AppendInProgress ==
  writer.stage # "ready" =>
    writer.open /\ writer.lastSeq > 0 /\ writer.lastHash[writer.lastSeq] = <<writer.lastSeq, writer.stage>>

UnterminatedIsDamage == unterminated => damaged

SignaturesGenuine ==
  \A n \in 1..Len(file) : file[n].type = "checkpoint" /\ file[n].sig = "key" => file[n].hash \in signed

LogInv ==
  /\ LogTypes /\ AppendInProgress /\ UnterminatedIsDamage /\ SignaturesGenuine
  /\ ChainHolds /\ NoSilentLoss

\* Each line is one of the file's, or torn; the last is torn.
TornNow(lines) ==
  /\ lines \in Seq(Line) /\ lines # <<>> /\ lines[Len(lines)] = Torn
  /\ \A i \in 1..Len(lines) : lines[i] = Torn \/ (i \in 1..Len(file) /\ lines[i] = file[i])

\* A write leaves the file as it is, appends the line, or leaves a torn line
\* at its end.
LEMMA WriteDoes ==
  ASSUME LogTypes, UnterminatedIsDamage, NEW line \in Line, NEW how \in Failures \cup {"all"}, Write(line, how)
  PROVE  \/ how = "nothing" /\ UNCHANGED <<file, unterminated, damaged>>
         \/ /\ how \in {"all", "no_newline"} /\ ~unterminated
            /\ file' = Append(file, line)
            /\ unterminated' = (how # "all")
            /\ damaged' = (damaged \/ how = "no_newline")
         \/ TornNow(file') /\ damaged' = TRUE /\ unterminated' = (how # "all")
<1>1. Torn \in Line /\ file \in Seq(Line) /\ unterminated \in BOOLEAN /\ damaged \in BOOLEAN
  BY DEF Line, LogTypes
<1>2. CASE how = "nothing"
  BY <1>1, <1>2 DEF Write
<1>3. CASE how # "nothing" /\ unterminated
  <2>1. /\ file # <<>> /\ file' = [file EXCEPT ![Len(file)] = Torn]
        /\ unterminated' = (how # "all")
    BY <1>3 DEF Write, LogTypes
  <2>2. damaged' = TRUE
    BY <1>3 DEF Write, UnterminatedIsDamage
  <2>3. Len(file) \in 1..Len(file)
    BY <1>1, <2>1, EmptySeq
  <2>4. /\ file' \in Seq(Line) /\ Len(file') = Len(file)
        /\ \A j \in 1..Len(file) : file'[j] = IF j = Len(file) THEN Torn ELSE file[j]
    BY <1>1, <2>1, <2>3, ExceptSeq
  <2>5. TornNow(file')
    BY <2>3, <2>4 DEF TornNow
  <2>6. QED
    BY <2>1, <2>2, <2>5
<1>4. CASE how = "part" /\ ~unterminated
  <2>1. file' = Append(file, Torn) /\ damaged' = TRUE /\ unterminated' = (how # "all")
    BY <1>4 DEF Write
  <2>2. TornNow(file')
    BY <1>1, <2>1, AppendProperties DEF TornNow
  <2>3. QED
    BY <2>1, <2>2
<1>5. CASE how \in {"all", "no_newline"} /\ ~unterminated
  BY <1>1, <1>5 DEF Write
<1>6. QED
  BY <1>2, <1>3, <1>4, <1>5 DEF Failures

\* What any write keeps, whether it succeeds, fails or is cut short.
LEMMA WriteKeeps ==
  ASSUME LogInv, NEW line \in Line, NEW how \in Failures \cup {"all"}, Write(line, how),
         line.type = "checkpoint" => line.hash \in signed', signed \subseteq signed'
  PROVE  /\ file' \in Seq(Line)
         /\ unterminated' \in BOOLEAN /\ (file' = <<>> => ~unterminated') /\ damaged' \in BOOLEAN
         /\ UnterminatedIsDamage' /\ SignaturesGenuine'
         /\ ~tampered /\ Verify(file').ok => acked \subseteq ToSet(Verify(file').lastHash)
         /\ ~damaged' => ~damaged /\ file' = IF how = "all" THEN Append(file, line) ELSE file
         /\ how = "all" => file' = Append(file, line) \/ ~Verify(file').ok
<1> USE DEF LogInv
<1>1. CASE how = "nothing" /\ UNCHANGED <<file, unterminated, damaged>>
  <2>1. SignaturesGenuine'
    BY <1>1 DEF SignaturesGenuine
  <2>2. QED
    BY <1>1, <2>1 DEF LogTypes, UnterminatedIsDamage, NoSilentLoss
<1>2. CASE /\ how \in {"all", "no_newline"} /\ ~unterminated
           /\ file' = Append(file, line)
           /\ unterminated' = (how # "all")
           /\ damaged' = (damaged \/ how = "no_newline")
  <2>1. /\ file' \in Seq(Line) /\ file' # <<>> /\ Len(file') = Len(file) + 1
        /\ \A i \in 1..Len(file) : file'[i] = file[i]
        /\ file'[Len(file) + 1] = line
    BY <1>2, AppendProperties DEF LogTypes
  <2>2. SignaturesGenuine'
    BY <2>1 DEF SignaturesGenuine, LogTypes
  <2>3. ASSUME ~tampered, Verify(file').ok PROVE acked \subseteq ToSet(Verify(file').lastHash)
    <3>1. Verify(file') = ReadLine(Verify(file), line, FALSE)
      BY <1>2, VerifyAppend DEF Verify, LogTypes
    <3>2. Verify(file) \in Report
      BY VerifyType DEF Verify, LogTypes
    <3>3. Verify(file).ok /\ acked \subseteq ToSet(Verify(file).lastHash)
      BY <2>3, <3>1 DEF ReadLine, NoSilentLoss
    <3>4. \/ Verify(file').lastHash = Verify(file).lastHash
          \/ /\ line.type = "call"
             /\ Verify(file').lastHash = HashEvent(line.seq, line.event, Verify(file).lastHash)
      BY <2>3, <3>1, <3>2, <3>3 DEF ReadLine, VerifyLine, Report
    <3>5. CASE line.type = "call" /\ Verify(file').lastHash = HashEvent(line.seq, line.event, Verify(file).lastHash)
      <4>1. <<line.seq, line.event>> \in Nat \X Events
        BY <3>5 DEF Line, CallLine, CheckpointLine, Torn
      <4>2. Verify(file).lastHash \in Seq(Nat \X Events)
        BY <3>2 DEF Report, Hash
      <4>3. ToSet(Verify(file).lastHash) \subseteq ToSet(Verify(file').lastHash)
        BY <3>5, <4>1, <4>2, AppendProperties DEF HashEvent, ToSet
      <4>4. QED
        BY <3>3, <4>3
    <3>6. QED
      BY <3>3, <3>4, <3>5
  <2>4. QED
    BY <1>2, <2>1, <2>2, <2>3 DEF LogTypes, UnterminatedIsDamage
<1>3. CASE TornNow(file') /\ damaged' = TRUE /\ unterminated' = (how # "all")
  <2>1. ~Verify(file').ok
    BY <1>3, VerifyTorn DEF TornNow, Verify
  <2>2. SignaturesGenuine'
    <3>1. Torn.type # "checkpoint"
      BY DEF Torn
    <3>2. QED
      BY <1>3, <3>1 DEF TornNow, SignaturesGenuine
  <2>3. QED
    BY <1>3, <2>1, <2>2 DEF TornNow, UnterminatedIsDamage
<1>4. QED
  BY <1>1, <1>2, <1>3, WriteDoes

-----------------------------------------------------------------------------
(* The steps of the log *)

\* The two lines a Writer writes.
LEMMA WriterLines ==
  ASSUME LogInv, NEW ev \in Events
  PROVE  /\ NextEvent(ev) \in Line /\ NextEvent(ev).type = "call"
         /\ DueCheckpoint \in Line /\ DueCheckpoint.hash = writer.lastHash
<1>1. writer.lastSeq \in Nat /\ writer.lastSeq + 1 \in Nat /\ writer.lastHash \in Hash
  BY DEF LogInv, LogTypes, WriterType
<1>2. NextEvent(ev) \in Line
  BY <1>1, HashTypes DEF NextEvent
<1>3. DueCheckpoint \in CheckpointLine
  BY <1>1 DEF DueCheckpoint, Checkpoint, CheckpointLine
<1>4. QED
  BY <1>2, <1>3 DEF Line, NextEvent, EventLine, DueCheckpoint, Checkpoint

\* On a log that holds, the next event and the due checkpoint verify.
LEMMA WriterLinesVerify ==
  ASSUME LogInv, writer.open, ~damaged, ~tampered, NEW ev \in Events
  PROVE  /\ VerifyWithKey(Append(file, NextEvent(ev))) =
              [ok |-> TRUE, lastSeq |-> writer.lastSeq + 1,
               lastHash |-> HashEvent(writer.lastSeq + 1, ev, writer.lastHash)]
         /\ VerifyWithKey(Append(file, DueCheckpoint)) = VerifyWithKey(file)
<1> DEFINE rep == VerifyWithKey(file)
<1>1. rep \in Report
  BY VerifyType DEF VerifyWithKey, LogInv, LogTypes
<1>2. rep.ok = TRUE /\ rep.lastSeq = writer.lastSeq /\ rep.lastHash = writer.lastHash
  BY <1>1 DEF LogInv, ChainHolds, Report
<1>3. /\ VerifyWithKey(Append(file, NextEvent(ev))) = ReadLine(rep, NextEvent(ev), TRUE)
      /\ VerifyWithKey(Append(file, DueCheckpoint)) = ReadLine(rep, DueCheckpoint, TRUE)
  BY WriterLines, VerifyAppend DEF VerifyWithKey, LogInv, LogTypes
<1> HIDE DEF rep
<1>4. ReadLine(rep, NextEvent(ev), TRUE) =
        [rep EXCEPT !.lastSeq = writer.lastSeq + 1,
                    !.lastHash = HashEvent(writer.lastSeq + 1, ev, writer.lastHash)]
  BY <1>2 DEF ReadLine, VerifyLine, NextEvent, EventLine
<1>5. ReadLine(rep, DueCheckpoint, TRUE) = [rep EXCEPT !.ok = TRUE]
  BY <1>2 DEF ReadLine, VerifyLine, DueCheckpoint, Checkpoint
<1>6. rep \in [ok : BOOLEAN, lastSeq : Nat, lastHash : Hash]
  BY <1>1 DEF Report
<1>7. [rep EXCEPT !.ok = TRUE] = rep
  BY <1>2, <1>6
<1>8. QED
  BY <1>2, <1>3, <1>4, <1>5, <1>6, <1>7 DEF rep

\* An empty log with no Writer satisfies the invariant.
LEMMA LogInit == Init => LogInv
<1> SUFFICES ASSUME Init PROVE LogInv
  OBVIOUS
<1> USE DEF Init
<1>1. LogTypes
  <2>1. GenesisHash \in Hash /\ Len(GenesisHash) = 0 /\ <<>> \in Seq(Line)
    BY DEF GenesisHash, Hash
  <2>2. ClosedWriter \in WriterType /\ ClosedWriter.lastSeq = Len(ClosedWriter.lastHash)
    BY <2>1 DEF WriterType, ClosedWriter
  <2>3. 0 \in 0..MaxFaults
    BY AuditAssumption
  <2>4. QED
    BY <2>1, <2>2, <2>3 DEF LogTypes
<1>2. AppendInProgress /\ UnterminatedIsDamage /\ SignaturesGenuine
  BY DEF AppendInProgress, UnterminatedIsDamage, SignaturesGenuine, ClosedWriter
<1>3. ChainHolds
  <2>1. VerifyWithKey(file) = Unread
    BY VerifyEmpty DEF VerifyWithKey
  <2>2. Unread.ok /\ ~ClosedWriter.open
    BY DEF Unread, ClosedWriter
  <2>3. QED
    BY <2>1, <2>2 DEF ChainHolds
<1>4. NoSilentLoss
  BY DEF NoSilentLoss
<1>5. QED
  BY <1>1, <1>2, <1>3, <1>4 DEF LogInv

\* Every step of the Writer, a failed write, a crash, a restart and an edit
\* keep the invariant.
LEMMA LogStep == LogInv /\ [Next]_vars => LogInv'
<1> SUFFICES ASSUME LogInv, [Next]_vars PROVE LogInv'
  OBVIOUS
<1>0. CASE UNCHANGED vars
  BY <1>0 DEF vars, LogInv, LogTypes, AppendInProgress, UnterminatedIsDamage, SignaturesGenuine,
              ChainHolds, NoSilentLoss
<1>1. CASE NewWriter
  <2> DEFINE rep == Verify(file)
  <2>1. /\ ~writer.open /\ rep.ok
        /\ writer' = [open |-> TRUE, lastSeq |-> rep.lastSeq, lastHash |-> rep.lastHash, stage |-> "ready"]
        /\ UNCHANGED <<file, unterminated, acked, signed, damaged, tampered, faults>>
    BY <1>1 DEF NewWriter
  <2>2. rep \in Report
    BY VerifyType DEF Verify, LogInv, LogTypes
  <2> HIDE DEF rep
  <2>3. LogTypes'
    BY <2>1, <2>2 DEF LogInv, LogTypes, WriterType, Report
  <2>4. AppendInProgress' /\ UnterminatedIsDamage' /\ SignaturesGenuine' /\ NoSilentLoss'
    BY <2>1 DEF LogInv, AppendInProgress, UnterminatedIsDamage, SignaturesGenuine, NoSilentLoss
  <2>5. ASSUME ~damaged, ~tampered PROVE VerifyWithKey(file).ok /\ VerifyWithKey(file) = rep
    <3>1. VerifyWithKey(file).ok
      BY <2>5 DEF LogInv, ChainHolds
    <3>2. QED
      BY <3>1, KeyAgrees DEF rep, LogInv, LogTypes
  <2>6. ChainHolds'
    BY <2>1, <2>5 DEF ChainHolds
  <2>7. QED
    BY <2>3, <2>4, <2>6 DEF LogInv
<1>2. CASE Close
  BY <1>2 DEF Close, ClosedWriter, LogInv, LogTypes, WriterType, AppendInProgress, UnterminatedIsDamage,
              SignaturesGenuine, ChainHolds, NoSilentLoss, GenesisHash, Hash
<1>3. CASE Crash
  <2>1. /\ writer' = ClosedWriter /\ UNCHANGED <<acked, tampered>> /\ faults' \in 0..MaxFaults
        /\ writer.open
    BY <1>3, AuditAssumption DEF Crash, LogInv, LogTypes
  <2>2. ClosedWriter \in WriterType /\ ClosedWriter.lastSeq = Len(ClosedWriter.lastHash)
        /\ ClosedWriter.stage = "ready" /\ ~ClosedWriter.open
    BY DEF ClosedWriter, WriterType, GenesisHash, Hash
  <2>3. CASE UNCHANGED <<file, unterminated, damaged, signed>>
    BY <2>1, <2>2, <2>3 DEF LogInv, LogTypes, AppendInProgress, UnterminatedIsDamage, SignaturesGenuine,
                            ChainHolds, NoSilentLoss
  <2>4. ASSUME NEW line \in Line, NEW how \in Failures \cup {"all"}, Write(line, how),
               line.type = "checkpoint" => line.hash \in signed', signed \subseteq signed',
               ~damaged /\ ~tampered => VerifyWithKey(Append(file, line)).ok
        PROVE  LogInv'
    <3>1. LogTypes' /\ AppendInProgress' /\ UnterminatedIsDamage' /\ SignaturesGenuine'
      BY <2>1, <2>2, <2>4, WriteKeeps DEF LogInv, LogTypes, AppendInProgress
    <3>2. NoSilentLoss'
      BY <2>1, <2>4, WriteKeeps DEF NoSilentLoss
    <3>3. ASSUME ~damaged', ~tampered' PROVE VerifyWithKey(file').ok
      <4>1. ~damaged /\ ~tampered /\ VerifyWithKey(file).ok
        BY <2>1, <2>4, <3>3, WriteKeeps DEF LogInv, ChainHolds
      <4>2. file' = file \/ file' = Append(file, line)
        BY <2>4, <3>3, WriteKeeps
      <4>3. QED
        BY <2>4, <4>1, <4>2
    <3>4. ChainHolds'
      BY <2>1, <2>2, <3>3 DEF ChainHolds
    <3>5. QED
      BY <3>1, <3>2, <3>4 DEF LogInv
  <2>5. ASSUME NEW ev \in Events, NEW how \in Failures \cup {"all"}, Write(NextEvent(ev), how), UNCHANGED signed
        PROVE  LogInv'
    <3>1. ~damaged /\ ~tampered => VerifyWithKey(Append(file, NextEvent(ev))).ok
      BY <2>1, WriterLinesVerify
    <3>2. QED
      BY <2>4, <2>5, <3>1, WriterLines
  <2>6. ASSUME writer.stage # "ready", NEW how \in Failures \cup {"all"}, Write(DueCheckpoint, how),
               signed' = signed \cup {writer.lastHash}
        PROVE  LogInv'
    <3>1. writer.stage \in Events
      BY <2>6 DEF LogInv, LogTypes, WriterType
    <3>2. ~damaged /\ ~tampered => VerifyWithKey(Append(file, DueCheckpoint)).ok
      BY <2>1, <3>1, WriterLinesVerify DEF LogInv, ChainHolds
    <3>3. QED
      BY <2>4, <2>6, <3>1, <3>2, WriterLines
  <2>7. QED
    BY <1>3, <2>3, <2>5, <2>6 DEF Crash
<1>4. CASE Tamper
  <2>1. file' \in Seq(Line) /\ SignedKept(file', file)
    BY <1>4, EditsType DEF Tamper, LogInv, LogTypes
  <2>2. LogTypes'
    <3>1. faults' \in 0..MaxFaults
      BY <1>4, AuditAssumption DEF Tamper, LogInv, LogTypes
    <3>2. QED
      BY <1>4, <2>1, <3>1 DEF Tamper, LogInv, LogTypes
  <2>3. SignaturesGenuine'
    BY <1>4, <2>1 DEF Tamper, LogInv, SignaturesGenuine, SignedKept
  <2>4. QED
    BY <1>4, <2>2, <2>3 DEF Tamper, LogInv, AppendInProgress, UnterminatedIsDamage, ChainHolds, NoSilentLoss
<1>5. CASE AppendCheckpoint
  <2>1. /\ writer.stage # "ready" /\ Write(DueCheckpoint, "all")
        /\ writer' = [writer EXCEPT !.stage = "ready"]
        /\ acked' = acked \cup {<<writer.lastSeq, writer.stage>>}
        /\ signed' = signed \cup {writer.lastHash}
        /\ UNCHANGED <<tampered, faults>>
    BY <1>5 DEF AppendCheckpoint
  <2>2. /\ writer.open /\ writer.stage \in Events
        /\ writer.lastSeq \in 1..Len(writer.lastHash)
        /\ writer.lastHash[writer.lastSeq] = <<writer.lastSeq, writer.stage>>
    BY <2>1 DEF LogInv, LogTypes, WriterType, AppendInProgress
  <2>3. DueCheckpoint \in Line /\ DueCheckpoint.hash = writer.lastHash /\ DueCheckpoint.type = "checkpoint"
    BY <2>2, WriterLines DEF DueCheckpoint, Checkpoint
  <2>4. /\ file' \in Seq(Line)
        /\ unterminated' \in BOOLEAN /\ (file' = <<>> => ~unterminated') /\ damaged' \in BOOLEAN
        /\ UnterminatedIsDamage' /\ SignaturesGenuine'
        /\ ~tampered /\ Verify(file').ok => acked \subseteq ToSet(Verify(file').lastHash)
        /\ ~damaged' => ~damaged /\ file' = Append(file, DueCheckpoint)
        /\ file' = Append(file, DueCheckpoint) \/ ~Verify(file').ok
    BY <2>1, <2>3, WriteKeeps
  <2>5. LogTypes' /\ AppendInProgress'
    BY <2>1, <2>4 DEF LogInv, LogTypes, WriterType, AppendInProgress
  <2>6. ASSUME ~tampered', Verify(file').ok PROVE acked' \subseteq ToSet(Verify(file').lastHash)
    <3>1. Verify(file') = ReadLine(Verify(file), DueCheckpoint, FALSE)
      BY <2>3, <2>4, <2>6, VerifyAppend DEF Verify, LogInv, LogTypes
    <3>2. Verify(file) \in Report
      BY VerifyType DEF Verify, LogInv, LogTypes
    <3>3. Verify(file').lastHash = writer.lastHash
      BY <2>3, <2>6, <3>1, <3>2 DEF ReadLine, VerifyLine, Report
    <3>4. <<writer.lastSeq, writer.stage>> \in ToSet(writer.lastHash)
      BY <2>2 DEF ToSet
    <3>5. QED
      BY <2>1, <2>4, <2>6, <3>3, <3>4
  <2>7. ASSUME ~damaged', ~tampered'
        PROVE  /\ VerifyWithKey(file').ok
               /\ VerifyWithKey(file').lastSeq = writer'.lastSeq /\ VerifyWithKey(file').lastHash = writer'.lastHash
    <3>1. ~damaged /\ ~tampered /\ file' = Append(file, DueCheckpoint)
      BY <2>1, <2>4, <2>7
    <3>2. VerifyWithKey(file') = VerifyWithKey(file)
      BY <2>2, <3>1, WriterLinesVerify
    <3>3. writer'.lastSeq = writer.lastSeq /\ writer'.lastHash = writer.lastHash
      BY <2>1 DEF LogInv, LogTypes, WriterType
    <3>4. QED
      BY <2>2, <3>1, <3>2, <3>3 DEF LogInv, ChainHolds
  <2>8. QED
    BY <2>4, <2>5, <2>6, <2>7 DEF LogInv, NoSilentLoss, ChainHolds
<1>6. ASSUME NEW ev \in Events, AppendEvent(ev) PROVE LogInv'
  <2> DEFINE seq == writer.lastSeq + 1
             stage == IF CheckpointDue(seq) THEN ev ELSE "ready"
  <2>1. /\ writer.open /\ writer.stage = "ready" /\ Write(NextEvent(ev), "all")
        /\ writer' = [writer EXCEPT !.lastSeq = seq, !.lastHash = HashEvent(seq, ev, @), !.stage = stage]
        /\ acked' = IF CheckpointDue(seq) THEN acked ELSE acked \cup {<<seq, ev>>}
        /\ UNCHANGED <<signed, tampered, faults>>
    BY <1>6 DEF AppendEvent
  <2>2. seq \in Nat /\ seq > 0 /\ stage \in Events \cup {"ready"} /\ (stage # "ready" => stage = ev)
    BY DEF LogInv, LogTypes, WriterType
  <2> HIDE DEF seq, stage
  <2>3. /\ HashEvent(seq, ev, writer.lastHash) \in Hash /\ Len(HashEvent(seq, ev, writer.lastHash)) = seq
        /\ HashEvent(seq, ev, writer.lastHash)[seq] = <<seq, ev>>
    <3>1. writer.lastHash \in Hash /\ seq = Len(writer.lastHash) + 1
      BY DEF LogInv, LogTypes, WriterType, seq
    <3>2. <<seq, ev>> \in Nat \X Events
      BY <2>2
    <3>3. QED
      BY <3>1, <3>2, AppendProperties DEF HashEvent, Hash
  <2>4. /\ file' \in Seq(Line)
        /\ unterminated' \in BOOLEAN /\ (file' = <<>> => ~unterminated') /\ damaged' \in BOOLEAN
        /\ UnterminatedIsDamage' /\ SignaturesGenuine'
        /\ ~tampered /\ Verify(file').ok => acked \subseteq ToSet(Verify(file').lastHash)
        /\ ~damaged' => ~damaged /\ file' = Append(file, NextEvent(ev))
        /\ file' = Append(file, NextEvent(ev)) \/ ~Verify(file').ok
    BY <2>1, WriterLines, WriteKeeps
  <2>5. /\ writer' \in WriterType
        /\ writer'.open = writer.open /\ writer'.lastSeq = seq /\ writer'.stage = stage
        /\ writer'.lastHash = HashEvent(seq, ev, writer.lastHash)
    BY <2>1, <2>2, <2>3 DEF LogInv, LogTypes, WriterType
  <2>6. LogTypes' /\ AppendInProgress'
    BY <2>1, <2>2, <2>3, <2>4, <2>5 DEF LogInv, LogTypes, AppendInProgress
  <2>7. ASSUME ~tampered', Verify(file').ok PROVE acked' \subseteq ToSet(Verify(file').lastHash)
    <3>1. Verify(file') = ReadLine(Verify(file), NextEvent(ev), FALSE)
      BY <2>4, <2>7, WriterLines, VerifyAppend DEF Verify, LogInv, LogTypes
    <3>2. Verify(file) \in Report
      BY VerifyType DEF Verify, LogInv, LogTypes
    <3>3. Verify(file').lastHash = HashEvent(seq, ev, writer.lastHash)
      BY <2>7, <3>1, <3>2 DEF ReadLine, VerifyLine, Report, NextEvent, EventLine, seq
    <3>4. <<seq, ev>> \in ToSet(Verify(file').lastHash)
      BY <2>2, <2>3, <3>3 DEF ToSet
    <3>5. QED
      BY <2>1, <2>4, <2>7, <3>4
  <2>8. ASSUME ~damaged', ~tampered'
        PROVE  /\ VerifyWithKey(file').ok
               /\ VerifyWithKey(file').lastSeq = writer'.lastSeq /\ VerifyWithKey(file').lastHash = writer'.lastHash
    <3>1. ~damaged /\ ~tampered /\ file' = Append(file, NextEvent(ev))
      BY <2>1, <2>4, <2>8
    <3>2. VerifyWithKey(file') = [ok |-> TRUE, lastSeq |-> seq, lastHash |-> HashEvent(seq, ev, writer.lastHash)]
      BY <2>1, <3>1, WriterLinesVerify DEF seq
    <3>3. QED
      BY <2>5, <3>2
  <2>9. QED
    BY <2>4, <2>6, <2>7, <2>8 DEF LogInv, NoSilentLoss, ChainHolds
<1>7. ASSUME NEW ev \in Events, NEW how \in Failures, AppendFails(ev, how) PROVE LogInv'
  <2>1. /\ Write(NextEvent(ev), how) /\ how # "all"
        /\ UNCHANGED <<writer, acked, signed, tampered>> /\ faults' \in 0..MaxFaults
    BY <1>7, AuditAssumption DEF AppendFails, Failures, LogInv, LogTypes
  <2>2. /\ file' \in Seq(Line)
        /\ unterminated' \in BOOLEAN /\ (file' = <<>> => ~unterminated') /\ damaged' \in BOOLEAN
        /\ UnterminatedIsDamage' /\ SignaturesGenuine'
        /\ ~tampered /\ Verify(file').ok => acked \subseteq ToSet(Verify(file').lastHash)
        /\ ~damaged' => ~damaged /\ file' = file
    BY <2>1, WriterLines, WriteKeeps
  <2>3. QED
    BY <2>1, <2>2 DEF LogInv, LogTypes, AppendInProgress, NoSilentLoss, ChainHolds
<1>8. ASSUME NEW how \in Failures, CheckpointFails(how) PROVE LogInv'
  <2>1. /\ Write(DueCheckpoint, how) /\ how # "all" /\ writer.stage \in Events
        /\ writer' = [writer EXCEPT !.stage = "ready"]
        /\ signed' = signed \cup {writer.lastHash}
        /\ UNCHANGED <<acked, tampered>> /\ faults' \in 0..MaxFaults
    BY <1>8, AuditAssumption DEF CheckpointFails, Failures, LogInv, LogTypes, WriterType
  <2>2. /\ file' \in Seq(Line)
        /\ unterminated' \in BOOLEAN /\ (file' = <<>> => ~unterminated') /\ damaged' \in BOOLEAN
        /\ UnterminatedIsDamage' /\ SignaturesGenuine'
        /\ ~tampered /\ Verify(file').ok => acked \subseteq ToSet(Verify(file').lastHash)
        /\ ~damaged' => ~damaged /\ file' = file
    BY <2>1, WriterLines, WriteKeeps
  <2>3. /\ writer' \in WriterType /\ writer'.open = writer.open /\ writer'.stage = "ready"
        /\ writer'.lastSeq = writer.lastSeq /\ writer'.lastHash = writer.lastHash
    BY <2>1 DEF LogInv, LogTypes, WriterType
  <2>4. QED
    BY <2>1, <2>2, <2>3 DEF LogInv, LogTypes, AppendInProgress, NoSilentLoss, ChainHolds
<1>9. QED
  BY <1>0, <1>1, <1>2, <1>3, <1>4, <1>5, <1>6, <1>7, <1>8 DEF Next

\* The invariant implies what the log promises.
LEMMA LogInvTells == LogInv => LogTells /\ SignedPrefixGenuine
<1> SUFFICES ASSUME LogInv PROVE LogTells /\ SignedPrefixGenuine
  OBVIOUS
<1>1. TypeOK
  <2>1. ASSUME NEW i \in 1..Len(file) PROVE file[i].type \in {"call", "checkpoint", "torn"}
    <3>1. file[i] \in Line
      BY DEF LogInv, LogTypes
    <3>2. QED
      BY <3>1 DEF Line, CallLine, CheckpointLine, Torn
  <2>2. QED
    BY <2>1 DEF LogInv, LogTypes, WriterType, TypeOK
<1>2. SignedPrefixGenuine
  <2>1. SUFFICES ASSUME VerifyWithKey(file).ok, NEW n \in 1..Len(file), file[n].type = "checkpoint"
                 PROVE  EventsUpTo(n) \in signed
    BY DEF SignedPrefixGenuine
  <2>2. file[n].sig = "key" /\ file[n].hash = Said(file, n)
    BY <2>1, CheckpointTells DEF LogInv, LogTypes
  <2>3. QED
    BY <2>1, <2>2 DEF LogInv, SignaturesGenuine, EventsUpTo
<1>3. QED
  BY <1>1, <1>2 DEF LogInv, LogTells

\* A log tells what was written to it, for every Events, CheckpointEvery,
\* number of lines and of faults: while no line was left unfinished it
\* verifies and agrees with the Writer, and one that verifies has lost no
\* event whose Append returned nil (Append, resumeLog, Verify).
THEOREM LogAlwaysTells == Spec => []LogTells
  BY LogInit, LogStep, LogInvTells, PTL DEF Spec

\* The events up to a checkpoint of a log that verifies with the key are
\* ones the Writer signed, however the file was edited, hashed again and
\* appended to (VerifyReader, verifyCheckpoint).
THEOREM SignedPrefixAlwaysGenuine == Spec => []SignedPrefixGenuine
  BY LogInit, LogStep, LogInvTells, PTL DEF Spec

-----------------------------------------------------------------------------
(* The key pair *)

KeyStages ==
  {"start", "look_pub", "create_pub", "fill_pub", "create_priv", "fill_priv",
   "close_priv", "unclosed", "close_pub", "discard_priv", "discard_pub",
   "done", "failed", "alone", "killed"}

KeyTypeOK ==
  /\ pub \in KeyFile \cup {NoFile}
  /\ priv \in KeyFile \cup {NoFile}
  /\ keygen \in [Keygens -> KeyStages]

\* What a run relies on between two of its steps: the file it is filling is
\* its own and still unfilled, and while it is on its way to a private key
\* its public key stays where it is.
OwnFiles(k) ==
  /\ keygen[k] = "fill_pub" => pub = New(k)
  /\ keygen[k] \in {"create_priv", "fill_priv"} => pub = [by |-> k, whole |-> TRUE]
  /\ keygen[k] \in {"close_priv", "unclosed", "close_pub", "done"} => WholePair(k)
  /\ keygen[k] \in {"fill_priv", "discard_priv"} => priv = New(k)
  /\ keygen[k] \in {"start", "look_pub", "create_pub", "fill_pub", "create_priv", "discard_pub"} =>
       (priv # NoFile => priv.by # k)

KeyInv ==
  /\ KeyTypeOK
  /\ \A k \in Keygens : OwnFiles(k)
  /\ PairsHold

\* A file some run has created is there.
LEMMA KeyIsFile ==
  ASSUME NEW k \in Keygens
  PROVE  New(k) # NoFile /\ [by |-> k, whole |-> TRUE] # NoFile
<1>1. New(k) \in KeyFile /\ [by |-> k, whole |-> TRUE] \in KeyFile
  BY DEF New, KeyFile
<1>2. QED
  BY <1>1, NoFileAssumption

\* Every step of a keygen keeps the invariant: the only steps that touch a
\* file are those of the run it belongs to.
LEMMA KeyStep == KeyInv /\ [KeyNext]_keyVars => KeyInv'
<1> SUFFICES ASSUME KeyInv, [KeyNext]_keyVars PROVE KeyInv'
  OBVIOUS
<1> USE NoFileAssumption DEF KeyInv, KeyStages, KeyFile
<1>1. CASE UNCHANGED keyVars
  BY <1>1 DEF keyVars, KeyTypeOK, OwnFiles, WholePair, New, PairsHold
<1>2. ASSUME NEW k \in Keygens, LookPriv(k) PROVE KeyInv'
  BY <1>2 DEF LookPriv, At, KeyTypeOK, OwnFiles, WholePair, New, PairsHold
<1>3. ASSUME NEW k \in Keygens, LookPub(k) PROVE KeyInv'
  BY <1>3 DEF LookPub, At, KeyTypeOK, OwnFiles, WholePair, New, PairsHold
<1>4. ASSUME NEW k \in Keygens, CreatePub(k) PROVE KeyInv'
  <2>1. /\ OwnFiles(k)
        /\ keygen[k] = "create_pub"
        /\ keygen' = [keygen EXCEPT ![k] = IF pub = NoFile THEN "fill_pub" ELSE "failed"]
        /\ pub' = IF pub = NoFile THEN New(k) ELSE pub
        /\ priv' = priv
    BY <1>4 DEF CreatePub, At, OwnFiles
  <2>2. KeyTypeOK'
    BY <2>1 DEF KeyTypeOK, New, OwnFiles, WholePair
  <2>3. OwnFiles(k)'
    BY <2>1 DEF OwnFiles, WholePair, New, KeyTypeOK
  <2>4. ASSUME NEW j \in Keygens, j # k PROVE OwnFiles(j)'
    <3>1. OwnFiles(j) /\ keygen'[j] = keygen[j]
      BY <2>1, <2>4 DEF KeyTypeOK
    <3>2. New(j) # NoFile /\ [by |-> j, whole |-> TRUE] # NoFile
      BY KeyIsFile
    <3>3. New(j).by = j /\ [by |-> j, whole |-> TRUE].by = j /\ New(k).by = k
      BY DEF New
    <3>4. CASE pub' = pub /\ priv' = priv
      BY <3>1, <3>4 DEF OwnFiles, WholePair
    <3>5. CASE ~(pub' = pub /\ priv' = priv)
      BY <2>1, <2>4, <3>1, <3>2, <3>3, <3>5 DEF OwnFiles, WholePair
    <3>6. QED
      BY <3>4, <3>5
  <2>5. PairsHold'
    <3>1. ASSUME priv # NoFile, priv.whole PROVE (WholePair(priv.by) \/ keygen[priv.by] = "alone")'
      <4>1. priv.by \in Keygens /\ priv.by # k /\ keygen'[priv.by] = keygen[priv.by]
        BY <2>1, <3>1 DEF KeyTypeOK, OwnFiles
      <4>2. WholePair(priv.by) => pub' = pub
        BY <2>1, <4>1, KeyIsFile DEF WholePair
      <4>3. QED
        BY <2>1, <3>1, <4>1, <4>2 DEF PairsHold, WholePair
    <3>2. ASSUME NEW j \in Keygens, keygen'[j] = "done" PROVE WholePair(j)'
      <4>1. j # k /\ keygen[j] = "done"
        BY <2>1, <3>2 DEF KeyTypeOK
      <4>2. WholePair(j) /\ pub # NoFile
        BY <4>1, KeyIsFile DEF PairsHold, WholePair
      <4>3. QED
        BY <2>1, <4>2 DEF WholePair
    <3>3. QED
      BY <2>1, <3>1, <3>2 DEF PairsHold
  <2>6. QED
    BY <2>2, <2>3, <2>4, <2>5
<1>5. ASSUME NEW k \in Keygens, FillPub(k) PROVE KeyInv'
  <2>1. /\ OwnFiles(k)
        /\ keygen[k] = "fill_pub"
        /\ keygen' = [keygen EXCEPT ![k] = "create_priv"]
        /\ pub = New(k)
        /\ pub' = [pub EXCEPT !.whole = TRUE]
        /\ priv' = priv
    BY <1>5 DEF FillPub, At, OwnFiles
  <2>2. KeyTypeOK'
    BY <2>1 DEF KeyTypeOK, New, OwnFiles, WholePair
  <2>3. OwnFiles(k)'
    BY <2>1 DEF OwnFiles, WholePair, New, KeyTypeOK
  <2>4. ASSUME NEW j \in Keygens, j # k PROVE OwnFiles(j)'
    <3>1. OwnFiles(j) /\ keygen'[j] = keygen[j]
      BY <2>1, <2>4 DEF KeyTypeOK
    <3>2. New(j) # NoFile /\ [by |-> j, whole |-> TRUE] # NoFile
      BY KeyIsFile
    <3>3. New(j).by = j /\ [by |-> j, whole |-> TRUE].by = j /\ New(k).by = k
      BY DEF New
    <3>4. CASE pub' = pub /\ priv' = priv
      BY <3>1, <3>4 DEF OwnFiles, WholePair
    <3>5. CASE ~(pub' = pub /\ priv' = priv)
      BY <2>1, <2>4, <3>1, <3>2, <3>3, <3>5 DEF OwnFiles, WholePair
    <3>6. QED
      BY <3>4, <3>5
  <2>5. PairsHold'
    BY <2>1 DEF PairsHold, OwnFiles, WholePair, New, KeyTypeOK
  <2>6. QED
    BY <2>2, <2>3, <2>4, <2>5
<1>6. ASSUME NEW k \in Keygens, CreatePriv(k) PROVE KeyInv'
  <2>1. /\ OwnFiles(k)
        /\ keygen[k] = "create_priv"
        /\ keygen' = [keygen EXCEPT ![k] = IF priv = NoFile THEN "fill_priv" ELSE "discard_pub"]
        /\ pub = [by |-> k, whole |-> TRUE]
        /\ priv' = IF priv = NoFile THEN New(k) ELSE priv
        /\ pub' = pub
    BY <1>6 DEF CreatePriv, At, OwnFiles
  <2>2. KeyTypeOK'
    BY <2>1 DEF KeyTypeOK, New, OwnFiles, WholePair
  <2>3. OwnFiles(k)'
    BY <2>1 DEF OwnFiles, WholePair, New, KeyTypeOK
  <2>4. ASSUME NEW j \in Keygens, j # k PROVE OwnFiles(j)'
    <3>1. OwnFiles(j) /\ keygen'[j] = keygen[j]
      BY <2>1, <2>4 DEF KeyTypeOK
    <3>2. New(j) # NoFile /\ [by |-> j, whole |-> TRUE] # NoFile
      BY KeyIsFile
    <3>3. New(j).by = j /\ [by |-> j, whole |-> TRUE].by = j /\ New(k).by = k
      BY DEF New
    <3>4. CASE pub' = pub /\ priv' = priv
      BY <3>1, <3>4 DEF OwnFiles, WholePair
    <3>5. CASE ~(pub' = pub /\ priv' = priv)
      BY <2>1, <2>4, <3>1, <3>2, <3>3, <3>5 DEF OwnFiles, WholePair
    <3>6. QED
      BY <3>4, <3>5
  <2>5. PairsHold'
    BY <2>1 DEF PairsHold, OwnFiles, WholePair, New, KeyTypeOK
  <2>6. QED
    BY <2>2, <2>3, <2>4, <2>5
<1>7. ASSUME NEW k \in Keygens, FillPriv(k) PROVE KeyInv'
  <2>1. /\ OwnFiles(k)
        /\ keygen[k] = "fill_priv"
        /\ keygen' = [keygen EXCEPT ![k] = "close_priv"]
        /\ pub = [by |-> k, whole |-> TRUE]
        /\ priv = New(k)
        /\ priv' = [priv EXCEPT !.whole = TRUE]
        /\ pub' = pub
    BY <1>7 DEF FillPriv, At, OwnFiles
  <2>2. KeyTypeOK'
    BY <2>1 DEF KeyTypeOK, New, OwnFiles, WholePair
  <2>3. OwnFiles(k)'
    BY <2>1 DEF OwnFiles, WholePair, New, KeyTypeOK
  <2>4. ASSUME NEW j \in Keygens, j # k PROVE OwnFiles(j)'
    <3>1. OwnFiles(j) /\ keygen'[j] = keygen[j]
      BY <2>1, <2>4 DEF KeyTypeOK
    <3>2. New(j) # NoFile /\ [by |-> j, whole |-> TRUE] # NoFile
      BY KeyIsFile
    <3>3. New(j).by = j /\ [by |-> j, whole |-> TRUE].by = j /\ New(k).by = k
      BY DEF New
    <3>4. CASE pub' = pub /\ priv' = priv
      BY <3>1, <3>4 DEF OwnFiles, WholePair
    <3>5. CASE ~(pub' = pub /\ priv' = priv)
      BY <2>1, <2>4, <3>1, <3>2, <3>3, <3>5 DEF OwnFiles, WholePair
    <3>6. QED
      BY <3>4, <3>5
  <2>5. PairsHold'
    BY <2>1 DEF PairsHold, OwnFiles, WholePair, New, KeyTypeOK
  <2>6. QED
    BY <2>2, <2>3, <2>4, <2>5
<1>8. ASSUME NEW k \in Keygens, ClosePriv(k) \/ ClosePub(k) PROVE KeyInv'
  BY <1>8 DEF ClosePriv, ClosePub, At, KeyTypeOK, OwnFiles, WholePair, New, PairsHold
<1>9. ASSUME NEW k \in Keygens, FillFails(k) PROVE KeyInv'
  BY <1>9 DEF FillFails, At, KeyTypeOK, OwnFiles, WholePair, New, PairsHold
<1>10. ASSUME NEW k \in Keygens, DiscardPriv(k) PROVE KeyInv'
  BY <1>10 DEF DiscardPriv, At, Removed, KeyTypeOK, OwnFiles, WholePair, New, PairsHold
<1>11. ASSUME NEW k \in Keygens, DiscardPub(k) PROVE KeyInv'
  <2>1. /\ OwnFiles(k)
        /\ keygen[k] = "discard_pub"
        /\ keygen' = [keygen EXCEPT ![k] = "failed"]
        /\ priv # NoFile => priv.by # k
        /\ pub' = IF pub # NoFile /\ pub.by = k THEN NoFile ELSE pub
        /\ priv' = priv
    BY <1>11 DEF DiscardPub, At, Removed, OwnFiles
  <2>2. KeyTypeOK'
    BY <2>1 DEF KeyTypeOK, New, OwnFiles, WholePair
  <2>3. OwnFiles(k)'
    BY <2>1 DEF OwnFiles, WholePair, New, KeyTypeOK
  <2>4. ASSUME NEW j \in Keygens, j # k PROVE OwnFiles(j)'
    <3>1. OwnFiles(j) /\ keygen'[j] = keygen[j]
      BY <2>1, <2>4 DEF KeyTypeOK
    <3>2. New(j) # NoFile /\ [by |-> j, whole |-> TRUE] # NoFile
      BY KeyIsFile
    <3>3. New(j).by = j /\ [by |-> j, whole |-> TRUE].by = j /\ New(k).by = k
      BY DEF New
    <3>4. CASE pub' = pub /\ priv' = priv
      BY <3>1, <3>4 DEF OwnFiles, WholePair
    <3>5. CASE ~(pub' = pub /\ priv' = priv)
      BY <2>1, <2>4, <3>1, <3>2, <3>3, <3>5 DEF OwnFiles, WholePair
    <3>6. QED
      BY <3>4, <3>5
  <2>5. PairsHold'
    BY <2>1 DEF PairsHold, OwnFiles, WholePair, New, KeyTypeOK
  <2>6. QED
    BY <2>2, <2>3, <2>4, <2>5
<1>12. ASSUME NEW k \in Keygens, KeygenKilled(k) PROVE KeyInv'
  BY <1>12 DEF KeygenKilled, Ended, KeyTypeOK, OwnFiles, WholePair, New, PairsHold
<1>13. ASSUME NEW k \in Keygens, DiscardUnclosed(k) PROVE KeyInv'
  <2>1. /\ OwnFiles(k)
        /\ keygen[k] = "unclosed"
        /\ keygen' = [keygen EXCEPT ![k] = "alone"]
        /\ WholePair(k)
        /\ pub' = IF pub # NoFile /\ pub.by = k THEN NoFile ELSE pub
        /\ priv' = priv
    BY <1>13 DEF DiscardUnclosed, At, Removed, OwnFiles
  <2>2. KeyTypeOK'
    BY <2>1 DEF KeyTypeOK, New, OwnFiles, WholePair
  <2>3. OwnFiles(k)'
    BY <2>1 DEF OwnFiles, WholePair, New, KeyTypeOK
  <2>4. ASSUME NEW j \in Keygens, j # k PROVE OwnFiles(j)'
    <3>1. OwnFiles(j) /\ keygen'[j] = keygen[j]
      BY <2>1, <2>4 DEF KeyTypeOK
    <3>2. New(j) # NoFile /\ [by |-> j, whole |-> TRUE] # NoFile
      BY KeyIsFile
    <3>3. New(j).by = j /\ [by |-> j, whole |-> TRUE].by = j /\ New(k).by = k
      BY DEF New
    <3>4. CASE pub' = pub /\ priv' = priv
      BY <3>1, <3>4 DEF OwnFiles, WholePair
    <3>5. CASE ~(pub' = pub /\ priv' = priv)
      BY <2>1, <2>4, <3>1, <3>2, <3>3, <3>5 DEF OwnFiles, WholePair
    <3>6. QED
      BY <3>4, <3>5
  <2>5. PairsHold'
    BY <2>1 DEF PairsHold, OwnFiles, WholePair, New, KeyTypeOK
  <2>6. QED
    BY <2>2, <2>3, <2>4, <2>5
<1>14. QED
  BY <1>1, <1>2, <1>3, <1>4, <1>5, <1>6, <1>7, <1>8, <1>9, <1>10, <1>11, <1>12, <1>13 DEF KeyNext

\* However many keygens race for the two paths, and wherever each of them
\* fails or is killed, a private key that can sign has its own public key
\* beside it or is one whose run could not close it, and a run that reports
\* success has left its pair (WriteKeyPair, SaveKey, removeCreated).
THEOREM PublicBesidePrivate == KeyInit /\ [][KeyNext]_keyVars => []PairsHold
<1>1. KeyInit => KeyInv
  BY DEF KeyInit, KeyInv, KeyTypeOK, KeyStages, OwnFiles, WholePair, PairsHold
<1>2. KeyInv => PairsHold
  BY DEF KeyInv
<1>3. QED
  BY <1>1, <1>2, KeyStep, PTL

-----------------------------------------------------------------------------
(* The commands together *)

\* The key pair and the log made with it keep their promises side by side:
\* no step of a keygen touches the log, and no step of the log the keys.
THEOREM AuditHolds == AuditSpec => [](LogTells /\ SignedPrefixGenuine /\ PairsHold)
<1>1. AuditInit => LogInv /\ KeyInv
  <2>1. KeyInit => KeyInv
    BY DEF KeyInit, KeyInv, KeyTypeOK, KeyStages, OwnFiles, WholePair, PairsHold
  <2>2. QED
    BY <2>1, LogInit DEF AuditInit
<1>2. [AuditNext]_<<vars, keyVars>> => [Next]_vars /\ [KeyNext]_keyVars
  BY DEF AuditNext
<1>3. LogInv /\ KeyInv => LogTells /\ SignedPrefixGenuine /\ PairsHold
  BY LogInvTells DEF KeyInv
<1>4. QED
  BY <1>1, <1>2, <1>3, LogStep, KeyStep, PTL DEF AuditSpec
=============================================================================
