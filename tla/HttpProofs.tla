----------------------------- MODULE HttpProofs -----------------------------
(***************************************************************************)
(* What HttpSessions promises, for every number of sessions, principals,   *)
(* requests and calls and for all caps.                                    *)
(*                                                                         *)
(* HttpInv is the inductive invariant.  Its conjuncts say what go-sdk, the *)
(* request that opens a session, the book of live sessions, the slot, the  *)
(* idle clock, the watcher and the evictor know of each other; SlotsOf and *)
(* TallyOf count the places and the requests as sets, so that a step moves *)
(* one element.  The lemmas on counting and on the order of last use come  *)
(* first, then the invariant, one lemma per action, and the theorems.      *)
(***************************************************************************)
EXTENDS HttpSessions, FiniteSetTheorems, SequenceTheorems, WellFoundedInduction, TLAPS

-----------------------------------------------------------------------------
(* Counting *)

\* Every set of naturals has a least element.
LEMMA NatLeast ==
  ASSUME NEW T, T \subseteq Nat, T # {}
  PROVE  \E x \in T : \A y \in T : ~(y < x)
<1> DEFINE R == {ss \in Nat \X Nat : ss[1] < ss[2]}
<1>1. IsWellFoundedOn(R, Nat)
  BY NatLessThanWellFounded DEF OpToRel
<1> HIDE DEF R
<1>2. \E x \in T : \A y \in T : ~ (<<y, x>> \in R)
  BY <1>1, WFMin
<1>3. QED
  BY <1>2 DEF R

\* A set with one more element counts one more.
LEMMA OneMore ==
  ASSUME NEW S, IsFiniteSet(S), NEW A \in SUBSET S, NEW B \in SUBSET S, NEW x,
         x \notin A, B = A \cup {x}
  PROVE  Cardinality(B) = Cardinality(A) + 1
  BY FS_Subset, FS_AddElement, FS_CardinalityType

\* Counts of the subsets of a finite set.
LEMMA Counted ==
  ASSUME NEW S, IsFiniteSet(S), NEW A \in SUBSET S
  PROVE  /\ Cardinality(A) \in Nat /\ Cardinality(S) \in Nat
         /\ Cardinality(A) <= Cardinality(S)
         /\ Cardinality(A) = 0 <=> A = {}
  BY FS_Subset, FS_EmptySet, FS_CardinalityType

-----------------------------------------------------------------------------
(* The order of last use *)

\* u lists the members of L, each once.
OrderOf(u, L) ==
  /\ u \in Seq(L)
  /\ \A i, j \in DOMAIN u : u[i] = u[j] => i = j
  /\ \A s \in L : \E i \in DOMAIN u : u[i] = s

\* Its length is the number of live sessions.
LEMMA OrderCounts ==
  ASSUME NEW L, NEW u, OrderOf(u, L)
  PROVE  Len(u) = Cardinality(L)
<1>1. u \in [1..Len(u) -> L] /\ Len(u) \in Nat
  BY LenProperties DEF OrderOf
<1>2. u \in Bijection(1..Len(u), L)
  BY <1>1 DEF OrderOf, Bijection, Injection, IsInjective, Surjection
<1> QED
  BY <1>1, <1>2, FS_CountingElements DEF ExistsBijection

\* The last use of s is taken out.
LEMMA OrderWithout ==
  ASSUME NEW L, NEW u, OrderOf(u, L), NEW s \in L
  PROVE  OrderOf(RemoveAt(u, CHOOSE i \in DOMAIN u : u[i] = s), L \ {s})
<1> DEFINE k == CHOOSE i \in DOMAIN u : u[i] = s
           a == SubSeq(u, 1, k - 1)
           b == SubSeq(u, k + 1, Len(u))
           M == L \ {s}
<1>1. /\ u \in [1..Len(u) -> L] /\ Len(u) \in Nat /\ DOMAIN u = 1..Len(u)
      /\ \A i, j \in 1..Len(u) : u[i] = u[j] => i = j
      /\ \A x \in L : \E i \in 1..Len(u) : u[i] = x
  BY LenProperties DEF OrderOf
<1>2. k \in 1..Len(u) /\ u[k] = s
  BY <1>1
<1> HIDE DEF k
<1>3. \A i \in 1..Len(u) : i # k => u[i] \in M
  BY <1>1, <1>2
<1>4. k \in Int /\ Len(u) \in Int /\ k - 1 \in Int /\ k + 1 \in Int
  BY <1>1, <1>2
<1>5. /\ a \in Seq(M) /\ Len(a) = k - 1 /\ \A i \in 1..(k - 1) : a[i] = u[i]
  <2>1. \A i \in 1..(k - 1) : u[i] \in M
    BY <1>1, <1>2, <1>3
  <2>2. /\ a \in Seq(M) /\ Len(a) = IF 1 <= k - 1 THEN k - 1 - 1 + 1 ELSE 0
        /\ \A i \in 1..(k - 1 - 1 + 1) : a[i] = u[1 + i - 1]
    BY <2>1, <1>4, SubSeqProperties
  <2> HIDE DEF a
  <2> QED
    BY <2>2, <1>2, <1>4
<1>6. /\ b \in Seq(M) /\ Len(b) = Len(u) - k /\ \A i \in 1..(Len(u) - k) : b[i] = u[k + i]
  <2>1. \A i \in (k + 1)..Len(u) : u[i] \in M
    BY <1>1, <1>2, <1>3
  <2>2. /\ b \in Seq(M) /\ Len(b) = IF k + 1 <= Len(u) THEN Len(u) - (k + 1) + 1 ELSE 0
        /\ \A i \in 1..(Len(u) - (k + 1) + 1) : b[i] = u[(k + 1) + i - 1]
    BY <2>1, <1>4, SubSeqProperties
  <2> HIDE DEF b
  <2>3. Len(b) = Len(u) - k
    BY <2>2, <1>2, <1>4
  <2>4. ASSUME NEW i \in 1..(Len(u) - k)
        PROVE  b[i] = u[k + i]
    <3>1. i \in 1..(Len(u) - (k + 1) + 1) /\ (k + 1) + i - 1 = k + i
      BY <1>4
    <3>2. b[i] = u[(k + 1) + i - 1]
      BY <2>2, <3>1
    <3> QED
      BY <3>1, <3>2
  <2> QED
    BY <2>2, <2>3, <2>4
<1> HIDE DEF a, b, M
<1>7. /\ a \o b \in Seq(M) /\ Len(a \o b) = Len(u) - 1
      /\ \A i \in 1..(Len(u) - 1) : (a \o b)[i] = IF i < k THEN u[i] ELSE u[i + 1]
  <2>1. /\ a \o b \in Seq(M) /\ Len(a \o b) = Len(a) + Len(b)
        /\ \A i \in 1..(Len(a) + Len(b)) :
             (a \o b)[i] = IF i <= Len(a) THEN a[i] ELSE b[i - Len(a)]
    BY <1>5, <1>6, ConcatProperties
  <2>2. Len(a) + Len(b) = Len(u) - 1
    BY <1>5, <1>6, <1>4
  <2>3. ASSUME NEW i \in 1..(Len(u) - 1)
        PROVE  (a \o b)[i] = IF i < k THEN u[i] ELSE u[i + 1]
    <3>1. CASE i < k
      BY <3>1, <2>1, <2>2, <1>5, <1>4
    <3>2. CASE ~(i < k)
      <4>1. i - Len(a) \in 1..(Len(u) - k) /\ k + (i - Len(a)) = i + 1
        BY <3>2, <1>5, <1>4
      <4>2. b[i - Len(a)] = u[i + 1]
        BY <4>1, <1>6
      <4>3. ~(i <= Len(a)) /\ i \in 1..(Len(a) + Len(b))
        BY <3>2, <1>5, <1>4, <2>2
      <4> QED
        BY <3>2, <4>2, <4>3, <2>1
    <3> QED
      BY <3>1, <3>2
  <2> QED
    BY <2>1, <2>2, <2>3
<1> DEFINE w == a \o b
<1>8. w = RemoveAt(u, k)
  BY DEF RemoveAt, a, b
<1> HIDE DEF w
<1>9. w \in Seq(M) /\ Len(w) = Len(u) - 1 /\ DOMAIN w = 1..(Len(u) - 1)
      /\ \A i \in 1..(Len(u) - 1) : w[i] = IF i < k THEN u[i] ELSE u[i + 1]
  BY <1>7, LenProperties DEF w
<1>10. ASSUME NEW i \in DOMAIN w, NEW j \in DOMAIN w, w[i] = w[j] PROVE i = j
  <2> DEFINE at(x) == IF x < k THEN x ELSE x + 1
  <2>0. i \in 1..(Len(u) - 1) /\ j \in 1..(Len(u) - 1)
    BY <1>9
  <2>1. ASSUME NEW x \in 1..(Len(u) - 1) PROVE at(x) \in 1..Len(u) /\ w[x] = u[at(x)]
    BY <1>9, <1>4
  <2>2. u[at(i)] = u[at(j)] /\ at(i) \in 1..Len(u) /\ at(j) \in 1..Len(u)
    BY <2>0, <2>1, <1>10
  <2>3. at(i) = at(j)
    <3> HIDE DEF at
    <3> QED BY <2>2, <1>1, <1>2
  <2> QED BY <2>0, <2>3, <1>4
<1>11. ASSUME NEW x \in M
       PROVE  \E i \in DOMAIN w : w[i] = x
  <2>1. PICK i \in 1..Len(u) : u[i] = x
    BY <1>1 DEF M
  <2>2. i # k
    BY <2>1, <1>2 DEF M
  <2>3. CASE i < k
    BY <2>1, <2>3, <1>9, <1>2, <1>1
  <2>4. CASE i > k
    <3>1. i - 1 \in 1..(Len(u) - 1) /\ ~(i - 1 < k) /\ (i - 1) + 1 = i
      BY <2>4, <1>2, <1>1
    <3> QED
      BY <2>1, <3>1, <1>9
  <2> QED
    BY <2>2, <2>3, <2>4, <1>2
<1>12. OrderOf(w, M)
  BY <1>9, <1>10, <1>11 DEF OrderOf
<1> QED
  BY <1>8, <1>12 DEF k, M

\* A session used now is the last.
LEMMA OrderAppend ==
  ASSUME NEW L, NEW u, OrderOf(u, L), NEW s, s \notin L
  PROVE  OrderOf(Append(u, s), L \cup {s})
<1> DEFINE w == Append(u, s)
           M == L \cup {s}
<1>1. /\ u \in Seq(L) /\ u \in [1..Len(u) -> L] /\ Len(u) \in Nat /\ DOMAIN u = 1..Len(u)
      /\ \A i, j \in 1..Len(u) : u[i] = u[j] => i = j
      /\ \A x \in L : \E i \in 1..Len(u) : u[i] = x
  BY LenProperties DEF OrderOf
<1>2. u \in Seq(M)
  BY <1>1, SeqMonotonic
<1>3. /\ w \in Seq(M) /\ Len(w) = Len(u) + 1 /\ DOMAIN w = 1..(Len(u) + 1)
      /\ \A i \in 1..Len(u) : w[i] = u[i]
      /\ w[Len(u) + 1] = s
  BY <1>2, AppendProperties, LenProperties
<1> HIDE DEF w
<1>4. \A i, j \in DOMAIN w : w[i] = w[j] => i = j
  BY <1>1, <1>3
<1>5. \A x \in M : \E i \in DOMAIN w : w[i] = x
  BY <1>1, <1>3
<1> QED
  BY <1>3, <1>4, <1>5 DEF OrderOf, w

\* The order after a session is forgotten, and after it is used.
LEMMA OrderKept ==
  ASSUME OrderOf(used, live), NEW s
  PROVE  OrderOf(Without(s), live \ {s}) /\ OrderOf(Touched(s), live \cup {s})
<1>1. OrderOf(Without(s), live \ {s})
  <2>1. CASE s \in live
    BY <2>1, OrderWithout DEF Without
  <2>2. CASE s \notin live
    <3>1. live \ {s} = live
      BY <2>2
    <3> QED
      BY <2>2, <3>1 DEF Without
  <2> QED
    BY <2>1, <2>2
<1>2. (live \ {s}) \cup {s} = live \cup {s}
  OBVIOUS
<1>3. OrderOf(Append(Without(s), s), (live \ {s}) \cup {s})
  BY <1>1, OrderAppend
<1> QED
  BY <1>1, <1>2, <1>3 DEF Touched

\* Eviction finds a candidate when there is one.
LEMMA LeastRecentlyUsedIsOne ==
  ASSUME OrderOf(used, live), NEW S, S \subseteq live, S # {}
  PROVE  LeastRecentlyUsed(S) \in S
<1> DEFINE P(i) == used[i] \in S
           H == {i \in DOMAIN used : P(i)}
<1>1. DOMAIN used = 1..Len(used) /\ Len(used) \in Nat
  BY LenProperties DEF OrderOf
<1>2. H # {} /\ H \subseteq Nat
  BY <1>1 DEF OrderOf
<1>3. PICK i \in H : \A j \in H : ~(j < i)
  BY <1>2, NatLeast
<1>4. i \in DOMAIN used /\ used[i] \in S /\ \A j \in 1..(i - 1) : used[j] \notin S
  BY <1>1, <1>3
<1> QED
  BY <1>4 DEF LeastRecentlyUsed
-----------------------------------------------------------------------------
(* The requests counted on a session *)

\* The requests on session s that were counted in one place, that principal p
\* began early, and that are p's own.
OnIt(R, kind, s, counted) ==
  {q \in Reqs : R[q].kind = kind /\ R[q].sid = s /\ R[q].counted = counted}

EarlyOf(R, kind, s, p) ==
  {q \in Reqs : /\ R[q].kind = kind /\ R[q].sid = s /\ R[q].counted = "early"
                /\ R[q].principal = p}

OwnOf(R, kind, s, p) == {q \in Reqs : R[q].kind = kind /\ R[q].sid = s /\ R[q].principal = p}

\* The counters n of the live sessions and e of the early requests, for
\* requests R, owners O, live sessions L and slots K: exact for a live session
\* and before it is registered; later n may be too high, never too low.
TallyOf(kind, R, O, L, K, n, e) ==
  /\ n \in [Sids -> 0..Cardinality(Reqs)]
  /\ e \in [Sids \X Principals -> 0..Cardinality(Reqs)]
  /\ \A s \in Sids, p \in Principals : e[<<s, p>>] <= Cardinality(EarlyOf(R, kind, s, p))
  /\ \A s \in L : n[s] = Cardinality(OwnOf(R, kind, s, O[s])) /\ e[<<s, O[s]>>] = 0
  /\ \A s \in Sids : K[s] = "none" =>
       n[s] = 0 /\ \A p \in Principals : e[<<s, p>>] = Cardinality(EarlyOf(R, kind, s, p))
  /\ \A s \in Sids : Cardinality(OnIt(R, kind, s, "live")) <= n[s]

\* Where a request is counted tells whose session it is on.
PlacesOf(kind, R, O, K) ==
  \A q \in Reqs : R[q].kind = kind =>
    /\ R[q].sid \in Sids /\ R[q].principal \in Principals
    /\ R[q].counted \in {"none", "live", "early"}
    /\ R[q].counted = "live" => O[R[q].sid] = R[q].principal /\ K[R[q].sid] # "none"
    /\ R[q].counted = "none" => O[R[q].sid] # R[q].principal

\* A step that changes no request of this kind.
LEMMA TallySame ==
  ASSUME NEW kind, NEW R, NEW R2, NEW O, NEW O2, NEW L, NEW L2, NEW K, NEW K2, NEW n, NEW e,
         TallyOf(kind, R, O, L, K, n, e),
         \A q \in Reqs : R[q].kind = kind \/ R2[q].kind = kind => R2[q] = R[q],
         L2 \subseteq L, \A s \in L2 : O2[s] = O[s],
         \A s \in Sids : K2[s] = "none" => K[s] = "none"
  PROVE  TallyOf(kind, R2, O2, L2, K2, n, e)
<1>1. \A s, p : EarlyOf(R2, kind, s, p) = EarlyOf(R, kind, s, p)
  BY DEF EarlyOf
<1>2. \A s, p : OwnOf(R2, kind, s, p) = OwnOf(R, kind, s, p)
  BY DEF OwnOf
<1>3. \A s : OnIt(R2, kind, s, "live") = OnIt(R, kind, s, "live")
  BY DEF OnIt
<1> QED
  BY <1>1, <1>2, <1>3 DEF TallyOf

\* A request begins on a live session of its principal.
BeginsLive(kind, R, R2, O, L, K, q, s, n, n2) ==
  /\ q \in Reqs /\ s \in L /\ K[s] # "none" /\ R[q].kind # kind
  /\ \A r \in Reqs : r # q => R2[r] = R[r]
  /\ R2[q].kind = kind /\ R2[q].sid = s /\ R2[q].principal = O[s] /\ R2[q].counted = "live"
  /\ n2 = [n EXCEPT ![s] = @ + 1]

\* Then the counts are exact again.
LEMMA TallyBeginLive ==
  ASSUME NEW kind, NEW R, NEW R2, NEW O, NEW L, L \subseteq Sids, NEW K, NEW q, NEW s,
         NEW n, NEW n2, NEW e,
         TallyOf(kind, R, O, L, K, n, e), BeginsLive(kind, R, R2, O, L, K, q, s, n, n2)
  PROVE  TallyOf(kind, R2, O, L, K, n2, e)
<1> USE DEF BeginsLive
<1> USE HttpAssumption
<1>1. \A t, p : EarlyOf(R2, kind, t, p) = EarlyOf(R, kind, t, p)
  BY DEF EarlyOf
<1>2. \A t, p : OwnOf(R2, kind, t, p) \in SUBSET Reqs /\ OwnOf(R, kind, t, p) \in SUBSET Reqs
  BY DEF OwnOf
<1>3. \A t \in Sids : OnIt(R2, kind, t, "live") \in SUBSET Reqs /\ OnIt(R, kind, t, "live") \in SUBSET Reqs
  BY DEF OnIt
<1>4. Cardinality(OwnOf(R2, kind, s, O[s])) = Cardinality(OwnOf(R, kind, s, O[s])) + 1
  <2>1. OwnOf(R2, kind, s, O[s]) = OwnOf(R, kind, s, O[s]) \cup {q} /\ q \notin OwnOf(R, kind, s, O[s])
    BY DEF OwnOf
  <2> QED
    BY <2>1, <1>2, OneMore
<1>5. Cardinality(OnIt(R2, kind, s, "live")) = Cardinality(OnIt(R, kind, s, "live")) + 1
  <2>1. OnIt(R2, kind, s, "live") = OnIt(R, kind, s, "live") \cup {q} /\ q \notin OnIt(R, kind, s, "live")
    BY DEF OnIt
  <2> QED
    BY <2>1, <1>3, OneMore
<1>6. \A t \in Sids : t # s => OwnOf(R2, kind, t, O[t]) = OwnOf(R, kind, t, O[t])
  BY DEF OwnOf
<1>7. \A t \in Sids : t # s => OnIt(R2, kind, t, "live") = OnIt(R, kind, t, "live")
  BY DEF OnIt
<1>8. \A t \in Sids : Cardinality(OwnOf(R2, kind, t, O[t])) <= Cardinality(Reqs)
                      /\ Cardinality(OnIt(R, kind, t, "live")) \in Nat
                      /\ Cardinality(Reqs) \in Nat
  BY <1>2, <1>3, Counted
<1>9. /\ n \in [Sids -> 0..Cardinality(Reqs)] /\ n[s] = Cardinality(OwnOf(R, kind, s, O[s]))
      /\ n2[s] = n[s] + 1 /\ \A t \in Sids : t # s => n2[t] = n[t]
  BY DEF TallyOf
<1>10. n2 \in [Sids -> 0..Cardinality(Reqs)]
  <2>1. n[s] + 1 \in 0..Cardinality(Reqs)
    BY <1>4, <1>8, <1>9
  <2> QED
    BY <2>1, <1>9
<1>11. \A t \in L : n2[t] = Cardinality(OwnOf(R2, kind, t, O[t]))
  <2> TAKE t \in L
  <2>1. CASE t = s
    BY <2>1, <1>4, <1>9
  <2>2. CASE t # s
    <3>1. n2[t] = n[t] /\ OwnOf(R2, kind, t, O[t]) = OwnOf(R, kind, t, O[t])
      BY <2>2, <1>6, <1>9
    <3> QED
      BY <3>1 DEF TallyOf
  <2> QED
    BY <2>1, <2>2
<1>12. \A t \in Sids : Cardinality(OnIt(R2, kind, t, "live")) <= n2[t]
  BY <1>5, <1>7, <1>8, <1>9 DEF TallyOf
<1> QED
  BY <1>1, <1>9, <1>10, <1>11, <1>12 DEF TallyOf

\* A request begins on an id that is not live.
BeginsEarly(kind, R, R2, L, q, s, p, e, e2) ==
  /\ q \in Reqs /\ s \in Sids /\ s \notin L /\ p \in Principals /\ R[q].kind # kind
  /\ \A r \in Reqs : r # q => R2[r] = R[r]
  /\ R2[q].kind = kind /\ R2[q].sid = s /\ R2[q].principal = p /\ R2[q].counted = "early"
  /\ e2 = [e EXCEPT ![<<s, p>>] = @ + 1]

\* Then the early count is, and the live ones are as they were.
LEMMA TallyBeginEarly ==
  ASSUME NEW kind, NEW R, NEW R2, NEW O, NEW L, L \subseteq Sids, NEW K, NEW q, NEW s, NEW p,
         NEW n, NEW e, NEW e2,
         TallyOf(kind, R, O, L, K, n, e), BeginsEarly(kind, R, R2, L, q, s, p, e, e2)
  PROVE  TallyOf(kind, R2, O, L, K, n, e2)
<1> USE DEF BeginsEarly
<1> USE HttpAssumption
<1>1. \A t : OnIt(R2, kind, t, "live") = OnIt(R, kind, t, "live")
  BY DEF OnIt
<1>2. \A t \in L : OwnOf(R2, kind, t, O[t]) = OwnOf(R, kind, t, O[t])
  BY DEF OwnOf
<1>3. \A t, u : EarlyOf(R2, kind, t, u) \in SUBSET Reqs /\ EarlyOf(R, kind, t, u) \in SUBSET Reqs
  BY DEF EarlyOf
<1>4. Cardinality(EarlyOf(R2, kind, s, p)) = Cardinality(EarlyOf(R, kind, s, p)) + 1
  <2>1. EarlyOf(R2, kind, s, p) = EarlyOf(R, kind, s, p) \cup {q} /\ q \notin EarlyOf(R, kind, s, p)
    BY DEF EarlyOf
  <2> QED
    BY <2>1, <1>3, OneMore
<1>5. \A t, u : <<t, u>> # <<s, p>> => EarlyOf(R2, kind, t, u) = EarlyOf(R, kind, t, u)
  BY DEF EarlyOf
<1>6. \A t, u : Cardinality(EarlyOf(R2, kind, t, u)) <= Cardinality(Reqs)
                /\ Cardinality(EarlyOf(R, kind, t, u)) \in Nat
                /\ Cardinality(Reqs) \in Nat
  BY <1>3, Counted
<1>7. /\ e \in [Sids \X Principals -> 0..Cardinality(Reqs)]
      /\ <<s, p>> \in Sids \X Principals
      /\ e2[<<s, p>>] = e[<<s, p>>] + 1
      /\ \A k \in Sids \X Principals : k # <<s, p>> => e2[k] = e[k]
      /\ e[<<s, p>>] <= Cardinality(EarlyOf(R, kind, s, p))
  BY DEF TallyOf
<1>8. e2 \in [Sids \X Principals -> 0..Cardinality(Reqs)]
  <2>1. e[<<s, p>>] + 1 \in 0..Cardinality(Reqs)
    BY <1>4, <1>6, <1>7
  <2> QED
    BY <2>1, <1>7
<1>9. \A t \in Sids, u \in Principals : e2[<<t, u>>] <= Cardinality(EarlyOf(R2, kind, t, u))
  <2> TAKE t \in Sids, u \in Principals
  <2>1. CASE <<t, u>> = <<s, p>>
    BY <2>1, <1>4, <1>6, <1>7
  <2>2. CASE <<t, u>> # <<s, p>>
    BY <2>2, <1>5, <1>7 DEF TallyOf
  <2> QED
    BY <2>1, <2>2
<1>10. \A t \in L : e2[<<t, O[t]>>] = 0
  <2> TAKE t \in L
  <2>1. <<t, O[t]>> # <<s, p>> /\ e[<<t, O[t]>>] = 0
    BY DEF TallyOf
  <2> QED
    BY <2>1, <1>7
<1>11. \A t \in Sids : K[t] = "none" =>
         n[t] = 0 /\ \A u \in Principals : e2[<<t, u>>] = Cardinality(EarlyOf(R2, kind, t, u))
  <2> SUFFICES ASSUME NEW t \in Sids, K[t] = "none", NEW u \in Principals
               PROVE  n[t] = 0 /\ e2[<<t, u>>] = Cardinality(EarlyOf(R2, kind, t, u))
    BY DEF TallyOf
  <2>0. n[t] = 0 /\ e[<<t, u>>] = Cardinality(EarlyOf(R, kind, t, u))
    BY DEF TallyOf
  <2>1. CASE <<t, u>> = <<s, p>>
    BY <2>0, <2>1, <1>4, <1>7
  <2>2. CASE <<t, u>> # <<s, p>>
    BY <2>0, <2>2, <1>5, <1>7
  <2> QED
    BY <2>1, <2>2
<1> QED
  BY <1>1, <1>2, <1>8, <1>9, <1>10, <1>11 DEF TallyOf

\* Another principal's request on a live session begins or ends.
Foreign(kind, R, R2, O, q) ==
  /\ q \in Reqs /\ \A r \in Reqs : r # q => R2[r] = R[r]
  /\ R[q].kind = kind => R[q].counted = "none" /\ R[q].principal # O[R[q].sid]
  /\ R2[q].kind = kind => R2[q].counted = "none" /\ R2[q].principal # O[R2[q].sid]

\* Then no count of the kind changes.
LEMMA TallyForeign ==
  ASSUME NEW kind, NEW R, NEW R2, NEW O, NEW L, NEW K, NEW q, NEW n, NEW e,
         TallyOf(kind, R, O, L, K, n, e), Foreign(kind, R, R2, O, q)
  PROVE  TallyOf(kind, R2, O, L, K, n, e)
<1> USE DEF Foreign
<1>1. \A s, p : EarlyOf(R2, kind, s, p) = EarlyOf(R, kind, s, p)
  BY DEF EarlyOf
<1>2. \A s : OwnOf(R2, kind, s, O[s]) = OwnOf(R, kind, s, O[s])
  BY DEF OwnOf
<1>3. \A s : OnIt(R2, kind, s, "live") = OnIt(R, kind, s, "live")
  BY DEF OnIt
<1> QED
  BY <1>1, <1>2, <1>3 DEF TallyOf

\* A request ends that is counted on the session itself.
EndsLive(kind, R, R2, O, L, q, s, n, n2) ==
  /\ q \in Reqs /\ s \in Sids /\ \A r \in Reqs : r # q => R2[r] = R[r]
  /\ R[q].kind = kind /\ R[q].sid = s /\ R2[q].kind # kind
  /\ \/ R[q].counted = "live"
     \/ R[q].counted = "early" /\ s \in L /\ O[s] = R[q].principal
  /\ n2 = [n EXCEPT ![s] = @ - 1]

\* Then the live count is one less and still exact.
LEMMA TallyEndLive ==
  ASSUME NEW kind, NEW R, NEW R2, NEW O, NEW L, L \subseteq Sids, NEW K, NEW q, NEW s,
         NEW n, NEW n2, NEW e,
         TallyOf(kind, R, O, L, K, n, e), PlacesOf(kind, R, O, K),
         EndsLive(kind, R, R2, O, L, q, s, n, n2), \A t \in L : K[t] # "none"
  PROVE  TallyOf(kind, R2, O, L, K, n2, e)
<1> USE DEF EndsLive
<1> USE HttpAssumption
<1> DEFINE p == R[q].principal
<1>0. O[s] = p /\ K[s] # "none" /\ p \in Principals
  BY DEF PlacesOf
<1>1. \A t, u : OwnOf(R2, kind, t, u) \in SUBSET Reqs /\ OwnOf(R, kind, t, u) \in SUBSET Reqs
  BY DEF OwnOf
<1>2. \A t : OnIt(R2, kind, t, "live") \in SUBSET Reqs /\ OnIt(R, kind, t, "live") \in SUBSET Reqs
  BY DEF OnIt
<1>3. \A t, u : EarlyOf(R2, kind, t, u) \in SUBSET Reqs /\ EarlyOf(R, kind, t, u) \in SUBSET Reqs
  BY DEF EarlyOf
<1>4. Cardinality(OwnOf(R, kind, s, O[s])) = Cardinality(OwnOf(R2, kind, s, O[s])) + 1
  <2>1. OwnOf(R, kind, s, O[s]) = OwnOf(R2, kind, s, O[s]) \cup {q} /\ q \notin OwnOf(R2, kind, s, O[s])
    BY <1>0 DEF OwnOf
  <2> QED
    BY <2>1, <1>1, OneMore
<1>5. \A t \in Sids : t # s =>
        /\ OwnOf(R2, kind, t, O[t]) = OwnOf(R, kind, t, O[t])
        /\ OnIt(R2, kind, t, "live") = OnIt(R, kind, t, "live")
        /\ \A u : EarlyOf(R2, kind, t, u) = EarlyOf(R, kind, t, u)
  BY DEF OwnOf, OnIt, EarlyOf
<1>6. \A u : u # p => EarlyOf(R2, kind, s, u) = EarlyOf(R, kind, s, u)
  BY DEF EarlyOf
<1>7. \A t \in Sids : /\ Cardinality(OnIt(R2, kind, t, "live")) \in Nat
                      /\ Cardinality(OnIt(R, kind, t, "live")) \in Nat
                      /\ Cardinality(OwnOf(R2, kind, t, O[t])) \in Nat
                      /\ Cardinality(Reqs) \in Nat
                      /\ \A u : Cardinality(EarlyOf(R2, kind, t, u)) \in Nat
  BY <1>1, <1>2, <1>3, Counted
<1>8. n[s] - 1 >= Cardinality(OnIt(R2, kind, s, "live"))
  <2>1. CASE R[q].counted = "live"
    <3>1. OnIt(R, kind, s, "live") = OnIt(R2, kind, s, "live") \cup {q} /\ q \notin OnIt(R2, kind, s, "live")
      BY <2>1 DEF OnIt
    <3>2. Cardinality(OnIt(R, kind, s, "live")) = Cardinality(OnIt(R2, kind, s, "live")) + 1
      BY <3>1, <1>2, OneMore
    <3> QED
      BY <3>2, <1>7 DEF TallyOf
  <2>2. CASE R[q].counted = "early" /\ s \in L
    <3>1. OnIt(R2, kind, s, "live") \subseteq OwnOf(R2, kind, s, O[s])
      BY <1>0, <2>2 DEF OnIt, OwnOf, PlacesOf
    <3>2. IsFiniteSet(OwnOf(R2, kind, s, O[s]))
      BY <1>1, FS_Subset
    <3>3. Cardinality(OnIt(R2, kind, s, "live")) <= Cardinality(OwnOf(R2, kind, s, O[s]))
      BY <3>1, <3>2, FS_Subset
    <3>4. n[s] = Cardinality(OwnOf(R, kind, s, O[s]))
      BY <2>2 DEF TallyOf
    <3> QED
      BY <3>3, <3>4, <1>4, <1>7
  <2> QED
    BY <2>1, <2>2
<1>9. /\ n \in [Sids -> 0..Cardinality(Reqs)]
      /\ n2[s] = n[s] - 1 /\ \A t \in Sids : t # s => n2[t] = n[t]
  BY DEF TallyOf
<1>10. n2 \in [Sids -> 0..Cardinality(Reqs)]
  <2>1. n[s] - 1 \in 0..Cardinality(Reqs)
    BY <1>7, <1>8, <1>9
  <2> QED
    BY <2>1, <1>9
<1>11. \A t \in Sids, u \in Principals : e[<<t, u>>] <= Cardinality(EarlyOf(R2, kind, t, u))
  <2> TAKE t \in Sids, u \in Principals
  <2>1. CASE t = s /\ u = p
    <3>1. CASE R[q].counted = "live"
      <4>1. EarlyOf(R2, kind, s, p) = EarlyOf(R, kind, s, p)
        BY <3>1 DEF EarlyOf
      <4> QED
        BY <4>1, <2>1 DEF TallyOf
    <3>2. CASE R[q].counted = "early" /\ s \in L
      <4>1. e[<<t, u>>] = 0
        BY <3>2, <2>1, <1>0 DEF TallyOf
      <4> QED
        BY <4>1, <1>7
    <3> QED
      BY <3>1, <3>2
  <2>2. CASE ~(t = s /\ u = p)
    BY <2>2, <1>5, <1>6 DEF TallyOf
  <2> QED
    BY <2>1, <2>2
<1>12. \A t \in L : n2[t] = Cardinality(OwnOf(R2, kind, t, O[t])) /\ e[<<t, O[t]>>] = 0
  <2> TAKE t \in L
  <2>0. n[t] = Cardinality(OwnOf(R, kind, t, O[t])) /\ e[<<t, O[t]>>] = 0
    BY DEF TallyOf
  <2>1. CASE t = s
    BY <2>0, <2>1, <1>4, <1>7, <1>9
  <2>2. CASE t # s
    BY <2>0, <2>2, <1>5, <1>9
  <2> QED
    BY <2>1, <2>2
<1>13. \A t \in Sids : K[t] = "none" =>
         n2[t] = 0 /\ \A u \in Principals : e[<<t, u>>] = Cardinality(EarlyOf(R2, kind, t, u))
  BY <1>0, <1>5, <1>9 DEF TallyOf
<1>14. \A t \in Sids : Cardinality(OnIt(R2, kind, t, "live")) <= n2[t]
  BY <1>5, <1>8, <1>9 DEF TallyOf
<1> QED
  BY <1>10, <1>11, <1>12, <1>13, <1>14 DEF TallyOf

\* A request ends that is still counted early.
EndsEarly(kind, R, R2, O, L, q, s, p, e, e2) ==
  /\ q \in Reqs /\ s \in Sids /\ p \in Principals /\ \A r \in Reqs : r # q => R2[r] = R[r]
  /\ R[q].kind = kind /\ R[q].sid = s /\ R[q].principal = p /\ R2[q].kind # kind
  /\ R[q].counted = "early" /\ ~(s \in L /\ O[s] = p)
  /\ e2 = [e EXCEPT ![<<s, p>>] = IF @ > 0 THEN @ - 1 ELSE 0]

\* Then the early count is one less and still exact.
LEMMA TallyEndEarly ==
  ASSUME NEW kind, NEW R, NEW R2, NEW O, NEW L, L \subseteq Sids, NEW K, NEW q, NEW s, NEW p,
         NEW n, NEW e, NEW e2,
         TallyOf(kind, R, O, L, K, n, e), EndsEarly(kind, R, R2, O, L, q, s, p, e, e2)
  PROVE  TallyOf(kind, R2, O, L, K, n, e2)
<1> USE DEF EndsEarly
<1> USE HttpAssumption
<1>1. \A t : OnIt(R2, kind, t, "live") = OnIt(R, kind, t, "live")
  BY DEF OnIt
<1>2. \A t \in L : OwnOf(R2, kind, t, O[t]) = OwnOf(R, kind, t, O[t])
  BY DEF OwnOf
<1>3. \A t, u : EarlyOf(R2, kind, t, u) \in SUBSET Reqs /\ EarlyOf(R, kind, t, u) \in SUBSET Reqs
  BY DEF EarlyOf
<1>4. Cardinality(EarlyOf(R, kind, s, p)) = Cardinality(EarlyOf(R2, kind, s, p)) + 1
  <2>1. EarlyOf(R, kind, s, p) = EarlyOf(R2, kind, s, p) \cup {q} /\ q \notin EarlyOf(R2, kind, s, p)
    BY DEF EarlyOf
  <2> QED
    BY <2>1, <1>3, OneMore
<1>5. \A t, u : <<t, u>> # <<s, p>> => EarlyOf(R2, kind, t, u) = EarlyOf(R, kind, t, u)
  BY DEF EarlyOf
<1>6. \A t, u : Cardinality(EarlyOf(R2, kind, t, u)) \in Nat /\ Cardinality(Reqs) \in Nat
  BY <1>3, Counted
<1>7. /\ e \in [Sids \X Principals -> 0..Cardinality(Reqs)]
      /\ <<s, p>> \in Sids \X Principals
      /\ e2[<<s, p>>] = IF e[<<s, p>>] > 0 THEN e[<<s, p>>] - 1 ELSE 0
      /\ \A k \in Sids \X Principals : k # <<s, p>> => e2[k] = e[k]
      /\ e[<<s, p>>] <= Cardinality(EarlyOf(R, kind, s, p))
  BY DEF TallyOf
<1>8. e2 \in [Sids \X Principals -> 0..Cardinality(Reqs)]
  <2>1. (IF e[<<s, p>>] > 0 THEN e[<<s, p>>] - 1 ELSE 0) \in 0..Cardinality(Reqs)
    BY <1>6, <1>7
  <2> QED
    BY <2>1, <1>7
<1>9. \A t \in Sids, u \in Principals : e2[<<t, u>>] <= Cardinality(EarlyOf(R2, kind, t, u))
  <2> TAKE t \in Sids, u \in Principals
  <2>1. CASE <<t, u>> = <<s, p>>
    BY <2>1, <1>4, <1>6, <1>7
  <2>2. CASE <<t, u>> # <<s, p>>
    BY <2>2, <1>5, <1>7 DEF TallyOf
  <2> QED
    BY <2>1, <2>2
<1>10. \A t \in L : e2[<<t, O[t]>>] = 0
  <2> TAKE t \in L
  <2>1. <<t, O[t]>> # <<s, p>> /\ e[<<t, O[t]>>] = 0
    BY DEF TallyOf
  <2>2. CASE <<t, O[t]>> \in Sids \X Principals
    BY <2>1, <2>2, <1>7
  <2>3. CASE <<t, O[t]>> \notin Sids \X Principals
    BY <2>1, <2>3, <1>7
  <2> QED
    BY <2>2, <2>3
<1>11. \A t \in Sids : K[t] = "none" =>
         n[t] = 0 /\ \A u \in Principals : e2[<<t, u>>] = Cardinality(EarlyOf(R2, kind, t, u))
  <2> SUFFICES ASSUME NEW t \in Sids, K[t] = "none", NEW u \in Principals
               PROVE  n[t] = 0 /\ e2[<<t, u>>] = Cardinality(EarlyOf(R2, kind, t, u))
    BY DEF TallyOf
  <2>0. n[t] = 0 /\ e[<<t, u>>] = Cardinality(EarlyOf(R, kind, t, u))
    BY DEF TallyOf
  <2>1. CASE <<t, u>> = <<s, p>>
    BY <2>0, <2>1, <1>4, <1>6, <1>7
  <2>2. CASE <<t, u>> # <<s, p>>
    BY <2>0, <2>2, <1>5, <1>7
  <2> QED
    BY <2>1, <2>2
<1> HIDE DEF EndsEarly
<1> QED
  BY <1>1, <1>2, <1>8, <1>9, <1>10, <1>11 DEF TallyOf

\* register takes over the requests begun early on s.
Registers(kind, R, R2, O, L, K, K2, s, n, n2, e, e2) ==
  /\ \A q \in Reqs : R[q].kind = kind \/ R2[q].kind = kind => R2[q] = R[q]
  /\ s \in Sids /\ s \notin L /\ K[s] = "none" /\ K2[s] # "none" /\ O[s] \in Principals
  /\ \A t \in L : O[t] \in Principals
  /\ \A t \in Sids : t # s => K2[t] = K[t]
  /\ n2 = [n EXCEPT ![s] = @ + e[<<s, O[s]>>]]
  /\ e2 = [e EXCEPT ![<<s, O[s]>>] = 0]

\* Then the early requests of the owner are the live count of the session.
LEMMA TallyRegister ==
  ASSUME NEW kind, NEW R, NEW R2, NEW O, NEW L, L \subseteq Sids, NEW K, NEW K2, NEW s,
         NEW n, NEW n2, NEW e, NEW e2,
         TallyOf(kind, R, O, L, K, n, e), PlacesOf(kind, R, O, K),
         Registers(kind, R, R2, O, L, K, K2, s, n, n2, e, e2)
  PROVE  TallyOf(kind, R2, O, L \cup {s}, K2, n2, e2)
<1> USE DEF Registers
<1> USE HttpAssumption
<1> DEFINE k == <<s, O[s]>>
<1>1. \A t, p : EarlyOf(R2, kind, t, p) = EarlyOf(R, kind, t, p)
  BY DEF EarlyOf
<1>2. \A t, p : OwnOf(R2, kind, t, p) = OwnOf(R, kind, t, p)
  BY DEF OwnOf
<1>3. \A t : OnIt(R2, kind, t, "live") = OnIt(R, kind, t, "live")
  BY DEF OnIt
<1>4. OwnOf(R, kind, s, O[s]) = EarlyOf(R, kind, s, O[s])
  BY DEF OwnOf, EarlyOf, PlacesOf
<1>5. /\ n \in [Sids -> 0..Cardinality(Reqs)]
      /\ e \in [Sids \X Principals -> 0..Cardinality(Reqs)]
      /\ k \in Sids \X Principals
      /\ n[s] = 0 /\ e[k] = Cardinality(EarlyOf(R, kind, s, O[s]))
  BY DEF TallyOf
<1>6. \A t \in Sids, p \in Principals : Cardinality(EarlyOf(R, kind, t, p)) \in Nat
                                        /\ Cardinality(Reqs) \in Nat
  <2>1. \A t, p : EarlyOf(R, kind, t, p) \in SUBSET Reqs
    BY DEF EarlyOf
  <2> QED
    BY <2>1, Counted
<1>7. n2[s] = e[k] /\ \A t \in Sids : t # s => n2[t] = n[t]
  BY <1>5
<1>8. e2[k] = 0 /\ \A x \in Sids \X Principals : x # k => e2[x] = e[x]
  BY <1>5
<1>9. n2 \in [Sids -> 0..Cardinality(Reqs)] /\ e2 \in [Sids \X Principals -> 0..Cardinality(Reqs)]
  BY <1>5, <1>6
<1>10. \A t \in Sids, p \in Principals : e2[<<t, p>>] <= Cardinality(EarlyOf(R2, kind, t, p))
  <2> TAKE t \in Sids, p \in Principals
  <2>1. CASE <<t, p>> = k
    BY <2>1, <1>1, <1>6, <1>8
  <2>2. CASE <<t, p>> # k
    BY <2>2, <1>1, <1>8 DEF TallyOf
  <2> QED
    BY <2>1, <2>2
<1>11. \A t \in L \cup {s} : n2[t] = Cardinality(OwnOf(R2, kind, t, O[t])) /\ e2[<<t, O[t]>>] = 0
  <2> TAKE t \in L \cup {s}
  <2>1. CASE t = s
    BY <2>1, <1>2, <1>4, <1>5, <1>7, <1>8
  <2>2. CASE t # s
    <3>1. t \in L /\ <<t, O[t]>> # k /\ <<t, O[t]>> \in Sids \X Principals
      BY <2>2
    <3>2. n[t] = Cardinality(OwnOf(R, kind, t, O[t])) /\ e[<<t, O[t]>>] = 0
      BY <3>1 DEF TallyOf
    <3> QED
      BY <3>1, <3>2, <2>2, <1>2, <1>7, <1>8
  <2> QED
    BY <2>1, <2>2
<1>12. \A t \in Sids : K2[t] = "none" =>
         n2[t] = 0 /\ \A p \in Principals : e2[<<t, p>>] = Cardinality(EarlyOf(R2, kind, t, p))
  <2> SUFFICES ASSUME NEW t \in Sids, K2[t] = "none", NEW p \in Principals
               PROVE  n2[t] = 0 /\ e2[<<t, p>>] = Cardinality(EarlyOf(R2, kind, t, p))
    BY <1>5, <1>7 DEF TallyOf
  <2>1. t # s /\ K[t] = "none" /\ <<t, p>> # k
    OBVIOUS
  <2>2. n[t] = 0 /\ e[<<t, p>>] = Cardinality(EarlyOf(R, kind, t, p))
    BY <2>1 DEF TallyOf
  <2> QED
    BY <2>1, <2>2, <1>1, <1>7, <1>8
<1>13. \A t \in Sids : Cardinality(OnIt(R2, kind, t, "live")) <= n2[t]
  <2> TAKE t \in Sids
  <2>0. Cardinality(OnIt(R, kind, t, "live")) <= n[t]
    BY DEF TallyOf
  <2>1. CASE t = s
    <3>1. Cardinality(OnIt(R, kind, t, "live")) \in Nat
      <4>1. OnIt(R, kind, t, "live") \in SUBSET Reqs
        BY DEF OnIt
      <4> QED
        BY <4>1, Counted
    <3> QED
      BY <2>0, <2>1, <3>1, <1>3, <1>5, <1>6, <1>7
  <2>2. CASE t # s
    BY <2>0, <2>2, <1>3, <1>7
  <2> QED
    BY <2>1, <2>2
<1> QED
  BY <1>9, <1>10, <1>11, <1>12, <1>13 DEF TallyOf
-----------------------------------------------------------------------------
(* The places taken *)

Taking == {"reserved", "served"}

\* The requests, and the sessions, that hold a place for a principal in P.
TakingOf(R, P) == {q \in Reqs : R[q].stage \in Taking /\ R[q].principal \in P}

HoldingOf(K, O, P) == {s \in Sids : K[s] = "held" /\ O[s] \in P}

\* sessionsPerPrincipal n and sessions m count them, within the caps.
SlotsOf(R, K, O, n, m) ==
  /\ n \in [Principals -> 0..MaxSessionsPerPrincipal]
  /\ m \in 0..MaxSessions
  /\ \A p \in Principals : n[p] = Cardinality(TakingOf(R, {p})) + Cardinality(HoldingOf(K, O, {p}))
  /\ m = Cardinality(TakingOf(R, Principals)) + Cardinality(HoldingOf(K, O, Principals))

SameTaking(R, R2) ==
  \A q \in Reqs : \/ R2[q].stage \notin Taking /\ R[q].stage \notin Taking
                  \/ /\ R2[q].stage \in Taking /\ R[q].stage \in Taking
                     /\ R2[q].principal = R[q].principal

SameHolding(K, O, K2, O2) ==
  \A s \in Sids : \/ K2[s] # "held" /\ K[s] # "held"
                  \/ K2[s] = "held" /\ K[s] = "held" /\ O2[s] = O[s]

\* R2 is R with one more request that holds a place, for p.
MoreTaking(R, R2, q, p) ==
  /\ q \in Reqs /\ R[q].stage \notin Taking
  /\ R2[q].stage \in Taking /\ R2[q].principal = p
  /\ \A r \in Reqs : r # q => R2[r] = R[r]

\* K2 is K with one more session that holds a place, for p.
MoreHolding(K, K2, O, s, p) ==
  /\ s \in Sids /\ K[s] # "held" /\ K2[s] = "held" /\ O[s] = p
  /\ \A t \in Sids : t # s => K2[t] = K[t]

One(p, P) == IF p \in P THEN 1 ELSE 0

\* The counts of places are naturals.
LEMMA SlotCounts ==
  /\ \A R, P : Cardinality(TakingOf(R, P)) \in Nat
  /\ \A K, O, P : Cardinality(HoldingOf(K, O, P)) \in Nat
<1>1. \A R, P : TakingOf(R, P) \in SUBSET Reqs
  BY DEF TakingOf
<1>2. \A K, O, P : HoldingOf(K, O, P) \in SUBSET Sids
  BY DEF HoldingOf
<1> QED
  BY <1>1, <1>2, Counted, HttpAssumption

\* One more request holds a place.
LEMMA TakingMore ==
  ASSUME NEW R, NEW R2, NEW q, NEW p, NEW P, MoreTaking(R, R2, q, p)
  PROVE  Cardinality(TakingOf(R2, P)) = Cardinality(TakingOf(R, P)) + One(p, P)
<1>1. TakingOf(R, P) \in SUBSET Reqs /\ TakingOf(R2, P) \in SUBSET Reqs
  BY DEF TakingOf
<1>2. CASE p \in P
  <2>1. q \notin TakingOf(R, P) /\ TakingOf(R2, P) = TakingOf(R, P) \cup {q}
    BY <1>2 DEF TakingOf, MoreTaking
  <2> QED
    BY <1>1, <1>2, <2>1, OneMore, HttpAssumption DEF One
<1>3. CASE p \notin P
  <2>1. TakingOf(R2, P) = TakingOf(R, P)
    BY <1>3 DEF TakingOf, MoreTaking
  <2> QED
    BY <2>1, <1>3, SlotCounts DEF One
<1> QED
  BY <1>2, <1>3

\* One more session holds a place.
LEMMA HoldingMore ==
  ASSUME NEW K, NEW K2, NEW O, NEW s, NEW p, NEW P, MoreHolding(K, K2, O, s, p)
  PROVE  Cardinality(HoldingOf(K2, O, P)) = Cardinality(HoldingOf(K, O, P)) + One(p, P)
<1>1. HoldingOf(K, O, P) \in SUBSET Sids /\ HoldingOf(K2, O, P) \in SUBSET Sids
  BY DEF HoldingOf
<1>2. CASE p \in P
  <2>1. s \notin HoldingOf(K, O, P) /\ HoldingOf(K2, O, P) = HoldingOf(K, O, P) \cup {s}
    BY <1>2 DEF HoldingOf, MoreHolding
  <2> QED
    BY <1>1, <1>2, <2>1, OneMore, HttpAssumption DEF One
<1>3. CASE p \notin P
  <2>1. HoldingOf(K2, O, P) = HoldingOf(K, O, P)
    BY <1>3 DEF HoldingOf, MoreHolding
  <2> QED
    BY <2>1, <1>3, SlotCounts DEF One
<1> QED
  BY <1>2, <1>3

\* A step that moves no place.
LEMMA SlotsSame ==
  ASSUME NEW R, NEW R2, NEW K, NEW K2, NEW O, NEW O2, NEW n, NEW m,
         SlotsOf(R, K, O, n, m), SameTaking(R, R2), SameHolding(K, O, K2, O2)
  PROVE  SlotsOf(R2, K2, O2, n, m)
<1>1. \A P : TakingOf(R2, P) = TakingOf(R, P)
  BY DEF TakingOf, SameTaking
<1>2. \A P : HoldingOf(K2, O2, P) = HoldingOf(K, O, P)
  BY DEF HoldingOf, SameHolding
<1> QED
  BY <1>1, <1>2 DEF SlotsOf

\* A place is taken.
LEMMA SlotsTaken ==
  ASSUME NEW R, NEW R2, NEW K, NEW O, NEW n, NEW m, NEW n2, NEW q, NEW p \in Principals,
         SlotsOf(R, K, O, n, m), MoreTaking(R, R2, q, p),
         n[p] < MaxSessionsPerPrincipal, m < MaxSessions,
         n2 = [n EXCEPT ![p] = @ + 1]
  PROVE  SlotsOf(R2, K, O, n2, m + 1)
<1>1. /\ n \in [Principals -> 0..MaxSessionsPerPrincipal] /\ m \in 0..MaxSessions
      /\ MaxSessionsPerPrincipal \in Nat /\ MaxSessions \in Nat
  BY HttpAssumption DEF SlotsOf
<1>2. n2 \in [Principals -> 0..MaxSessionsPerPrincipal] /\ m + 1 \in 0..MaxSessions
  <2>1. n[p] + 1 \in 0..MaxSessionsPerPrincipal /\ m + 1 \in 0..MaxSessions
    BY <1>1
  <2> QED
    BY <2>1, <1>1
<1>3. ASSUME NEW r \in Principals
      PROVE  n2[r] = Cardinality(TakingOf(R2, {r})) + Cardinality(HoldingOf(K, O, {r}))
  <2>1. Cardinality(TakingOf(R2, {r})) = Cardinality(TakingOf(R, {r})) + One(p, {r})
    BY TakingMore
  <2>2. n[r] = Cardinality(TakingOf(R, {r})) + Cardinality(HoldingOf(K, O, {r}))
    BY DEF SlotsOf
  <2>3. n2[r] = n[r] + One(p, {r})
    BY <1>1 DEF One
  <2>4. One(p, {r}) \in Nat
    BY DEF One
  <2> QED
    BY <2>1, <2>2, <2>3, <2>4, SlotCounts
<1>4. m + 1 = Cardinality(TakingOf(R2, Principals)) + Cardinality(HoldingOf(K, O, Principals))
  <2>1. Cardinality(TakingOf(R2, Principals)) = Cardinality(TakingOf(R, Principals)) + 1
    BY TakingMore DEF One
  <2>2. m = Cardinality(TakingOf(R, Principals)) + Cardinality(HoldingOf(K, O, Principals))
    BY DEF SlotsOf
  <2> QED
    BY <2>1, <2>2, SlotCounts
<1> QED
  BY <1>2, <1>3, <1>4 DEF SlotsOf

\* A place is given back before there is a session.
LEMMA SlotsUntaken ==
  ASSUME NEW R, NEW R2, NEW K, NEW O, NEW n, NEW m, NEW n2, NEW q, NEW p \in Principals,
         SlotsOf(R, K, O, n, m), MoreTaking(R2, R, q, p),
         n2 = [n EXCEPT ![p] = @ - 1]
  PROVE  SlotsOf(R2, K, O, n2, m - 1)
<1>1. /\ n \in [Principals -> 0..MaxSessionsPerPrincipal] /\ m \in 0..MaxSessions
      /\ MaxSessionsPerPrincipal \in Nat /\ MaxSessions \in Nat
  BY HttpAssumption DEF SlotsOf
<1>2. ASSUME NEW r \in Principals
      PROVE  /\ n2[r] = Cardinality(TakingOf(R2, {r})) + Cardinality(HoldingOf(K, O, {r}))
             /\ n2[r] \in 0..MaxSessionsPerPrincipal
  <2>1. Cardinality(TakingOf(R, {r})) = Cardinality(TakingOf(R2, {r})) + One(p, {r})
    BY TakingMore
  <2>2. n[r] = Cardinality(TakingOf(R, {r})) + Cardinality(HoldingOf(K, O, {r}))
    BY DEF SlotsOf
  <2>3. n2[r] = n[r] - One(p, {r})
    BY <1>1 DEF One
  <2>4. One(p, {r}) \in Nat /\ n[r] \in 0..MaxSessionsPerPrincipal
    BY <1>1 DEF One
  <2> QED
    BY <2>1, <2>2, <2>3, <2>4, <1>1, SlotCounts
<1>3. n2 \in [Principals -> 0..MaxSessionsPerPrincipal]
  <2>1. n2 = [r \in Principals |-> n2[r]]
    BY <1>1
  <2> QED
    BY <2>1, <1>2
<1>4. /\ m - 1 = Cardinality(TakingOf(R2, Principals)) + Cardinality(HoldingOf(K, O, Principals))
      /\ m - 1 \in 0..MaxSessions
  <2>1. Cardinality(TakingOf(R, Principals)) = Cardinality(TakingOf(R2, Principals)) + 1
    BY TakingMore DEF One
  <2>2. m = Cardinality(TakingOf(R, Principals)) + Cardinality(HoldingOf(K, O, Principals))
    BY DEF SlotsOf
  <2> QED
    BY <2>1, <2>2, <1>1, SlotCounts
<1> QED
  BY <1>2, <1>3, <1>4 DEF SlotsOf

\* A session gives its place back.
LEMMA SlotsReleased ==
  ASSUME NEW R, NEW K, NEW K2, NEW O, NEW n, NEW m, NEW n2, NEW s, NEW p \in Principals,
         SlotsOf(R, K, O, n, m), MoreHolding(K2, K, O, s, p),
         n2 = [n EXCEPT ![p] = @ - 1]
  PROVE  SlotsOf(R, K2, O, n2, m - 1)
<1>1. /\ n \in [Principals -> 0..MaxSessionsPerPrincipal] /\ m \in 0..MaxSessions
      /\ MaxSessionsPerPrincipal \in Nat /\ MaxSessions \in Nat
  BY HttpAssumption DEF SlotsOf
<1>2. ASSUME NEW r \in Principals
      PROVE  /\ n2[r] = Cardinality(TakingOf(R, {r})) + Cardinality(HoldingOf(K2, O, {r}))
             /\ n2[r] \in 0..MaxSessionsPerPrincipal
  <2>1. Cardinality(HoldingOf(K, O, {r})) = Cardinality(HoldingOf(K2, O, {r})) + One(p, {r})
    BY HoldingMore
  <2>2. n[r] = Cardinality(TakingOf(R, {r})) + Cardinality(HoldingOf(K, O, {r}))
    BY DEF SlotsOf
  <2>3. n2[r] = n[r] - One(p, {r})
    BY <1>1 DEF One
  <2>4. One(p, {r}) \in Nat /\ n[r] \in 0..MaxSessionsPerPrincipal
    BY <1>1 DEF One
  <2> QED
    BY <2>1, <2>2, <2>3, <2>4, <1>1, SlotCounts
<1>3. n2 \in [Principals -> 0..MaxSessionsPerPrincipal]
  <2>1. n2 = [r \in Principals |-> n2[r]]
    BY <1>1
  <2> QED
    BY <2>1, <1>2
<1>4. /\ m - 1 = Cardinality(TakingOf(R, Principals)) + Cardinality(HoldingOf(K2, O, Principals))
      /\ m - 1 \in 0..MaxSessions
  <2>1. Cardinality(HoldingOf(K, O, Principals)) = Cardinality(HoldingOf(K2, O, Principals)) + 1
    BY HoldingMore DEF One
  <2>2. m = Cardinality(TakingOf(R, Principals)) + Cardinality(HoldingOf(K, O, Principals))
    BY DEF SlotsOf
  <2> QED
    BY <2>1, <2>2, <1>1, SlotCounts
<1> QED
  BY <1>2, <1>3, <1>4 DEF SlotsOf

\* A place goes from a session to a request or back, of one principal: nothing
\* is counted twice, and nothing is lost.
LEMMA SlotsMoved ==
  ASSUME NEW R, NEW R2, NEW K, NEW K2, NEW O, NEW n, NEW m, NEW q, NEW s, NEW p \in Principals,
         SlotsOf(R, K, O, n, m),
         \/ MoreTaking(R, R2, q, p) /\ MoreHolding(K2, K, O, s, p)
         \/ MoreTaking(R2, R, q, p) /\ MoreHolding(K, K2, O, s, p)
  PROVE  SlotsOf(R2, K2, O, n, m)
<1>1. ASSUME NEW P
      PROVE  Cardinality(TakingOf(R2, P)) + Cardinality(HoldingOf(K2, O, P))
             = Cardinality(TakingOf(R, P)) + Cardinality(HoldingOf(K, O, P))
  <2>0. One(p, P) \in Nat
    BY DEF One
  <2>1. CASE MoreTaking(R, R2, q, p) /\ MoreHolding(K2, K, O, s, p)
    <3>1. Cardinality(TakingOf(R2, P)) = Cardinality(TakingOf(R, P)) + One(p, P)
      BY <2>1, TakingMore
    <3>2. Cardinality(HoldingOf(K, O, P)) = Cardinality(HoldingOf(K2, O, P)) + One(p, P)
      BY <2>1, HoldingMore
    <3> QED
      BY <3>1, <3>2, <2>0, SlotCounts
  <2>2. CASE MoreTaking(R2, R, q, p) /\ MoreHolding(K, K2, O, s, p)
    <3>1. Cardinality(TakingOf(R, P)) = Cardinality(TakingOf(R2, P)) + One(p, P)
      BY <2>2, TakingMore
    <3>2. Cardinality(HoldingOf(K2, O, P)) = Cardinality(HoldingOf(K, O, P)) + One(p, P)
      BY <2>2, HoldingMore
    <3> QED
      BY <3>1, <3>2, <2>0, SlotCounts
  <2> QED
    BY <2>1, <2>2
<1> QED
  BY <1>1 DEF SlotsOf
-----------------------------------------------------------------------------
(* The inductive invariant *)

Opening == {"admitted", "reserved", "served", "registered", "tracked", "untracked"}

\* The stages of a request that go-sdk has given a session.
HasId == {"served", "registered", "tracked", "untracked"}

Ended == {"closed", "gone"}

RequestType ==
  [kind : {"idle", "open", "post", "get"}, stage : Opening \cup {"idle", "begun"},
   principal : Principals \cup {NoPrincipal}, sid : Sids \cup {NoSid},
   counted : {"none", "live", "early"}]

\* What a request knows at each stage.
Requests ==
  /\ req \in [Reqs -> RequestType]
  /\ \A q \in Reqs :
       /\ req[q].kind = "idle" => req[q].stage = "idle"
       /\ req[q].kind = "open" => req[q].stage \in Opening /\ req[q].principal \in Principals
       /\ req[q].stage \in HasId => req[q].sid \in Sids
       /\ req[q].stage \in Opening \ HasId => req[q].sid = NoSid
       /\ req[q].kind \in {"post", "get"} =>
            req[q].stage = "begun" /\ req[q].principal \in Principals /\ req[q].sid \in Sids

CallType ==
  [stage : {"idle", "delivered", "running"}, sid : Sids \cup {NoSid}, cancelled : BOOLEAN]

CallTypes ==
  /\ call \in [Calls -> CallType]
  /\ \A c \in Calls : call[c].stage # "idle" => call[c].sid \in Sids

SessionTypes ==
  /\ sdk \in [Sids -> {"unused", "open", "closing", "closed", "gone"}]
  /\ owner \in [Sids -> Principals \cup {NoPrincipal}]
  /\ live \subseteq Sids /\ evicted \subseteq Sids /\ retired \subseteq Sids
  /\ snapshot \subseteq Sids
  /\ timer \in [Sids -> {"none", "running", "out", "paused", "stopped"}]
  /\ fired \in [Sids -> {"no", "pending", "overtaken"}]
  /\ slot \in [Sids -> {"none", "held", "released"}]
  /\ watcher \in [Sids -> {"none", "waiting", "stopped", "forgotten", "done"}]
  /\ evictor \in [Sids -> {"none", "starting", "closing", "done"}]
  /\ closers \subseteq Sids \X {"delete", "expire", "evict", "settle", "proxy"}
  /\ closing \in {"no", "limits", "sessions", "done"}

\* used lists the live sessions.
Ordered == OrderOf(used, live)

\* go-sdk's sessions belong to a principal and are registered at most once.
Owned ==
  \A s \in Sids : /\ sdk[s] # "unused" => owner[s] \in Principals
                  /\ sdk[s] = "unused" => slot[s] = "none"

\* Before register, httpHandler keeps nothing of a session.
Unregistered ==
  \A s \in Sids : slot[s] = "none" =>
    /\ s \notin live /\ s \notin evicted /\ s \notin retired
    /\ watcher[s] = "none" /\ timer[s] = "none" /\ evictor[s] = "none"

\* Who keeps the place of a session.
PlaceKept ==
  \A s \in Sids :
    /\ s \in live /\ s \notin evicted => slot[s] = "held"
    /\ s \in evicted => slot[s] = "released" /\ timer[s] = "stopped"
    /\ slot[s] = "released" => s \in evicted \/ sdk[s] \in Ended

\* A session without a watcher is in the hands of the request that opened it.
Attended ==
  \A s \in Sids : sdk[s] \in {"open", "closing"} /\ watcher[s] = "none" =>
    \E q \in Reqs : /\ req[q].sid = s /\ req[q].stage \in {"served", "registered", "untracked"}
                    /\ slot[s] = "none" => req[q].stage = "served"

\* An evicted session was retired, and has an evictor if anyone has.
Evictions ==
  \A s \in Sids : /\ s \in evicted => s \in retired \/ sdk[s] \in Ended
                  /\ evictor[s] # "none" => s \in evicted

\* A session id is given to one request, of its owner.
Openers ==
  /\ \A q, r \in Reqs :
       req[q].stage \in HasId /\ req[r].stage \in HasId /\ req[q].sid = req[r].sid => q = r
  /\ \A q \in Reqs : req[q].stage \in HasId =>
       sdk[req[q].sid] # "unused" /\ owner[req[q].sid] = req[q].principal

\* How far that request has come with it.
Settling ==
  \A q \in Reqs :
    /\ req[q].stage = "served" => slot[req[q].sid] = "none"
    /\ req[q].stage \in {"registered", "tracked", "untracked"} => slot[req[q].sid] # "none"
    /\ req[q].stage \in {"registered", "untracked"} => watcher[req[q].sid] = "none"
    /\ req[q].stage = "tracked" => watcher[req[q].sid] # "none"
    /\ req[q].stage = "untracked" => req[q].sid \notin live
    /\ req[q].stage \in {"registered", "tracked"} /\ timer[req[q].sid] = "none" =>
         req[q].sid \in live

\* A watcher acts on a session that has ended; forget leaves nothing of it but
\* the tombstone.
Watchers ==
  \A s \in Sids :
    /\ watcher[s] \in {"stopped", "forgotten", "done"} => sdk[s] \in Ended /\ timer[s] = "stopped"
    /\ watcher[s] \in {"forgotten", "done"} =>
         s \notin retired /\ (s \in evicted \/ s \notin live)

\* The idle clock runs for live sessions only.
Clocks ==
  \A s \in Sids : /\ fired[s] # "no" => timer[s] # "none"
                  /\ timer[s] \in {"running", "out", "paused"} => s \in live
                  /\ watcher[s] = "none" => timer[s] \in {"none", "stopped"}

\* Calls are on sessions that go-sdk has not ended, and run on none that is
\* evicted; on a retired one they are cancelled, and Proxy.Close knows them.
CallsHold ==
  \A c \in Calls :
    /\ call[c].stage # "idle" => sdk[call[c].sid] \in {"open", "closing"}
    /\ call[c].stage = "running" => call[c].sid \notin evicted
    /\ call[c].stage = "running" /\ call[c].sid \in retired => call[c].cancelled
    /\ call[c].stage = "running" /\ closing \in {"sessions", "done"} => call[c].sid \in snapshot

\* When the tombstone of an evicted session may be gone.
Tombstones ==
  \A s \in Sids :
    /\ s \in evicted => \/ s \in live \/ closing # "no" \/ sdk[s] = "gone"
                        \/ <<s, "delete">> \in closers \/ <<s, "expire">> \in closers
    /\ <<s, "proxy">> \in closers => closing # "no"

\* What Proxy.Close has waited for.
Closed ==
  closing = "done" =>
    /\ \A s \in snapshot : sdk[s] \in Ended
    /\ \A s \in Sids : watcher[s] \in {"none", "done"}

Slots == SlotsOf(req, slot, owner, slots, sessions)

\* POSTs and GETs are on ids that have been issued, counted where they belong.
Places ==
  /\ \A q \in Reqs : req[q].kind \in {"post", "get"} => sdk[req[q].sid] # "unused"
  /\ PlacesOf("post", req, owner, slot) /\ PlacesOf("get", req, owner, slot)

Tallies ==
  /\ TallyOf("post", req, owner, live, slot, active, early)
  /\ TallyOf("get", req, owner, live, slot, gets, earlyGets)

HttpInv ==
  /\ Requests /\ CallTypes /\ SessionTypes /\ Ordered
  /\ Owned /\ Unregistered /\ PlaceKept /\ Attended /\ Evictions
  /\ Openers /\ Settling /\ Watchers /\ Clocks
  /\ CallsHold /\ Tombstones /\ Closed
  /\ Slots /\ Places /\ Tallies

-----------------------------------------------------------------------------
(* Steps that change no POST and no GET *)

SameRequests ==
  /\ \A q \in Reqs : \/ req'[q] = req[q]
                     \/ /\ req[q].kind # "post" /\ req'[q].kind # "post"
                        /\ req[q].kind # "get" /\ req'[q].kind # "get"
  /\ live' \subseteq live
  /\ \A s \in live : owner'[s] = owner[s]
  /\ \A s \in Sids : slot'[s] = "none" => slot[s] = "none"

\* Such a step keeps the counters right.
LEMMA TalliesSame ==
  ASSUME Tallies, SameRequests, UNCHANGED <<active, gets, early, earlyGets>>
  PROVE  Tallies'
<1>1. TallyOf("post", req', owner', live', slot', active, early)
  <2>1. \A q \in Reqs : req[q].kind = "post" \/ req'[q].kind = "post" => req'[q] = req[q]
    BY DEF SameRequests
  <2>2. /\ live' \subseteq live /\ \A s \in live' : owner'[s] = owner[s]
        /\ \A s \in Sids : slot'[s] = "none" => slot[s] = "none"
    BY DEF SameRequests
  <2>3. TallyOf("post", req, owner, live, slot, active, early)
    BY DEF Tallies
  <2> QED
    BY <2>1, <2>2, <2>3, TallySame
<1>2. TallyOf("get", req', owner', live', slot', gets, earlyGets)
  <2>1. \A q \in Reqs : req[q].kind = "get" \/ req'[q].kind = "get" => req'[q] = req[q]
    BY DEF SameRequests
  <2>2. /\ live' \subseteq live /\ \A s \in live' : owner'[s] = owner[s]
        /\ \A s \in Sids : slot'[s] = "none" => slot[s] = "none"
    BY DEF SameRequests
  <2>3. TallyOf("get", req, owner, live, slot, gets, earlyGets)
    BY DEF Tallies
  <2> QED
    BY <2>1, <2>2, <2>3, TallySame
<1> QED
  BY <1>1, <1>2 DEF Tallies

\* cancelSession changes nothing of a call but that it is cancelled.
LEMMA CancelledOn ==
  ASSUME CallTypes, NEW S, call' = CancelOn(S)
  PROVE  /\ call' \in [Calls -> CallType]
         /\ \A c \in Calls : /\ call'[c].stage = call[c].stage /\ call'[c].sid = call[c].sid
                             /\ call[c].cancelled => call'[c].cancelled
                             /\ call[c].stage = "running" /\ call[c].sid \in S => call'[c].cancelled
<1>1. ASSUME NEW c \in Calls
      PROVE  /\ call'[c] \in CallType
             /\ call'[c].stage = call[c].stage /\ call'[c].sid = call[c].sid
             /\ call[c].cancelled => call'[c].cancelled
             /\ call[c].stage = "running" /\ call[c].sid \in S => call'[c].cancelled
  <2>0. call[c] \in CallType
    BY DEF CallTypes
  <2>1. CASE call[c].stage = "running" /\ call[c].sid \in S
    <3>1. call'[c] = [call[c] EXCEPT !.cancelled = TRUE]
      BY <2>1 DEF CancelOn
    <3>2. call'[c] \in CallType /\ call'[c].cancelled
      BY <3>1, <2>0 DEF CallType
    <3>3. call'[c].stage = call[c].stage /\ call'[c].sid = call[c].sid
      BY <3>1, <2>0 DEF CallType
    <3> QED
      BY <3>2, <3>3
  <2>2. CASE ~(call[c].stage = "running" /\ call[c].sid \in S)
    <3>1. call'[c] = call[c]
      BY <2>2 DEF CancelOn
    <3> QED
      BY <3>1, <2>0, <2>2
  <2> QED
    BY <2>1, <2>2
<1>2. call' = [c \in Calls |-> call'[c]]
  BY DEF CancelOn
<1> QED
  BY <1>1, <1>2

-----------------------------------------------------------------------------
(* One lemma per action *)

\* A POST without a session id arrives.
LEMMA OpenPostKeeps ==
  ASSUME HttpInv, NEW q \in Reqs, NEW p \in Principals, OpenPost(q, p)
  PROVE  HttpInv'
<1>1. /\ req[q] = Idle
      /\ req' = [req EXCEPT ![q] = [kind |-> "open", stage |-> "admitted", principal |-> p,
                                   sid |-> NoSid, counted |-> "none"]]
      /\ UNCHANGED <<call, sdk, owner, live, evicted, used, timer, fired, active, gets,
                     early, earlyGets, slot, slots, sessions, retired, watcher, evictor, closers,
                     closing, snapshot>>
  BY DEF OpenPost, life, book, clock, counts, places, helpers, shutdown
<1>2. /\ req[q].kind = "idle" /\ req[q].stage = "idle"
      /\ req'[q].kind = "open" /\ req'[q].stage = "admitted" /\ req'[q].principal = p
      /\ req'[q].sid = NoSid /\ req'[q].counted = "none"
      /\ \A r \in Reqs : r # q => req'[r] = req[r]
      /\ req[q] \in RequestType /\ req' \in [Reqs -> RequestType]
  BY <1>1 DEF HttpInv, Requests, RequestType, Opening, Idle
<1>3. /\ CallTypes' /\ SessionTypes' /\ Ordered' /\ Owned' /\ Unregistered' /\ PlaceKept'
      /\ Evictions'
      /\ Watchers' /\ Clocks' /\ CallsHold' /\ Tombstones' /\ Closed'
  BY <1>1 DEF HttpInv, CallTypes, SessionTypes, Ordered, Owned, Unregistered, PlaceKept,
              Evictions, Watchers, Clocks, CallsHold, Tombstones, Closed
<1>4. Requests'
  BY <1>1, <1>2 DEF HttpInv, Requests, RequestType, Opening, HasId
<1>5. Attended'
  BY <1>1, <1>2 DEF HttpInv, Attended, SessionTypes, Settling, Openers, Requests, HasId,
              Opening, Ended, Watchers
<1>6. Openers'
  BY <1>1, <1>2 DEF HttpInv, Openers, Requests, HasId, Opening, SessionTypes
<1>7. Settling'
  BY <1>1, <1>2 DEF HttpInv, Settling, Openers, Requests, HasId, Opening, SessionTypes,
              Unregistered, PlaceKept, Watchers, Clocks, Evictions
<1>8. Slots'
  <2>1. SameTaking(req, req')
    BY <1>2 DEF SameTaking, Taking
  <2>2. SameHolding(slot, owner, slot', owner')
    BY <1>1 DEF SameHolding
  <2> QED
    BY <1>1, <2>1, <2>2, SlotsSame DEF HttpInv, Slots
<1>9. Places'
  BY <1>1, <1>2 DEF HttpInv, Places, PlacesOf, Requests, RequestType, Opening, HasId,
       SessionTypes, Idle
<1>10. Tallies'
  <2>1. SameRequests
    BY <1>1, <1>2 DEF HttpInv, SameRequests, SessionTypes
  <2> QED
    BY <2>1, <1>1, TalliesSame DEF HttpInv
<1> QED
  BY <1>3, <1>4, <1>5, <1>6, <1>7, <1>8, <1>9, <1>10 DEF HttpInv

\* reserveSession finds a free place.
LEMMA ReserveFreeKeeps ==
  ASSUME HttpInv, NEW q \in Reqs, ReserveFree(q)
  PROVE  HttpInv'
<1>1. /\ req[q].stage = "admitted" /\ ~Full(req[q].principal)
      /\ slots' = [slots EXCEPT ![req[q].principal] = @ + 1]
      /\ sessions' = sessions + 1
      /\ req' = [req EXCEPT ![q].stage = "reserved"]
      /\ UNCHANGED <<call, sdk, owner, live, evicted, used, timer, fired, active, gets,
                     early, earlyGets, slot, retired, watcher, evictor, closers, closing, snapshot>>
  BY DEF ReserveFree, life, book, clock, counts, places, helpers, shutdown
<1>2. /\ req[q].kind = "open" /\ req[q].stage = "admitted" /\ req'[q].kind = "open"
      /\ req'[q].stage = "reserved"
      /\ req'[q].principal = req[q].principal /\ req'[q].sid = req[q].sid
      /\ req'[q].counted = req[q].counted
      /\ \A r \in Reqs : r # q => req'[r] = req[r]
      /\ req[q] \in RequestType /\ req' \in [Reqs -> RequestType]
  BY <1>1 DEF HttpInv, Requests, RequestType, Opening, Idle
<1>3. /\ CallTypes' /\ SessionTypes' /\ Ordered' /\ Owned' /\ Unregistered' /\ PlaceKept'
      /\ Evictions'
      /\ Watchers' /\ Clocks' /\ CallsHold' /\ Tombstones' /\ Closed'
  BY <1>1 DEF HttpInv, CallTypes, SessionTypes, Ordered, Owned, Unregistered, PlaceKept,
              Evictions, Watchers, Clocks, CallsHold, Tombstones, Closed
<1>4. Requests'
  BY <1>1, <1>2 DEF HttpInv, Requests, RequestType, Opening, HasId
<1>5. Attended'
  BY <1>1, <1>2 DEF HttpInv, Attended, SessionTypes, Settling, Openers, Requests, HasId,
              Opening, Ended, Watchers
<1>6. Openers'
  BY <1>1, <1>2 DEF HttpInv, Openers, Requests, HasId, Opening, SessionTypes
<1>7. Settling'
  BY <1>1, <1>2 DEF HttpInv, Settling, Openers, Requests, HasId, Opening, SessionTypes,
              Unregistered, PlaceKept, Watchers, Clocks, Evictions
<1>8. Slots'
  <2>1. MoreTaking(req, req', q, req[q].principal)
    BY <1>1, <1>2 DEF MoreTaking, Taking
  <2>2. /\ slots[req[q].principal] < MaxSessionsPerPrincipal /\ sessions < MaxSessions
        /\ req[q].principal \in Principals
    BY <1>1, <1>2, HttpAssumption DEF HttpInv, Slots, SlotsOf, Full, Requests
  <2> QED
    BY <2>1, <2>2, <1>1, <1>2, SlotsTaken DEF HttpInv, Slots
<1>9. Places'
  BY <1>1, <1>2 DEF HttpInv, Places, PlacesOf, Requests, RequestType, Opening, HasId, SessionTypes
<1>10. Tallies'
  <2>1. SameRequests
    BY <1>1, <1>2 DEF HttpInv, SameRequests, SessionTypes
  <2> QED
    BY <2>1, <1>1, TalliesSame DEF HttpInv
<1> QED
  BY <1>3, <1>4, <1>5, <1>6, <1>7, <1>8, <1>9, <1>10 DEF HttpInv

\* reserveSession evicts the principal's least recently used idle session.
LEMMA ReserveByEvictionKeeps ==
  ASSUME HttpInv, NEW q \in Reqs, ReserveByEviction(q)
  PROVE  HttpInv'
<1>1. /\ req[q].stage = "admitted"
      /\ req' = [req EXCEPT ![q].stage = "reserved"]
      /\ UNCHANGED <<call, sdk, owner, live, used, active, gets, early, earlyGets, slots,
                     sessions, watcher, closing, snapshot>>
  BY DEF ReserveByEviction, life, book, clock, counts, places, helpers, shutdown
<1>2. /\ req[q].kind = "open" /\ req[q].stage = "admitted" /\ req'[q].kind = "open"
      /\ req'[q].stage = "reserved"
      /\ req'[q].principal = req[q].principal /\ req'[q].sid = req[q].sid
      /\ req'[q].counted = req[q].counted
      /\ \A r \in Reqs : r # q => req'[r] = req[r]
      /\ req[q] \in RequestType /\ req' \in [Reqs -> RequestType]
  BY <1>1 DEF HttpInv, Requests, RequestType, Opening, Idle
<1>3. PICK v \in Sids :
        /\ v \in live /\ v \notin evicted /\ owner[v] = req[q].principal
        /\ timer[v] # "stopped" /\ RunningOn(v) = {}
        /\ evicted' = evicted \cup {v} /\ retired' = retired \cup {v}
        /\ timer' = [timer EXCEPT ![v] = "stopped"]
        /\ slot' = [slot EXCEPT ![v] = "released"]
        /\ evictor' = [evictor EXCEPT ![v] = "starting"]
        /\ closers' \in {closers, closers \cup {<<v, "expire">>}}
        /\ fired' \in {fired, [fired EXCEPT ![v] = "no"]}
  <2> DEFINE v == LeastRecentlyUsed(Evictable(req[q].principal))
  <2>1. v \in Evictable(req[q].principal)
    BY LeastRecentlyUsedIsOne DEF ReserveByEviction, HttpInv, Ordered, Evictable
  <2> HIDE DEF v
  <2>2. /\ evicted' = evicted \cup {v} /\ retired' = retired \cup {v}
        /\ timer' = [timer EXCEPT ![v] = "stopped"]
        /\ slot' = [slot EXCEPT ![v] = "released"]
        /\ evictor' = [evictor EXCEPT ![v] = "starting"]
        /\ \/ fired' = fired /\ closers' = closers
           \/ fired' = [fired EXCEPT ![v] = "no"] /\ closers' = closers \cup {<<v, "expire">>}
    BY DEF ReserveByEviction, v
  <2>3. v \in Sids
    BY <2>1 DEF Evictable, HttpInv, SessionTypes
  <2> QED
    BY <2>1, <2>2, <2>3 DEF Evictable
<1>4. slot[v] = "held" /\ slot'[v] = "released" /\ \A t \in Sids : t # v => slot'[t] = slot[t]
  BY <1>3 DEF HttpInv, SessionTypes, PlaceKept
<1>5. /\ \A s \in Sids : s # v => timer'[s] = timer[s] /\ evictor'[s] = evictor[s] /\ fired'[s] = fired[s]
      /\ timer'[v] = "stopped" /\ evictor'[v] = "starting"
      /\ (fired'[v] = fired[v] \/ fired'[v] = "no")
  BY <1>3 DEF HttpInv, SessionTypes
<1>6. CallTypes' /\ Ordered' /\ Closed'
  BY <1>1 DEF HttpInv, CallTypes, Ordered, Closed
<1>7. Requests'
  BY <1>1, <1>2, <1>3, <1>4, <1>5 DEF HttpInv, Requests, RequestType, Opening, HasId
<1>8. SessionTypes'
  BY <1>1, <1>2, <1>3, <1>4, <1>5 DEF HttpInv, SessionTypes
<1>9. Owned'
  BY <1>1, <1>2, <1>3, <1>4, <1>5 DEF HttpInv, Owned, SessionTypes, Requests, Opening,
              HasId, Settling, Openers
<1>10. Unregistered'
  BY <1>1, <1>2, <1>3, <1>4, <1>5 DEF HttpInv, Unregistered, SessionTypes, Settling,
              Openers, HasId, Requests, Opening, PlaceKept, Evictions, Owned
<1>11. PlaceKept'
  BY <1>1, <1>2, <1>3, <1>4, <1>5 DEF HttpInv, PlaceKept, SessionTypes, Unregistered,
              Ended, Settling, Openers, Requests, HasId, Opening
<1>12. Attended'
  BY <1>1, <1>2, <1>3, <1>4, <1>5 DEF HttpInv, Attended, SessionTypes, Settling,
              Openers, Requests, HasId, Opening, Ended, Watchers
<1>13. Evictions'
  BY <1>1, <1>2, <1>3, <1>4, <1>5 DEF HttpInv, Evictions, SessionTypes, Ended, Watchers
<1>14. Openers'
  BY <1>1, <1>2, <1>3, <1>4, <1>5 DEF HttpInv, Openers, Requests, HasId, Opening,
              SessionTypes
<1>15. Settling'
  BY <1>1, <1>2, <1>3, <1>4, <1>5 DEF HttpInv, Settling, Openers, Requests, HasId,
              Opening, SessionTypes, Unregistered, PlaceKept, Watchers, Clocks,
              Evictions
<1>16. Watchers'
  BY <1>1, <1>2, <1>3, <1>4, <1>5 DEF HttpInv, Watchers, SessionTypes, Ended,
              Unregistered, PlaceKept, Settling, Clocks
<1>17. Clocks'
  BY <1>1, <1>2, <1>3, <1>4, <1>5 DEF HttpInv, Clocks, SessionTypes, Unregistered,
              PlaceKept, Watchers, Settling, Requests, HasId, Opening
<1>18. CallsHold'
  BY <1>1, <1>2, <1>3, <1>4, <1>5 DEF HttpInv, CallsHold, CallTypes, SessionTypes, RunningOn
<1>19. Tombstones'
  <2>1. ASSUME NEW s \in Sids
        PROVE  /\ s \in evicted' => \/ s \in live' \/ closing' # "no" \/ sdk'[s] = "gone"
                                   \/ <<s, "delete">> \in closers' \/ <<s, "expire">> \in closers'
               /\ <<s, "proxy">> \in closers' => closing' # "no"
    <3>1. <<s, "proxy">> \in closers' => <<s, "proxy">> \in closers
      BY <1>3
    <3>2. closers \subseteq closers'
      BY <1>3
    <3> QED
      BY <1>1, <1>3, <3>1, <3>2 DEF HttpInv, Tombstones
  <2> QED
    BY <2>1 DEF Tombstones
<1>20. Slots'
  <2>1. MoreTaking(req, req', q, req[q].principal)
    BY <1>1, <1>2, <1>3, <1>4, <1>5 DEF MoreTaking, Taking
  <2>2. MoreHolding(slot', slot, owner, v, req[q].principal) /\ req[q].principal \in Principals
    BY <1>1, <1>2, <1>3, <1>4, <1>5 DEF MoreHolding, HttpInv, Requests
  <2>3. SlotsOf(req, slot, owner, slots, sessions)
    BY DEF HttpInv, Slots
  <2>4. SlotsOf(req', slot', owner, slots, sessions)
    BY <2>1, <2>2, <2>3, SlotsMoved
  <2>5. UNCHANGED <<owner, slots, sessions>>
    BY <1>1
  <2> QED BY <2>4, <2>5 DEF Slots
<1>21. Places'
  BY <1>1, <1>2, <1>3, <1>4, <1>5 DEF HttpInv, Places, PlacesOf, Requests, RequestType,
       Opening, HasId, SessionTypes
<1>22. Tallies'
  <2>1. SameRequests
    BY <1>1, <1>2, <1>3, <1>4, <1>5 DEF HttpInv, SameRequests, SessionTypes
  <2> QED
    BY <2>1, <1>1, TalliesSame DEF HttpInv
<1> QED
  BY <1>6, <1>7, <1>8, <1>9, <1>10, <1>11, <1>12, <1>13, <1>14, <1>15, <1>16, <1>17,
     <1>18, <1>19, <1>20, <1>21, <1>22 DEF HttpInv

\* The 503.
LEMMA ReserveRefusedKeeps ==
  ASSUME HttpInv, NEW q \in Reqs, ReserveRefused(q)
  PROVE  HttpInv'
<1>1. /\ req[q].stage = "admitted"
      /\ req' = [req EXCEPT ![q] = Idle]
      /\ UNCHANGED <<call, sdk, owner, live, evicted, used, timer, fired, active, gets,
                     early, earlyGets, slot, slots, sessions, retired, watcher, evictor, closers,
                     closing, snapshot>>
  BY DEF ReserveRefused, life, book, clock, counts, places, helpers, shutdown
<1>2. /\ req[q].kind = "open" /\ req[q].stage = "admitted"
      /\ req'[q].kind = "idle" /\ req'[q].stage = "idle" /\ req'[q].sid = NoSid
      /\ \A r \in Reqs : r # q => req'[r] = req[r]
      /\ req[q] \in RequestType /\ req' \in [Reqs -> RequestType]
  BY <1>1 DEF HttpInv, Requests, RequestType, Opening, Idle
<1>3. /\ CallTypes' /\ SessionTypes' /\ Ordered' /\ Owned' /\ Unregistered' /\ PlaceKept'
      /\ Evictions'
      /\ Watchers' /\ Clocks' /\ CallsHold' /\ Tombstones' /\ Closed'
  BY <1>1 DEF HttpInv, CallTypes, SessionTypes, Ordered, Owned, Unregistered, PlaceKept,
              Evictions, Watchers, Clocks, CallsHold, Tombstones, Closed
<1>4. Requests'
  BY <1>1, <1>2 DEF HttpInv, Requests, RequestType, Opening, HasId
<1>5. Attended'
  BY <1>1, <1>2 DEF HttpInv, Attended, SessionTypes, Settling, Openers, Requests, HasId,
              Opening, Ended, Watchers
<1>6. Openers'
  BY <1>1, <1>2 DEF HttpInv, Openers, Requests, HasId, Opening, SessionTypes
<1>7. Settling'
  BY <1>1, <1>2 DEF HttpInv, Settling, Openers, Requests, HasId, Opening, SessionTypes,
              Unregistered, PlaceKept, Watchers, Clocks, Evictions
<1>8. Slots'
  <2>1. SameTaking(req, req')
    BY <1>2 DEF SameTaking, Taking
  <2>2. SameHolding(slot, owner, slot', owner')
    BY <1>1 DEF SameHolding
  <2> QED
    BY <1>1, <2>1, <2>2, SlotsSame DEF HttpInv, Slots
<1>9. Places'
  BY <1>1, <1>2 DEF HttpInv, Places, PlacesOf, Requests, RequestType, Opening, HasId, SessionTypes
<1>10. Tallies'
  <2>1. SameRequests
    BY <1>1, <1>2 DEF HttpInv, SameRequests, SessionTypes
  <2> QED
    BY <2>1, <1>1, TalliesSame DEF HttpInv
<1> QED
  BY <1>3, <1>4, <1>5, <1>6, <1>7, <1>8, <1>9, <1>10 DEF HttpInv

\* go-sdk opens the session.
LEMMA ServeInitialiseKeeps ==
  ASSUME HttpInv, NEW q \in Reqs, NEW s \in Sids, ServeInitialise(q, s)
  PROVE  HttpInv'
<1>1. /\ req[q].stage = "reserved" /\ sdk[s] = "unused"
      /\ sdk' = [sdk EXCEPT ![s] = "open"]
      /\ owner' = [owner EXCEPT ![s] = req[q].principal]
      /\ req' = [req EXCEPT ![q].stage = "served", ![q].sid = s]
      /\ UNCHANGED <<call, live, evicted, used, timer, fired, active, gets, early, earlyGets,
                     slot, slots, sessions, retired, watcher, evictor, closers, closing, snapshot>>
  BY DEF ServeInitialise, life, book, clock, counts, places, helpers, shutdown
<1>2. /\ req[q].kind = "open" /\ req[q].stage = "reserved" /\ req'[q].kind = "open"
      /\ req'[q].stage = "served"
      /\ req'[q].principal = req[q].principal /\ req'[q].sid = s
      /\ req'[q].counted = req[q].counted
      /\ \A r \in Reqs : r # q => req'[r] = req[r]
      /\ req[q] \in RequestType /\ req' \in [Reqs -> RequestType]
      /\ req[q].principal \in Principals
  <2>1. req' = [req EXCEPT ![q] = [req[q] EXCEPT !.stage = "served", !.sid = s]]
    BY <1>1 DEF HttpInv, Requests, RequestType
  <2> QED
    BY <1>1, <2>1 DEF HttpInv, Requests, RequestType, Opening
<1>3. sdk'[s] = "open" /\ owner'[s] = req[q].principal
      /\ \A t \in Sids : t # s => sdk'[t] = sdk[t] /\ owner'[t] = owner[t]
  BY <1>1 DEF HttpInv, SessionTypes
<1>4. CallTypes' /\ Ordered' /\ Unregistered' /\ Clocks'
  BY <1>1 DEF HttpInv, CallTypes, Ordered, Unregistered, Clocks
<1>5. Requests'
  BY <1>1, <1>2, <1>3 DEF HttpInv, Requests, RequestType, Opening, HasId
<1>6. SessionTypes'
  BY <1>1, <1>2, <1>3 DEF HttpInv, SessionTypes
<1>7. Owned'
  BY <1>1, <1>2, <1>3 DEF HttpInv, Owned, SessionTypes, Requests, Opening, HasId,
              Settling, Openers
<1>8. PlaceKept'
  BY <1>1, <1>2, <1>3 DEF HttpInv, PlaceKept, SessionTypes, Unregistered, Ended,
              Settling, Openers, Requests, HasId, Opening
<1>9. Attended'
  BY <1>1, <1>2, <1>3 DEF HttpInv, Attended, SessionTypes, Settling, Openers, Requests,
              HasId, Opening, Ended, Watchers
<1>10. Evictions'
  BY <1>1, <1>2, <1>3 DEF HttpInv, Evictions, SessionTypes, Ended, Watchers
<1>11. Openers'
  BY <1>1, <1>2, <1>3 DEF HttpInv, Openers, Requests, HasId, Opening, SessionTypes
<1>12. Settling'
  BY <1>1, <1>2, <1>3 DEF HttpInv, Settling, Owned, Openers, Requests, HasId, Opening
<1>13. Watchers'
  BY <1>1, <1>2, <1>3 DEF HttpInv, Watchers, SessionTypes, Ended, Unregistered,
              PlaceKept, Settling, Clocks
<1>14. CallsHold'
  BY <1>1, <1>2, <1>3 DEF HttpInv, CallsHold, CallTypes, SessionTypes, Ended, Evictions,
              Watchers
<1>15. Tombstones'
  <2>1. ASSUME NEW t \in Sids
        PROVE  /\ t \in evicted' => \/ t \in live' \/ closing' # "no" \/ sdk'[t] = "gone"
                                   \/ <<t, "delete">> \in closers' \/ <<t, "expire">> \in closers'
               /\ <<t, "proxy">> \in closers' => closing' # "no"
    BY <1>1, <1>3 DEF HttpInv, Tombstones
  <2> QED
    BY <2>1 DEF Tombstones
<1>16. Closed'
  BY <1>1, <1>2, <1>3 DEF HttpInv, Closed, SessionTypes, Ended, CallsHold
<1>17. Slots'
  <2>1. SameTaking(req, req')
    BY <1>2 DEF SameTaking, Taking
  <2>2. SameHolding(slot, owner, slot', owner')
    BY <1>1, <1>3 DEF HttpInv, SameHolding, Owned
  <2> QED
    BY <1>1, <2>1, <2>2, SlotsSame DEF HttpInv, Slots
<1>18. Places'
  BY <1>1, <1>2, <1>3 DEF HttpInv, Places, PlacesOf, Requests, RequestType, Opening, HasId,
       SessionTypes, Owned
<1>19. Tallies'
  <2>1. SameRequests
    BY <1>1, <1>2, <1>3 DEF HttpInv, SameRequests, SessionTypes, Owned, Unregistered
  <2> QED
    BY <2>1, <1>1, TalliesSame DEF HttpInv
<1> QED
  BY <1>4, <1>5, <1>6, <1>7, <1>8, <1>9, <1>10, <1>11, <1>12, <1>13, <1>14, <1>15,
     <1>16, <1>17, <1>18, <1>19 DEF HttpInv

\* The place goes back: there is no session.
LEMMA SettleNoneKeeps ==
  ASSUME HttpInv, NEW q \in Reqs, SettleNone(q)
  PROVE  HttpInv'
<1>1. /\ \/ req[q].stage = "reserved"
         \/ req[q].stage = "served" /\ sdk[req[q].sid] \in {"closed", "gone"}
      /\ slots' = [slots EXCEPT ![req[q].principal] = @ - 1]
      /\ sessions' = sessions - 1
      /\ req' = [req EXCEPT ![q] = Idle]
      /\ UNCHANGED <<call, sdk, owner, live, evicted, used, timer, fired, active, gets,
                     early, earlyGets, slot, retired, watcher, evictor, closers, closing, snapshot>>
  BY DEF SettleNone, life, book, clock, counts, places, helpers, shutdown
<1>2. /\ req[q].kind = "open"
      /\ req'[q].kind = "idle" /\ req'[q].stage = "idle" /\ req'[q].sid = NoSid
      /\ \A r \in Reqs : r # q => req'[r] = req[r]
      /\ req[q] \in RequestType /\ req' \in [Reqs -> RequestType]
  BY <1>1 DEF HttpInv, Requests, RequestType, Opening, Idle
<1>3. /\ CallTypes' /\ SessionTypes' /\ Ordered' /\ Owned' /\ Unregistered' /\ PlaceKept'
      /\ Evictions'
      /\ Watchers' /\ Clocks' /\ CallsHold' /\ Tombstones' /\ Closed'
  BY <1>1 DEF HttpInv, CallTypes, SessionTypes, Ordered, Owned, Unregistered, PlaceKept,
              Evictions, Watchers, Clocks, CallsHold, Tombstones, Closed
<1>4. Requests'
  BY <1>1, <1>2 DEF HttpInv, Requests, RequestType, Opening, HasId
<1>5. Attended'
  BY <1>1, <1>2 DEF HttpInv, Attended, SessionTypes, Settling, Openers, Requests, HasId,
              Opening, Ended, Watchers
<1>6. Openers'
  BY <1>1, <1>2 DEF HttpInv, Openers, Requests, HasId, Opening, SessionTypes
<1>7. Settling'
  BY <1>1, <1>2 DEF HttpInv, Settling, Openers, Requests, HasId, Opening, SessionTypes,
              Unregistered, PlaceKept, Watchers, Clocks, Evictions
<1>8. Slots'
  <2>1. MoreTaking(req', req, q, req[q].principal)
    BY <1>1, <1>2 DEF MoreTaking, Taking
  <2>2. req[q].principal \in Principals
    BY <1>1, <1>2 DEF HttpInv, Requests
  <2> QED
    BY <2>1, <2>2, <1>1, <1>2, SlotsUntaken DEF HttpInv, Slots
<1>9. Places'
  BY <1>1, <1>2 DEF HttpInv, Places, PlacesOf, Requests, RequestType, Opening, HasId, SessionTypes
<1>10. Tallies'
  <2>1. SameRequests
    BY <1>1, <1>2 DEF HttpInv, SameRequests, SessionTypes
  <2> QED
    BY <2>1, <1>1, TalliesSame DEF HttpInv
<1> QED
  BY <1>3, <1>4, <1>5, <1>6, <1>7, <1>8, <1>9, <1>10 DEF HttpInv

\* register.
LEMMA RegisterKeeps ==
  ASSUME HttpInv, NEW q \in Reqs, Register(q)
  PROVE  HttpInv'
<1>1. /\ req[q].stage = "served" /\ sdk[req[q].sid] \in {"open", "closing"}
      /\ live' = live \cup {req[q].sid}
      /\ active' = [active EXCEPT ![req[q].sid] = @ + early[<<req[q].sid, req[q].principal>>]]
      /\ gets' = [gets EXCEPT ![req[q].sid] = @ + earlyGets[<<req[q].sid, req[q].principal>>]]
      /\ early' = [early EXCEPT ![<<req[q].sid, req[q].principal>>] = 0]
      /\ earlyGets' = [earlyGets EXCEPT ![<<req[q].sid, req[q].principal>>] = 0]
      /\ used' = Touched(req[q].sid)
      /\ slot' = [slot EXCEPT ![req[q].sid] = "held"]
      /\ req' = [req EXCEPT ![q].stage = "registered"]
      /\ UNCHANGED <<call, sdk, owner, evicted, timer, fired, slots, sessions, retired,
                     watcher, evictor, closers, closing, snapshot>>
  BY DEF Register, life, book, clock, counts, places, helpers, shutdown
<1>2. /\ req[q].kind = "open" /\ req[q].stage = "served" /\ req'[q].kind = "open"
      /\ req'[q].stage = "registered"
      /\ req'[q].principal = req[q].principal /\ req'[q].sid = req[q].sid
      /\ req'[q].counted = req[q].counted
      /\ \A r \in Reqs : r # q => req'[r] = req[r]
      /\ req[q] \in RequestType /\ req' \in [Reqs -> RequestType]
  BY <1>1 DEF HttpInv, Requests, RequestType, Opening, Idle
<1> DEFINE s == req[q].sid
<1>3. /\ s \in Sids /\ owner[s] = req[q].principal /\ owner[s] \in Principals
      /\ slot[s] = "none" /\ slot'[s] = "held" /\ \A t \in Sids : t # s => slot'[t] = slot[t]
  BY <1>1, <1>2 DEF HttpInv, Requests, HasId, Openers, Settling, Owned, SessionTypes
<1>4. CallTypes' /\ Evictions' /\ CallsHold' /\ Closed'
  BY <1>1 DEF HttpInv, CallTypes, Evictions, CallsHold, Closed
<1>5. Requests'
  BY <1>1, <1>2, <1>3 DEF HttpInv, Requests, RequestType, Opening, HasId
<1>6. SessionTypes'
  BY <1>1, <1>2, <1>3 DEF HttpInv, SessionTypes
<1>7. Ordered'
  BY <1>1, <1>2, <1>3, OrderKept DEF HttpInv, Ordered
<1>8. Owned'
  BY <1>1, <1>2, <1>3 DEF HttpInv, Owned, SessionTypes, Requests, Opening, HasId,
              Settling, Openers
<1>9. Unregistered'
  BY <1>1, <1>2, <1>3 DEF HttpInv, Unregistered, SessionTypes, Settling, Openers, HasId,
              Requests, Opening, PlaceKept, Evictions, Owned
<1>10. PlaceKept'
  BY <1>1, <1>2, <1>3 DEF HttpInv, PlaceKept, SessionTypes, Unregistered, Ended,
              Settling, Openers, Requests, HasId, Opening
<1>11. Attended'
  BY <1>1, <1>2, <1>3 DEF HttpInv, Attended, SessionTypes, Settling, Openers, Requests,
              HasId, Opening, Ended, Watchers
<1>12. Openers'
  BY <1>1, <1>2, <1>3 DEF HttpInv, Openers, Requests, HasId, Opening, SessionTypes
<1>13. Settling'
  BY <1>1, <1>2, <1>3 DEF HttpInv, Settling, Openers, Requests, HasId, Opening,
              SessionTypes, Unregistered, PlaceKept, Watchers, Clocks, Evictions
<1>14. Watchers'
  BY <1>1, <1>2, <1>3 DEF HttpInv, Watchers, SessionTypes, Ended, Unregistered,
              PlaceKept, Settling, Clocks
<1>15. Clocks'
  BY <1>1, <1>2, <1>3 DEF HttpInv, Clocks, SessionTypes, Unregistered, PlaceKept,
              Watchers, Settling, Requests, HasId, Opening
<1>16. Tombstones'
  BY <1>1, <1>2, <1>3 DEF HttpInv, Tombstones, SessionTypes, PlaceKept
<1>17. Slots'
  <2>1. MoreTaking(req', req, q, req[q].principal)
    BY <1>1, <1>2, <1>3 DEF MoreTaking, Taking
  <2>2. MoreHolding(slot, slot', owner, s, req[q].principal) /\ req[q].principal \in Principals
    BY <1>1, <1>2, <1>3 DEF MoreHolding, HttpInv, Requests
  <2>3. SlotsOf(req, slot, owner, slots, sessions)
    BY DEF HttpInv, Slots
  <2>4. SlotsOf(req', slot', owner, slots, sessions)
    BY <2>1, <2>2, <2>3, SlotsMoved
  <2>5. UNCHANGED <<owner, slots, sessions>>
    BY <1>1
  <2> QED BY <2>4, <2>5 DEF Slots
<1>18. Places'
  BY <1>1, <1>2, <1>3 DEF HttpInv, Places, PlacesOf, Requests, RequestType, Opening, HasId,
       SessionTypes
<1>19. Tallies'
  <2>0. /\ live \subseteq Sids /\ s \notin live /\ \A t \in live : owner[t] \in Principals
    BY <1>3 DEF HttpInv, SessionTypes, Unregistered, Owned
  <2>1. TallyOf("post", req', owner, live \cup {s}, slot', active', early')
    <3>1. active' = [active EXCEPT ![s] = @ + early[<<s, owner[s]>>]]
          /\ early' = [early EXCEPT ![<<s, owner[s]>>] = 0]
      BY <1>1, <1>3
    <3>2. TallyOf("post", req, owner, live, slot, active, early) /\ PlacesOf("post", req, owner, slot)
      BY DEF HttpInv, Tallies, Places
    <3> HIDE DEF s
    <3>3. Registers("post", req, req', owner, live, slot, slot', s, active, active', early, early')
      BY <1>2, <1>3, <2>0, <3>1 DEF Registers
    <3> QED
      BY <2>0, <3>2, <3>3, TallyRegister
  <2>2. TallyOf("get", req', owner, live \cup {s}, slot', gets', earlyGets')
    <3>1. gets' = [gets EXCEPT ![s] = @ + earlyGets[<<s, owner[s]>>]]
          /\ earlyGets' = [earlyGets EXCEPT ![<<s, owner[s]>>] = 0]
      BY <1>1, <1>3
    <3>2. TallyOf("get", req, owner, live, slot, gets, earlyGets) /\ PlacesOf("get", req, owner, slot)
      BY DEF HttpInv, Tallies, Places
    <3> HIDE DEF s
    <3>3. Registers("get", req, req', owner, live, slot, slot', s, gets, gets', earlyGets, earlyGets')
      BY <1>2, <1>3, <2>0, <3>1 DEF Registers
    <3> QED
      BY <2>0, <3>2, <3>3, TallyRegister
  <2> QED
    BY <1>1, <2>1, <2>2 DEF Tallies
<1> QED
  BY <1>4, <1>5, <1>6, <1>7, <1>8, <1>9, <1>10, <1>11, <1>12, <1>13, <1>14, <1>15,
     <1>16, <1>17, <1>18, <1>19 DEF HttpInv

\* track while the proxy is closing: the session is closed here.
LEMMA TrackClosingKeeps ==
  ASSUME HttpInv, NEW q \in Reqs, Track(q), closing # "no"
  PROVE  HttpInv'
<1>1. /\ req[q].stage = "registered"
      /\ live' = live \ {req[q].sid}
      /\ used' = Without(req[q].sid)
      /\ closers' = closers \cup {<<req[q].sid, "settle">>}
      /\ req' = [req EXCEPT ![q].stage = "untracked"]
      /\ UNCHANGED <<call, sdk, owner, evicted, timer, fired, active, gets, early, earlyGets,
                     slot, slots, sessions, retired, watcher, evictor, closing, snapshot>>
  BY DEF Track, Forget, LimitsClosed, life, book, clock, counts, places, helpers, shutdown
<1>2. /\ req[q].kind = "open" /\ req[q].stage = "registered" /\ req'[q].kind = "open"
      /\ req'[q].stage = "untracked"
      /\ req'[q].principal = req[q].principal /\ req'[q].sid = req[q].sid
      /\ req'[q].counted = req[q].counted
      /\ \A r \in Reqs : r # q => req'[r] = req[r]
      /\ req[q] \in RequestType /\ req' \in [Reqs -> RequestType]
  BY <1>1 DEF HttpInv, Requests, RequestType, Opening, Idle
<1>3. req[q].sid \in Sids
  BY <1>2 DEF HttpInv, Requests, HasId
<1>4. CallTypes' /\ Owned' /\ Evictions' /\ CallsHold' /\ Closed'
  BY <1>1 DEF HttpInv, CallTypes, Owned, Evictions, CallsHold, Closed
<1>5. Requests'
  BY <1>1, <1>2, <1>3 DEF HttpInv, Requests, RequestType, Opening, HasId
<1>6. SessionTypes'
  BY <1>1, <1>2, <1>3 DEF HttpInv, SessionTypes
<1>7. Ordered'
  BY <1>1, <1>2, <1>3, OrderKept DEF HttpInv, Ordered
<1>8. Unregistered'
  BY <1>1, <1>2, <1>3 DEF HttpInv, Unregistered, SessionTypes, Settling, Openers, HasId,
              Requests, Opening, PlaceKept, Evictions, Owned
<1>9. PlaceKept'
  BY <1>1, <1>2, <1>3 DEF HttpInv, PlaceKept, SessionTypes, Unregistered, Ended,
              Settling, Openers, Requests, HasId, Opening
<1>10. Attended'
  BY <1>1, <1>2, <1>3 DEF HttpInv, Attended, SessionTypes, Settling, Openers, Requests,
              HasId, Opening, Ended, Watchers
<1>11. Openers'
  BY <1>1, <1>2, <1>3 DEF HttpInv, Openers, Requests, HasId, Opening, SessionTypes
<1>12. Settling'
  BY <1>1, <1>2, <1>3 DEF HttpInv, Settling, Openers, Requests, HasId, Opening,
              SessionTypes, Unregistered, PlaceKept, Watchers, Clocks, Evictions
<1>13. Watchers'
  BY <1>1, <1>2, <1>3 DEF HttpInv, Watchers, SessionTypes, Ended, Unregistered,
              PlaceKept, Settling, Clocks
<1>14. Clocks'
  BY <1>1, <1>2, <1>3 DEF HttpInv, Clocks, SessionTypes, Unregistered, PlaceKept,
              Watchers, Settling, Requests, HasId, Opening
<1>15. Tombstones'
  <2>1. ASSUME NEW t \in Sids
        PROVE  /\ t \in evicted' => \/ t \in live' \/ closing' # "no" \/ sdk'[t] = "gone"
                                   \/ <<t, "delete">> \in closers' \/ <<t, "expire">> \in closers'
               /\ <<t, "proxy">> \in closers' => closing' # "no"
    BY <1>1 DEF HttpInv, Tombstones
  <2> QED
    BY <2>1 DEF Tombstones
<1>16. Slots'
  <2>1. SameTaking(req, req')
    BY <1>2 DEF SameTaking, Taking
  <2>2. SameHolding(slot, owner, slot', owner')
    BY <1>1 DEF SameHolding
  <2> QED
    BY <1>1, <2>1, <2>2, SlotsSame DEF HttpInv, Slots
<1>17. Places'
  BY <1>1, <1>2, <1>3 DEF HttpInv, Places, PlacesOf, Requests, RequestType, Opening, HasId,
       SessionTypes
<1>18. Tallies'
  <2>1. SameRequests
    BY <1>1, <1>2, <1>3 DEF HttpInv, SameRequests, SessionTypes
  <2> QED
    BY <2>1, <1>1, TalliesSame DEF HttpInv
<1> QED
  BY <1>4, <1>5, <1>6, <1>7, <1>8, <1>9, <1>10, <1>11, <1>12, <1>13, <1>14, <1>15,
     <1>16, <1>17, <1>18 DEF HttpInv

\* track starts the session's watcher.
LEMMA TrackKeeps ==
  ASSUME HttpInv, NEW q \in Reqs, Track(q), closing = "no"
  PROVE  HttpInv'
<1>1. /\ req[q].stage = "registered"
      /\ watcher' = [watcher EXCEPT ![req[q].sid] = "waiting"]
      /\ req' = [req EXCEPT ![q].stage = "tracked"]
      /\ UNCHANGED <<call, sdk, owner, live, evicted, used, timer, fired, active, gets,
                     early, earlyGets, slot, slots, sessions, retired, evictor, closers, closing,
                     snapshot>>
  BY DEF Track, LimitsClosed, life, book, clock, counts, places, helpers, shutdown
<1>2. /\ req[q].kind = "open" /\ req[q].stage = "registered" /\ req'[q].kind = "open"
      /\ req'[q].stage = "tracked"
      /\ req'[q].principal = req[q].principal /\ req'[q].sid = req[q].sid
      /\ req'[q].counted = req[q].counted
      /\ \A r \in Reqs : r # q => req'[r] = req[r]
      /\ req[q] \in RequestType /\ req' \in [Reqs -> RequestType]
  BY <1>1 DEF HttpInv, Requests, RequestType, Opening, Idle
<1>3. req[q].sid \in Sids
  BY <1>2 DEF HttpInv, Requests, HasId
<1>4. CallTypes' /\ Ordered' /\ Owned' /\ PlaceKept' /\ Evictions' /\ CallsHold' /\ Tombstones'
  BY <1>1 DEF HttpInv, CallTypes, Ordered, Owned, PlaceKept, Evictions, CallsHold,
              Tombstones
<1>5. Requests'
  BY <1>1, <1>2, <1>3 DEF HttpInv, Requests, RequestType, Opening, HasId
<1>6. SessionTypes'
  BY <1>1, <1>2, <1>3 DEF HttpInv, SessionTypes
<1>7. Unregistered'
  BY <1>1, <1>2, <1>3 DEF HttpInv, Unregistered, SessionTypes, Settling, Openers, HasId,
              Requests, Opening, PlaceKept, Evictions, Owned
<1>8. Attended'
  BY <1>1, <1>2, <1>3 DEF HttpInv, Attended, SessionTypes, Settling, Openers, Requests,
              HasId, Opening, Ended, Watchers
<1>9. Openers'
  BY <1>1, <1>2, <1>3 DEF HttpInv, Openers, Requests, HasId, Opening, SessionTypes
<1>10. Settling'
  BY <1>1, <1>2, <1>3 DEF HttpInv, Settling, Openers, Requests, HasId, Opening,
              SessionTypes, Unregistered, PlaceKept, Watchers, Clocks, Evictions
<1>11. Watchers'
  BY <1>1, <1>2, <1>3 DEF HttpInv, Watchers, SessionTypes, Ended, Unregistered,
              PlaceKept, Settling, Clocks
<1>12. Clocks'
  BY <1>1, <1>2, <1>3 DEF HttpInv, Clocks, SessionTypes, Unregistered, PlaceKept,
              Watchers, Settling, Requests, HasId, Opening
<1>13. Closed'
  BY <1>1, <1>2, <1>3 DEF HttpInv, Closed, SessionTypes, Ended, CallsHold
<1>14. Slots'
  <2>1. SameTaking(req, req')
    BY <1>2 DEF SameTaking, Taking
  <2>2. SameHolding(slot, owner, slot', owner')
    BY <1>1 DEF SameHolding
  <2> QED
    BY <1>1, <2>1, <2>2, SlotsSame DEF HttpInv, Slots
<1>15. Places'
  BY <1>1, <1>2, <1>3 DEF HttpInv, Places, PlacesOf, Requests, RequestType, Opening, HasId,
       SessionTypes
<1>16. Tallies'
  <2>1. SameRequests
    BY <1>1, <1>2, <1>3 DEF HttpInv, SameRequests, SessionTypes
  <2> QED
    BY <2>1, <1>1, TalliesSame DEF HttpInv
<1> QED
  BY <1>4, <1>5, <1>6, <1>7, <1>8, <1>9, <1>10, <1>11, <1>12, <1>13, <1>14, <1>15, <1>16
     DEF HttpInv

\* The session the request closed has ended.
LEMMA SettleUntrackedKeeps ==
  ASSUME HttpInv, NEW q \in Reqs, SettleUntracked(q)
  PROVE  HttpInv'
<1>1. /\ req[q].stage = "untracked" /\ sdk[req[q].sid] \in {"closed", "gone"}
      /\ slot' = [slot EXCEPT ![req[q].sid] = "released"]
      /\ IF slot[req[q].sid] = "held"
         THEN slots' = [slots EXCEPT ![owner[req[q].sid]] = @ - 1] /\ sessions' = sessions - 1
         ELSE slots' = slots /\ sessions' = sessions
      /\ req' = [req EXCEPT ![q] = Idle]
      /\ UNCHANGED <<call, sdk, owner, live, evicted, used, timer, fired, active, gets,
                     early, earlyGets, retired, watcher, evictor, closers, closing, snapshot>>
  BY DEF SettleUntracked, Release, life, book, clock, counts, places, helpers, shutdown
<1>2. /\ req[q].kind = "open" /\ req[q].stage = "untracked"
      /\ req'[q].kind = "idle" /\ req'[q].stage = "idle" /\ req'[q].sid = NoSid
      /\ \A r \in Reqs : r # q => req'[r] = req[r]
      /\ req[q] \in RequestType /\ req' \in [Reqs -> RequestType]
  BY <1>1 DEF HttpInv, Requests, RequestType, Opening, Idle
<1>3. req[q].sid \in Sids
  BY <1>2 DEF HttpInv, Requests, HasId
<1>4. \/ /\ slot[req[q].sid] = "held" /\ slot'[req[q].sid] = "released"
         /\ slots' = [slots EXCEPT ![owner[req[q].sid]] = @ - 1] /\ sessions' = sessions - 1
      \/ slot[req[q].sid] # "held" /\ slot'[req[q].sid] = "released" /\ slots' = slots /\ sessions' = sessions
  BY <1>1, <1>3 DEF HttpInv, SessionTypes
<1>5. \A t \in Sids : t # req[q].sid => slot'[t] = slot[t]
  BY <1>1, <1>3 DEF HttpInv, SessionTypes
<1>6. /\ CallTypes' /\ Ordered' /\ Evictions' /\ Watchers' /\ Clocks' /\ CallsHold' /\ Tombstones'
      /\ Closed'
  BY <1>1 DEF HttpInv, CallTypes, Ordered, Evictions, Watchers, Clocks, CallsHold,
              Tombstones, Closed
<1>7. Requests'
  BY <1>1, <1>2, <1>3, <1>4, <1>5 DEF HttpInv, Requests, RequestType, Opening, HasId
<1>8. SessionTypes'
  BY <1>1, <1>2, <1>3, <1>4, <1>5 DEF HttpInv, SessionTypes
<1>9. Owned'
  BY <1>1, <1>2, <1>3, <1>4, <1>5 DEF HttpInv, Owned, SessionTypes, Requests, Opening,
              HasId, Settling, Openers
<1>10. Unregistered'
  BY <1>1, <1>2, <1>3, <1>4, <1>5 DEF HttpInv, Unregistered, SessionTypes, Settling,
              Openers, HasId, Requests, Opening, PlaceKept, Evictions, Owned
<1>11. PlaceKept'
  BY <1>1, <1>2, <1>3, <1>4, <1>5 DEF HttpInv, PlaceKept, SessionTypes, Unregistered,
              Ended, Settling, Openers, Requests, HasId, Opening
<1>12. Attended'
  BY <1>1, <1>2, <1>3, <1>4, <1>5 DEF HttpInv, Attended, SessionTypes, Settling,
              Openers, Requests, HasId, Opening, Ended, Watchers
<1>13. Openers'
  BY <1>1, <1>2, <1>3, <1>4, <1>5 DEF HttpInv, Openers, Requests, HasId, Opening,
              SessionTypes
<1>14. Settling'
  BY <1>1, <1>2, <1>3, <1>4, <1>5 DEF HttpInv, Settling, Openers, Requests, HasId,
              Opening, SessionTypes, Unregistered, PlaceKept, Watchers, Clocks,
              Evictions
<1>15. Slots'
  <2>1. CASE slot[req[q].sid] = "held"
    <3>1. MoreHolding(slot', slot, owner, req[q].sid, owner[req[q].sid]) /\ owner[req[q].sid] \in Principals
      BY <1>1, <1>2, <1>3, <1>4, <1>5, <2>1 DEF MoreHolding, HttpInv, Owned
    <3>2. SlotsOf(req, slot', owner, slots', sessions')
      BY <1>1, <1>2, <1>3, <1>4, <1>5, <2>1, <3>1, SlotsReleased DEF HttpInv, Slots
    <3>3. SameTaking(req, req') /\ SameHolding(slot', owner, slot', owner')
      BY <1>1, <1>2, <1>3, <1>4, <1>5 DEF SameTaking, SameHolding, Taking
    <3> QED
      BY <3>2, <3>3, SlotsSame DEF Slots
  <2>2. CASE slot[req[q].sid] # "held"
    <3>1. SameTaking(req, req') /\ SameHolding(slot, owner, slot', owner')
      BY <1>1, <1>2, <1>3, <1>4, <1>5, <2>2 DEF SameTaking, SameHolding, Taking
    <3> QED
      BY <1>1, <1>2, <1>3, <1>4, <1>5, <2>2, <3>1, SlotsSame DEF HttpInv, Slots
  <2> QED
    BY <2>1, <2>2
<1>16. Places'
  BY <1>1, <1>2, <1>3, <1>4, <1>5 DEF HttpInv, Places, PlacesOf, Requests, RequestType,
       Opening, HasId, SessionTypes
<1>17. Tallies'
  <2>1. SameRequests
    BY <1>1, <1>2, <1>3, <1>4, <1>5 DEF HttpInv, SameRequests, SessionTypes
  <2> QED
    BY <2>1, <1>1, TalliesSame DEF HttpInv
<1> QED
  BY <1>6, <1>7, <1>8, <1>9, <1>10, <1>11, <1>12, <1>13, <1>14, <1>15, <1>16, <1>17 DEF
     HttpInv

\* The idle clock is armed.
LEMMA ArmKeeps ==
  ASSUME HttpInv, NEW q \in Reqs, Arm(q)
  PROVE  HttpInv'
<1>1. /\ req[q].stage = "tracked"
      /\ \/ timer' = timer
         \/ /\ timer[req[q].sid] = "none"
            /\ \/ timer' = [timer EXCEPT ![req[q].sid] = "paused"]
               \/ timer' = [timer EXCEPT ![req[q].sid] = "running"]
      /\ req' = [req EXCEPT ![q] = Idle]
      /\ UNCHANGED <<call, sdk, owner, live, evicted, used, fired, active, gets, early,
                     earlyGets, slot, slots, sessions, retired, watcher, evictor, closers, closing,
                     snapshot>>
  BY DEF Arm, life, book, clock, counts, places, helpers, shutdown
<1>2. /\ req[q].kind = "open" /\ req[q].stage = "tracked"
      /\ req'[q].kind = "idle" /\ req'[q].stage = "idle" /\ req'[q].sid = NoSid
      /\ \A r \in Reqs : r # q => req'[r] = req[r]
      /\ req[q] \in RequestType /\ req' \in [Reqs -> RequestType]
  BY <1>1 DEF HttpInv, Requests, RequestType, Opening, Idle
<1>3. req[q].sid \in Sids
  BY <1>2 DEF HttpInv, Requests, HasId
<1>4. CallTypes' /\ Ordered' /\ Owned' /\ Evictions' /\ CallsHold' /\ Tombstones' /\ Closed'
  BY <1>1 DEF HttpInv, CallTypes, Ordered, Owned, Evictions, CallsHold, Tombstones,
              Closed
<1>5. Requests'
  BY <1>1, <1>2, <1>3 DEF HttpInv, Requests, RequestType, Opening, HasId
<1>6. SessionTypes'
  BY <1>1, <1>2, <1>3 DEF HttpInv, SessionTypes
<1>7. Unregistered'
  BY <1>1, <1>2, <1>3 DEF HttpInv, Unregistered, SessionTypes, Settling, Openers, HasId,
              Requests, Opening, PlaceKept, Evictions, Owned
<1>8. PlaceKept'
  BY <1>1, <1>2, <1>3 DEF HttpInv, PlaceKept, SessionTypes, Unregistered, Ended,
              Settling, Openers, Requests, HasId, Opening
<1>9. Attended'
  BY <1>1, <1>2, <1>3 DEF HttpInv, Attended, SessionTypes, Settling, Openers, Requests,
              HasId, Opening, Ended, Watchers
<1>10. Openers'
  BY <1>1, <1>2, <1>3 DEF HttpInv, Openers, Requests, HasId, Opening, SessionTypes
<1>11. Settling'
  BY <1>1, <1>2, <1>3 DEF HttpInv, Settling, Openers, Requests, HasId, Opening,
              SessionTypes, Unregistered, PlaceKept, Watchers, Clocks, Evictions
<1>12. Watchers'
  BY <1>1, <1>2, <1>3 DEF HttpInv, Watchers, SessionTypes, Ended, Unregistered,
              PlaceKept, Settling, Clocks
<1>13. Clocks'
  BY <1>1, <1>2, <1>3 DEF HttpInv, Clocks, SessionTypes, Unregistered, PlaceKept,
              Watchers, Settling, Requests, HasId, Opening
<1>14. Slots'
  <2>1. SameTaking(req, req')
    BY <1>2 DEF SameTaking, Taking
  <2>2. SameHolding(slot, owner, slot', owner')
    BY <1>1 DEF SameHolding
  <2> QED
    BY <1>1, <2>1, <2>2, SlotsSame DEF HttpInv, Slots
<1>15. Places'
  BY <1>1, <1>2, <1>3 DEF HttpInv, Places, PlacesOf, Requests, RequestType, Opening, HasId,
       SessionTypes
<1>16. Tallies'
  <2>1. SameRequests
    BY <1>1, <1>2, <1>3 DEF HttpInv, SameRequests, SessionTypes
  <2> QED
    BY <2>1, <1>1, TalliesSame DEF HttpInv
<1> QED
  BY <1>4, <1>5, <1>6, <1>7, <1>8, <1>9, <1>10, <1>11, <1>12, <1>13, <1>14, <1>15, <1>16
     DEF HttpInv

\* Another principal's request on a live session begins.
LEMMA BeginForeignKeeps ==
  ASSUME HttpInv, NEW q \in Reqs, NEW p \in Principals, NEW s \in Sids, NEW kind \in
         {"post", "get"}, s \in live, owner[s] # p, Begun(q, kind, p, s, "none"),
         UNCHANGED <<call, life, book, clock, counts, places, retired, helpers, shutdown>>
  PROVE  HttpInv'
<1>1. /\ s \in live /\ owner[s] # p
      /\ req[q] = Idle /\ sdk[s] # "unused" /\ (sdk[s] # "gone" \/ s \in live)
      /\ req' = [req EXCEPT ![q] = [kind |-> kind, stage |-> "begun", principal |-> p,
                                   sid |-> s, counted |-> "none"]]
      /\ UNCHANGED <<call, sdk, owner, live, evicted, used, timer, fired, active, gets,
                     early, earlyGets, slot, slots, sessions, retired, watcher, evictor, closers,
                     closing, snapshot>>
  BY DEF Begun, life, book, clock, counts, places, helpers, shutdown
<1>2. /\ req[q].kind = "idle" /\ req[q].stage = "idle"
      /\ req'[q].kind = kind /\ req'[q].stage = "begun" /\ req'[q].principal = p
      /\ req'[q].sid = s /\ req'[q].counted = "none"
      /\ \A r \in Reqs : r # q => req'[r] = req[r]
      /\ req[q] \in RequestType /\ req' \in [Reqs -> RequestType]
  BY <1>1 DEF HttpInv, Requests, RequestType, Opening, Idle
<1>3. /\ CallTypes' /\ SessionTypes' /\ Ordered' /\ Owned' /\ Unregistered' /\ PlaceKept'
      /\ Evictions'
      /\ Watchers' /\ Clocks' /\ CallsHold' /\ Tombstones' /\ Closed'
  BY <1>1 DEF HttpInv, CallTypes, SessionTypes, Ordered, Owned, Unregistered, PlaceKept,
              Evictions, Watchers, Clocks, CallsHold, Tombstones, Closed
<1>4. Requests'
  BY <1>1, <1>2 DEF HttpInv, Requests, RequestType, Opening, HasId
<1>5. Attended'
  BY <1>1, <1>2 DEF HttpInv, Attended, SessionTypes, Settling, Openers, Requests, HasId,
              Opening, Ended, Watchers
<1>6. Openers'
  BY <1>1, <1>2 DEF HttpInv, Openers, Requests, HasId, Opening, SessionTypes
<1>7. Settling'
  BY <1>1, <1>2 DEF HttpInv, Settling, Openers, Requests, HasId, Opening, SessionTypes,
              Unregistered, PlaceKept, Watchers, Clocks, Evictions
<1>8. Slots'
  <2>1. SameTaking(req, req')
    BY <1>2 DEF SameTaking, Taking
  <2>2. SameHolding(slot, owner, slot', owner')
    BY <1>1 DEF SameHolding
  <2> QED
    BY <1>1, <2>1, <2>2, SlotsSame DEF HttpInv, Slots
<1>9. Places'
  BY <1>1, <1>2 DEF HttpInv, Places, PlacesOf, Requests, RequestType, Opening, HasId, SessionTypes
<1>10. Tallies'
  <2>0. /\ TallyOf("post", req, owner, live, slot, active, early) /\ live \subseteq Sids
        /\ TallyOf("get", req, owner, live, slot, gets, earlyGets)
        /\ PlacesOf("post", req, owner, slot) /\ PlacesOf("get", req, owner, slot)
        /\ \A t \in live : slot[t] # "none"
    BY DEF HttpInv, Tallies, Places, SessionTypes, Unregistered
  <2>1. TallyOf("post", req', owner, live, slot, active, early)
    <3>1. Foreign("post", req, req', owner, q)
      BY <1>1, <1>2, <2>0 DEF Foreign, PlacesOf
    <3> QED
      BY <2>0, <3>1, TallyForeign
  <2>2. TallyOf("get", req', owner, live, slot, gets, earlyGets)
    <3>1. Foreign("get", req, req', owner, q)
      BY <1>1, <1>2, <2>0 DEF Foreign, PlacesOf
    <3> QED
      BY <2>0, <3>1, TallyForeign
  <2> QED
    BY <1>1, <2>1, <2>2 DEF Tallies
<1> QED
  BY <1>3, <1>4, <1>5, <1>6, <1>7, <1>8, <1>9, <1>10 DEF HttpInv

\* beginPOST on a live session.
LEMMA BeginPostLiveKeeps ==
  ASSUME HttpInv, NEW q \in Reqs, NEW p \in Principals, NEW s \in Sids, BeginPost(q, p,
         s), s \in live
  PROVE  HttpInv'
<1>1. /\ s \in live /\ s \notin evicted /\ owner[s] = p
      /\ req[q] = Idle /\ sdk[s] # "unused" /\ (sdk[s] # "gone" \/ s \in live)
      /\ req' = [req EXCEPT ![q] = [kind |-> "post", stage |-> "begun", principal |-> p,
                                   sid |-> s, counted |-> "live"]]
      /\ active' = [active EXCEPT ![s] = @ + 1]
      /\ \/ timer' = timer
         \/ timer[s] \in {"running", "out"} /\ timer' = [timer EXCEPT ![s] = "paused"]
      /\ \/ fired' = fired
         \/ fired[s] = "pending" /\ fired' = [fired EXCEPT ![s] = "overtaken"]
      /\ UNCHANGED <<call, sdk, owner, live, evicted, used, gets, early, earlyGets, slot,
                     slots, sessions, retired, watcher, evictor, closers, closing, snapshot>>
  BY DEF BeginPost, Begun, life, book, clock, counts, places, helpers, shutdown
<1>2. /\ req[q].kind = "idle" /\ req[q].stage = "idle"
      /\ req'[q].kind = "post" /\ req'[q].stage = "begun" /\ req'[q].principal = p
      /\ req'[q].sid = s /\ req'[q].counted = "live"
      /\ \A r \in Reqs : r # q => req'[r] = req[r]
      /\ req[q] \in RequestType /\ req' \in [Reqs -> RequestType]
  BY <1>1 DEF HttpInv, Requests, RequestType, Opening, Idle
<1>3. CallTypes' /\ Ordered' /\ Owned' /\ Evictions' /\ CallsHold' /\ Tombstones' /\ Closed'
  BY <1>1 DEF HttpInv, CallTypes, Ordered, Owned, Evictions, CallsHold, Tombstones,
              Closed
<1>4. Requests'
  BY <1>1, <1>2 DEF HttpInv, Requests, RequestType, Opening, HasId
<1>5. SessionTypes'
  BY <1>1, <1>2 DEF HttpInv, SessionTypes
<1>6. Unregistered'
  BY <1>1, <1>2 DEF HttpInv, Unregistered, SessionTypes, Settling, Openers, HasId,
              Requests, Opening, PlaceKept, Evictions, Owned
<1>7. PlaceKept'
  BY <1>1, <1>2 DEF HttpInv, PlaceKept, SessionTypes, Unregistered, Ended, Settling,
              Openers, Requests, HasId, Opening
<1>8. Attended'
  BY <1>1, <1>2 DEF HttpInv, Attended, SessionTypes, Settling, Openers, Requests, HasId,
              Opening, Ended, Watchers
<1>9. Openers'
  BY <1>1, <1>2 DEF HttpInv, Openers, Requests, HasId, Opening, SessionTypes
<1>10. Settling'
  BY <1>1, <1>2 DEF HttpInv, Settling, Openers, Requests, HasId, Opening, SessionTypes,
              Unregistered, PlaceKept, Watchers, Clocks, Evictions
<1>11. Watchers'
  BY <1>1, <1>2 DEF HttpInv, Watchers, SessionTypes, Ended, Unregistered, PlaceKept,
              Settling, Clocks
<1>12. Clocks'
  BY <1>1, <1>2 DEF HttpInv, Clocks, SessionTypes, Unregistered, PlaceKept, Watchers,
              Settling, Requests, HasId, Opening
<1>13. Slots'
  <2>1. SameTaking(req, req')
    BY <1>2 DEF SameTaking, Taking
  <2>2. SameHolding(slot, owner, slot', owner')
    BY <1>1 DEF SameHolding
  <2> QED
    BY <1>1, <2>1, <2>2, SlotsSame DEF HttpInv, Slots
<1>14. Places'
  BY <1>1, <1>2 DEF HttpInv, Places, PlacesOf, Requests, RequestType, Opening, HasId,
       SessionTypes, Unregistered
<1>15. Tallies'
  <2>0. /\ TallyOf("post", req, owner, live, slot, active, early) /\ live \subseteq Sids
        /\ TallyOf("get", req, owner, live, slot, gets, earlyGets)
        /\ PlacesOf("post", req, owner, slot) /\ PlacesOf("get", req, owner, slot)
        /\ \A t \in live : slot[t] # "none"
    BY DEF HttpInv, Tallies, Places, SessionTypes, Unregistered
  <2>1. TallyOf("post", req', owner, live, slot, active', early)
    <3>1. BeginsLive("post", req, req', owner, live, slot, q, s, active, active')
      BY <1>1, <1>2, <2>0 DEF BeginsLive
    <3> QED
      BY <2>0, <3>1, TallyBeginLive
  <2>2. TallyOf("get", req', owner, live, slot, gets, earlyGets)
    <3>1. \A r \in Reqs : req[r].kind = "get" \/ req'[r].kind = "get" => req'[r] = req[r]
      BY <1>1, <1>2
    <3> QED
      BY <2>0, <3>1, TallySame
  <2> QED
    BY <1>1, <2>1, <2>2 DEF Tallies
<1> QED
  BY <1>3, <1>4, <1>5, <1>6, <1>7, <1>8, <1>9, <1>10, <1>11, <1>12, <1>13, <1>14, <1>15
     DEF HttpInv

\* beginPOST on an id that is not live.
LEMMA BeginPostEarlyKeeps ==
  ASSUME HttpInv, NEW q \in Reqs, NEW p \in Principals, NEW s \in Sids, BeginPost(q, p,
         s), s \notin live
  PROVE  HttpInv'
<1>1. /\ s \notin live
      /\ req[q] = Idle /\ sdk[s] # "unused" /\ (sdk[s] # "gone" \/ s \in live)
      /\ req' = [req EXCEPT ![q] = [kind |-> "post", stage |-> "begun", principal |-> p,
                                   sid |-> s, counted |-> "early"]]
      /\ early' = [early EXCEPT ![<<s, p>>] = @ + 1]
      /\ UNCHANGED <<call, sdk, owner, live, evicted, used, timer, fired, active, gets,
                     earlyGets, slot, slots, sessions, retired, watcher, evictor, closers, closing,
                     snapshot>>
  BY DEF BeginPost, Begun, life, book, clock, counts, places, helpers, shutdown
<1>2. /\ req[q].kind = "idle" /\ req[q].stage = "idle"
      /\ req'[q].kind = "post" /\ req'[q].stage = "begun" /\ req'[q].principal = p
      /\ req'[q].sid = s /\ req'[q].counted = "early"
      /\ \A r \in Reqs : r # q => req'[r] = req[r]
      /\ req[q] \in RequestType /\ req' \in [Reqs -> RequestType]
  BY <1>1 DEF HttpInv, Requests, RequestType, Opening, Idle
<1>3. /\ CallTypes' /\ SessionTypes' /\ Ordered' /\ Owned' /\ Unregistered' /\ PlaceKept'
      /\ Evictions'
      /\ Watchers' /\ Clocks' /\ CallsHold' /\ Tombstones' /\ Closed'
  BY <1>1 DEF HttpInv, CallTypes, SessionTypes, Ordered, Owned, Unregistered, PlaceKept,
              Evictions, Watchers, Clocks, CallsHold, Tombstones, Closed
<1>4. Requests'
  BY <1>1, <1>2 DEF HttpInv, Requests, RequestType, Opening, HasId
<1>5. Attended'
  BY <1>1, <1>2 DEF HttpInv, Attended, SessionTypes, Settling, Openers, Requests, HasId,
              Opening, Ended, Watchers
<1>6. Openers'
  BY <1>1, <1>2 DEF HttpInv, Openers, Requests, HasId, Opening, SessionTypes
<1>7. Settling'
  BY <1>1, <1>2 DEF HttpInv, Settling, Openers, Requests, HasId, Opening, SessionTypes,
              Unregistered, PlaceKept, Watchers, Clocks, Evictions
<1>8. Slots'
  <2>1. SameTaking(req, req')
    BY <1>2 DEF SameTaking, Taking
  <2>2. SameHolding(slot, owner, slot', owner')
    BY <1>1 DEF SameHolding
  <2> QED
    BY <1>1, <2>1, <2>2, SlotsSame DEF HttpInv, Slots
<1>9. Places'
  BY <1>1, <1>2 DEF HttpInv, Places, PlacesOf, Requests, RequestType, Opening, HasId, SessionTypes
<1>10. Tallies'
  <2>0. /\ TallyOf("post", req, owner, live, slot, active, early) /\ live \subseteq Sids
        /\ TallyOf("get", req, owner, live, slot, gets, earlyGets)
        /\ PlacesOf("post", req, owner, slot) /\ PlacesOf("get", req, owner, slot)
        /\ \A t \in live : slot[t] # "none"
    BY DEF HttpInv, Tallies, Places, SessionTypes, Unregistered
  <2>1. TallyOf("post", req', owner, live, slot, active, early')
    <3>1. BeginsEarly("post", req, req', live, q, s, p, early, early')
      BY <1>1, <1>2, <2>0 DEF BeginsEarly
    <3> QED
      BY <2>0, <3>1, TallyBeginEarly
  <2>2. TallyOf("get", req', owner, live, slot, gets, earlyGets)
    <3>1. \A r \in Reqs : req[r].kind = "get" \/ req'[r].kind = "get" => req'[r] = req[r]
      BY <1>1, <1>2
    <3> QED
      BY <2>0, <3>1, TallySame
  <2> QED
    BY <1>1, <2>1, <2>2 DEF Tallies
<1> QED
  BY <1>3, <1>4, <1>5, <1>6, <1>7, <1>8, <1>9, <1>10 DEF HttpInv

\* beginGET on a live session.
LEMMA BeginGetLiveKeeps ==
  ASSUME HttpInv, NEW q \in Reqs, NEW p \in Principals, NEW s \in Sids, BeginGet(q, p, s),
         s \in live
  PROVE  HttpInv'
<1>1. /\ s \in live /\ s \notin evicted /\ owner[s] = p
      /\ req[q] = Idle /\ sdk[s] # "unused" /\ (sdk[s] # "gone" \/ s \in live)
      /\ req' = [req EXCEPT ![q] = [kind |-> "get", stage |-> "begun", principal |-> p,
                                   sid |-> s, counted |-> "live"]]
      /\ gets' = [gets EXCEPT ![s] = @ + 1]
      /\ UNCHANGED <<call, sdk, owner, live, evicted, used, timer, fired, active, early,
                     earlyGets, slot, slots, sessions, retired, watcher, evictor, closers, closing,
                     snapshot>>
  BY DEF BeginGet, Begun, life, book, clock, counts, places, helpers, shutdown
<1>2. /\ req[q].kind = "idle" /\ req[q].stage = "idle"
      /\ req'[q].kind = "get" /\ req'[q].stage = "begun" /\ req'[q].principal = p
      /\ req'[q].sid = s /\ req'[q].counted = "live"
      /\ \A r \in Reqs : r # q => req'[r] = req[r]
      /\ req[q] \in RequestType /\ req' \in [Reqs -> RequestType]
  BY <1>1 DEF HttpInv, Requests, RequestType, Opening, Idle
<1>3. /\ CallTypes' /\ SessionTypes' /\ Ordered' /\ Owned' /\ Unregistered' /\ PlaceKept'
      /\ Evictions'
      /\ Watchers' /\ Clocks' /\ CallsHold' /\ Tombstones' /\ Closed'
  BY <1>1 DEF HttpInv, CallTypes, SessionTypes, Ordered, Owned, Unregistered, PlaceKept,
              Evictions, Watchers, Clocks, CallsHold, Tombstones, Closed
<1>4. Requests'
  BY <1>1, <1>2 DEF HttpInv, Requests, RequestType, Opening, HasId
<1>5. Attended'
  BY <1>1, <1>2 DEF HttpInv, Attended, SessionTypes, Settling, Openers, Requests, HasId,
              Opening, Ended, Watchers
<1>6. Openers'
  BY <1>1, <1>2 DEF HttpInv, Openers, Requests, HasId, Opening, SessionTypes
<1>7. Settling'
  BY <1>1, <1>2 DEF HttpInv, Settling, Openers, Requests, HasId, Opening, SessionTypes,
              Unregistered, PlaceKept, Watchers, Clocks, Evictions
<1>8. Slots'
  <2>1. SameTaking(req, req')
    BY <1>2 DEF SameTaking, Taking
  <2>2. SameHolding(slot, owner, slot', owner')
    BY <1>1 DEF SameHolding
  <2> QED
    BY <1>1, <2>1, <2>2, SlotsSame DEF HttpInv, Slots
<1>9. Places'
  BY <1>1, <1>2 DEF HttpInv, Places, PlacesOf, Requests, RequestType, Opening, HasId,
       SessionTypes, Unregistered
<1>10. Tallies'
  <2>0. /\ TallyOf("post", req, owner, live, slot, active, early) /\ live \subseteq Sids
        /\ TallyOf("get", req, owner, live, slot, gets, earlyGets)
        /\ PlacesOf("post", req, owner, slot) /\ PlacesOf("get", req, owner, slot)
        /\ \A t \in live : slot[t] # "none"
    BY DEF HttpInv, Tallies, Places, SessionTypes, Unregistered
  <2>1. TallyOf("post", req', owner, live, slot, active, early)
    <3>1. \A r \in Reqs : req[r].kind = "post" \/ req'[r].kind = "post" => req'[r] = req[r]
      BY <1>1, <1>2
    <3> QED
      BY <2>0, <3>1, TallySame
  <2>2. TallyOf("get", req', owner, live, slot, gets', earlyGets)
    <3>1. BeginsLive("get", req, req', owner, live, slot, q, s, gets, gets')
      BY <1>1, <1>2, <2>0 DEF BeginsLive
    <3> QED
      BY <2>0, <3>1, TallyBeginLive
  <2> QED
    BY <1>1, <2>1, <2>2 DEF Tallies
<1> QED
  BY <1>3, <1>4, <1>5, <1>6, <1>7, <1>8, <1>9, <1>10 DEF HttpInv

\* beginGET on an id that is not live.
LEMMA BeginGetEarlyKeeps ==
  ASSUME HttpInv, NEW q \in Reqs, NEW p \in Principals, NEW s \in Sids, BeginGet(q, p, s),
         s \notin live
  PROVE  HttpInv'
<1>1. /\ s \notin live
      /\ req[q] = Idle /\ sdk[s] # "unused" /\ (sdk[s] # "gone" \/ s \in live)
      /\ req' = [req EXCEPT ![q] = [kind |-> "get", stage |-> "begun", principal |-> p,
                                   sid |-> s, counted |-> "early"]]
      /\ earlyGets' = [earlyGets EXCEPT ![<<s, p>>] = @ + 1]
      /\ UNCHANGED <<call, sdk, owner, live, evicted, used, timer, fired, active, gets,
                     early, slot, slots, sessions, retired, watcher, evictor, closers, closing,
                     snapshot>>
  BY DEF BeginGet, Begun, life, book, clock, counts, places, helpers, shutdown
<1>2. /\ req[q].kind = "idle" /\ req[q].stage = "idle"
      /\ req'[q].kind = "get" /\ req'[q].stage = "begun" /\ req'[q].principal = p
      /\ req'[q].sid = s /\ req'[q].counted = "early"
      /\ \A r \in Reqs : r # q => req'[r] = req[r]
      /\ req[q] \in RequestType /\ req' \in [Reqs -> RequestType]
  BY <1>1 DEF HttpInv, Requests, RequestType, Opening, Idle
<1>3. /\ CallTypes' /\ SessionTypes' /\ Ordered' /\ Owned' /\ Unregistered' /\ PlaceKept'
      /\ Evictions'
      /\ Watchers' /\ Clocks' /\ CallsHold' /\ Tombstones' /\ Closed'
  BY <1>1 DEF HttpInv, CallTypes, SessionTypes, Ordered, Owned, Unregistered, PlaceKept,
              Evictions, Watchers, Clocks, CallsHold, Tombstones, Closed
<1>4. Requests'
  BY <1>1, <1>2 DEF HttpInv, Requests, RequestType, Opening, HasId
<1>5. Attended'
  BY <1>1, <1>2 DEF HttpInv, Attended, SessionTypes, Settling, Openers, Requests, HasId,
              Opening, Ended, Watchers
<1>6. Openers'
  BY <1>1, <1>2 DEF HttpInv, Openers, Requests, HasId, Opening, SessionTypes
<1>7. Settling'
  BY <1>1, <1>2 DEF HttpInv, Settling, Openers, Requests, HasId, Opening, SessionTypes,
              Unregistered, PlaceKept, Watchers, Clocks, Evictions
<1>8. Slots'
  <2>1. SameTaking(req, req')
    BY <1>2 DEF SameTaking, Taking
  <2>2. SameHolding(slot, owner, slot', owner')
    BY <1>1 DEF SameHolding
  <2> QED
    BY <1>1, <2>1, <2>2, SlotsSame DEF HttpInv, Slots
<1>9. Places'
  BY <1>1, <1>2 DEF HttpInv, Places, PlacesOf, Requests, RequestType, Opening, HasId, SessionTypes
<1>10. Tallies'
  <2>0. /\ TallyOf("post", req, owner, live, slot, active, early) /\ live \subseteq Sids
        /\ TallyOf("get", req, owner, live, slot, gets, earlyGets)
        /\ PlacesOf("post", req, owner, slot) /\ PlacesOf("get", req, owner, slot)
        /\ \A t \in live : slot[t] # "none"
    BY DEF HttpInv, Tallies, Places, SessionTypes, Unregistered
  <2>1. TallyOf("post", req', owner, live, slot, active, early)
    <3>1. \A r \in Reqs : req[r].kind = "post" \/ req'[r].kind = "post" => req'[r] = req[r]
      BY <1>1, <1>2
    <3> QED
      BY <2>0, <3>1, TallySame
  <2>2. TallyOf("get", req', owner, live, slot, gets, earlyGets')
    <3>1. BeginsEarly("get", req, req', live, q, s, p, earlyGets, earlyGets')
      BY <1>1, <1>2, <2>0 DEF BeginsEarly
    <3> QED
      BY <2>0, <3>1, TallyBeginEarly
  <2> QED
    BY <1>1, <2>1, <2>2 DEF Tallies
<1> QED
  BY <1>3, <1>4, <1>5, <1>6, <1>7, <1>8, <1>9, <1>10 DEF HttpInv

\* endPOST of a request counted on its session.
LEMMA EndPostLiveKeeps ==
  ASSUME HttpInv, NEW q \in Reqs, EndPost(q),
         \/ req[q].counted = "live"
         \/ req[q].counted = "early" /\ req[q].sid \in live /\ owner[req[q].sid] = req[q].principal
  PROVE  HttpInv'
<1>1. /\ req[q].kind = "post"
      /\ \/ req[q].counted = "live"
         \/ req[q].counted = "early" /\ req[q].sid \in live /\ owner[req[q].sid] = req[q].principal
      /\ active' = [active EXCEPT ![req[q].sid] = @ - 1]
      /\ \/ used' = used
         \/ req[q].sid \in live /\ used' = Touched(req[q].sid)
      /\ req' = [req EXCEPT ![q] = Idle]
      /\ \/ timer' = timer
         \/ timer[req[q].sid] = "paused" /\ timer' = [timer EXCEPT ![req[q].sid] = "running"]
      /\ UNCHANGED <<call, sdk, owner, live, evicted, fired, gets, early, earlyGets, slot,
                     slots, sessions, retired, watcher, evictor, closers, closing, snapshot>>
  BY DEF EndPost, LiveEndPost, life, book, clock, counts, places, helpers, shutdown
<1>2. /\ req'[q].kind = "idle" /\ req'[q].stage = "idle" /\ req'[q].sid = NoSid
      /\ req[q].stage = "begun" /\ req[q].sid \in Sids /\ req[q].principal \in Principals
      /\ \A r \in Reqs : r # q => req'[r] = req[r]
      /\ req[q] \in RequestType /\ req' \in [Reqs -> RequestType]
  BY <1>1 DEF HttpInv, Requests, RequestType, Opening, Idle
<1>3. CallTypes' /\ Owned' /\ Evictions' /\ CallsHold' /\ Tombstones' /\ Closed'
  BY <1>1 DEF HttpInv, CallTypes, Owned, Evictions, CallsHold, Tombstones, Closed
<1>4. Requests'
  BY <1>1, <1>2 DEF HttpInv, Requests, RequestType, Opening, HasId
<1>5. SessionTypes'
  BY <1>1, <1>2 DEF HttpInv, SessionTypes
<1>6. Ordered'
  <2>1. CASE used' = used
    BY <1>1, <2>1 DEF HttpInv, Ordered
  <2>2. CASE req[q].sid \in live /\ used' = Touched(req[q].sid)
    <3>1. live \cup {req[q].sid} = live /\ live' = live
      BY <1>1, <2>2
    <3>2. OrderOf(Touched(req[q].sid), live \cup {req[q].sid})
      BY OrderKept DEF HttpInv, Ordered
    <3> QED
      BY <3>1, <3>2, <2>2 DEF Ordered
  <2> QED
    BY <1>1, <2>1, <2>2
<1>7. Unregistered'
  BY <1>1, <1>2 DEF HttpInv, Unregistered, SessionTypes, Settling, Openers, HasId,
              Requests, Opening, PlaceKept, Evictions, Owned
<1>8. PlaceKept'
  BY <1>1, <1>2 DEF HttpInv, PlaceKept, SessionTypes, Unregistered, Ended, Settling,
              Openers, Requests, HasId, Opening
<1>9. Attended'
  BY <1>1, <1>2 DEF HttpInv, Attended, SessionTypes, Settling, Openers, Requests, HasId,
              Opening, Ended, Watchers
<1>10. Openers'
  BY <1>1, <1>2 DEF HttpInv, Openers, Requests, HasId, Opening, SessionTypes
<1>11. Settling'
  BY <1>1, <1>2 DEF HttpInv, Settling, Openers, Requests, HasId, Opening, SessionTypes,
              Unregistered, PlaceKept, Watchers, Clocks, Evictions
<1>12. Watchers'
  BY <1>1, <1>2 DEF HttpInv, Watchers, SessionTypes, Ended, Unregistered, PlaceKept,
              Settling, Clocks
<1>13. Clocks'
  BY <1>1, <1>2 DEF HttpInv, Clocks, SessionTypes, Unregistered, PlaceKept, Watchers,
              Settling, Requests, HasId, Opening
<1>14. Slots'
  <2>1. SameTaking(req, req')
    BY <1>2 DEF SameTaking, Taking
  <2>2. SameHolding(slot, owner, slot', owner')
    BY <1>1 DEF SameHolding
  <2> QED
    BY <1>1, <2>1, <2>2, SlotsSame DEF HttpInv, Slots
<1>15. Places'
  BY <1>1, <1>2 DEF HttpInv, Places, PlacesOf, Requests, RequestType, Opening, HasId, SessionTypes
<1>16. Tallies'
  <2>0. /\ TallyOf("post", req, owner, live, slot, active, early) /\ live \subseteq Sids
        /\ TallyOf("get", req, owner, live, slot, gets, earlyGets)
        /\ PlacesOf("post", req, owner, slot) /\ PlacesOf("get", req, owner, slot)
        /\ \A t \in live : slot[t] # "none"
    BY DEF HttpInv, Tallies, Places, SessionTypes, Unregistered
  <2>1. TallyOf("post", req', owner, live, slot, active', early)
    <3>1. EndsLive("post", req, req', owner, live, q, req[q].sid, active, active')
      BY <1>1, <1>2, <2>0 DEF EndsLive, PlacesOf
    <3> QED
      BY <2>0, <3>1, TallyEndLive
  <2>2. TallyOf("get", req', owner, live, slot, gets, earlyGets)
    <3>1. \A r \in Reqs : req[r].kind = "get" \/ req'[r].kind = "get" => req'[r] = req[r]
      BY <1>1, <1>2
    <3> QED
      BY <2>0, <3>1, TallySame
  <2> QED
    BY <1>1, <2>1, <2>2 DEF Tallies
<1> QED
  BY <1>3, <1>4, <1>5, <1>6, <1>7, <1>8, <1>9, <1>10, <1>11, <1>12, <1>13, <1>14, <1>15,
     <1>16 DEF HttpInv

\* endPOST of a request that is still counted early.
LEMMA EndPostEarlyKeeps ==
  ASSUME HttpInv, NEW q \in Reqs, EndPost(q), req[q].counted = "early",
         ~(req[q].sid \in live /\ owner[req[q].sid] = req[q].principal)
  PROVE  HttpInv'
<1>1. /\ req[q].kind = "post" /\ req[q].counted = "early"
      /\ ~(req[q].sid \in live /\ owner[req[q].sid] = req[q].principal)
      /\ early' = [early EXCEPT ![<<req[q].sid, req[q].principal>>] =
                                IF @ > 0 THEN @ - 1 ELSE 0]
      /\ req' = [req EXCEPT ![q] = Idle]
      /\ UNCHANGED <<call, sdk, owner, live, evicted, used, timer, fired, active, gets,
                     earlyGets, slot, slots, sessions, retired, watcher, evictor, closers, closing,
                     snapshot>>
  BY DEF EndPost, life, book, clock, counts, places, helpers, shutdown
<1>2. /\ req'[q].kind = "idle" /\ req'[q].stage = "idle" /\ req'[q].sid = NoSid
      /\ req[q].stage = "begun" /\ req[q].sid \in Sids /\ req[q].principal \in Principals
      /\ \A r \in Reqs : r # q => req'[r] = req[r]
      /\ req[q] \in RequestType /\ req' \in [Reqs -> RequestType]
  BY <1>1 DEF HttpInv, Requests, RequestType, Opening, Idle
<1>3. /\ CallTypes' /\ SessionTypes' /\ Ordered' /\ Owned' /\ Unregistered' /\ PlaceKept'
      /\ Evictions'
      /\ Watchers' /\ Clocks' /\ CallsHold' /\ Tombstones' /\ Closed'
  BY <1>1 DEF HttpInv, CallTypes, SessionTypes, Ordered, Owned, Unregistered, PlaceKept,
              Evictions, Watchers, Clocks, CallsHold, Tombstones, Closed
<1>4. Requests'
  BY <1>1, <1>2 DEF HttpInv, Requests, RequestType, Opening, HasId
<1>5. Attended'
  BY <1>1, <1>2 DEF HttpInv, Attended, SessionTypes, Settling, Openers, Requests, HasId,
              Opening, Ended, Watchers
<1>6. Openers'
  BY <1>1, <1>2 DEF HttpInv, Openers, Requests, HasId, Opening, SessionTypes
<1>7. Settling'
  BY <1>1, <1>2 DEF HttpInv, Settling, Openers, Requests, HasId, Opening, SessionTypes,
              Unregistered, PlaceKept, Watchers, Clocks, Evictions
<1>8. Slots'
  <2>1. SameTaking(req, req')
    BY <1>2 DEF SameTaking, Taking
  <2>2. SameHolding(slot, owner, slot', owner')
    BY <1>1 DEF SameHolding
  <2> QED
    BY <1>1, <2>1, <2>2, SlotsSame DEF HttpInv, Slots
<1>9. Places'
  BY <1>1, <1>2 DEF HttpInv, Places, PlacesOf, Requests, RequestType, Opening, HasId, SessionTypes
<1>10. Tallies'
  <2>0. /\ TallyOf("post", req, owner, live, slot, active, early) /\ live \subseteq Sids
        /\ TallyOf("get", req, owner, live, slot, gets, earlyGets)
        /\ PlacesOf("post", req, owner, slot) /\ PlacesOf("get", req, owner, slot)
        /\ \A t \in live : slot[t] # "none"
    BY DEF HttpInv, Tallies, Places, SessionTypes, Unregistered
  <2>1. TallyOf("post", req', owner, live, slot, active, early')
    <3>1. EndsEarly("post", req, req', owner, live, q, req[q].sid, req[q].principal, early, early')
      BY <1>1, <1>2, <2>0 DEF EndsEarly, PlacesOf
    <3> QED
      BY <2>0, <3>1, TallyEndEarly
  <2>2. TallyOf("get", req', owner, live, slot, gets, earlyGets)
    <3>1. \A r \in Reqs : req[r].kind = "get" \/ req'[r].kind = "get" => req'[r] = req[r]
      BY <1>1, <1>2
    <3> QED
      BY <2>0, <3>1, TallySame
  <2> QED
    BY <1>1, <2>1, <2>2 DEF Tallies
<1> QED
  BY <1>3, <1>4, <1>5, <1>6, <1>7, <1>8, <1>9, <1>10 DEF HttpInv

\* endPOST of a request of another principal.
LEMMA EndPostForeignKeeps ==
  ASSUME HttpInv, NEW q \in Reqs, EndPost(q), req[q].counted = "none"
  PROVE  HttpInv'
<1>1. /\ req[q].kind = "post" /\ req[q].counted = "none"
      /\ req' = [req EXCEPT ![q] = Idle]
      /\ UNCHANGED <<call, sdk, owner, live, evicted, used, timer, fired, active, gets,
                     early, earlyGets, slot, slots, sessions, retired, watcher, evictor, closers,
                     closing, snapshot>>
  BY DEF EndPost, life, book, clock, counts, places, helpers, shutdown
<1>2. /\ req'[q].kind = "idle" /\ req'[q].stage = "idle" /\ req'[q].sid = NoSid
      /\ req[q].stage = "begun" /\ req[q].sid \in Sids /\ req[q].principal \in Principals
      /\ \A r \in Reqs : r # q => req'[r] = req[r]
      /\ req[q] \in RequestType /\ req' \in [Reqs -> RequestType]
  BY <1>1 DEF HttpInv, Requests, RequestType, Opening, Idle
<1>3. /\ CallTypes' /\ SessionTypes' /\ Ordered' /\ Owned' /\ Unregistered' /\ PlaceKept'
      /\ Evictions'
      /\ Watchers' /\ Clocks' /\ CallsHold' /\ Tombstones' /\ Closed'
  BY <1>1 DEF HttpInv, CallTypes, SessionTypes, Ordered, Owned, Unregistered, PlaceKept,
              Evictions, Watchers, Clocks, CallsHold, Tombstones, Closed
<1>4. Requests'
  BY <1>1, <1>2 DEF HttpInv, Requests, RequestType, Opening, HasId
<1>5. Attended'
  BY <1>1, <1>2 DEF HttpInv, Attended, SessionTypes, Settling, Openers, Requests, HasId,
              Opening, Ended, Watchers
<1>6. Openers'
  BY <1>1, <1>2 DEF HttpInv, Openers, Requests, HasId, Opening, SessionTypes
<1>7. Settling'
  BY <1>1, <1>2 DEF HttpInv, Settling, Openers, Requests, HasId, Opening, SessionTypes,
              Unregistered, PlaceKept, Watchers, Clocks, Evictions
<1>8. Slots'
  <2>1. SameTaking(req, req')
    BY <1>2 DEF SameTaking, Taking
  <2>2. SameHolding(slot, owner, slot', owner')
    BY <1>1 DEF SameHolding
  <2> QED
    BY <1>1, <2>1, <2>2, SlotsSame DEF HttpInv, Slots
<1>9. Places'
  BY <1>1, <1>2 DEF HttpInv, Places, PlacesOf, Requests, RequestType, Opening, HasId, SessionTypes
<1>10. Tallies'
  <2>0. /\ TallyOf("post", req, owner, live, slot, active, early) /\ live \subseteq Sids
        /\ TallyOf("get", req, owner, live, slot, gets, earlyGets)
        /\ PlacesOf("post", req, owner, slot) /\ PlacesOf("get", req, owner, slot)
        /\ \A t \in live : slot[t] # "none"
    BY DEF HttpInv, Tallies, Places, SessionTypes, Unregistered
  <2>1. TallyOf("post", req', owner, live, slot, active, early)
    <3>1. Foreign("post", req, req', owner, q)
      BY <1>1, <1>2, <2>0 DEF Foreign, PlacesOf
    <3> QED
      BY <2>0, <3>1, TallyForeign
  <2>2. TallyOf("get", req', owner, live, slot, gets, earlyGets)
    <3>1. Foreign("get", req, req', owner, q)
      BY <1>1, <1>2, <2>0 DEF Foreign, PlacesOf
    <3> QED
      BY <2>0, <3>1, TallyForeign
  <2> QED
    BY <1>1, <2>1, <2>2 DEF Tallies
<1> QED
  BY <1>3, <1>4, <1>5, <1>6, <1>7, <1>8, <1>9, <1>10 DEF HttpInv

\* endGET of a request counted on its session.
LEMMA EndGetLiveKeeps ==
  ASSUME HttpInv, NEW q \in Reqs, EndGet(q),
         \/ req[q].counted = "live"
         \/ req[q].counted = "early" /\ req[q].sid \in live /\ owner[req[q].sid] = req[q].principal
  PROVE  HttpInv'
<1>1. /\ req[q].kind = "get"
      /\ \/ req[q].counted = "live"
         \/ req[q].counted = "early" /\ req[q].sid \in live /\ owner[req[q].sid] = req[q].principal
      /\ gets' = [gets EXCEPT ![req[q].sid] = @ - 1]
      /\ \/ used' = used
         \/ req[q].sid \in live /\ used' = Touched(req[q].sid)
      /\ req' = [req EXCEPT ![q] = Idle]
      /\ UNCHANGED <<call, sdk, owner, live, evicted, timer, fired, active, early, earlyGets,
                     slot, slots, sessions, retired, watcher, evictor, closers, closing, snapshot>>
  BY DEF EndGet, life, book, clock, counts, places, helpers, shutdown
<1>2. /\ req'[q].kind = "idle" /\ req'[q].stage = "idle" /\ req'[q].sid = NoSid
      /\ req[q].stage = "begun" /\ req[q].sid \in Sids /\ req[q].principal \in Principals
      /\ \A r \in Reqs : r # q => req'[r] = req[r]
      /\ req[q] \in RequestType /\ req' \in [Reqs -> RequestType]
  BY <1>1 DEF HttpInv, Requests, RequestType, Opening, Idle
<1>3. /\ CallTypes' /\ SessionTypes' /\ Owned' /\ Unregistered' /\ PlaceKept' /\ Evictions'
      /\ Watchers'
      /\ Clocks' /\ CallsHold' /\ Tombstones' /\ Closed'
  BY <1>1 DEF HttpInv, CallTypes, SessionTypes, Owned, Unregistered, PlaceKept,
              Evictions, Watchers, Clocks, CallsHold, Tombstones, Closed
<1>4. Requests'
  BY <1>1, <1>2 DEF HttpInv, Requests, RequestType, Opening, HasId
<1>5. Ordered'
  <2>1. CASE used' = used
    BY <1>1, <2>1 DEF HttpInv, Ordered
  <2>2. CASE req[q].sid \in live /\ used' = Touched(req[q].sid)
    <3>1. live \cup {req[q].sid} = live /\ live' = live
      BY <1>1, <2>2
    <3>2. OrderOf(Touched(req[q].sid), live \cup {req[q].sid})
      BY OrderKept DEF HttpInv, Ordered
    <3> QED
      BY <3>1, <3>2, <2>2 DEF Ordered
  <2> QED
    BY <1>1, <2>1, <2>2
<1>6. Attended'
  BY <1>1, <1>2 DEF HttpInv, Attended, SessionTypes, Settling, Openers, Requests, HasId,
              Opening, Ended, Watchers
<1>7. Openers'
  BY <1>1, <1>2 DEF HttpInv, Openers, Requests, HasId, Opening, SessionTypes
<1>8. Settling'
  BY <1>1, <1>2 DEF HttpInv, Settling, Openers, Requests, HasId, Opening, SessionTypes,
              Unregistered, PlaceKept, Watchers, Clocks, Evictions
<1>9. Slots'
  <2>1. SameTaking(req, req')
    BY <1>2 DEF SameTaking, Taking
  <2>2. SameHolding(slot, owner, slot', owner')
    BY <1>1 DEF SameHolding
  <2> QED
    BY <1>1, <2>1, <2>2, SlotsSame DEF HttpInv, Slots
<1>10. Places'
  BY <1>1, <1>2 DEF HttpInv, Places, PlacesOf, Requests, RequestType, Opening, HasId, SessionTypes
<1>11. Tallies'
  <2>0. /\ TallyOf("post", req, owner, live, slot, active, early) /\ live \subseteq Sids
        /\ TallyOf("get", req, owner, live, slot, gets, earlyGets)
        /\ PlacesOf("post", req, owner, slot) /\ PlacesOf("get", req, owner, slot)
        /\ \A t \in live : slot[t] # "none"
    BY DEF HttpInv, Tallies, Places, SessionTypes, Unregistered
  <2>1. TallyOf("post", req', owner, live, slot, active, early)
    <3>1. \A r \in Reqs : req[r].kind = "post" \/ req'[r].kind = "post" => req'[r] = req[r]
      BY <1>1, <1>2
    <3> QED
      BY <2>0, <3>1, TallySame
  <2>2. TallyOf("get", req', owner, live, slot, gets', earlyGets)
    <3>1. EndsLive("get", req, req', owner, live, q, req[q].sid, gets, gets')
      BY <1>1, <1>2, <2>0 DEF EndsLive, PlacesOf
    <3> QED
      BY <2>0, <3>1, TallyEndLive
  <2> QED
    BY <1>1, <2>1, <2>2 DEF Tallies
<1> QED
  BY <1>3, <1>4, <1>5, <1>6, <1>7, <1>8, <1>9, <1>10, <1>11 DEF HttpInv

\* endGET of a request that is still counted early.
LEMMA EndGetEarlyKeeps ==
  ASSUME HttpInv, NEW q \in Reqs, EndGet(q), req[q].counted = "early",
         ~(req[q].sid \in live /\ owner[req[q].sid] = req[q].principal)
  PROVE  HttpInv'
<1>1. /\ req[q].kind = "get" /\ req[q].counted = "early"
      /\ ~(req[q].sid \in live /\ owner[req[q].sid] = req[q].principal)
      /\ earlyGets' = [earlyGets EXCEPT ![<<req[q].sid, req[q].principal>>] =
                                IF @ > 0 THEN @ - 1 ELSE 0]
      /\ req' = [req EXCEPT ![q] = Idle]
      /\ UNCHANGED <<call, sdk, owner, live, evicted, used, timer, fired, active, gets,
                     early, slot, slots, sessions, retired, watcher, evictor, closers, closing,
                     snapshot>>
  BY DEF EndGet, life, book, clock, counts, places, helpers, shutdown
<1>2. /\ req'[q].kind = "idle" /\ req'[q].stage = "idle" /\ req'[q].sid = NoSid
      /\ req[q].stage = "begun" /\ req[q].sid \in Sids /\ req[q].principal \in Principals
      /\ \A r \in Reqs : r # q => req'[r] = req[r]
      /\ req[q] \in RequestType /\ req' \in [Reqs -> RequestType]
  BY <1>1 DEF HttpInv, Requests, RequestType, Opening, Idle
<1>3. /\ CallTypes' /\ SessionTypes' /\ Ordered' /\ Owned' /\ Unregistered' /\ PlaceKept'
      /\ Evictions'
      /\ Watchers' /\ Clocks' /\ CallsHold' /\ Tombstones' /\ Closed'
  BY <1>1 DEF HttpInv, CallTypes, SessionTypes, Ordered, Owned, Unregistered, PlaceKept,
              Evictions, Watchers, Clocks, CallsHold, Tombstones, Closed
<1>4. Requests'
  BY <1>1, <1>2 DEF HttpInv, Requests, RequestType, Opening, HasId
<1>5. Attended'
  BY <1>1, <1>2 DEF HttpInv, Attended, SessionTypes, Settling, Openers, Requests, HasId,
              Opening, Ended, Watchers
<1>6. Openers'
  BY <1>1, <1>2 DEF HttpInv, Openers, Requests, HasId, Opening, SessionTypes
<1>7. Settling'
  BY <1>1, <1>2 DEF HttpInv, Settling, Openers, Requests, HasId, Opening, SessionTypes,
              Unregistered, PlaceKept, Watchers, Clocks, Evictions
<1>8. Slots'
  <2>1. SameTaking(req, req')
    BY <1>2 DEF SameTaking, Taking
  <2>2. SameHolding(slot, owner, slot', owner')
    BY <1>1 DEF SameHolding
  <2> QED
    BY <1>1, <2>1, <2>2, SlotsSame DEF HttpInv, Slots
<1>9. Places'
  BY <1>1, <1>2 DEF HttpInv, Places, PlacesOf, Requests, RequestType, Opening, HasId, SessionTypes
<1>10. Tallies'
  <2>0. /\ TallyOf("post", req, owner, live, slot, active, early) /\ live \subseteq Sids
        /\ TallyOf("get", req, owner, live, slot, gets, earlyGets)
        /\ PlacesOf("post", req, owner, slot) /\ PlacesOf("get", req, owner, slot)
        /\ \A t \in live : slot[t] # "none"
    BY DEF HttpInv, Tallies, Places, SessionTypes, Unregistered
  <2>1. TallyOf("post", req', owner, live, slot, active, early)
    <3>1. \A r \in Reqs : req[r].kind = "post" \/ req'[r].kind = "post" => req'[r] = req[r]
      BY <1>1, <1>2
    <3> QED
      BY <2>0, <3>1, TallySame
  <2>2. TallyOf("get", req', owner, live, slot, gets, earlyGets')
    <3>1. EndsEarly("get", req, req', owner, live, q, req[q].sid, req[q].principal, earlyGets, earlyGets')
      BY <1>1, <1>2, <2>0 DEF EndsEarly, PlacesOf
    <3> QED
      BY <2>0, <3>1, TallyEndEarly
  <2> QED
    BY <1>1, <2>1, <2>2 DEF Tallies
<1> QED
  BY <1>3, <1>4, <1>5, <1>6, <1>7, <1>8, <1>9, <1>10 DEF HttpInv

\* endGET of a request of another principal.
LEMMA EndGetForeignKeeps ==
  ASSUME HttpInv, NEW q \in Reqs, EndGet(q), req[q].counted = "none"
  PROVE  HttpInv'
<1>1. /\ req[q].kind = "get" /\ req[q].counted = "none"
      /\ req' = [req EXCEPT ![q] = Idle]
      /\ UNCHANGED <<call, sdk, owner, live, evicted, used, timer, fired, active, gets,
                     early, earlyGets, slot, slots, sessions, retired, watcher, evictor, closers,
                     closing, snapshot>>
  BY DEF EndGet, life, book, clock, counts, places, helpers, shutdown
<1>2. /\ req'[q].kind = "idle" /\ req'[q].stage = "idle" /\ req'[q].sid = NoSid
      /\ req[q].stage = "begun" /\ req[q].sid \in Sids /\ req[q].principal \in Principals
      /\ \A r \in Reqs : r # q => req'[r] = req[r]
      /\ req[q] \in RequestType /\ req' \in [Reqs -> RequestType]
  BY <1>1 DEF HttpInv, Requests, RequestType, Opening, Idle
<1>3. /\ CallTypes' /\ SessionTypes' /\ Ordered' /\ Owned' /\ Unregistered' /\ PlaceKept'
      /\ Evictions'
      /\ Watchers' /\ Clocks' /\ CallsHold' /\ Tombstones' /\ Closed'
  BY <1>1 DEF HttpInv, CallTypes, SessionTypes, Ordered, Owned, Unregistered, PlaceKept,
              Evictions, Watchers, Clocks, CallsHold, Tombstones, Closed
<1>4. Requests'
  BY <1>1, <1>2 DEF HttpInv, Requests, RequestType, Opening, HasId
<1>5. Attended'
  BY <1>1, <1>2 DEF HttpInv, Attended, SessionTypes, Settling, Openers, Requests, HasId,
              Opening, Ended, Watchers
<1>6. Openers'
  BY <1>1, <1>2 DEF HttpInv, Openers, Requests, HasId, Opening, SessionTypes
<1>7. Settling'
  BY <1>1, <1>2 DEF HttpInv, Settling, Openers, Requests, HasId, Opening, SessionTypes,
              Unregistered, PlaceKept, Watchers, Clocks, Evictions
<1>8. Slots'
  <2>1. SameTaking(req, req')
    BY <1>2 DEF SameTaking, Taking
  <2>2. SameHolding(slot, owner, slot', owner')
    BY <1>1 DEF SameHolding
  <2> QED
    BY <1>1, <2>1, <2>2, SlotsSame DEF HttpInv, Slots
<1>9. Places'
  BY <1>1, <1>2 DEF HttpInv, Places, PlacesOf, Requests, RequestType, Opening, HasId, SessionTypes
<1>10. Tallies'
  <2>0. /\ TallyOf("post", req, owner, live, slot, active, early) /\ live \subseteq Sids
        /\ TallyOf("get", req, owner, live, slot, gets, earlyGets)
        /\ PlacesOf("post", req, owner, slot) /\ PlacesOf("get", req, owner, slot)
        /\ \A t \in live : slot[t] # "none"
    BY DEF HttpInv, Tallies, Places, SessionTypes, Unregistered
  <2>1. TallyOf("post", req', owner, live, slot, active, early)
    <3>1. Foreign("post", req, req', owner, q)
      BY <1>1, <1>2, <2>0 DEF Foreign, PlacesOf
    <3> QED
      BY <2>0, <3>1, TallyForeign
  <2>2. TallyOf("get", req', owner, live, slot, gets, earlyGets)
    <3>1. Foreign("get", req, req', owner, q)
      BY <1>1, <1>2, <2>0 DEF Foreign, PlacesOf
    <3> QED
      BY <2>0, <3>1, TallyForeign
  <2> QED
    BY <1>1, <2>1, <2>2 DEF Tallies
<1> QED
  BY <1>3, <1>4, <1>5, <1>6, <1>7, <1>8, <1>9, <1>10 DEF HttpInv

\* go-sdk delivers a call.
LEMMA DeliverKeeps ==
  ASSUME HttpInv, NEW q \in Reqs, NEW c \in Calls, Deliver(q, c)
  PROVE  HttpInv'
<1>1. /\ req[q].kind = "post" /\ sdk[req[q].sid] = "open"
      /\ call' = [call EXCEPT ![c] = [stage |-> "delivered", sid |-> req[q].sid,
                                     cancelled |-> FALSE]]
      /\ UNCHANGED <<req, sdk, owner, live, evicted, used, timer, fired, active, gets, early,
                     earlyGets, slot, slots, sessions, retired, watcher, evictor, closers, closing,
                     snapshot>>
  BY DEF Deliver, life, book, clock, counts, places, helpers, shutdown
<1>2. req[q].sid \in Sids
  BY <1>1 DEF HttpInv, Requests
<1>3. /\ call'[c].stage = "delivered" /\ call'[c].sid = req[q].sid
      /\ \A d \in Calls : d # c => call'[d] = call[d]
  BY <1>1 DEF HttpInv, CallTypes
<1>4. /\ Requests' /\ SessionTypes' /\ Ordered' /\ Owned' /\ Unregistered' /\ PlaceKept'
      /\ Attended'
      /\ Evictions' /\ Openers' /\ Settling' /\ Watchers' /\ Clocks' /\ Tombstones' /\ Closed'
      /\ Slots' /\ Places' /\ Tallies'
  BY <1>1 DEF HttpInv, Requests, SessionTypes, Ordered, Owned, Unregistered, PlaceKept,
              Attended, Evictions, Openers, Settling, Watchers, Clocks, Tombstones,
              Closed, Slots, Places, Tallies
<1>5. CallTypes'
  <2>1. [stage |-> "delivered", sid |-> req[q].sid, cancelled |-> FALSE] \in CallType
    BY <1>2 DEF CallType
  <2> QED
    BY <1>1, <1>2, <1>3, <2>1 DEF HttpInv, CallTypes
<1>6. CallsHold'
  BY <1>1, <1>2, <1>3 DEF HttpInv, CallsHold, CallTypes, SessionTypes, Ended, Evictions,
              Watchers
<1> QED
  BY <1>4, <1>5, <1>6 DEF HttpInv

\* admit lets the call in, or refuses it.
LEMMA AdmitKeeps ==
  ASSUME HttpInv, NEW c \in Calls, Admit(c)
  PROVE  HttpInv'
<1>1. /\ call[c].stage = "delivered"
      /\ \/ call' = [call EXCEPT ![c] = NoCall]
         \/ /\ closing = "no" /\ call[c].sid \notin retired
            /\ call' = [call EXCEPT ![c] = [call[c] EXCEPT !.stage = "running"]]
      /\ UNCHANGED <<req, sdk, owner, live, evicted, used, timer, fired, active, gets, early,
                     earlyGets, slot, slots, sessions, retired, watcher, evictor, closers, closing,
                     snapshot>>
  BY DEF Admit, LimitsClosed, life, book, clock, counts, places, helpers, shutdown
<1>2. call[c] \in CallType
  BY DEF HttpInv, CallTypes
<1>3. /\ Requests' /\ SessionTypes' /\ Ordered' /\ Owned' /\ Unregistered' /\ PlaceKept'
      /\ Attended'
      /\ Evictions' /\ Openers' /\ Settling' /\ Watchers' /\ Clocks' /\ Tombstones' /\ Closed'
      /\ Slots' /\ Places' /\ Tallies'
  BY <1>1 DEF HttpInv, Requests, SessionTypes, Ordered, Owned, Unregistered, PlaceKept,
              Attended, Evictions, Openers, Settling, Watchers, Clocks, Tombstones,
              Closed, Slots, Places, Tallies
<1>4. CallTypes'
  <2>1. CASE call' = [call EXCEPT ![c] = NoCall]
    BY <2>1, <1>2 DEF HttpInv, CallTypes, CallType, NoCall
  <2>2. CASE call' = [call EXCEPT ![c] = [call[c] EXCEPT !.stage = "running"]]
    BY <1>1, <2>2, <1>2 DEF HttpInv, CallTypes, CallType
  <2> QED
    BY <1>1, <2>1, <2>2
<1>5. CallsHold'
  <2>1. CASE call' = [call EXCEPT ![c] = NoCall]
    BY <1>1, <2>1, <1>2 DEF HttpInv, CallTypes, CallsHold, NoCall
  <2>2. CASE /\ closing = "no" /\ call[c].sid \notin retired
             /\ call' = [call EXCEPT ![c] = [call[c] EXCEPT !.stage = "running"]]
    <3>1. /\ call'[c].stage = "running" /\ call'[c].sid = call[c].sid
          /\ \A d \in Calls : d # c => call'[d] = call[d]
      BY <2>2, <1>2 DEF HttpInv, CallTypes, CallType
    <3> QED
      BY <1>1, <2>2, <3>1 DEF HttpInv, CallTypes, CallsHold, Evictions, Ended
  <2> QED
    BY <1>1, <2>1, <2>2
<1> QED
  BY <1>3, <1>4, <1>5 DEF HttpInv

\* A call returns.
LEMMA FinishKeeps ==
  ASSUME HttpInv, NEW c \in Calls, Finish(c)
  PROVE  HttpInv'
<1>1. /\ call[c].stage = "running"
      /\ call' = [call EXCEPT ![c] = NoCall]
      /\ UNCHANGED <<req, sdk, owner, live, evicted, used, timer, fired, active, gets, early,
                     earlyGets, slot, slots, sessions, retired, watcher, evictor, closers, closing,
                     snapshot>>
  BY DEF Finish, life, book, clock, counts, places, helpers, shutdown
<1>2. call[c] \in CallType
  BY DEF HttpInv, CallTypes
<1>3. /\ Requests' /\ SessionTypes' /\ Ordered' /\ Owned' /\ Unregistered' /\ PlaceKept'
      /\ Attended'
      /\ Evictions' /\ Openers' /\ Settling' /\ Watchers' /\ Clocks' /\ Tombstones' /\ Closed'
      /\ Slots' /\ Places' /\ Tallies'
  BY <1>1 DEF HttpInv, Requests, SessionTypes, Ordered, Owned, Unregistered, PlaceKept,
              Attended, Evictions, Openers, Settling, Watchers, Clocks, Tombstones,
              Closed, Slots, Places, Tallies
<1>4. CallTypes'
  BY <1>1, <1>2 DEF HttpInv, CallTypes, CallType, NoCall
<1>5. CallsHold'
  BY <1>1, <1>2 DEF HttpInv, CallTypes, CallsHold, NoCall
<1> QED
  BY <1>3, <1>4, <1>5 DEF HttpInv

\* DELETE.
LEMMA DeleteKeeps ==
  ASSUME HttpInv, NEW s \in Sids, Delete(s)
  PROVE  HttpInv'
<1>1. /\ sdk[s] \in {"open", "closing"}
      /\ closers' = closers \cup {<<s, "delete">>}
      /\ UNCHANGED <<req, sdk, owner, live, evicted, used, timer, fired, active, gets, early,
                     earlyGets, slot, slots, sessions, retired, watcher, evictor, closing, snapshot>>
  BY DEF Delete, life, book, clock, counts, places, helpers, shutdown
<1>2. call' \in [Calls -> CallType]
      /\ \A c \in Calls : call'[c].stage = call[c].stage /\ call'[c].sid = call[c].sid
  BY CancelledOn DEF Delete, HttpInv
<1>3. \A c \in Calls : /\ call[c].cancelled => call'[c].cancelled
                       /\ call[c].stage = "running" /\ call[c].sid \in {s} => call'[c].cancelled
  BY CancelledOn DEF Delete, HttpInv
<1>4. /\ Requests' /\ Ordered' /\ Owned' /\ Unregistered' /\ PlaceKept' /\ Attended' /\ Evictions'
      /\ Openers' /\ Settling' /\ Watchers' /\ Clocks' /\ Closed' /\ Slots' /\ Places' /\ Tallies'
  BY <1>1 DEF HttpInv, Requests, Ordered, Owned, Unregistered, PlaceKept, Attended,
              Evictions, Openers, Settling, Watchers, Clocks, Closed, Slots, Places,
              Tallies
<1>5. CallTypes'
  BY <1>2 DEF HttpInv, CallTypes
<1>6. SessionTypes'
  BY <1>1, <1>2, <1>3 DEF HttpInv, SessionTypes
<1>7. CallsHold'
  BY <1>1, <1>2, <1>3 DEF HttpInv, CallsHold
<1>8. Tombstones'
  <2>1. ASSUME NEW t \in Sids
        PROVE  /\ t \in evicted' => \/ t \in live' \/ closing' # "no" \/ sdk'[t] = "gone"
                                   \/ <<t, "delete">> \in closers' \/ <<t, "expire">> \in closers'
               /\ <<t, "proxy">> \in closers' => closing' # "no"
    BY <1>1 DEF HttpInv, Tombstones
  <2> QED
    BY <2>1 DEF Tombstones
<1> QED
  BY <1>4, <1>5, <1>6, <1>7, <1>8 DEF HttpInv

\* The idle clock goes off.
LEMMA FireKeeps ==
  ASSUME HttpInv, NEW s \in Sids, Fire(s)
  PROVE  HttpInv'
<1>1. /\ timer[s] = "running" /\ fired[s] = "no"
      /\ timer' = [timer EXCEPT ![s] = "out"]
      /\ fired' = [fired EXCEPT ![s] = "pending"]
      /\ UNCHANGED <<req, call, sdk, owner, live, evicted, used, active, gets, early,
                     earlyGets, slot, slots, sessions, retired, watcher, evictor, closers, closing,
                     snapshot>>
  BY DEF Fire, life, book, clock, counts, places, helpers, shutdown
<1>2. /\ Requests' /\ CallTypes' /\ Ordered' /\ Owned' /\ Attended' /\ Evictions' /\ Openers'
      /\ CallsHold' /\ Tombstones' /\ Closed' /\ Slots' /\ Places' /\ Tallies'
  BY <1>1 DEF HttpInv, Requests, CallTypes, Ordered, Owned, Attended, Evictions,
              Openers, CallsHold, Tombstones, Closed, Slots, Places, Tallies
<1>3. SessionTypes'
  BY <1>1 DEF HttpInv, SessionTypes
<1>4. Unregistered'
  BY <1>1 DEF HttpInv, Unregistered, SessionTypes, Settling, Openers, HasId, Requests,
              Opening, PlaceKept, Evictions, Owned
<1>5. PlaceKept'
  BY <1>1 DEF HttpInv, PlaceKept, SessionTypes, Unregistered, Ended, Settling, Openers,
              Requests, HasId, Opening
<1>6. Settling'
  BY <1>1 DEF HttpInv, Settling, Openers, Requests, HasId, Opening, SessionTypes,
              Unregistered, PlaceKept, Watchers, Clocks, Evictions
<1>7. Watchers'
  BY <1>1 DEF HttpInv, Watchers, SessionTypes, Ended, Unregistered, PlaceKept, Settling,
              Clocks
<1>8. Clocks'
  BY <1>1 DEF HttpInv, Clocks, SessionTypes, Unregistered, PlaceKept, Watchers,
              Settling, Requests, HasId, Opening
<1> QED
  BY <1>2, <1>3, <1>4, <1>5, <1>6, <1>7, <1>8 DEF HttpInv

\* expire.
LEMMA ExpireKeeps ==
  ASSUME HttpInv, NEW s \in Sids, Expire(s)
  PROVE  HttpInv'
<1>1. /\ fired[s] # "no" /\ timer[s] # "stopped"
      /\ timer' = [timer EXCEPT ![s] = "stopped"]
      /\ fired' = [fired EXCEPT ![s] = "no"]
      /\ retired' = retired \cup {s}
      /\ closers' = closers \cup {<<s, "expire">>}
      /\ UNCHANGED <<req, sdk, owner, live, evicted, used, active, gets, early, earlyGets,
                     slot, slots, sessions, watcher, evictor, closing, snapshot>>
  BY DEF Expire, Expires, life, book, clock, counts, places, helpers, shutdown
<1>2. call' \in [Calls -> CallType]
      /\ \A c \in Calls : call'[c].stage = call[c].stage /\ call'[c].sid = call[c].sid
  BY CancelledOn DEF Expire, HttpInv
<1>3. \A c \in Calls : /\ call[c].cancelled => call'[c].cancelled
                       /\ call[c].stage = "running" /\ call[c].sid \in {s} => call'[c].cancelled
  BY CancelledOn DEF Expire, HttpInv
<1>4. /\ Requests' /\ Ordered' /\ Owned' /\ Attended' /\ Openers' /\ Closed' /\ Slots'
      /\ Places' /\ Tallies'
  BY <1>1 DEF HttpInv, Requests, Ordered, Owned, Attended, Openers, Closed, Slots,
              Places, Tallies
<1>5. CallTypes'
  BY <1>2 DEF HttpInv, CallTypes
<1>6. SessionTypes'
  BY <1>1, <1>2, <1>3 DEF HttpInv, SessionTypes
<1>7. Unregistered'
  BY <1>1 DEF HttpInv, Unregistered, SessionTypes, Clocks
<1>8. PlaceKept'
  BY <1>1, <1>2, <1>3 DEF HttpInv, PlaceKept, SessionTypes, Unregistered, Ended,
              Settling, Openers, Requests, HasId, Opening
<1>9. Evictions'
  BY <1>1, <1>2, <1>3 DEF HttpInv, Evictions, SessionTypes, Ended, Watchers
<1>10. Settling'
  BY <1>1, <1>2, <1>3 DEF HttpInv, Settling, Openers, Requests, HasId, Opening,
              SessionTypes, Unregistered, PlaceKept, Watchers, Clocks, Evictions
<1>11. Watchers'
  BY <1>1, <1>2, <1>3 DEF HttpInv, Watchers, SessionTypes, Ended, Unregistered,
              PlaceKept, Settling, Clocks
<1>12. Clocks'
  BY <1>1, <1>2, <1>3 DEF HttpInv, Clocks, SessionTypes, Unregistered, PlaceKept,
              Watchers, Settling, Requests, HasId, Opening
<1>13. CallsHold'
  BY <1>1, <1>2, <1>3 DEF HttpInv, CallsHold
<1>14. Tombstones'
  <2>1. ASSUME NEW t \in Sids
        PROVE  /\ t \in evicted' => \/ t \in live' \/ closing' # "no" \/ sdk'[t] = "gone"
                                   \/ <<t, "delete">> \in closers' \/ <<t, "expire">> \in closers'
               /\ <<t, "proxy">> \in closers' => closing' # "no"
    BY <1>1 DEF HttpInv, Tombstones
  <2> QED
    BY <2>1 DEF Tombstones
<1> QED
  BY <1>4, <1>5, <1>6, <1>7, <1>8, <1>9, <1>10, <1>11, <1>12, <1>13, <1>14 DEF HttpInv

\* expire finds the session in use or stopped.
LEMMA ExpireTooLateKeeps ==
  ASSUME HttpInv, NEW s \in Sids, ExpireTooLate(s)
  PROVE  HttpInv'
<1>1. /\ fired' = [fired EXCEPT ![s] = "no"]
      /\ UNCHANGED <<req, call, sdk, owner, live, evicted, used, timer, active, gets, early,
                     earlyGets, slot, slots, sessions, retired, watcher, evictor, closers, closing,
                     snapshot>>
  BY DEF ExpireTooLate, life, book, clock, counts, places, helpers, shutdown
<1>2. /\ Requests' /\ CallTypes' /\ Ordered' /\ Owned' /\ Unregistered' /\ PlaceKept' /\ Attended'
      /\ Evictions' /\ Openers' /\ Settling' /\ Watchers' /\ CallsHold' /\ Tombstones'
      /\ Closed' /\ Slots' /\ Places' /\ Tallies'
  BY <1>1 DEF HttpInv, Requests, CallTypes, Ordered, Owned, Unregistered, PlaceKept,
              Attended, Evictions, Openers, Settling, Watchers, CallsHold, Tombstones,
              Closed, Slots, Places, Tallies
<1>3. SessionTypes'
  BY <1>1 DEF HttpInv, SessionTypes
<1>4. Clocks'
  BY <1>1 DEF HttpInv, Clocks, SessionTypes, Unregistered, PlaceKept, Watchers,
              Settling, Requests, HasId, Opening
<1> QED
  BY <1>2, <1>3, <1>4 DEF HttpInv

\* closeEvicted starts to close the session.
LEMMA StartEvictorKeeps ==
  ASSUME HttpInv, NEW s \in Sids, StartEvictor(s), closing = "no"
  PROVE  HttpInv'
<1>1. /\ evictor[s] = "starting"
      /\ evictor' = [evictor EXCEPT ![s] = "closing"]
      /\ closers' = closers \cup {<<s, "evict">>}
      /\ UNCHANGED <<req, call, sdk, owner, live, evicted, used, timer, fired, active, gets,
                     early, earlyGets, slot, slots, sessions, retired, watcher, closing, snapshot>>
  BY DEF StartEvictor, LimitsClosed, life, book, clock, counts, places, helpers, shutdown
<1>2. /\ Requests' /\ CallTypes' /\ Ordered' /\ Owned' /\ PlaceKept' /\ Attended' /\ Openers'
      /\ Settling' /\ Watchers' /\ Clocks' /\ CallsHold' /\ Closed' /\ Slots' /\ Places'
      /\ Tallies'
  BY <1>1 DEF HttpInv, Requests, CallTypes, Ordered, Owned, PlaceKept, Attended,
              Openers, Settling, Watchers, Clocks, CallsHold, Closed, Slots, Places,
              Tallies
<1>3. SessionTypes'
  BY <1>1 DEF HttpInv, SessionTypes
<1>4. Unregistered'
  BY <1>1 DEF HttpInv, Unregistered, SessionTypes, Settling, Openers, HasId, Requests,
              Opening, PlaceKept, Evictions, Owned
<1>5. Evictions'
  BY <1>1 DEF HttpInv, Evictions, SessionTypes, Ended, Watchers
<1>6. Tombstones'
  <2>1. ASSUME NEW t \in Sids
        PROVE  /\ t \in evicted' => \/ t \in live' \/ closing' # "no" \/ sdk'[t] = "gone"
                                   \/ <<t, "delete">> \in closers' \/ <<t, "expire">> \in closers'
               /\ <<t, "proxy">> \in closers' => closing' # "no"
    BY <1>1 DEF HttpInv, Tombstones
  <2> QED
    BY <2>1 DEF Tombstones
<1> QED
  BY <1>2, <1>3, <1>4, <1>5, <1>6 DEF HttpInv

\* closeEvicted while the proxy is closing.
LEMMA StartEvictorClosingKeeps ==
  ASSUME HttpInv, NEW s \in Sids, StartEvictor(s), closing # "no"
  PROVE  HttpInv'
<1>1. /\ evictor[s] = "starting"
      /\ evictor' = [evictor EXCEPT ![s] = "done"]
      /\ live' = live \ {s}
      /\ used' = Without(s)
      /\ UNCHANGED <<req, call, sdk, owner, evicted, timer, fired, active, gets, early,
                     earlyGets, slot, slots, sessions, retired, watcher, closers, closing, snapshot>>
  BY DEF StartEvictor, LimitsClosed, Forget, life, book, clock, counts, places, helpers, shutdown
<1>2. s \in evicted
  BY <1>1 DEF HttpInv, Evictions
<1>3. /\ Requests' /\ CallTypes' /\ Owned' /\ Attended' /\ Openers' /\ CallsHold' /\ Closed'
      /\ Slots' /\ Places'
  BY <1>1 DEF HttpInv, Requests, CallTypes, Owned, Attended, Openers, CallsHold, Closed,
              Slots, Places
<1>4. SessionTypes'
  BY <1>1, <1>2 DEF HttpInv, SessionTypes
<1>5. Ordered'
  BY <1>1, <1>2, OrderKept DEF HttpInv, Ordered
<1>6. Unregistered'
  BY <1>1, <1>2 DEF HttpInv, Unregistered, SessionTypes, Settling, Openers, HasId,
              Requests, Opening, PlaceKept, Evictions, Owned
<1>7. PlaceKept'
  BY <1>1, <1>2 DEF HttpInv, PlaceKept, SessionTypes, Unregistered, Ended, Settling,
              Openers, Requests, HasId, Opening
<1>8. Evictions'
  BY <1>1, <1>2 DEF HttpInv, Evictions, SessionTypes, Ended, Watchers
<1>9. Settling'
  BY <1>1, <1>2 DEF HttpInv, Settling, Openers, Requests, HasId, Opening, SessionTypes,
              Unregistered, PlaceKept, Watchers, Clocks, Evictions
<1>10. Watchers'
  BY <1>1, <1>2 DEF HttpInv, Watchers, SessionTypes, Ended, Unregistered, PlaceKept,
              Settling, Clocks
<1>11. Clocks'
  BY <1>1, <1>2 DEF HttpInv, Clocks, SessionTypes, Unregistered, PlaceKept, Watchers,
              Settling, Requests, HasId, Opening
<1>12. Tombstones'
  <2>1. ASSUME NEW t \in Sids
        PROVE  /\ t \in evicted' => \/ t \in live' \/ closing' # "no" \/ sdk'[t] = "gone"
                                   \/ <<t, "delete">> \in closers' \/ <<t, "expire">> \in closers'
               /\ <<t, "proxy">> \in closers' => closing' # "no"
    BY <1>1 DEF HttpInv, Tombstones
  <2> QED
    BY <2>1 DEF Tombstones
<1>13. Tallies'
  <2>1. SameRequests
    BY <1>1, <1>2 DEF HttpInv, SameRequests, SessionTypes
  <2> QED
    BY <2>1, <1>1, TalliesSame DEF HttpInv
<1> QED
  BY <1>3, <1>4, <1>5, <1>6, <1>7, <1>8, <1>9, <1>10, <1>11, <1>12, <1>13 DEF HttpInv

\* forgetEvicted.
LEMMA EvictorForgetKeeps ==
  ASSUME HttpInv, NEW s \in Sids, EvictorForget(s)
  PROVE  HttpInv'
<1>1. /\ evictor[s] = "closing"
      /\ \/ sdk[s] = "gone"
         \/ \E who \in {"delete", "expire", "proxy"} : <<s, who>> \in closers
      /\ evictor' = [evictor EXCEPT ![s] = "done"]
      /\ live' = live \ {s}
      /\ used' = Without(s)
      /\ UNCHANGED <<req, call, sdk, owner, evicted, timer, fired, active, gets, early,
                     earlyGets, slot, slots, sessions, retired, watcher, closers, closing, snapshot>>
  BY DEF EvictorForget, Forget, life, book, clock, counts, places, helpers, shutdown
<1>2. s \in evicted
  BY <1>1 DEF HttpInv, Evictions
<1>3. /\ Requests' /\ CallTypes' /\ Owned' /\ Attended' /\ Openers' /\ CallsHold' /\ Closed'
      /\ Slots' /\ Places'
  BY <1>1 DEF HttpInv, Requests, CallTypes, Owned, Attended, Openers, CallsHold, Closed,
              Slots, Places
<1>4. SessionTypes'
  BY <1>1, <1>2 DEF HttpInv, SessionTypes
<1>5. Ordered'
  BY <1>1, <1>2, OrderKept DEF HttpInv, Ordered
<1>6. Unregistered'
  BY <1>1, <1>2 DEF HttpInv, Unregistered, SessionTypes, Settling, Openers, HasId,
              Requests, Opening, PlaceKept, Evictions, Owned
<1>7. PlaceKept'
  BY <1>1, <1>2 DEF HttpInv, PlaceKept, SessionTypes, Unregistered, Ended, Settling,
              Openers, Requests, HasId, Opening
<1>8. Evictions'
  BY <1>1, <1>2 DEF HttpInv, Evictions, SessionTypes, Ended, Watchers
<1>9. Settling'
  BY <1>1, <1>2 DEF HttpInv, Settling, Openers, Requests, HasId, Opening, SessionTypes,
              Unregistered, PlaceKept, Watchers, Clocks, Evictions
<1>10. Watchers'
  BY <1>1, <1>2 DEF HttpInv, Watchers, SessionTypes, Ended, Unregistered, PlaceKept,
              Settling, Clocks
<1>11. Clocks'
  BY <1>1, <1>2 DEF HttpInv, Clocks, SessionTypes, Unregistered, PlaceKept, Watchers,
              Settling, Requests, HasId, Opening
<1>12. Tombstones'
  <2>1. ASSUME NEW t \in Sids
        PROVE  /\ t \in evicted' => \/ t \in live' \/ closing' # "no" \/ sdk'[t] = "gone"
                                   \/ <<t, "delete">> \in closers' \/ <<t, "expire">> \in closers'
               /\ <<t, "proxy">> \in closers' => closing' # "no"
    BY <1>1 DEF HttpInv, Tombstones
  <2> QED
    BY <2>1 DEF Tombstones
<1>13. Tallies'
  <2>1. SameRequests
    BY <1>1, <1>2 DEF HttpInv, SameRequests, SessionTypes
  <2> QED
    BY <2>1, <1>1, TalliesSame DEF HttpInv
<1> QED
  BY <1>3, <1>4, <1>5, <1>6, <1>7, <1>8, <1>9, <1>10, <1>11, <1>12, <1>13 DEF HttpInv

\* go-sdk begins to close a session.
LEMMA SdkCloseKeeps ==
  ASSUME HttpInv, NEW s \in Sids, SdkClose(s)
  PROVE  HttpInv'
<1>1. /\ sdk[s] = "open"
      /\ sdk' = [sdk EXCEPT ![s] = "closing"]
      /\ UNCHANGED <<req, call, owner, live, evicted, used, timer, fired, active, gets,
                     early, earlyGets, slot, slots, sessions, retired, watcher, evictor, closers,
                     closing, snapshot>>
  BY DEF SdkClose, life, book, clock, counts, places, helpers, shutdown
<1>2. /\ Requests' /\ CallTypes' /\ Ordered' /\ Unregistered' /\ Settling' /\ Clocks' /\ Slots'
      /\ Tallies'
  BY <1>1 DEF HttpInv, Requests, CallTypes, Ordered, Unregistered, Settling, Clocks,
              Slots, Tallies
<1>3. SessionTypes'
  BY <1>1 DEF HttpInv, SessionTypes
<1>4. Owned'
  BY <1>1 DEF HttpInv, Owned, SessionTypes, Requests, Opening, HasId, Settling, Openers
<1>5. PlaceKept'
  BY <1>1 DEF HttpInv, PlaceKept, SessionTypes, Unregistered, Ended, Settling, Openers,
              Requests, HasId, Opening
<1>6. Attended'
  BY <1>1 DEF HttpInv, Attended, SessionTypes, Settling, Openers, Requests, HasId,
              Opening, Ended, Watchers
<1>7. Evictions'
  BY <1>1 DEF HttpInv, Evictions, SessionTypes, Ended, Watchers
<1>8. Openers'
  BY <1>1 DEF HttpInv, Openers, Requests, HasId, Opening, SessionTypes
<1>9. Watchers'
  BY <1>1 DEF HttpInv, Watchers, SessionTypes, Ended, Unregistered, PlaceKept, Settling,
              Clocks
<1>10. CallsHold'
  BY <1>1 DEF HttpInv, CallsHold, CallTypes, SessionTypes, Ended, Evictions, Watchers
<1>11. Tombstones'
  BY <1>1 DEF HttpInv, Tombstones, SessionTypes, PlaceKept
<1>12. Closed'
  BY <1>1 DEF HttpInv, Closed, SessionTypes, Ended, CallsHold
<1>13. Places'
  BY <1>1 DEF HttpInv, Places, PlacesOf
<1> QED
  BY <1>2, <1>3, <1>4, <1>5, <1>6, <1>7, <1>8, <1>9, <1>10, <1>11, <1>12, <1>13 DEF
     HttpInv

\* The calls of a closing session are over.
LEMMA SdkDrainedKeeps ==
  ASSUME HttpInv, NEW s \in Sids, SdkDrained(s)
  PROVE  HttpInv'
<1>1. /\ sdk[s] = "closing" /\ \A c \in Calls : call[c].sid # s
      /\ sdk' = [sdk EXCEPT ![s] = "closed"]
      /\ UNCHANGED <<req, call, owner, live, evicted, used, timer, fired, active, gets,
                     early, earlyGets, slot, slots, sessions, retired, watcher, evictor, closers,
                     closing, snapshot>>
  BY DEF SdkDrained, life, book, clock, counts, places, helpers, shutdown
<1>2. /\ Requests' /\ CallTypes' /\ Ordered' /\ Unregistered' /\ Settling' /\ Clocks' /\ Slots'
      /\ Tallies'
  BY <1>1 DEF HttpInv, Requests, CallTypes, Ordered, Unregistered, Settling, Clocks,
              Slots, Tallies
<1>3. SessionTypes'
  BY <1>1 DEF HttpInv, SessionTypes
<1>4. Owned'
  BY <1>1 DEF HttpInv, Owned, SessionTypes, Requests, Opening, HasId, Settling, Openers
<1>5. PlaceKept'
  BY <1>1 DEF HttpInv, PlaceKept, SessionTypes, Unregistered, Ended, Settling, Openers,
              Requests, HasId, Opening
<1>6. Attended'
  BY <1>1 DEF HttpInv, Attended, SessionTypes, Settling, Openers, Requests, HasId,
              Opening, Ended, Watchers
<1>7. Evictions'
  BY <1>1 DEF HttpInv, Evictions, SessionTypes, Ended, Watchers
<1>8. Openers'
  BY <1>1 DEF HttpInv, Openers, Requests, HasId, Opening, SessionTypes
<1>9. Watchers'
  BY <1>1 DEF HttpInv, Watchers, SessionTypes, Ended, Unregistered, PlaceKept, Settling,
              Clocks
<1>10. CallsHold'
  BY <1>1 DEF HttpInv, CallsHold, CallTypes, SessionTypes, Ended, Evictions, Watchers
<1>11. Tombstones'
  BY <1>1 DEF HttpInv, Tombstones, SessionTypes, PlaceKept
<1>12. Closed'
  BY <1>1 DEF HttpInv, Closed, SessionTypes, Ended, CallsHold
<1>13. Places'
  BY <1>1 DEF HttpInv, Places, PlacesOf
<1> QED
  BY <1>2, <1>3, <1>4, <1>5, <1>6, <1>7, <1>8, <1>9, <1>10, <1>11, <1>12, <1>13 DEF
     HttpInv

\* go-sdk forgets the id.
LEMMA SdkGoneKeeps ==
  ASSUME HttpInv, NEW s \in Sids, SdkGone(s)
  PROVE  HttpInv'
<1>1. /\ sdk[s] = "closed"
      /\ sdk' = [sdk EXCEPT ![s] = "gone"]
      /\ closers' = {x \in closers : x[1] # s}
      /\ UNCHANGED <<req, call, owner, live, evicted, used, timer, fired, active, gets,
                     early, earlyGets, slot, slots, sessions, retired, watcher, evictor, closing,
                     snapshot>>
  BY DEF SdkGone, life, book, clock, counts, places, helpers, shutdown
<1>2. /\ Requests' /\ CallTypes' /\ Ordered' /\ Unregistered' /\ Settling' /\ Clocks' /\ Slots'
      /\ Tallies'
  BY <1>1 DEF HttpInv, Requests, CallTypes, Ordered, Unregistered, Settling, Clocks,
              Slots, Tallies
<1>3. SessionTypes'
  BY <1>1 DEF HttpInv, SessionTypes
<1>4. Owned'
  BY <1>1 DEF HttpInv, Owned, SessionTypes, Requests, Opening, HasId, Settling, Openers
<1>5. PlaceKept'
  BY <1>1 DEF HttpInv, PlaceKept, SessionTypes, Unregistered, Ended, Settling, Openers,
              Requests, HasId, Opening
<1>6. Attended'
  BY <1>1 DEF HttpInv, Attended, SessionTypes, Settling, Openers, Requests, HasId,
              Opening, Ended, Watchers
<1>7. Evictions'
  BY <1>1 DEF HttpInv, Evictions, SessionTypes, Ended, Watchers
<1>8. Openers'
  BY <1>1 DEF HttpInv, Openers, Requests, HasId, Opening, SessionTypes
<1>9. Watchers'
  BY <1>1 DEF HttpInv, Watchers, SessionTypes, Ended, Unregistered, PlaceKept, Settling,
              Clocks
<1>10. CallsHold'
  BY <1>1 DEF HttpInv, CallsHold, CallTypes, SessionTypes, Ended, Evictions, Watchers
<1>11. Tombstones'
  <2>1. ASSUME NEW t \in Sids
        PROVE  /\ t \in evicted' => \/ t \in live' \/ closing' # "no" \/ sdk'[t] = "gone"
                                   \/ <<t, "delete">> \in closers' \/ <<t, "expire">> \in closers'
               /\ <<t, "proxy">> \in closers' => closing' # "no"
    BY <1>1 DEF HttpInv, Tombstones, SessionTypes
  <2> QED
    BY <2>1 DEF Tombstones
<1>12. Closed'
  BY <1>1 DEF HttpInv, Closed, SessionTypes, Ended, CallsHold
<1>13. Places'
  BY <1>1 DEF HttpInv, Places, PlacesOf
<1> QED
  BY <1>2, <1>3, <1>4, <1>5, <1>6, <1>7, <1>8, <1>9, <1>10, <1>11, <1>12, <1>13 DEF
     HttpInv

\* The watcher stops the idle clock.
LEMMA WatcherStopKeeps ==
  ASSUME HttpInv, NEW s \in Sids, WatcherStop(s)
  PROVE  HttpInv'
<1>1. /\ watcher[s] = "waiting" /\ sdk[s] \in {"closed", "gone"}
      /\ timer' = [timer EXCEPT ![s] = "stopped"]
      /\ watcher' = [watcher EXCEPT ![s] = "stopped"]
      /\ UNCHANGED <<req, call, sdk, owner, live, evicted, used, fired, active, gets, early,
                     earlyGets, slot, slots, sessions, retired, evictor, closers, closing, snapshot>>
  BY DEF WatcherStop, life, book, clock, counts, places, helpers, shutdown
<1>2. /\ Requests' /\ CallTypes' /\ Ordered' /\ Owned' /\ Evictions' /\ Openers' /\ CallsHold'
      /\ Tombstones' /\ Slots' /\ Places' /\ Tallies'
  BY <1>1 DEF HttpInv, Requests, CallTypes, Ordered, Owned, Evictions, Openers,
              CallsHold, Tombstones, Slots, Places, Tallies
<1>3. SessionTypes'
  BY <1>1 DEF HttpInv, SessionTypes
<1>4. Unregistered'
  BY <1>1 DEF HttpInv, Unregistered, SessionTypes, Settling, Openers, HasId, Requests,
              Opening, PlaceKept, Evictions, Owned
<1>5. PlaceKept'
  BY <1>1 DEF HttpInv, PlaceKept, SessionTypes, Unregistered, Ended, Settling, Openers,
              Requests, HasId, Opening
<1>6. Attended'
  BY <1>1 DEF HttpInv, Attended, SessionTypes, Settling, Openers, Requests, HasId,
              Opening, Ended, Watchers
<1>7. Settling'
  BY <1>1 DEF HttpInv, Settling, Openers, Requests, HasId, Opening, SessionTypes,
              Unregistered, PlaceKept, Watchers, Clocks, Evictions
<1>8. Watchers'
  BY <1>1 DEF HttpInv, Watchers, SessionTypes, Ended, Unregistered, PlaceKept, Settling,
              Clocks
<1>9. Clocks'
  BY <1>1 DEF HttpInv, Clocks, SessionTypes, Unregistered, PlaceKept, Watchers,
              Settling, Requests, HasId, Opening
<1>10. Closed'
  BY <1>1 DEF HttpInv, Closed, SessionTypes, Ended, CallsHold
<1> QED
  BY <1>2, <1>3, <1>4, <1>5, <1>6, <1>7, <1>8, <1>9, <1>10 DEF HttpInv

\* The watcher forgets the session.
LEMMA WatcherForgetKeeps ==
  ASSUME HttpInv, NEW s \in Sids, WatcherForget(s), s \notin evicted
  PROVE  HttpInv'
<1>1. /\ watcher[s] = "stopped" /\ s \notin evicted
      /\ retired' = retired \ {s}
      /\ watcher' = [watcher EXCEPT ![s] = "forgotten"]
      /\ live' = live \ {s}
      /\ used' = Without(s)
      /\ UNCHANGED <<req, call, sdk, owner, evicted, timer, fired, active, gets, early,
                     earlyGets, slot, slots, sessions, evictor, closers, closing, snapshot>>
  BY DEF WatcherForget, Forget, life, book, clock, counts, places, helpers, shutdown
<1>2. Requests' /\ CallTypes' /\ Owned' /\ Openers' /\ Slots' /\ Places'
  BY <1>1 DEF HttpInv, Requests, CallTypes, Owned, Openers, Slots, Places
<1>3. SessionTypes'
  BY <1>1 DEF HttpInv, SessionTypes
<1>4. Ordered'
  BY <1>1, OrderKept DEF HttpInv, Ordered
<1>5. Unregistered'
  BY <1>1 DEF HttpInv, Unregistered, SessionTypes, Settling, Openers, HasId, Requests,
              Opening, PlaceKept, Evictions, Owned
<1>6. PlaceKept'
  BY <1>1 DEF HttpInv, PlaceKept, SessionTypes, Unregistered, Ended, Settling, Openers,
              Requests, HasId, Opening
<1>7. Attended'
  BY <1>1 DEF HttpInv, Attended, SessionTypes, Settling, Openers, Requests, HasId,
              Opening, Ended, Watchers
<1>8. Evictions'
  BY <1>1 DEF HttpInv, Evictions, SessionTypes, Ended, Watchers
<1>9. Settling'
  BY <1>1 DEF HttpInv, Settling, Openers, Requests, HasId, Opening, SessionTypes,
              Unregistered, PlaceKept, Watchers, Clocks, Evictions
<1>10. Watchers'
  BY <1>1 DEF HttpInv, Watchers, SessionTypes, Ended, Unregistered, PlaceKept, Settling,
              Clocks
<1>11. Clocks'
  BY <1>1 DEF HttpInv, Clocks, SessionTypes, Unregistered, PlaceKept, Watchers,
              Settling, Requests, HasId, Opening
<1>12. CallsHold'
  BY <1>1 DEF HttpInv, CallsHold, CallTypes, SessionTypes, Ended, Evictions, Watchers
<1>13. Tombstones'
  <2>1. ASSUME NEW t \in Sids
        PROVE  /\ t \in evicted' => \/ t \in live' \/ closing' # "no" \/ sdk'[t] = "gone"
                                   \/ <<t, "delete">> \in closers' \/ <<t, "expire">> \in closers'
               /\ <<t, "proxy">> \in closers' => closing' # "no"
    BY <1>1 DEF HttpInv, Tombstones
  <2> QED
    BY <2>1 DEF Tombstones
<1>14. Closed'
  BY <1>1 DEF HttpInv, Closed, SessionTypes, Ended, CallsHold
<1>15. Tallies'
  <2>1. SameRequests
    BY <1>1 DEF HttpInv, SameRequests, SessionTypes
  <2> QED
    BY <2>1, <1>1, TalliesSame DEF HttpInv
<1> QED
  BY <1>2, <1>3, <1>4, <1>5, <1>6, <1>7, <1>8, <1>9, <1>10, <1>11, <1>12, <1>13, <1>14,
     <1>15 DEF HttpInv

\* The watcher leaves the tombstone of an evicted session.
LEMMA WatcherForgetEvictedKeeps ==
  ASSUME HttpInv, NEW s \in Sids, WatcherForget(s), s \in evicted
  PROVE  HttpInv'
<1>1. /\ watcher[s] = "stopped" /\ s \in evicted
      /\ retired' = retired \ {s}
      /\ watcher' = [watcher EXCEPT ![s] = "forgotten"]
      /\ UNCHANGED <<req, call, sdk, owner, live, evicted, used, timer, fired, active, gets,
                     early, earlyGets, slot, slots, sessions, evictor, closers, closing, snapshot>>
  BY DEF WatcherForget, life, book, clock, counts, places, helpers, shutdown
<1>2. /\ Requests' /\ CallTypes' /\ Ordered' /\ Owned' /\ PlaceKept' /\ Openers' /\ Tombstones'
      /\ Slots' /\ Places' /\ Tallies'
  BY <1>1 DEF HttpInv, Requests, CallTypes, Ordered, Owned, PlaceKept, Openers,
              Tombstones, Slots, Places, Tallies
<1>3. SessionTypes'
  BY <1>1 DEF HttpInv, SessionTypes
<1>4. Unregistered'
  BY <1>1 DEF HttpInv, Unregistered, SessionTypes, Settling, Openers, HasId, Requests,
              Opening, PlaceKept, Evictions, Owned
<1>5. Attended'
  BY <1>1 DEF HttpInv, Attended, SessionTypes, Settling, Openers, Requests, HasId,
              Opening, Ended, Watchers
<1>6. Evictions'
  BY <1>1 DEF HttpInv, Evictions, SessionTypes, Ended, Watchers
<1>7. Settling'
  BY <1>1 DEF HttpInv, Settling, Openers, Requests, HasId, Opening, SessionTypes,
              Unregistered, PlaceKept, Watchers, Clocks, Evictions
<1>8. Watchers'
  BY <1>1 DEF HttpInv, Watchers, SessionTypes, Ended, Unregistered, PlaceKept, Settling,
              Clocks
<1>9. Clocks'
  BY <1>1 DEF HttpInv, Clocks, SessionTypes, Unregistered, PlaceKept, Watchers,
              Settling, Requests, HasId, Opening
<1>10. CallsHold'
  BY <1>1 DEF HttpInv, CallsHold, CallTypes, SessionTypes, Ended, Evictions, Watchers
<1>11. Closed'
  BY <1>1 DEF HttpInv, Closed, SessionTypes, Ended, CallsHold
<1> QED
  BY <1>2, <1>3, <1>4, <1>5, <1>6, <1>7, <1>8, <1>9, <1>10, <1>11 DEF HttpInv

\* The watcher gives the place back.
LEMMA WatcherReleaseKeeps ==
  ASSUME HttpInv, NEW s \in Sids, WatcherRelease(s)
  PROVE  HttpInv'
<1>1. /\ watcher[s] = "forgotten"
      /\ watcher' = [watcher EXCEPT ![s] = "done"]
      /\ slot' = [slot EXCEPT ![s] = "released"]
      /\ IF slot[s] = "held"
         THEN slots' = [slots EXCEPT ![owner[s]] = @ - 1] /\ sessions' = sessions - 1
         ELSE slots' = slots /\ sessions' = sessions
      /\ UNCHANGED <<req, call, sdk, owner, live, evicted, used, timer, fired, active, gets,
                     early, earlyGets, retired, evictor, closers, closing, snapshot>>
  BY DEF WatcherRelease, Release, life, book, clock, counts, places, helpers, shutdown
<1>2. slot'[s] = "released" /\ \A t \in Sids : t # s => slot'[t] = slot[t]
  BY <1>1 DEF HttpInv, SessionTypes
<1>3. Requests' /\ CallTypes' /\ Ordered' /\ Evictions' /\ Openers' /\ CallsHold' /\ Tombstones'
  BY <1>1 DEF HttpInv, Requests, CallTypes, Ordered, Evictions, Openers, CallsHold,
              Tombstones
<1>4. SessionTypes'
  BY <1>1, <1>2 DEF HttpInv, SessionTypes
<1>5. Owned'
  BY <1>1, <1>2 DEF HttpInv, Owned, Watchers, Ended
<1>6. Unregistered'
  BY <1>1, <1>2 DEF HttpInv, Unregistered, SessionTypes, Settling, Openers, HasId,
              Requests, Opening, PlaceKept, Evictions, Owned
<1>7. PlaceKept'
  BY <1>1, <1>2 DEF HttpInv, PlaceKept, Watchers, Ended
<1>8. Attended'
  BY <1>1, <1>2 DEF HttpInv, Attended, SessionTypes, Settling, Openers, Requests, HasId,
              Opening, Ended, Watchers
<1>9. Settling'
  BY <1>1, <1>2 DEF HttpInv, Settling, Openers, Requests, HasId, Opening, SessionTypes,
              Unregistered, PlaceKept, Watchers, Clocks, Evictions
<1>10. Watchers'
  BY <1>1, <1>2 DEF HttpInv, Watchers, SessionTypes, Ended, Unregistered, PlaceKept,
              Settling, Clocks
<1>11. Clocks'
  BY <1>1, <1>2 DEF HttpInv, Clocks, SessionTypes, Unregistered, PlaceKept, Watchers,
              Settling, Requests, HasId, Opening
<1>12. Closed'
  BY <1>1, <1>2 DEF HttpInv, Closed, SessionTypes, Ended, CallsHold
<1>13. Slots'
  <2>1. CASE slot[s] = "held"
    <3>1. MoreHolding(slot', slot, owner, s, owner[s]) /\ owner[s] \in Principals
      BY <1>1, <1>2, <2>1 DEF MoreHolding, HttpInv, Owned
    <3>2. SlotsOf(req, slot', owner, slots', sessions')
      BY <1>1, <1>2, <2>1, <3>1, SlotsReleased DEF HttpInv, Slots
    <3>3. SameTaking(req, req') /\ SameHolding(slot', owner, slot', owner')
      BY <1>1, <1>2 DEF SameTaking, SameHolding, Taking
    <3> QED
      BY <3>2, <3>3, SlotsSame DEF Slots
  <2>2. CASE slot[s] # "held"
    <3>1. SameTaking(req, req') /\ SameHolding(slot, owner, slot', owner')
      BY <1>1, <1>2, <2>2 DEF SameTaking, SameHolding, Taking
    <3> QED
      BY <1>1, <1>2, <2>2, <3>1, SlotsSame DEF HttpInv, Slots
  <2> QED
    BY <2>1, <2>2
<1>14. Places'
  BY <1>1, <1>2 DEF HttpInv, Places, PlacesOf, Requests, RequestType, Opening, HasId, SessionTypes
<1>15. Tallies'
  <2>1. SameRequests
    BY <1>1, <1>2 DEF HttpInv, SameRequests, SessionTypes
  <2> QED
    BY <2>1, <1>1, TalliesSame DEF HttpInv
<1> QED
  BY <1>3, <1>4, <1>5, <1>6, <1>7, <1>8, <1>9, <1>10, <1>11, <1>12, <1>13, <1>14, <1>15
     DEF HttpInv

\* Proxy.Close refuses new calls and cancels the others.
LEMMA CloseLimitsKeeps ==
  ASSUME HttpInv, CloseLimits
  PROVE  HttpInv'
<1>1. /\ closing = "no"
      /\ closing' = "limits"
      /\ UNCHANGED <<req, sdk, owner, live, evicted, used, timer, fired, active, gets, early,
                     earlyGets, slot, slots, sessions, retired, watcher, evictor, closers, snapshot>>
  BY DEF CloseLimits, life, book, clock, counts, places, helpers, shutdown
<1>2. call' \in [Calls -> CallType]
      /\ \A c \in Calls : call'[c].stage = call[c].stage /\ call'[c].sid = call[c].sid
  BY CancelledOn DEF CloseLimits, HttpInv
<1>3. \A c \in Calls : /\ call[c].cancelled => call'[c].cancelled
                       /\ call[c].stage = "running" /\ call[c].sid \in Sids => call'[c].cancelled
  BY CancelledOn DEF CloseLimits, HttpInv
<1>4. /\ Requests' /\ Ordered' /\ Owned' /\ Unregistered' /\ PlaceKept' /\ Attended' /\ Evictions'
      /\ Openers' /\ Settling' /\ Watchers' /\ Clocks' /\ Slots' /\ Places' /\ Tallies'
  BY <1>1 DEF HttpInv, Requests, Ordered, Owned, Unregistered, PlaceKept, Attended,
              Evictions, Openers, Settling, Watchers, Clocks, Slots, Places, Tallies
<1>5. CallTypes'
  BY <1>2 DEF HttpInv, CallTypes
<1>6. SessionTypes'
  BY <1>1, <1>2, <1>3 DEF HttpInv, SessionTypes
<1>7. CallsHold'
  BY <1>1, <1>2, <1>3 DEF HttpInv, CallsHold
<1>8. Tombstones'
  BY <1>1, <1>2, <1>3 DEF HttpInv, Tombstones, SessionTypes, PlaceKept
<1>9. Closed'
  BY <1>1, <1>2, <1>3 DEF HttpInv, Closed, SessionTypes, Ended, CallsHold
<1> QED
  BY <1>4, <1>5, <1>6, <1>7, <1>8, <1>9 DEF HttpInv

\* Proxy.Close closes the sessions there are.
LEMMA CloseSessionsKeeps ==
  ASSUME HttpInv, CloseSessions
  PROVE  HttpInv'
<1>1. /\ closing = "limits"
      /\ closing' = "sessions"
      /\ snapshot' = {s \in Sids : sdk[s] \in {"open", "closing"}}
      /\ closers' = closers \cup (snapshot' \X {"proxy"})
      /\ UNCHANGED <<req, call, sdk, owner, live, evicted, used, timer, fired, active, gets,
                     early, earlyGets, slot, slots, sessions, retired, watcher, evictor>>
  BY DEF CloseSessions, life, book, clock, counts, places, helpers, shutdown
<1>2. /\ Requests' /\ CallTypes' /\ Ordered' /\ Owned' /\ Unregistered' /\ PlaceKept' /\ Attended'
      /\ Evictions' /\ Openers' /\ Settling' /\ Watchers' /\ Clocks' /\ Slots' /\ Places'
      /\ Tallies'
  BY <1>1 DEF HttpInv, Requests, CallTypes, Ordered, Owned, Unregistered, PlaceKept,
              Attended, Evictions, Openers, Settling, Watchers, Clocks, Slots, Places,
              Tallies
<1>3. SessionTypes'
  BY <1>1 DEF HttpInv, SessionTypes
<1>4. CallsHold'
  BY <1>1 DEF HttpInv, CallsHold, CallTypes, SessionTypes, Ended, Evictions, Watchers
<1>5. Tombstones'
  <2>1. ASSUME NEW t \in Sids
        PROVE  /\ t \in evicted' => \/ t \in live' \/ closing' # "no" \/ sdk'[t] = "gone"
                                   \/ <<t, "delete">> \in closers' \/ <<t, "expire">> \in closers'
               /\ <<t, "proxy">> \in closers' => closing' # "no"
    BY <1>1 DEF HttpInv, Tombstones
  <2> QED
    BY <2>1 DEF Tombstones
<1>6. Closed'
  BY <1>1 DEF HttpInv, Closed, SessionTypes, Ended, CallsHold
<1> QED
  BY <1>2, <1>3, <1>4, <1>5, <1>6 DEF HttpInv

\* Proxy.Close returns.
LEMMA CloseWaitKeeps ==
  ASSUME HttpInv, CloseWait
  PROVE  HttpInv'
<1>1. /\ closing = "sessions"
      /\ closing' = "done"
      /\ \A s \in snapshot : sdk[s] \in {"closed", "gone"}
      /\ \A s \in Sids : watcher[s] \in {"none", "done"}
      /\ UNCHANGED <<req, call, sdk, owner, live, evicted, used, timer, fired, active, gets,
                     early, earlyGets, slot, slots, sessions, retired, watcher, evictor, closers,
                     snapshot>>
  BY DEF CloseWait, life, book, clock, counts, places, helpers, shutdown
<1>2. /\ Requests' /\ CallTypes' /\ Ordered' /\ Owned' /\ Unregistered' /\ PlaceKept' /\ Attended'
      /\ Evictions' /\ Openers' /\ Settling' /\ Watchers' /\ Clocks' /\ Slots' /\ Places'
      /\ Tallies'
  BY <1>1 DEF HttpInv, Requests, CallTypes, Ordered, Owned, Unregistered, PlaceKept,
              Attended, Evictions, Openers, Settling, Watchers, Clocks, Slots, Places,
              Tallies
<1>3. SessionTypes'
  BY <1>1 DEF HttpInv, SessionTypes
<1>4. CallsHold'
  BY <1>1 DEF HttpInv, CallsHold, CallTypes, SessionTypes, Ended, Evictions, Watchers
<1>5. Tombstones'
  <2>1. ASSUME NEW t \in Sids
        PROVE  /\ t \in evicted' => \/ t \in live' \/ closing' # "no" \/ sdk'[t] = "gone"
                                   \/ <<t, "delete">> \in closers' \/ <<t, "expire">> \in closers'
               /\ <<t, "proxy">> \in closers' => closing' # "no"
    BY <1>1 DEF HttpInv, Tombstones
  <2> QED
    BY <2>1 DEF Tombstones
<1>6. Closed'
  BY <1>1 DEF HttpInv, Closed, SessionTypes, Ended, CallsHold
<1> QED
  BY <1>2, <1>3, <1>4, <1>5, <1>6 DEF HttpInv

-----------------------------------------------------------------------------
(* The invariant holds *)

\* The invariant holds initially.
LEMMA HttpInit == Init => HttpInv
<1> SUFFICES ASSUME Init PROVE HttpInv
  OBVIOUS
<1> USE HttpAssumption
<1>1. Requests
  <2>1. Idle \in RequestType
    BY DEF Idle, RequestType
  <2> QED
    BY <2>1 DEF Init, Requests, Idle, Opening, HasId
<1>2. CallTypes
  <2>1. NoCall \in CallType
    BY DEF NoCall, CallType
  <2> QED
    BY <2>1 DEF Init, CallTypes, NoCall
<1>3. SessionTypes
  BY DEF Init, SessionTypes
<1>4. Ordered
  <2>1. used = <<>> /\ live = {}
    BY DEF Init
  <2> QED
    BY <2>1 DEF Ordered, OrderOf
<1>5. Owned /\ Unregistered /\ PlaceKept /\ Evictions /\ Watchers /\ Clocks
  BY DEF Init, Owned, Unregistered, PlaceKept, Evictions, Watchers, Clocks
<1>6. Attended /\ Tombstones /\ Closed
  BY DEF Init, Attended, Tombstones, Closed
<1>7. \A q \in Reqs : req[q].kind = "idle" /\ req[q].stage = "idle"
  BY DEF Init, Idle
<1>8. Openers /\ Settling
  BY <1>7 DEF Openers, Settling, HasId
<1>9. CallsHold
  BY DEF Init, CallsHold, NoCall
<1>10. Slots
  <2>1. \A P : TakingOf(req, P) = {} /\ HoldingOf(slot, owner, P) = {}
    BY <1>7 DEF Init, TakingOf, HoldingOf, Taking
  <2>2. Cardinality({}) = 0
    BY FS_EmptySet
  <2>3. slots = [p \in Principals |-> 0] /\ sessions = 0
    BY DEF Init
  <2> QED
    BY <2>1, <2>2, <2>3 DEF Slots, SlotsOf
<1>11. Places
  BY <1>7 DEF Places, PlacesOf
<1>12. ASSUME NEW kind \in {"post", "get"}, NEW n, NEW e,
              n = [s \in Sids |-> 0], e = [k \in Sids \X Principals |-> 0]
       PROVE  TallyOf(kind, req, owner, live, slot, n, e)
  <2>1. \A s, p : EarlyOf(req, kind, s, p) = {} /\ OnIt(req, kind, s, "live") = {}
    BY <1>7 DEF EarlyOf, OnIt
  <2>2. Cardinality({}) = 0 /\ Cardinality(Reqs) \in Nat
    BY FS_EmptySet, FS_CardinalityType
  <2>3. live = {}
    BY DEF Init
  <2>4. n \in [Sids -> 0..Cardinality(Reqs)] /\ e \in [Sids \X Principals -> 0..Cardinality(Reqs)]
    BY <1>12, <2>2
  <2>5. (\A s \in Sids : n[s] = 0) /\ \A s \in Sids, p \in Principals : e[<<s, p>>] = 0
    BY <1>12
  <2>6. /\ \A s, p : Cardinality(EarlyOf(req, kind, s, p)) = 0
        /\ \A s : Cardinality(OnIt(req, kind, s, "live")) = 0
    BY <2>1, <2>2
  <2>7. \A s \in Sids, p \in Principals : /\ e[<<s, p>>] <= Cardinality(EarlyOf(req, kind, s, p))
                                         /\ e[<<s, p>>] = Cardinality(EarlyOf(req, kind, s, p))
    <3> TAKE s \in Sids, p \in Principals
    <3>1. e[<<s, p>>] = 0
      BY <2>5
    <3>2. Cardinality(EarlyOf(req, kind, s, p)) = 0
      BY <2>6
    <3> QED
      BY <3>1, <3>2
  <2>8. \A s \in Sids : n[s] = 0 /\ Cardinality(OnIt(req, kind, s, "live")) <= n[s]
    BY <2>5, <2>6
  <2> QED
    BY <2>3, <2>4, <2>7, <2>8 DEF TallyOf
<1>13. Tallies
  BY <1>12 DEF Init, Tallies
<1> QED
  BY <1>1, <1>2, <1>3, <1>4, <1>5, <1>6, <1>8, <1>9, <1>10, <1>11, <1>13 DEF HttpInv

\* Every step of the specification keeps the invariant.
LEMMA HttpStep == HttpInv /\ [Next]_vars => HttpInv'
<1> SUFFICES ASSUME HttpInv, [Next]_vars PROVE HttpInv'
  OBVIOUS
<1>1. ASSUME NEW q \in Reqs, OpenStep(q) PROVE HttpInv'
  <2>1. CASE Track(q)
    BY <2>1, TrackKeeps, TrackClosingKeeps
  <2>2. CASE \E s \in Sids : ServeInitialise(q, s)
    BY <2>2, ServeInitialiseKeeps
  <2>3. CASE ReserveFree(q) \/ ReserveByEviction(q) \/ ReserveRefused(q) \/ SettleNone(q)
    BY <2>3, ReserveFreeKeeps, ReserveByEvictionKeeps, ReserveRefusedKeeps, SettleNoneKeeps
  <2>4. CASE Register(q) \/ SettleUntracked(q) \/ Arm(q)
    BY <2>4, RegisterKeeps, SettleUntrackedKeeps, ArmKeeps
  <2> QED
    BY <1>1, <2>1, <2>2, <2>3, <2>4 DEF OpenStep
<1>2. ASSUME AgentStep PROVE HttpInv'
  <2>1. ASSUME NEW q \in Reqs, NEW p \in Principals, OpenPost(q, p) PROVE HttpInv'
    BY <2>1, OpenPostKeeps
  <2>2. ASSUME NEW q \in Reqs, NEW p \in Principals, NEW s \in Sids, BeginForeign(q, p, s)
        PROVE  HttpInv'
    <3>1. PICK kind \in {"post", "get"} : Begun(q, kind, p, s, "none")
      BY <2>2 DEF BeginForeign
    <3> QED
      BY <2>2, <3>1, BeginForeignKeeps DEF BeginForeign
  <2>3. ASSUME NEW q \in Reqs, NEW p \in Principals, NEW s \in Sids, BeginPost(q, p, s)
        PROVE  HttpInv'
    BY <2>3, BeginPostLiveKeeps, BeginPostEarlyKeeps
  <2>4. ASSUME NEW q \in Reqs, NEW p \in Principals, NEW s \in Sids, BeginGet(q, p, s)
        PROVE  HttpInv'
    BY <2>4, BeginGetLiveKeeps, BeginGetEarlyKeeps
  <2>5. ASSUME NEW q \in Reqs, EndPost(q) PROVE HttpInv'
    <3>1. \/ req[q].counted = "live"
          \/ req[q].counted = "early" /\ req[q].sid \in live /\ owner[req[q].sid] = req[q].principal
          \/ req[q].counted = "early" /\ ~(req[q].sid \in live /\ owner[req[q].sid] = req[q].principal)
          \/ req[q].counted = "none"
      BY <2>5 DEF EndPost
    <3> QED
      BY <2>5, <3>1, EndPostLiveKeeps, EndPostEarlyKeeps, EndPostForeignKeeps
  <2>6. ASSUME NEW q \in Reqs, EndGet(q) PROVE HttpInv'
    <3>1. \/ req[q].counted = "live"
          \/ req[q].counted = "early" /\ req[q].sid \in live /\ owner[req[q].sid] = req[q].principal
          \/ req[q].counted = "early" /\ ~(req[q].sid \in live /\ owner[req[q].sid] = req[q].principal)
          \/ req[q].counted = "none"
      BY <2>6 DEF EndGet
    <3> QED
      BY <2>6, <3>1, EndGetLiveKeeps, EndGetEarlyKeeps, EndGetForeignKeeps
  <2>7. ASSUME NEW q \in Reqs, NEW c \in Calls, Deliver(q, c) PROVE HttpInv'
    BY <2>7, DeliverKeeps
  <2>8. ASSUME NEW s \in Sids, Delete(s) PROVE HttpInv'
    BY <2>8, DeleteKeeps
  <2> QED
    BY <1>2, <2>1, <2>2, <2>3, <2>4, <2>5, <2>6, <2>7, <2>8 DEF AgentStep
<1>3. ASSUME NEW s \in Sids, SessionStep(s) PROVE HttpInv'
  <2>1. CASE Fire(s) \/ Expire(s) \/ ExpireTooLate(s)
    BY <2>1, FireKeeps, ExpireKeeps, ExpireTooLateKeeps
  <2>2. CASE StartEvictor(s) \/ EvictorForget(s)
    BY <2>2, StartEvictorKeeps, StartEvictorClosingKeeps, EvictorForgetKeeps
  <2>3. CASE SdkClose(s) \/ SdkDrained(s) \/ SdkGone(s)
    BY <2>3, SdkCloseKeeps, SdkDrainedKeeps, SdkGoneKeeps
  <2>4. CASE WatcherStop(s) \/ WatcherForget(s) \/ WatcherRelease(s)
    BY <2>4, WatcherStopKeeps, WatcherForgetKeeps, WatcherForgetEvictedKeeps, WatcherReleaseKeeps
  <2> QED
    BY <1>3, <2>1, <2>2, <2>3, <2>4 DEF SessionStep
<1>4. ASSUME NEW c \in Calls, Admit(c) \/ Finish(c) PROVE HttpInv'
  BY <1>4, AdmitKeeps, FinishKeeps
<1>5. ASSUME CloseLimits \/ CloseStep PROVE HttpInv'
  BY <1>5, CloseLimitsKeeps, CloseSessionsKeeps, CloseWaitKeeps DEF CloseStep
<1>6. CASE UNCHANGED vars
  <2>1. UNCHANGED <<req, call, sdk, owner, live, evicted, used, timer, fired, active, gets, early,
                    earlyGets, slot, slots, sessions, retired, watcher, evictor, closers, closing,
                    snapshot>>
    BY <1>6 DEF vars, life, book, clock, counts, places, helpers, shutdown
  <2>2. /\ Requests' /\ CallTypes' /\ SessionTypes' /\ Ordered' /\ Owned' /\ Unregistered'
        /\ PlaceKept' /\ Attended' /\ Evictions'
    BY <2>1 DEF HttpInv, Requests, CallTypes, SessionTypes, Ordered, Owned, Unregistered,
                PlaceKept, Attended, Evictions
  <2>3. /\ Openers' /\ Settling' /\ Watchers' /\ Clocks' /\ CallsHold' /\ Tombstones' /\ Closed'
        /\ Slots' /\ Places' /\ Tallies'
    BY <2>1 DEF HttpInv, Openers, Settling, Watchers, Clocks, CallsHold, Tombstones,
         Closed, Slots,
                Places, Tallies
  <2> QED
    BY <2>2, <2>3 DEF HttpInv
<1> QED
  BY <1>1, <1>2, <1>3, <1>4, <1>5, <1>6 DEF Next

-----------------------------------------------------------------------------
(* What it means *)

\* Every variable has its type, and no counter goes below zero, past its cap
\* or past the requests under way.
LEMMA HttpTypes == HttpInv => TypeOK
<1> SUFFICES ASSUME HttpInv PROVE TypeOK
  OBVIOUS
<1>1. used \in Seq(live) /\ Len(used) = Cardinality(live) /\ IsInjective(used)
  BY OrderCounts DEF HttpInv, Ordered, OrderOf, IsInjective
<1>2. /\ active \in [Sids -> 0..Cardinality(Reqs)] /\ gets \in [Sids -> 0..Cardinality(Reqs)]
      /\ early \in [Sids \X Principals -> 0..Cardinality(Reqs)]
      /\ earlyGets \in [Sids \X Principals -> 0..Cardinality(Reqs)]
  BY DEF HttpInv, Tallies, TallyOf
<1>3. slots \in [Principals -> 0..MaxSessionsPerPrincipal] /\ sessions \in 0..MaxSessions
  BY DEF HttpInv, Slots, SlotsOf
<1>4. req \in [Reqs -> [kind : {"idle", "open", "post", "get"},
                        stage : {"idle", "admitted", "reserved", "served", "registered",
                                 "tracked", "untracked", "begun"},
                        principal : Principals \cup {NoPrincipal},
                        sid : Sids \cup {NoSid},
                        counted : {"none", "live", "early"}]]
  <2>1. Opening \cup {"idle", "begun"} = {"idle", "admitted", "reserved", "served", "registered",
                                          "tracked", "untracked", "begun"}
    BY DEF Opening
  <2> QED
    BY <2>1 DEF HttpInv, Requests, RequestType
<1>5. call \in [Calls -> [stage : {"idle", "delivered", "running"},
                          sid : Sids \cup {NoSid}, cancelled : BOOLEAN]]
  BY DEF HttpInv, CallTypes, CallType
<1> QED
  BY <1>1, <1>2, <1>3, <1>4, <1>5 DEF HttpInv, SessionTypes, TypeOK

\* The places taken bound the sessions in use of any set of principals: each
\* holds its place itself or its request still holds it.
LEMMA InUseBounded ==
  ASSUME HttpInv, NEW P
  PROVE  Cardinality({s \in Sids : /\ sdk[s] \in {"open", "closing"} /\ s \notin evicted
                                   /\ owner[s] \in P})
         <= Cardinality(TakingOf(req, P)) + Cardinality(HoldingOf(slot, owner, P))
<1> DEFINE U == {s \in Sids : /\ sdk[s] \in {"open", "closing"} /\ s \notin evicted
                              /\ owner[s] \in P}
           H == HoldingOf(slot, owner, P)
           V == {q \in TakingOf(req, P) : req[q].stage = "served"}
           f == [q \in V |-> req[q].sid]
           W == {s \in Sids : \E q \in V : req[q].sid = s}
<1>1. IsFiniteSet(TakingOf(req, P)) /\ IsFiniteSet(H) /\ IsFiniteSet(V)
  <2>1. TakingOf(req, P) \subseteq Reqs /\ H \subseteq Sids /\ V \subseteq Reqs
    BY DEF TakingOf, HoldingOf
  <2> QED
    BY <2>1, FS_Subset, HttpAssumption
<1>2. f \in Surjection(V, W)
  <2>1. \A q \in V : req[q].sid \in W
    BY DEF HttpInv, Requests, HasId, TakingOf
  <2> QED
    BY <2>1 DEF Surjection
<1>3. IsFiniteSet(W) /\ Cardinality(W) <= Cardinality(V)
  BY <1>1, <1>2, FS_Surjection
<1>4. Cardinality(V) <= Cardinality(TakingOf(req, P))
  BY <1>1, FS_Subset
<1>5. U \subseteq H \cup W
  <2> SUFFICES ASSUME NEW s \in U PROVE s \in H \cup W
    OBVIOUS
  <2>1. CASE slot[s] = "held"
    BY <2>1 DEF HoldingOf
  <2>2. CASE slot[s] = "none"
    <3>1. watcher[s] = "none"
      BY <2>2 DEF HttpInv, Unregistered
    <3>2. PICK q \in Reqs : req[q].sid = s /\ req[q].stage = "served"
      BY <2>2, <3>1 DEF HttpInv, Attended
    <3>3. req[q].principal = owner[s]
      BY <3>2 DEF HttpInv, Openers, HasId
    <3> QED
      BY <3>2, <3>3 DEF TakingOf, Taking
  <2>3. CASE slot[s] = "released"
    BY <2>3 DEF HttpInv, PlaceKept, Ended
  <2> QED
    BY <2>1, <2>2, <2>3 DEF HttpInv, SessionTypes
<1> HIDE DEF U, H, V, W, f
<1>6. IsFiniteSet(H \cup W) /\ Cardinality(H \cup W) <= Cardinality(H) + Cardinality(W)
  <2>1. /\ IsFiniteSet(H \cup W)
        /\ Cardinality(H \cup W) = Cardinality(H) + Cardinality(W) - Cardinality(H \cap W)
    BY <1>1, <1>3, FS_Union
  <2>2. /\ Cardinality(H) \in Nat /\ Cardinality(W) \in Nat /\ Cardinality(H \cap W) \in Nat
    BY <1>1, <1>3, FS_Subset, FS_CardinalityType
  <2> QED
    BY <2>1, <2>2
<1>7. Cardinality(U) <= Cardinality(H \cup W) /\ IsFiniteSet(U)
  BY <1>5, <1>6, FS_Subset
<1>8. /\ Cardinality(U) \in Nat /\ Cardinality(H \cup W) \in Nat /\ Cardinality(H) \in Nat
      /\ Cardinality(W) \in Nat /\ Cardinality(V) \in Nat /\ Cardinality(TakingOf(req, P)) \in Nat
  BY <1>1, <1>3, <1>6, <1>7, FS_CardinalityType
<1>9. Cardinality(U) <= Cardinality(TakingOf(req, P)) + Cardinality(H)
  BY <1>3, <1>4, <1>6, <1>7, <1>8
<1> QED
  BY <1>9 DEF U, H

\* The caps bound the sessions in use.
LEMMA HttpBounded == HttpInv => OpenSessionsBounded
<1> SUFFICES ASSUME HttpInv PROVE OpenSessionsBounded
  OBVIOUS
<1> DEFINE InUse == {s \in Sids : sdk[s] \in {"open", "closing"} /\ s \notin evicted}
<1>1. Cardinality(InUse) <= MaxSessions
  <2>1. InUse = {s \in Sids : /\ sdk[s] \in {"open", "closing"} /\ s \notin evicted
                              /\ owner[s] \in Principals}
    BY DEF HttpInv, Owned
  <2>2. Cardinality(InUse) <= sessions
    BY <2>1, InUseBounded DEF HttpInv, Slots, SlotsOf
  <2>3. InUse \in SUBSET Sids /\ Cardinality(InUse) \in Nat
    BY Counted, HttpAssumption
  <2>4. sessions \in 0..MaxSessions /\ MaxSessions \in Nat
    BY HttpAssumption DEF HttpInv, Slots, SlotsOf
  <2> HIDE DEF InUse
  <2> QED
    BY <2>2, <2>3, <2>4
<1>2. ASSUME NEW p \in Principals
      PROVE  Cardinality({s \in InUse : owner[s] = p}) <= MaxSessionsPerPrincipal
  <2> DEFINE Mine == {s \in InUse : owner[s] = p}
  <2>1. Mine = {s \in Sids : /\ sdk[s] \in {"open", "closing"} /\ s \notin evicted
                             /\ owner[s] \in {p}}
    OBVIOUS
  <2>2. Cardinality(Mine) <= slots[p]
    BY <2>1, InUseBounded DEF HttpInv, Slots, SlotsOf
  <2>3. Mine \in SUBSET Sids /\ Cardinality(Mine) \in Nat
    BY Counted, HttpAssumption
  <2>4. slots[p] \in 0..MaxSessionsPerPrincipal /\ MaxSessionsPerPrincipal \in Nat
    BY HttpAssumption DEF HttpInv, Slots, SlotsOf
  <2> HIDE DEF Mine, InUse
  <2>5. Cardinality(Mine) <= MaxSessionsPerPrincipal
    BY <2>2, <2>3, <2>4
  <2> QED
    BY <2>5 DEF Mine
<1> QED
  BY <1>1, <1>2 DEF OpenSessionsBounded

\* A live session counts its principal's POSTs and GETs exactly.
LEMMA HttpExact ==
  HttpInv => \A s \in live : /\ active[s] = Cardinality(OwnRequests("post", s))
                             /\ gets[s] = Cardinality(OwnRequests("get", s))
<1>1. \A kind, s : OwnRequests(kind, s) = OwnOf(req, kind, s, owner[s])
  BY DEF OwnRequests, OwnOf
<1> QED
  BY <1>1 DEF HttpInv, Tallies, TallyOf

\* A retired session is idle, and an evicted one has no stream and no call.
LEMMA HttpTaken ==
  ASSUME HttpInv, [Next]_vars, NEW s \in Sids
  PROVE  /\ s \in retired' \ retired => OwnRequests("post", s) = {}
         /\ s \in evicted' \ evicted =>
              /\ OwnRequests("get", s) = {} /\ RunningOn(s) = {}
              /\ \E q \in Reqs : /\ req[q].stage = "admitted" /\ req'[q].stage = "reserved"
                                 /\ req[q].principal = owner[s]
<1> DEFINE Taken == /\ s \in retired' \ retired => OwnRequests("post", s) = {}
                    /\ s \in evicted' \ evicted =>
                         /\ OwnRequests("get", s) = {} /\ RunningOn(s) = {}
                         /\ \E q \in Reqs : /\ req[q].stage = "admitted" /\ req'[q].stage = "reserved"
                                            /\ req[q].principal = owner[s]
<1>0. \A t \in live : /\ active[t] = 0 => OwnRequests("post", t) = {}
                      /\ gets[t] = 0 => OwnRequests("get", t) = {}
  <2>1. \A kind, t : OwnRequests(kind, t) \in SUBSET Reqs
    BY DEF OwnRequests
  <2> QED
    BY <2>1, HttpExact, Counted, HttpAssumption
<1>1. ASSUME NEW q \in Reqs, ReserveByEviction(q) PROVE Taken
  <2> DEFINE v == LeastRecentlyUsed(Evictable(req[q].principal))
  <2>1. v \in Evictable(req[q].principal)
    BY <1>1, LeastRecentlyUsedIsOne DEF ReserveByEviction, HttpInv, Ordered, Evictable
  <2> HIDE DEF v
  <2>2. evicted' = evicted \cup {v} /\ retired' = retired \cup {v}
    BY <1>1 DEF ReserveByEviction, v
  <2>3. req[q].stage = "admitted" /\ req' = [req EXCEPT ![q].stage = "reserved"]
    BY <1>1 DEF ReserveByEviction
  <2>4. req'[q].stage = "reserved"
    BY <2>3 DEF HttpInv, Requests, RequestType
  <2>5. /\ v \in live /\ active[v] = 0 /\ gets[v] = 0 /\ RunningOn(v) = {}
        /\ owner[v] = req[q].principal
    BY <2>1 DEF Evictable
  <2>6. OwnRequests("post", v) = {} /\ OwnRequests("get", v) = {}
    BY <2>5, <1>0
  <2> QED
    BY <2>2, <2>3, <2>4, <2>5, <2>6
<1>2. ASSUME NEW t \in Sids, Expire(t) PROVE Taken
  <2>1. retired' = retired \cup {t} /\ evicted' = evicted
    BY <1>2 DEF Expire, book
  <2>2. t \in live /\ active[t] = 0
    BY <1>2 DEF Expire, Expires, HttpInv, Clocks, SessionTypes
  <2> QED
    BY <2>1, <2>2, <1>0
<1>3. ASSUME retired' \subseteq retired, evicted' = evicted PROVE Taken
  BY <1>3
<1> HIDE DEF Taken
<1>4. ASSUME NEW q \in Reqs, OpenStep(q) PROVE Taken
  <2>1. CASE ReserveByEviction(q)
    BY <2>1, <1>1
  <2>2. CASE ~ReserveByEviction(q)
    <3>1. retired' = retired /\ evicted' = evicted
      BY <1>4, <2>2 DEF OpenStep, ReserveFree, ReserveRefused, ServeInitialise, SettleNone,
           Register, Track, Forget, SettleUntracked, Arm, book
    <3> QED
      BY <3>1, <1>3
  <2> QED
    BY <2>1, <2>2
<1>5. ASSUME AgentStep PROVE Taken
  <2>1. \A q \in Reqs, p \in Principals, t \in Sids :
          BeginForeign(q, p, t) \/ BeginPost(q, p, t) \/ BeginGet(q, p, t) =>
            retired' = retired /\ evicted' = evicted
    BY DEF BeginForeign, BeginPost, BeginGet, book
  <2>2. \A q \in Reqs : EndPost(q) \/ EndGet(q) => retired' = retired /\ evicted' = evicted
    BY DEF EndPost, EndGet
  <2>3. \A q \in Reqs, p \in Principals : OpenPost(q, p) => retired' = retired /\ evicted' = evicted
    BY DEF OpenPost, book
  <2>4. \A q \in Reqs, c \in Calls : Deliver(q, c) => retired' = retired /\ evicted' = evicted
    BY DEF Deliver, book
  <2>5. \A t \in Sids : Delete(t) => retired' = retired /\ evicted' = evicted
    BY DEF Delete, book
  <2>6. retired' = retired /\ evicted' = evicted
    BY <1>5, <2>1, <2>2, <2>3, <2>4, <2>5 DEF AgentStep
  <2> QED
    BY <2>6, <1>3
<1>6. ASSUME NEW t \in Sids, SessionStep(t) PROVE Taken
  <2>1. CASE Expire(t)
    BY <2>1, <1>2
  <2>2. CASE ~Expire(t)
    <3>1. retired' \subseteq retired /\ evicted' = evicted
      BY <1>6, <2>2 DEF SessionStep, Fire, ExpireTooLate, StartEvictor, EvictorForget, SdkClose,
           SdkDrained, SdkGone, WatcherStop, WatcherForget, WatcherRelease, Forget, book
    <3> QED
      BY <3>1, <1>3
  <2> QED
    BY <2>1, <2>2
<1>7. ASSUME \/ \E c \in Calls : Admit(c) \/ Finish(c)
             \/ CloseLimits \/ CloseStep \/ UNCHANGED vars
      PROVE  Taken
  <2>1. retired' = retired /\ evicted' = evicted
    BY <1>7 DEF Admit, Finish, CloseLimits, CloseStep, CloseSessions, CloseWait, vars, book
  <2> QED
    BY <2>1, <1>3
<1>8. Taken
  BY <1>4, <1>5, <1>6, <1>7 DEF Next
<1> QED
  BY <1>8 DEF Taken

-----------------------------------------------------------------------------
(* The theorems *)

\* The invariant holds always.
LEMMA HttpInvariant == Spec => []HttpInv
<1>1. QED
  BY HttpInit, HttpStep, PTL DEF Spec

\* However sessions are opened, deleted, expired, evicted and lost, the
\* places that reserveSession counts are given back once, no counter of the
\* handler leaves its bounds, and the sessions go-sdk holds open that are not
\* evicted stay within both caps, for any caps and any number of principals.
THEOREM SlotsAlwaysAccounted == Spec => []SlotsAccounted
<1>1. HttpInv => SlotsAccounted
  BY HttpTypes, HttpBounded DEF SlotsAccounted
<1>2. QED
  BY <1>1, HttpInvariant, PTL

\* A live session's active count is the number of its principal's POSTs in
\* progress, those begun before register included, whichever order register,
\* beginPOST, endPOST and the end of the session come in.
THEOREM ActiveAlwaysExact == Spec => []ActiveIsExact
<1>1. HttpInv => ActiveIsExact
  BY HttpExact DEF ActiveIsExact
<1>2. QED
  BY <1>1, HttpInvariant, PTL

\* Calls on a retired session are cancelled and there are none on an evicted
\* one, no entry of retired outlives its session, and the tombstone of an
\* evicted session answers until go-sdk has forgotten the id.
THEOREM RetirementAlwaysHolds == Spec => []RetirementHolds
<1>1. HttpInv => RetirementHolds
  BY DEF HttpInv, RetirementHolds, NoCallOutlivesRetirement, RetiredIsTransient, TombstoneStays,
         CallsHold, Watchers, Tombstones, SessionTypes, LimitsClosed
<1>2. QED
  BY <1>1, HttpInvariant, PTL

\* A session is retired only with no POST of its principal in progress, and
\* evicted only with no stream and no running call, for a request of the same
\* principal: what the counters are for.
THEOREM AlwaysTakenWhenIdle == Spec => TakenOnlyWhenIdle
<1>1. HttpInv /\ [Next]_vars =>
        [\A s \in Sids :
           /\ s \in retired' \ retired => OwnRequests("post", s) = {}
           /\ s \in evicted' \ evicted =>
                /\ OwnRequests("get", s) = {} /\ RunningOn(s) = {}
                /\ \E q \in Reqs : /\ req[q].stage = "admitted" /\ req'[q].stage = "reserved"
                                   /\ req[q].principal = owner[s]]_vars
  BY HttpTaken
<1>2. QED
  BY <1>1, HttpInvariant, PTL DEF Spec, TakenOnlyWhenIdle

\* After Proxy.Close no call runs, and a session that is open is in the hands
\* of a request that closes it.
THEOREM NothingEverSurvivesClose == Spec => []NothingSurvivesClose
<1>1. HttpInv => NothingSurvivesClose
  <2> SUFFICES ASSUME HttpInv, closing = "done"
               PROVE  /\ \A c \in Calls : call[c].stage # "running"
                      /\ \A s \in Sids : sdk[s] \in {"open", "closing"} =>
                           \E q \in Reqs : /\ req[q].sid = s
                                           /\ req[q].stage \in {"served", "registered", "untracked"}
    BY DEF NothingSurvivesClose
  <2>1. \A c \in Calls : call[c].stage # "running"
    BY DEF HttpInv, CallsHold, Closed, Ended
  <2>2. ASSUME NEW s \in Sids, sdk[s] \in {"open", "closing"}
        PROVE  watcher[s] = "none"
    BY <2>2 DEF HttpInv, Closed, Watchers, Ended
  <2> QED
    BY <2>1, <2>2 DEF HttpInv, Attended
<1>2. QED
  BY <1>1, HttpInvariant, PTL
=============================================================================
