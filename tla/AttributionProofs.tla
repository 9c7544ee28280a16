-------------------------- MODULE AttributionProofs --------------------------
(***************************************************************************)
(* Proofs about Attribution for any number of calls, prompts, sessions and *)
(* principals, any TTL and any quota: no ended call is forgotten early or  *)
(* remembered late, the quota's count is exact, and no prompt reaches a    *)
(* session other than the one the upstream asks for.                       *)
(*                                                                         *)
(* Readings of the clock are old or current, never from the future, so a   *)
(* prune only removes what has expired; that makes the records inductive.  *)
(***************************************************************************)
EXTENDS Attribution, FiniteSetTheorems, TLAPS

-----------------------------------------------------------------------------
(* Helpers *)

\* Unexpired keeps exactly the records whose expiry is after the reading.
LEMMA UnexpiredFacts ==
  ASSUME NEW S, NEW table \in [S -> Nat], NEW n \in Nat
  PROVE  /\ Unexpired(table, n) \in [S -> Nat]
         /\ \A x \in S : /\ n < table[x] => Unexpired(table, n)[x] = table[x]
                         /\ ~(n < table[x]) => Unexpired(table, n)[x] = 0
  BY DEF Unexpired

\* Later returns one of the two, and no less than either.
LEMMA LaterFacts ==
  ASSUME NEW a \in Nat, NEW b \in Nat
  PROVE  /\ Later(a, b) \in {a, b}
         /\ a <= Later(a, b) /\ b <= Later(a, b)
  BY DEF Later

KeptOf(p, n) == {k \in Keys : PrincipalOf[k] = p /\ Unexpired(orphans, n)[k] # 0}

\* pruneOrphans leaves the count equal to the number of records it keeps.
LEMMA PrunedCountExact ==
  ASSUME TypeOK, RecordsFinite, QuotaExact, NEW n \in Nat
  PROVE  /\ PrunedCount(n) \in [Principals -> Nat]
         /\ \A p \in Principals :
              /\ IsFiniteSet(KeptOf(p, n))
              /\ PrunedCount(n)[p] = Cardinality(KeptOf(p, n))
              /\ PrunedCount(n)[p] <= MaxOrphansPerPrincipal
<1>1. SUFFICES ASSUME NEW p \in Principals
               PROVE  /\ IsFiniteSet(KeptOf(p, n))
                      /\ PrunedCount(n)[p] = Cardinality(KeptOf(p, n))
                      /\ PrunedCount(n)[p] \in Nat
                      /\ PrunedCount(n)[p] <= MaxOrphansPerPrincipal
  BY DEF PrunedCount
<1>2. /\ KeptOf(p, n) = RecordsOf(p) \ Expired(p, n)
      /\ RecordsOf(p) \cap Expired(p, n) = Expired(p, n)
  <2>1. orphans \in [Keys -> Nat]
    BY DEF TypeOK
  <2> QED  BY <2>1, UnexpiredFacts DEF KeptOf, RecordsOf, Expired
<1>3. IsFiniteSet(RecordsOf(p))
  BY DEF RecordsFinite
<1>4. /\ IsFiniteSet(KeptOf(p, n))
      /\ Cardinality(KeptOf(p, n)) = Cardinality(RecordsOf(p)) - Cardinality(Expired(p, n))
  BY <1>2, <1>3, FS_Difference
<1>5. Cardinality(KeptOf(p, n)) \in Nat /\ Cardinality(KeptOf(p, n)) <= Cardinality(RecordsOf(p))
  <2>1. KeptOf(p, n) \in SUBSET RecordsOf(p)
    BY <1>2
  <2> QED  BY <2>1, <1>3, <1>4, FS_Subset, FS_CardinalityType
<1>6. Cardinality(RecordsOf(p)) \in Nat /\ orphansOf[p] = Cardinality(RecordsOf(p))
      /\ orphansOf[p] <= MaxOrphansPerPrincipal
  BY <1>3, FS_CardinalityType DEF QuotaExact
<1>7. PrunedCount(n)[p] = Cardinality(KeptOf(p, n))
  BY <1>4, <1>5, <1>6 DEF PrunedCount
<1>8. MaxOrphansPerPrincipal \in Nat
  BY AttributionAssumption
<1> QED  BY <1>4, <1>5, <1>6, <1>7, <1>8

-----------------------------------------------------------------------------
(* The records *)

\* A prune with an old or current reading keeps the facts about records.
LEMMA PruneStep ==
  ASSUME TypeOK, RecordsInv, NEW n \in Nat, n <= now,
         orphans' = Unexpired(orphans, n), orphansOf' = PrunedCount(n),
         overflow' = Unexpired(overflow, n), now' = now, ended' = ended
  PROVE  RecordsInv'
<1> USE DEF TypeOK, RecordsInv
<1>1. EndedLive'
  BY DEF EndedLive
<1>2. /\ \A k \in Keys : now < orphans[k] => orphans'[k] = orphans[k]
      /\ \A k \in Keys : orphans'[k] \in {0, orphans[k]}
      /\ \A p \in Principals : now < overflow[p] => overflow'[p] = overflow[p]
      /\ \A p \in Principals : overflow'[p] \in {0, overflow[p]}
  BY DEF Unexpired
<1>3. PrincipalOf \in [Keys -> Principals]
  BY AttributionAssumption
<1>4. RecordsCover'
  <2> SUFFICES ASSUME NEW e \in ended, now < e.expires
               PROVE  e.expires <= orphans'[e.key] \/ e.expires <= overflow'[PrincipalOf[e.key]]
    BY DEF RecordsCover
  <2>1. e.expires <= orphans[e.key] \/ e.expires <= overflow[PrincipalOf[e.key]]
    BY DEF RecordsCover
  <2>2. e.key \in Keys /\ e.expires \in Nat /\ PrincipalOf[e.key] \in Principals
    BY <1>3
  <2> QED  BY <1>2, <2>1, <2>2
<1>5. RecordsJustified'
  BY <1>2 DEF RecordsJustified
<1>6. \A p \in Principals : RecordsOf(p)' = KeptOf(p, n)
  BY DEF RecordsOf, KeptOf
<1>7. RecordsFinite' /\ QuotaExact'
  BY <1>6, PrunedCountExact DEF RecordsFinite, QuotaExact
<1> QED  BY <1>1, <1>4, <1>5, <1>7

\* end: pruning and recording the call in one step keeps the facts about records.
LEMMA EndStep ==
  ASSUME TypeOK, RecordsInv, NEW c \in Calls, End(c)
  PROVE  RecordsInv' /\ orphans' \in [Keys -> Nat] /\ orphansOf' \in [Principals -> Nat]
         /\ overflow' \in [Principals -> Nat] /\ ended' \subseteq [key : Keys, expires : Nat]
<1>0. PICK k, n : k = call[c].key /\ n = call[c].at
  OBVIOUS
<1> DEFINE x == n + OrphanTTL
           q == PrincipalOf[k]
           new == [key |-> k, expires |-> x]
<1> USE DEF RecordsInv
<1>1. /\ n \in Nat /\ n <= now /\ now \in Nat /\ k \in Keys /\ x \in Nat /\ n < x
      /\ q \in Principals /\ PrincipalOf \in [Keys -> Principals]
      /\ orphans \in [Keys -> Nat] /\ overflow \in [Principals -> Nat]
      /\ ended \subseteq [key : Keys, expires : Nat]
  BY <1>0, AttributionAssumption DEF TypeOK, End, InFlight
<1>2. /\ now' = now
      /\ ended' = {e \in ended \cup {new} : now < e.expires}
      /\ RecordAgain(k, n) \/ RecordNew(k, n) \/ RecordOverflow(k, n)
  BY <1>0 DEF End
<1>3. new \in [key : Keys, expires : Nat] /\ new.key = k /\ new.expires = x
  BY <1>1
<1> HIDE DEF new
<1>4. ended' \subseteq [key : Keys, expires : Nat]
  BY <1>1, <1>2, <1>3
<1>5. EndedLive'
  BY <1>2 DEF EndedLive
<1>6. /\ Unexpired(orphans, n) \in [Keys -> Nat]
      /\ Unexpired(overflow, n) \in [Principals -> Nat]
      /\ \A j \in Keys : /\ now < orphans[j] => Unexpired(orphans, n)[j] = orphans[j]
                         /\ Unexpired(orphans, n)[j] \in {0, orphans[j]}
      /\ \A p \in Principals : /\ now < overflow[p] => Unexpired(overflow, n)[p] = overflow[p]
                               /\ Unexpired(overflow, n)[p] \in {0, overflow[p]}
  BY <1>1 DEF Unexpired
<1>7. /\ PrunedCount(n) \in [Principals -> Nat]
      /\ \A p \in Principals :
           /\ IsFiniteSet(KeptOf(p, n))
           /\ PrunedCount(n)[p] = Cardinality(KeptOf(p, n))
           /\ PrunedCount(n)[p] <= MaxOrphansPerPrincipal
  BY <1>1, PrunedCountExact
<1> HIDE DEF x, q
<1> DEFINE Kept == Unexpired(orphans, n)
           KeptOver == Unexpired(overflow, n)
\* What the three cases of end have in common.
<1>8. ASSUME orphans' \in [Keys -> Nat], overflow' \in [Principals -> Nat],
             \A j \in Keys \ {k} : orphans'[j] = Kept[j],
             \A p \in Principals \ {q} : overflow'[p] = KeptOver[p],
             orphans'[k] \in {Kept[k], x}, Kept[k] <= orphans'[k],
             overflow'[q] \in {KeptOver[q], x}, KeptOver[q] <= overflow'[q],
             x <= orphans'[k] \/ x <= overflow'[q]
      PROVE  RecordsCover' /\ RecordsJustified'
  <2>1. /\ \A j \in Keys : Kept[j] <= orphans'[j]
        /\ \A p \in Principals : KeptOver[p] <= overflow'[p]
    BY <1>1, <1>6, <1>8
  <2>2. RecordsCover'
    <3> SUFFICES ASSUME NEW e \in ended', now < e.expires
                 PROVE  \/ e.expires <= orphans'[e.key]
                        \/ e.expires <= overflow'[PrincipalOf[e.key]]
      BY <1>2 DEF RecordsCover
    <3>1. CASE e = new
      BY <3>1, <1>3, <1>8 DEF q
    <3>2. CASE e \in ended
      <4>1. /\ e.key \in Keys /\ e.expires \in Nat /\ PrincipalOf[e.key] \in Principals
            /\ e.expires <= orphans[e.key] \/ e.expires <= overflow[PrincipalOf[e.key]]
        BY <3>2, <1>1 DEF RecordsCover
      <4>2. CASE e.expires <= orphans[e.key]
        <5>1. now < orphans[e.key]
          BY <4>1, <4>2, <1>1
        <5> QED  BY <5>1, <4>1, <4>2, <1>1, <1>6, <1>8, <2>1
      <4>3. CASE e.expires <= overflow[PrincipalOf[e.key]]
        <5>1. now < overflow[PrincipalOf[e.key]]
          BY <4>1, <4>3, <1>1
        <5> QED  BY <5>1, <4>1, <4>3, <1>1, <1>6, <1>8, <2>1
      <4> QED  BY <4>1, <4>2, <4>3
    <3> QED  BY <1>2, <3>1, <3>2
  <2>3. ASSUME NEW j \in Keys, now < orphans'[j]
        PROVE  \E e \in ended' : e.key = j /\ e.expires = orphans'[j]
    <3>1. CASE orphans'[j] = Kept[j]
      <4>1. orphans'[j] = orphans[j]
        BY <3>1, <2>3, <1>1, <1>6
      <4>2. PICK e \in ended : e.key = j /\ e.expires = orphans[j]
        BY <4>1, <2>3 DEF RecordsJustified
      <4> QED  BY <4>1, <4>2, <2>3, <1>2
    <3>2. CASE j = k /\ orphans'[j] = x
      BY <3>2, <2>3, <1>2, <1>3
    <3> QED  BY <3>1, <3>2, <1>8
  <2>4. ASSUME NEW p \in Principals, now < overflow'[p]
        PROVE  \E e \in ended' : PrincipalOf[e.key] = p /\ e.expires = overflow'[p]
    <3>1. CASE overflow'[p] = KeptOver[p]
      <4>1. overflow'[p] = overflow[p]
        BY <3>1, <2>4, <1>1, <1>6
      <4>2. PICK e \in ended : PrincipalOf[e.key] = p /\ e.expires = overflow[p]
        BY <4>1, <2>4 DEF RecordsJustified
      <4> QED  BY <4>1, <4>2, <2>4, <1>2
    <3>2. CASE p = q /\ overflow'[p] = x
      BY <3>2, <2>4, <1>2, <1>3 DEF q
    <3> QED  BY <3>1, <3>2, <1>8
  <2> QED  BY <1>2, <2>2, <2>3, <2>4 DEF RecordsJustified
\* The count, where the records are those the prune kept.
<1>9. ASSUME \A j \in Keys : orphans'[j] # 0 <=> Kept[j] # 0, orphansOf' = PrunedCount(n)
      PROVE  RecordsFinite' /\ QuotaExact'
  <2>1. \A p \in Principals : RecordsOf(p)' = KeptOf(p, n)
    BY <1>9 DEF RecordsOf, KeptOf
  <2> QED  BY <2>1, <1>7, <1>9 DEF RecordsFinite, QuotaExact
<1>10. CASE RecordAgain(k, n)
  <2>1. /\ Kept[k] # 0 /\ orphans' = [Kept EXCEPT ![k] = Later(Kept[k], x)]
        /\ overflow' = KeptOver /\ orphansOf' = PrunedCount(n)
    BY <1>10 DEF RecordAgain, x
  <2>2. Later(Kept[k], x) \in {Kept[k], x} /\ Kept[k] <= Later(Kept[k], x) /\ x <= Later(Kept[k], x)
    BY <1>1, <1>6, LaterFacts
  <2>3. /\ orphans' \in [Keys -> Nat] /\ overflow' \in [Principals -> Nat]
        /\ \A j \in Keys \ {k} : orphans'[j] = Kept[j]
        /\ orphans'[k] = Later(Kept[k], x)
        /\ KeptOver[q] <= overflow'[q]
    BY <1>1, <1>6, <2>1, <2>2
  <2>4. RecordsCover' /\ RecordsJustified'
    BY <1>8, <2>1, <2>2, <2>3
  <2>5. \A j \in Keys : orphans'[j] # 0 <=> Kept[j] # 0
    BY <1>1, <1>6, <2>1, <2>2, <2>3
  <2> QED  BY <1>4, <1>5, <1>7, <1>9, <2>1, <2>3, <2>4, <2>5
<1>11. CASE RecordNew(k, n)
  <2>1. /\ Kept[k] = 0 /\ orphans' = [Kept EXCEPT ![k] = x]
        /\ overflow' = KeptOver /\ orphansOf' = [PrunedCount(n) EXCEPT ![q] = PrunedCount(n)[q] + 1]
        /\ PrunedCount(n)[q] < MaxOrphansPerPrincipal
    BY <1>11 DEF RecordNew, x, q
  <2>2. /\ orphans' \in [Keys -> Nat] /\ overflow' \in [Principals -> Nat]
        /\ \A j \in Keys \ {k} : orphans'[j] = Kept[j]
        /\ orphans'[k] = x /\ x # 0
        /\ KeptOver[q] <= overflow'[q] /\ Kept[k] <= x /\ x <= orphans'[k]
    BY <1>1, <1>6, <2>1
  <2>3. RecordsCover' /\ RecordsJustified'
    BY <1>8, <2>1, <2>2
  <2>4. /\ RecordsOf(q)' = KeptOf(q, n) \cup {k} /\ k \notin KeptOf(q, n)
        /\ \A p \in Principals \ {q} : RecordsOf(p)' = KeptOf(p, n)
    BY <1>1, <2>1, <2>2 DEF RecordsOf, KeptOf, q
  <2>5. /\ IsFiniteSet(RecordsOf(q)')
        /\ Cardinality(RecordsOf(q)') = Cardinality(KeptOf(q, n)) + 1
    <3>1. IsFiniteSet(KeptOf(q, n))
      BY <1>1, <1>7
    <3> HIDE DEF KeptOf
    <3> QED  BY <2>4, <3>1, FS_AddElement
  <2>6. orphansOf' \in [Principals -> Nat]
    BY <1>1, <1>7, <2>1
  <2>7. RecordsFinite'
    BY <1>7, <2>4, <2>5 DEF RecordsFinite
  <2>8. ASSUME NEW p \in Principals
        PROVE  orphansOf'[p] = Cardinality(RecordsOf(p)') /\ orphansOf'[p] <= MaxOrphansPerPrincipal
    <3>1. MaxOrphansPerPrincipal \in Nat /\ PrunedCount(n)[q] \in Nat
      BY <1>1, <1>7, AttributionAssumption
    <3>2. CASE p = q
      BY <3>1, <3>2, <1>1, <1>7, <2>1, <2>5
    <3>3. CASE p # q
      BY <3>3, <1>7, <2>1, <2>4
    <3> QED  BY <3>2, <3>3
  <2>9. QuotaExact'
    BY <2>8 DEF QuotaExact
  <2> QED  BY <1>4, <1>5, <2>2, <2>3, <2>6, <2>7, <2>9
<1>12. CASE RecordOverflow(k, n)
  <2>1. /\ orphans' = Kept /\ overflow' = [KeptOver EXCEPT ![q] = Later(KeptOver[q], x)]
        /\ orphansOf' = PrunedCount(n)
    BY <1>12 DEF RecordOverflow, x, q
  <2>2. /\ Later(KeptOver[q], x) \in {KeptOver[q], x}
        /\ KeptOver[q] <= Later(KeptOver[q], x) /\ x <= Later(KeptOver[q], x)
    BY <1>1, <1>6, LaterFacts
  <2>3. /\ orphans' \in [Keys -> Nat] /\ overflow' \in [Principals -> Nat]
        /\ \A p \in Principals \ {q} : overflow'[p] = KeptOver[p]
        /\ overflow'[q] = Later(KeptOver[q], x)
        /\ Kept[k] <= orphans'[k]
    BY <1>1, <1>6, <2>1, <2>2
  <2>4. RecordsCover' /\ RecordsJustified'
    BY <1>8, <2>1, <2>2, <2>3
  <2> QED  BY <1>4, <1>5, <1>7, <1>9, <2>1, <2>3, <2>4
<1> QED  BY <1>2, <1>10, <1>11, <1>12

-----------------------------------------------------------------------------
(* The inductive invariant *)

\* In the initial state there are no calls, no prompts and no records.
LEMMA InitIInv == Init => IInv
<1> SUFFICES ASSUME Init PROVE IInv
  OBVIOUS
<1>1. TypeOK /\ NoteNamesItsCall
  BY AttributionAssumption DEF Init, TypeOK, NoteNamesItsCall, IdleCall, IdlePrompt, InFlight
<1>2. EndedLive /\ RecordsCover /\ RecordsJustified
  BY AttributionAssumption DEF Init, EndedLive, RecordsCover, RecordsJustified
<1>3. \A p \in Principals : RecordsOf(p) = {}
  BY DEF Init, RecordsOf
<1>4. RecordsFinite /\ QuotaExact
  BY <1>3, FS_EmptySet, AttributionAssumption DEF Init, RecordsFinite, QuotaExact
<1> QED  BY <1>1, <1>2, <1>4 DEF IInv, RecordsInv

\* A step that leaves the clock, the records and the ended calls alone.
LEMMA RecordsUnchanged ==
  ASSUME RecordsInv, UNCHANGED <<now, records, ended>>
  PROVE  RecordsInv'
  BY DEF RecordsInv, EndedLive, RecordsCover, RecordsJustified, RecordsFinite, QuotaExact,
         RecordsOf, records

GoodCall(r, c) ==
  /\ r \in [stage : {"idle", "open", "ending"}, key : Keys \cup {NoKey}, at : Nat,
           note : Calls \cup {NoCall, "anonymous"}]
  /\ r.at <= now
  /\ r.stage # "idle" => r.key \in Keys
  /\ r.note \in {NoCall, "anonymous", c}

GoodPrompt(r) ==
  /\ r \in [stage : {"idle", "arrived", "pruned", "attributed", "unattributed", "noting"},
           cause : Keys \cup {NoKey}, at : Nat, target : Calls \cup {NoCall}]
  /\ r.at <= now

\* What the invariant says of calls and prompts, one by one.
LEMMA CallsAndPrompts ==
  ASSUME IInv
  PROVE  /\ now \in Nat
         /\ call \in [Calls -> {call[c] : c \in Calls}]
         /\ prompt \in [Prompts -> {prompt[h] : h \in Prompts}]
         /\ \A c \in Calls : GoodCall(call[c], c)
         /\ \A h \in Prompts : GoodPrompt(prompt[h])
<1>1. TypeOK /\ NoteNamesItsCall
  BY DEF IInv
<1>2. \A c \in Calls : GoodCall(call[c], c)
  BY <1>1 DEF TypeOK, NoteNamesItsCall, InFlight, GoodCall
<1>3. \A h \in Prompts : GoodPrompt(prompt[h])
  BY <1>1 DEF TypeOK, GoodPrompt
<1> QED  BY <1>1, <1>2, <1>3 DEF TypeOK

\* A step that leaves the records alone preserves the invariant if every call
\* and every prompt is a good one after it.
LEMMA QuietStep ==
  ASSUME IInv, UNCHANGED <<now, records, ended>>,
         call' = [c \in Calls |-> call'[c]],
         prompt' = [h \in Prompts |-> prompt'[h]],
         \A c \in Calls : GoodCall(call'[c], c),
         \A h \in Prompts : GoodPrompt(prompt'[h])
  PROVE  IInv'
<1>1. RecordsInv'
  BY RecordsUnchanged DEF IInv
<1>2. TypeOK
  BY DEF IInv
<1>3. TypeOK'
  BY <1>2 DEF TypeOK, InFlight, GoodCall, GoodPrompt, records
<1>4. NoteNamesItsCall'
  BY DEF NoteNamesItsCall, GoodCall
<1> QED  BY <1>1, <1>3, <1>4 DEF IInv

\* Every step of the specification preserves the inductive invariant.
LEMMA NextIInv == IInv /\ [Next]_vars => IInv'
<1> SUFFICES ASSUME IInv, [Next]_vars PROVE IInv'
  OBVIOUS
<1> USE DEF IInv
<1>1. CASE Tick
  <2>1. TypeOK' /\ NoteNamesItsCall'
    BY <1>1 DEF Tick, TypeOK, NoteNamesItsCall, InFlight, records
  <2>2. EndedLive'
    BY <1>1 DEF Tick, EndedLive
  <2>3. RecordsCover' /\ RecordsJustified'
    <3>1. /\ now \in Nat /\ now' = now + 1 /\ orphans' = orphans /\ overflow' = overflow
          /\ ended' = {e \in ended : now + 1 < e.expires}
          /\ ended \subseteq [key : Keys, expires : Nat]
          /\ orphans \in [Keys -> Nat] /\ overflow \in [Principals -> Nat]
      BY <1>1 DEF Tick, TypeOK, records
    <3>2. RecordsCover'
      BY <3>1 DEF RecordsInv, RecordsCover, EndedLive
    <3>3. RecordsJustified'
      BY <3>1 DEF RecordsInv, RecordsJustified
    <3> QED  BY <3>2, <3>3
  <2>4. RecordsFinite' /\ QuotaExact'
    BY <1>1 DEF Tick, RecordsInv, RecordsFinite, QuotaExact, RecordsOf, records
  <2> QED  BY <2>1, <2>2, <2>3, <2>4 DEF RecordsInv
<1>2. ASSUME NEW c \in Calls, NEW k \in Keys, Begin(c, k) PROVE IInv'
  <2> DEFINE r == [stage |-> "open", key |-> k, at |-> 0, note |-> NoCall]
  <2>2. call' = [call EXCEPT ![c] = r] /\ UNCHANGED <<now, prompt, records, ended>>
    BY <1>2 DEF Begin
  <2>3. GoodCall(r, c)
    BY CallsAndPrompts DEF GoodCall
  <2> HIDE DEF r
  <2> QED  BY <2>2, <2>3, CallsAndPrompts, QuietStep
<1>3. ASSUME NEW c \in Calls, Return(c) PROVE IInv'
  <2> DEFINE r == [call[c] EXCEPT !.stage = "ending", !.at = now]
  <2>1. /\ call[c].stage = "open" /\ UNCHANGED <<now, prompt, records, ended>>
        /\ call' = [call EXCEPT ![c] = r]
    BY <1>3, CallsAndPrompts DEF Return, GoodCall
  <2>2. GoodCall(r, c)
    <3>1. GoodCall(call[c], c) /\ now \in Nat /\ call[c].stage = "open"
      BY <2>1, CallsAndPrompts
    <3>2. r.stage = "ending" /\ r.at = now /\ r.key = call[c].key /\ r.note = call[c].note
      BY <3>1 DEF GoodCall
    <3>3. r \in [stage : {"idle", "open", "ending"}, key : Keys \cup {NoKey}, at : Nat,
                note : Calls \cup {NoCall, "anonymous"}]
      BY <3>1 DEF GoodCall
    <3> HIDE DEF r
    <3> QED  BY <3>1, <3>2, <3>3 DEF GoodCall
  <2> HIDE DEF r
  <2> QED  BY <2>1, <2>2, CallsAndPrompts, QuietStep
<1>4. ASSUME NEW c \in Calls, End(c) PROVE IInv'
  <2>1. /\ RecordsInv' /\ orphans' \in [Keys -> Nat] /\ orphansOf' \in [Principals -> Nat]
        /\ overflow' \in [Principals -> Nat] /\ ended' \subseteq [key : Keys, expires : Nat]
    BY <1>4, EndStep
  <2>2. /\ call' = [call EXCEPT ![c] = IdleCall] /\ now' = now /\ prompt' = prompt
    BY <1>4 DEF End
  <2>3. TypeOK' /\ NoteNamesItsCall'
    BY <2>1, <2>2 DEF TypeOK, NoteNamesItsCall, InFlight, IdleCall
  <2> QED  BY <2>1, <2>3
<1>5. ASSUME NEW h \in Prompts, NEW k \in Keys, PromptArrives(h, k) PROVE IInv'
  <2>1. TypeOK' /\ NoteNamesItsCall'
    BY <1>5 DEF PromptArrives, TypeOK, NoteNamesItsCall, InFlight, records
  <2> QED  BY <1>5, <2>1, RecordsUnchanged DEF PromptArrives
<1>6. ASSUME NEW h \in Prompts, PromptPrunes(h) PROVE IInv'
  <2>1. prompt[h].at \in Nat /\ prompt[h].at <= now
    BY DEF TypeOK
  <2>2. RecordsInv'
    BY <1>6, <2>1, PruneStep DEF PromptPrunes
  <2>3. /\ orphans' \in [Keys -> Nat] /\ overflow' \in [Principals -> Nat]
        /\ orphansOf' \in [Principals -> Nat]
    BY <1>6, <2>1, UnexpiredFacts, PrunedCountExact DEF PromptPrunes, TypeOK, RecordsInv
  <2> DEFINE R == [stage : {"idle", "arrived", "pruned", "attributed", "unattributed", "noting"},
                   cause : Keys \cup {NoKey}, at : Nat, target : Calls \cup {NoCall}]
  <2>4. /\ UNCHANGED <<now, call, ended>>
        /\ prompt' = [prompt EXCEPT ![h].stage = "pruned"]
    BY <1>6 DEF PromptPrunes
  <2>5. prompt \in [Prompts -> R] /\ \A g \in Prompts : prompt[g].at <= now
    BY DEF TypeOK
  <2>6. prompt' \in [Prompts -> R] /\ \A g \in Prompts : prompt'[g].at = prompt[g].at
    BY <2>4, <2>5
  <2> HIDE DEF R
  <2>7. \A g \in Prompts : prompt'[g].at <= now'
    BY <2>4, <2>5, <2>6
  <2>8. TypeOK' /\ NoteNamesItsCall'
    BY <2>3, <2>4, <2>6, <2>7 DEF TypeOK, NoteNamesItsCall, InFlight, R
  <2> QED  BY <2>2, <2>8
<1>7. ASSUME NEW h \in Prompts, Attribute(h) PROVE IInv'
  <2> DEFINE Found(stage, f) == [prompt[h] EXCEPT !.stage = stage, !.target = f]
  <2>1. /\ UNCHANGED <<now, call, records, ended>>
        /\ \E stage \in {"attributed", "unattributed", "noting"}, f \in Calls \cup {NoCall} :
             prompt' = [prompt EXCEPT ![h] = Found(stage, f)]
    BY <1>7 DEF Attribute
  <2>2. \A stage \in {"attributed", "unattributed", "noting"}, f \in Calls \cup {NoCall} :
          GoodPrompt(Found(stage, f))
    <3>1. GoodPrompt(prompt[h])
      BY CallsAndPrompts
    <3> QED  BY <3>1 DEF GoodPrompt
  <2> HIDE DEF Found
  <2> QED  BY <2>1, <2>2, CallsAndPrompts, QuietStep
<1>8. ASSUME NEW h \in Prompts, RefuseUnattributed(h) PROVE IInv'
  <2> DEFINE Noted(d) == [call[d] EXCEPT !.note = "anonymous"]
  <2>1. /\ UNCHANGED <<now, records, ended>> /\ prompt' = [prompt EXCEPT ![h] = IdlePrompt]
        /\ call' = [d \in Calls |-> IF d \in InFlight /\ call[d].note = NoCall
                                    THEN Noted(d) ELSE call[d]]
    BY <1>8 DEF RefuseUnattributed
  <2>2. \A d \in Calls : GoodCall(Noted(d), d)
    BY CallsAndPrompts DEF GoodCall
  <2>3. GoodPrompt(IdlePrompt)
    BY CallsAndPrompts DEF GoodPrompt, IdlePrompt
  <2> HIDE DEF Noted
  <2> QED  BY <2>1, <2>2, <2>3, CallsAndPrompts, QuietStep
<1>9. ASSUME NEW h \in Prompts, RefuseAsNote(h) PROVE IInv'
  <2> DEFINE Noted(d) == [call[d] EXCEPT !.note = d]
  <2>1. /\ UNCHANGED <<now, records, ended>> /\ prompt' = [prompt EXCEPT ![h] = IdlePrompt]
        /\ \/ call' = call
           \/ \E f \in Calls : call' = [call EXCEPT ![f] = Noted(f)]
    BY <1>9 DEF RefuseAsNote, InFlight
  <2>2. \A d \in Calls : GoodCall(Noted(d), d)
    BY CallsAndPrompts DEF GoodCall
  <2>3. GoodPrompt(IdlePrompt)
    BY CallsAndPrompts DEF GoodPrompt, IdlePrompt
  <2> HIDE DEF Noted
  <2> QED  BY <2>1, <2>2, <2>3, CallsAndPrompts, QuietStep
<1>10. ASSUME NEW h \in Prompts, PromptDone(h) PROVE IInv'
  <2>1. TypeOK' /\ NoteNamesItsCall'
    BY <1>10 DEF PromptDone, TypeOK, NoteNamesItsCall, InFlight, IdlePrompt, records
  <2> QED  BY <1>10, <2>1, RecordsUnchanged DEF PromptDone
<1>11. CASE UNCHANGED vars
  <2>1. TypeOK' /\ NoteNamesItsCall'
    BY <1>11 DEF vars, TypeOK, NoteNamesItsCall, InFlight, records
  <2> QED  BY <1>11, <2>1, RecordsUnchanged DEF vars, records
<1> QED
  BY <1>1, <1>2, <1>3, <1>4, <1>5, <1>6, <1>7, <1>8, <1>9, <1>10, <1>11 DEF Next

\* The invariant all the theorems below follow from.
THEOREM AttributionInductive == Spec => []IInv
<1>1. Init => IInv
  BY InitIInv
<1>2. IInv /\ [Next]_vars => IInv'
  BY NextIInv
<1> QED  BY <1>1, <1>2, PTL DEF Spec

-----------------------------------------------------------------------------
(* Theorems *)

\* end and pruneOrphans fail closed: every call that ended less than the TTL
\* ago is remembered until its TTL is over, for any quota and any clock.
THEOREM NoEndedCallForgotten == Spec => []RecordsCover
<1>1. IInv => RecordsCover
  BY DEF IInv, RecordsInv
<1> QED  BY <1>1, AttributionInductive, PTL

\* No record, the overflow record included, outlasts the ended calls of the
\* principal it stands for.
THEOREM NoRecordOutlives == Spec => []RecordsJustified
<1>1. IInv => RecordsJustified
  BY DEF IInv, RecordsInv
<1> QED  BY <1>1, AttributionInductive, PTL

\* orphansOf counts a principal's records exactly and stays within the quota.
THEOREM QuotaIsExact == Spec => []QuotaExact
<1>1. IInv => QuotaExact
  BY DEF IInv, RecordsInv
<1> QED  BY <1>1, AttributionInductive, PTL

\* attribute: a prompt is put to a call only of the session the upstream asks
\* for, while that session's call is in flight or within its TTL.
THEOREM PromptIsAttributedRight == Spec => PromptReachesItsSession
<1> DEFINE Right ==
      \A h \in Prompts :
        (prompt[h].stage = "pruned" /\ prompt'[h].stage = "attributed"
           /\ prompt[h].cause \in Working)
          => call[prompt'[h].target].key = prompt[h].cause
<1>1. IInv /\ [Next]_vars => [Right]_vars
  <2> SUFFICES ASSUME IInv, Next, NEW h \in Prompts,
                      prompt[h].stage = "pruned", prompt'[h].stage = "attributed",
                      prompt[h].cause \in Working
               PROVE  call[prompt'[h].target].key = prompt[h].cause
    OBVIOUS
  <2>1. TypeOK
    BY DEF IInv
  <2>2. Attribute(h)
    <3>1. \A c \in Calls : ~Return(c) /\ ~End(c) /\ \A k \in Keys : ~Begin(c, k)
      BY DEF Begin, Return, End
    <3>2. ~Tick
      BY DEF Tick
    <3>3. ASSUME NEW g \in Prompts, NEW k \in Keys, PromptArrives(g, k) PROVE FALSE
      BY <3>3, <2>1 DEF PromptArrives, TypeOK
    <3>4. ASSUME NEW g \in Prompts,
                 PromptPrunes(g) \/ RefuseUnattributed(g) \/ RefuseAsNote(g) \/ PromptDone(g)
          PROVE  FALSE
      BY <3>4, <2>1
         DEF PromptPrunes, RefuseUnattributed, RefuseAsNote, PromptDone, TypeOK, IdlePrompt
    <3>5. ASSUME NEW g \in Prompts, Attribute(g) PROVE g = h
      BY <3>5, <2>1 DEF Attribute, TypeOK
    <3> QED  BY <3>1, <3>2, <3>3, <3>4, <3>5 DEF Next
  <2> DEFINE n == prompt[h].at
  <2>3. PICK f \in Calls : /\ InFlight = {f} /\ prompt'[h].target = f
                           /\ ~EndedElsewhere(call[f].key, n)
    <3> DEFINE Found(stage, f) ==
                 prompt' = [prompt EXCEPT ![h] = [@ EXCEPT !.stage = stage, !.target = f]]
    <3>1. \A stage, f : Found(stage, f) => prompt'[h].stage = stage /\ prompt'[h].target = f
      BY <2>1 DEF TypeOK
    <3> HIDE DEF Found
    <3>2. ~Found("unattributed", NoCall) /\ \A f \in Calls : ~Found("noting", f)
      BY <3>1
    <3> QED  BY <2>2, <3>1, <3>2 DEF Attribute, Found
  <2>4. CASE \E c \in InFlight : prompt[h].cause = call[c].key
    BY <2>3, <2>4
  <2>5. CASE \E e \in ended : prompt[h].cause = e.key
    <3>1. PICK e \in ended : prompt[h].cause = e.key
      BY <2>5
    <3>2. /\ now < e.expires
          /\ e.expires <= orphans[e.key] \/ e.expires <= overflow[PrincipalOf[e.key]]
      BY DEF IInv, RecordsInv, EndedLive, RecordsCover
    <3>3. /\ e.key \in Keys /\ e.expires \in Nat /\ PrincipalOf[e.key] \in Principals
          /\ now \in Nat /\ n \in Nat /\ n <= now
          /\ orphans[e.key] \in Nat /\ overflow[PrincipalOf[e.key]] \in Nat
      BY <2>1, AttributionAssumption DEF TypeOK
    <3>4. n < orphans[e.key] \/ n < overflow[PrincipalOf[e.key]]
      BY <3>2, <3>3
    <3> QED  BY <2>3, <3>1, <3>3, <3>4 DEF EndedElsewhere
  <2> QED  BY <2>4, <2>5 DEF Working
<1> QED  BY <1>1, AttributionInductive, PTL DEF Spec, PromptReachesItsSession
=============================================================================
