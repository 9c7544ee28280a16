----------------------------- MODULE Attribution -----------------------------
(***************************************************************************)
(* internal/proxy/input.go: to which call a stateful upstream's            *)
(* elicitation/create is put.  The request names no call.  It is relayed   *)
(* only if one call is in flight on the upstream and every call that ended *)
(* less than the orphan TTL ago was of the same agent session; so the      *)
(* upstream remembers the calls that end, a bounded number of them for     *)
(* each principal, and one overflow record for the rest.                   *)
(*                                                                         *)
(* One upstream.  Calls and prompts each run on a goroutine of their own;  *)
(* an action is one critical section of upstream.mu.  The clock is read    *)
(* before the mutex is taken, so a reading may be old when it is used.     *)
(* A record is the time at which it expires, 0 if there is none.           *)
(*                                                                         *)
(* A call is idle, open (in the in-flight set), or ending: forward has     *)
(* returned and has read the clock.  A prompt is idle, "arrived",          *)
(* "pruned", "attributed" to target, "unattributed", or "noting" (it is    *)
(* refused in the words of target alone).                                  *)
(***************************************************************************)
EXTENDS Integers, FiniteSets

CONSTANTS
  Calls,            \* calls in flight at once; an id is used again
  Prompts,          \* upstream prompts handled at once
  SessionKeys,      \* agentSessionKey of sessions: many calls share one
  RequestKeys,      \* keys made up for one call only (requestKey)
  Principals,
  PrincipalOf,      \* key -> its principal
  Promptable,       \* sessions that can be shown a prompt (promptable)
  OrphanTTL, MaxOrphansPerPrincipal,
  MaxTime,          \* bound: the clock stops here
  NoKey, NoCall

Keys == SessionKeys \cup RequestKeys

ASSUME AttributionAssumption ==
  /\ OrphanTTL \in Nat \ {0}
  /\ MaxOrphansPerPrincipal \in Nat
  /\ MaxTime \in Nat
  /\ PrincipalOf \in [Keys -> Principals]
  /\ Promptable \subseteq SessionKeys
  /\ NoKey \notin Keys /\ NoCall \notin Calls

VARIABLES
  now,        \* the clock
  call,       \* call -> [stage, key, at, note]; at is the reading it ends with
  prompt,     \* prompt -> [stage, cause, at, target]; cause is the session the
              \*           upstream is asking for, which fathomgate is not told
  orphans,    \* key -> expiry of its record
  orphansOf,  \* principal -> records it has
  overflow,   \* principal -> expiry of its overflow record
  ended       \* history: [key, expires] of the ended calls not yet expired

vars == <<now, call, prompt, orphans, orphansOf, overflow, ended>>

records == <<orphans, orphansOf, overflow>>

IdleCall == [stage |-> "idle", key |-> NoKey, at |-> 0, note |-> NoCall]

IdlePrompt == [stage |-> "idle", cause |-> NoKey, at |-> 0, target |-> NoCall]

Init ==
  /\ now = 0
  /\ call = [c \in Calls |-> IdleCall]
  /\ prompt = [h \in Prompts |-> IdlePrompt]
  /\ orphans = [k \in Keys |-> 0]
  /\ orphansOf = [p \in Principals |-> 0]
  /\ overflow = [p \in Principals |-> 0]
  /\ ended = {}

InFlight == {c \in Calls : call[c].stage # "idle"}

\* The sessions the upstream may still be working for.
Working == {call[c].key : c \in InFlight} \cup {e.key : e \in ended}

-----------------------------------------------------------------------------
(* Calls *)

\* begin, with the key agentSessionKey found for the call.
Begin(c, k) ==
  /\ call[c].stage = "idle"
  /\ \A h \in Prompts : prompt[h].target # c
  /\ k \in RequestKeys => k \notin Working /\ \A h \in Prompts : prompt[h].cause # k
  /\ call' = [call EXCEPT ![c] = [stage |-> "open", key |-> k, at |-> 0, note |-> NoCall]]
  /\ UNCHANGED <<now, prompt, records, ended>>

\* forward returns and its deferred function reads the clock.
Return(c) ==
  /\ call[c].stage = "open"
  /\ call' = [call EXCEPT ![c] = [@ EXCEPT !.stage = "ending", !.at = now]]
  /\ UNCHANGED <<now, prompt, records, ended>>

\* pruneOrphans: the tables without what has expired by n.
Unexpired(table, n) == [x \in DOMAIN table |-> IF n < table[x] THEN table[x] ELSE 0]

Expired(p, n) ==
  {k \in Keys : PrincipalOf[k] = p /\ orphans[k] # 0 /\ ~(n < orphans[k])}

PrunedCount(n) ==
  [p \in Principals |-> LET left == orphansOf[p] - Cardinality(Expired(p, n))
                        IN IF left > 0 THEN left ELSE 0]

Later(a, b) == IF a > b THEN a ELSE b

\* Mutant: a second ended call of a session leaves its record as it is.
RecordOnce(k, n) ==
  LET kept == Unexpired(orphans, n)
  IN /\ kept[k] # 0
     /\ orphans' = kept
     /\ orphansOf' = PrunedCount(n)
     /\ overflow' = Unexpired(overflow, n)

\* end, for a session that has a record already.
RecordAgain(k, n) ==
  LET kept == Unexpired(orphans, n)
  IN /\ kept[k] # 0
     /\ orphans' = [kept EXCEPT ![k] = Later(@, n + OrphanTTL)]
     /\ orphansOf' = PrunedCount(n)
     /\ overflow' = Unexpired(overflow, n)

RecordNew(k, n) ==
  /\ Unexpired(orphans, n)[k] = 0
  /\ PrunedCount(n)[PrincipalOf[k]] < MaxOrphansPerPrincipal
  /\ orphans' = [Unexpired(orphans, n) EXCEPT ![k] = n + OrphanTTL]
  /\ orphansOf' = [PrunedCount(n) EXCEPT ![PrincipalOf[k]] = @ + 1]
  /\ overflow' = Unexpired(overflow, n)

\* Past its quota, the principal's overflow record stands for the call.
RecordOverflow(k, n) ==
  /\ Unexpired(orphans, n)[k] = 0
  /\ ~(PrunedCount(n)[PrincipalOf[k]] < MaxOrphansPerPrincipal)
  /\ orphans' = Unexpired(orphans, n)
  /\ orphansOf' = PrunedCount(n)
  /\ overflow' = [Unexpired(overflow, n) EXCEPT ![PrincipalOf[k]] = Later(@, n + OrphanTTL)]

\* end: the call leaves the in-flight set and is remembered in one step.
End(c) ==
  LET k == call[c].key
      n == call[c].at
  IN /\ call[c].stage = "ending"
     /\ RecordAgain(k, n) \/ RecordNew(k, n) \/ RecordOverflow(k, n)
     /\ ended' = {e \in ended \cup {[key |-> k, expires |-> n + OrphanTTL]} : now < e.expires}
     /\ call' = [call EXCEPT ![c] = IdleCall]
     /\ UNCHANGED <<now, prompt>>

-----------------------------------------------------------------------------
(* upstreamElicitation *)

\* The upstream asks on behalf of a session it works for; the handler reads
\* the clock.
PromptArrives(h, k) ==
  /\ prompt[h].stage = "idle" /\ k \in Working
  /\ prompt' = [prompt EXCEPT ![h] = [stage |-> "arrived", cause |-> k, at |-> now,
                                      target |-> NoCall]]
  /\ UNCHANGED <<now, call, records, ended>>

PromptPrunes(h) ==
  /\ prompt[h].stage = "arrived"
  /\ orphans' = Unexpired(orphans, prompt[h].at)
  /\ orphansOf' = PrunedCount(prompt[h].at)
  /\ overflow' = Unexpired(overflow, prompt[h].at)
  /\ prompt' = [prompt EXCEPT ![h].stage = "pruned"]
  /\ UNCHANGED <<now, call, ended>>

\* Mutant: a principal's overflow does not block its own sessions.
EndedElsewhereKeyed(k, n) ==
  \/ \E j \in Keys \ {k} : n < orphans[j]
  \/ \E p \in Principals \ {PrincipalOf[k]} : n < overflow[p]

\* Another session's call has ended and its record is live, as read at n.
EndedElsewhere(k, n) ==
  \/ \E j \in Keys \ {k} : n < orphans[j]
  \/ \E p \in Principals : n < overflow[p]

\* attribute.  A sole call that the ended calls of others keep from being
\* asked, and that could not be shown a prompt anyway, is told so.
Attribute(h) ==
  LET Foreign(f) == EndedElsewhere(call[f].key, prompt[h].at)
      Found(stage, f) == prompt' = [prompt EXCEPT ![h] = [@ EXCEPT !.stage = stage, !.target = f]]
  IN /\ prompt[h].stage = "pruned"
     /\ \/ (\A f \in Calls : InFlight # {f}) /\ Found("unattributed", NoCall)
        \/ \E f \in Calls :
             /\ InFlight = {f}
             /\ \/ ~Foreign(f) /\ Found("attributed", f)
                \/ Foreign(f) /\ call[f].key \in Promptable /\ Found("unattributed", NoCall)
                \/ Foreign(f) /\ call[f].key \notin Promptable /\ Found("noting", f)
     /\ UNCHANGED <<now, call, records, ended>>

\* refuseUnattributed: a note that names no tool, for every call in flight by
\* now that has none.
RefuseUnattributed(h) ==
  /\ prompt[h].stage = "unattributed"
  /\ call' = [c \in Calls |-> IF c \in InFlight /\ call[c].note = NoCall
                              THEN [call[c] EXCEPT !.note = "anonymous"] ELSE call[c]]
  /\ prompt' = [prompt EXCEPT ![h] = IdlePrompt]
  /\ UNCHANGED <<now, records, ended>>

\* refuseAsNote: a note that names target's tool, for target alone.
RefuseAsNote(h) ==
  LET f == prompt[h].target
  IN /\ prompt[h].stage = "noting"
     /\ call' = IF f \in InFlight /\ call[f].note = NoCall
                THEN [call EXCEPT ![f].note = f] ELSE call
     /\ prompt' = [prompt EXCEPT ![h] = IdlePrompt]
     /\ UNCHANGED <<now, records, ended>>

\* An attributed prompt is refused or put to target's agent, and done.
PromptDone(h) ==
  /\ prompt[h].stage = "attributed"
  /\ prompt' = [prompt EXCEPT ![h] = IdlePrompt]
  /\ UNCHANGED <<now, call, records, ended>>

-----------------------------------------------------------------------------
Tick ==
  /\ now < MaxTime
  /\ now' = now + 1
  /\ ended' = {e \in ended : now + 1 < e.expires}
  /\ UNCHANGED <<call, prompt, records>>

Next ==
  \/ Tick
  \/ \E c \in Calls : Return(c) \/ End(c) \/ \E k \in Keys : Begin(c, k)
  \/ \E h \in Prompts :
       \/ \E k \in Keys : PromptArrives(h, k)
       \/ PromptPrunes(h) \/ Attribute(h) \/ RefuseUnattributed(h) \/ RefuseAsNote(h)
       \/ PromptDone(h)

Spec == Init /\ [][Next]_vars

-----------------------------------------------------------------------------
(* Properties *)

\* Every variable has its type, and no reading of the clock is from the future.
TypeOK ==
  /\ now \in Nat
  /\ call \in [Calls -> [stage : {"idle", "open", "ending"}, key : Keys \cup {NoKey},
                         at : Nat, note : Calls \cup {NoCall, "anonymous"}]]
  /\ \A c \in Calls : call[c].at <= now /\ (c \in InFlight => call[c].key \in Keys)
  /\ prompt \in [Prompts -> [stage : {"idle", "arrived", "pruned", "attributed",
                                      "unattributed", "noting"},
                             cause : Keys \cup {NoKey}, at : Nat, target : Calls \cup {NoCall}]]
  /\ \A h \in Prompts : prompt[h].at <= now
  /\ orphans \in [Keys -> Nat]
  /\ orphansOf \in [Principals -> Nat]
  /\ overflow \in [Principals -> Nat]
  /\ ended \subseteq [key : Keys, expires : Nat]

\* end and pruneOrphans never fail open: every call that ended less than the
\* TTL ago is remembered at least as long as that, under its own session or,
\* past the quota, in its principal's overflow record, whoever pruned the
\* tables and with however old a reading.
RecordsCover ==
  \A e \in ended : now < e.expires =>
    e.expires <= orphans[e.key] \/ e.expires <= overflow[PrincipalOf[e.key]]

\* A record blocks no longer than the ended calls it stands for would: a
\* principal's volume gives it no reach over others (end's comment, T0.44).
RecordsJustified ==
  /\ \A k \in Keys : now < orphans[k] =>
       \E e \in ended : e.key = k /\ e.expires = orphans[k]
  /\ \A p \in Principals : now < overflow[p] =>
       \E e \in ended : PrincipalOf[e.key] = p /\ e.expires = overflow[p]

RecordsOf(p) == {k \in Keys : PrincipalOf[k] = p /\ orphans[k] # 0}

\* maxOrphansPerPrincipal: orphansOf is the exact number of a principal's
\* records over every end and prune, and stays within the quota.
QuotaExact ==
  \A p \in Principals :
    /\ orphansOf[p] = Cardinality(RecordsOf(p))
    /\ orphansOf[p] <= MaxOrphansPerPrincipal

\* A prompt the upstream sends for one agent session is never put to another
\* session's human, nor refused in its name, while the call it is about is in
\* flight or ended less than the orphan TTL ago (attribute; H1, J1).
PromptReachesItsSession ==
  [][\A h \in Prompts :
       (prompt[h].stage = "pruned" /\ prompt'[h].stage = "attributed"
          /\ prompt[h].cause \in Working)
         => call[prompt'[h].target].key = prompt[h].cause]_vars

\* A refusal whose text names a call's tool is told to that call only, also if
\* calls of other sessions have begun since (refuseAsNote, S3).
NoteNamesItsCall ==
  \A c \in Calls : call[c].note \in {NoCall, "anonymous", c}

RecordsFinite == \A p \in Principals : IsFiniteSet(RecordsOf(p))

EndedLive == \A e \in ended : now < e.expires

RecordsInv ==
  /\ EndedLive
  /\ RecordsCover
  /\ RecordsJustified
  /\ RecordsFinite
  /\ QuotaExact

\* The upstream's memory of calls is exact (begin, end, pruneOrphans,
\* refuseAsNote): nothing recorded is lost early, kept late, miscounted or told
\* to the wrong call, whatever reading of the clock a goroutine acts on.
IInv == TypeOK /\ RecordsInv /\ NoteNamesItsCall
=============================================================================
