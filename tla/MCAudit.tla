------------------------------- MODULE MCAudit -------------------------------
(***************************************************************************)
(* The audit commands and the log: keygen runs first, twice at once; the   *)
(* log is written with the key it made.  The two share nothing else, so    *)
(* the log is started from one of the ways the keygens can end.            *)
(***************************************************************************)
EXTENDS AuditLog, KeyPair

KeyPairMade ==
  \E k \in Keygens : keygen = [j \in Keygens |-> IF j = k THEN "done" ELSE "failed"]

AuditInit == Init /\ KeyInit

AuditNext ==
  \/ KeyNext /\ UNCHANGED vars
  \/ Next /\ KeyPairMade /\ UNCHANGED keyVars

AuditSpec == AuditInit /\ [][AuditNext]_<<vars, keyVars>>
=============================================================================
