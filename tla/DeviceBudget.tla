---------------------------- MODULE DeviceBudget ----------------------------
(***************************************************************************)
(* What defaults.session.max_devices promises of a proxy, whatever calls   *)
(* run at once: each principal is granted devices, never more than         *)
(* MaxDevices of them (0 is no cap), and reaches only devices it was       *)
(* granted.                                                                *)
(***************************************************************************)
EXTENDS Integers, FiniteSets

CONSTANTS Principals, Devices, MaxDevices

VARIABLES granted, reached

budgetVars == <<granted, reached>>

Within(T) == MaxDevices > 0 => Cardinality(T) <= MaxDevices

BudgetInit ==
  /\ granted = [p \in Principals |-> {}]
  /\ reached = [p \in Principals |-> {}]

\* One decision to forward a call that names the devices T.
Grant(p, T) ==
  /\ Within(granted[p] \cup T)
  /\ granted' = [granted EXCEPT ![p] = @ \cup T]
  /\ UNCHANGED reached

\* A call for the devices T reaches its upstream.
Reached(p, T) ==
  /\ T \subseteq granted[p]
  /\ reached' = [reached EXCEPT ![p] = @ \cup T]
  /\ UNCHANGED granted

BudgetNext ==
  \E p \in Principals, T \in SUBSET Devices : Grant(p, T) \/ Reached(p, T)

BudgetSpec == BudgetInit /\ [][BudgetNext]_budgetVars
=============================================================================
