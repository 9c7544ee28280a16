----------------------------- MODULE MCDispatch -----------------------------
(***************************************************************************)
(* Dispatch with three devices, a cap of two devices and room for one      *)
(* remembered name, so that max_devices, repeats and names counted past    *)
(* the cap all occur.  Two sessions of one principal share its count.      *)
(***************************************************************************)
EXTENDS Dispatch, TLC

CONSTANTS c1, c2

MCDevices == {"d1", "d2", "d3"}

MCInventory == [d \in MCDevices |-> [role |-> "edge", tags |-> {}]]

MCSplitCommas ==
  [t \in MCDevices \cup {"d1,d2"} |-> IF t = "d1,d2" THEN <<"d1", "d2">> ELSE <<t>>]

MCCommandClass(t) == IF t = "show" THEN "READ_OPERATIONAL" ELSE "EXEC_ARBITRARY"

MCBadConfig(t, format) == FALSE

MCDataFormats == [t \in {} |-> {}]

MCProfiles ==
  "eos" :> (<<"ping">> :>
    [class |-> "READ_OPERATIONAL", neverDowngrade |-> FALSE, targetParams |-> {},
     targetsParams |-> {"hosts"}, groupParams |-> {}, commandParams |-> {},
     configParams |-> {}, args |-> {}, capabilityParam |-> NoParam,
     capabilities |-> [c \in {} |-> {}], junosLoad |-> FALSE])

MCPolicy ==
  [loaded |-> TRUE, unknownTarget |-> "deny", maxDevices |-> 2, maxPending |-> 0,
   rules |-> <<[id |-> "reads", effect |-> "allow", class |-> {"READ_OPERATIONAL"},
                servers |-> {}, tools |-> {}, deviceRoles |-> {}, deviceTags |-> {},
                targetsCount |-> {}, obligations |-> {}]>>]

Ping(hosts) ==
  [server |-> "eos", tool |-> <<"ping">>, parse |-> "",
   args |-> "hosts" :> [kind |-> "string", items |-> <<hosts>>],
   readOnlyHint |-> "absent", destructiveHint |-> "absent", pendingHolds |-> 0]

Req(principal, session, hosts) ==
  [in |-> Ping(hosts), principal |-> principal, session |-> session,
   tooLarge |-> FALSE, badState |-> FALSE]

MCRequests ==
  {Req("p1", "s1", "d1,d2"), Req("p1", "s2", "d3"), Req("p2", "s3", "d3"),
   [Req("p1", "s1", "d1") EXCEPT !.tooLarge = TRUE],
   [Req("p1", "s1", "d1") EXCEPT !.badState = TRUE]}
=============================================================================
