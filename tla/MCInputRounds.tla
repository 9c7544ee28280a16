---------------------------- MODULE MCInputRounds ----------------------------
(***************************************************************************)
(* Three agents of one upstream: a stateless and a stateful client of one  *)
(* principal, which may present each other's states, and a stateless       *)
(* client of another.  Two spellings of one set of arguments and another.  *)
(***************************************************************************)
EXTENDS InputRounds

MCBinding == [a \in Agents |-> IF a = "other" THEN "http/q" ELSE "http/p"]

MCDigest == [g \in Args |-> IF g = "spaced" THEN "plain" ELSE g]
=============================================================================
