------------------------------ MODULE MCGovernance ------------------------------
(***************************************************************************)
(* Instances of Governance for TLC: alice has two keys and bob has one; a  *)
(* policy that asks for one approval, or two for an upgrade with conflicts,*)
(* and one that always asks for two, lets approvals live shorter and does  *)
(* not trust the second key of alice.                                      *)
(***************************************************************************)
EXTENDS Governance, TLC

CONSTANTS alice, bob, codex, k1, k2, b1, b2, b3

MCPolicies ==
    {[trusted |-> {<<alice, k1>>, <<alice, k2>>, <<bob, k1>>},
      votes |-> 1, conflictVotes |-> 2, ttl |-> 2, noSelf |-> TRUE],
     [trusted |-> {<<alice, k1>>, <<bob, k1>>}, votes |-> 2, conflictVotes |-> 2,
      ttl |-> 1, noSelf |-> FALSE]}
=============================================================================
