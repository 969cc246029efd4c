---------------------------- MODULE MCRegistryClient ----------------------------
(***************************************************************************)
(* Instances of RegistryClient for TLC: one capability, two versions, two  *)
(* equivocating indexes of sequence 1 that share their version 1, and an   *)
(* index of sequence 2 that publishes another bundle as version 1.         *)
(***************************************************************************)
EXTENDS RegistryClient, TLC

CONSTANTS identity, b1, b2, b3

Release(v, b) == [cap |-> identity, version |-> v, bundle |-> b]

MCSigned ==
    {[sequence |-> 1, entries |-> {Release(1, b1)}],
     [sequence |-> 1, entries |-> {Release(1, b1), Release(2, b3)}],
     [sequence |-> 2, entries |-> {Release(1, b2), Release(2, b3)}]}

Symmetry == Permutations(Commands)
=============================================================================
