--------------------------- MODULE MCCapabilityState ---------------------------
(***************************************************************************)
(* Instances of CapabilityState for TLC: "identity" with no dependencies   *)
(* and "users", which needs identity at any of the two versions.           *)
(***************************************************************************)
EXTENDS CapabilityState, TLC

CONSTANTS identity, users

MCRequires == {[cap |-> users, dep |-> identity, versions |-> 1..MaxVersion]}
NoRequires == {}

Symmetry == Permutations(Commands)
=============================================================================
