---------------------------- MODULE MCRegistryServer ----------------------------
(***************************************************************************)
(* Instances of RegistryServer for TLC.  Slot 1 has two conflicting        *)
(* bundles, slot 2, of another capability, has one.                        *)
(***************************************************************************)
EXTENDS RegistryServer, TLC

CONSTANTS p, q, d1, d2, e1

MCCandidates == {[slot |-> 1, digest |-> d1],
                 [slot |-> 1, digest |-> d2],
                 [slot |-> 2, digest |-> e1]}

MCCapabilityOf == 1 :> 1 @@ 2 :> 2

Site(first, second, served, n, last) ==
    [does |-> (p :> first @@ q :> second), served |-> served, kills |-> n, last |-> last]

\* Two publishers; two that also collect, one of which imports; a publisher next
\* to retention and backup; a server next to a publisher.
MCSites ==
    {Site({"import", "index"}, {"import", "index"}, FALSE, 1, 2),
     Site({"import", "index", "gc"}, {"index", "gc"}, FALSE, 0, 2),
     Site({"import", "index"}, {"gc", "backup", "restore"}, FALSE, 1, 2),
     Site({"index", "gc"}, {"import"}, TRUE, 0, 2)}

\* A publisher that also collects, next to another one.
MCOverlap == {Site({"import", "index", "gc"}, {"index"}, FALSE, 0, 2)}
=============================================================================
