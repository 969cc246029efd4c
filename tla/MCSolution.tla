------------------------------ MODULE MCSolution ------------------------------
(***************************************************************************)
(* Instances of BehaviorProof for TLC: a solution of three constituents,   *)
(* one of which needs another.                                             *)
(***************************************************************************)
EXTENDS BehaviorProof, TLC

CONSTANTS p, q, audit, identity, tasks, unit, whole

MCOrder == <<audit, identity, tasks>>
MCNeeds == audit :> {} @@ identity :> {} @@ tasks :> {audit}
MCSubject == unit :> {audit} @@ whole :> {audit, identity, tasks}

Site(first, second, guided, n, updates, tests, time) ==
    [does |-> (p :> first @@ q :> second), guided |-> guided, edits |-> n,
     updates |-> updates, tests |-> tests, lasts |-> time]
\* Somebody follows the advice of status while another terminal goes on by
\* itself; a solution next to single installations and the doctor; single
\* installations next to a solution; a test of a constituent while the others
\* are installed; a test of the whole solution and edits.
MCSites ==
    {Site(Advancing, {"continue"}, {p}, 1, {identity}, {}, 0),
     Site({"continue", "finalize"}, {"add", "doctor"}, {}, 1, {}, {}, 0),
     Site({"add", "add-finalize"}, {"continue"}, {}, 1, {tasks}, {}, 0),
     Site({"continue", "finalize"}, {}, {}, 0, {}, {unit}, 1),
     Site({"continue", "finalize"}, {}, {}, 1, {}, {whole}, 2)}
=============================================================================
