------------------------------- MODULE RegistryLog -------------------------------
(***************************************************************************)
(* What a registry promises to those who install from it: a log of         *)
(* signed indexes.  A sequence names one index, each index lists all       *)
(* that the earlier ones list, and an index can be installed from until    *)
(* there are enough later ones.  The promise ends when commands that       *)
(* publish overlap.                                                        *)
(***************************************************************************)
EXTENDS Naturals, FiniteSets

CONSTANTS
    Sequences,
    Slots,
    Listings,     \* what an index may list: a digest or None for every slot
    KeepIndexes,
    None

VARIABLES
    log,      \* the index of every sequence that was ever published, or None
    offered,  \* the sequences whose index and bundles can be fetched
    ordered   \* no two commands that publish have overlapped

logVars == <<log, offered, ordered>>

Logged == {s \in Sequences : log[s] # None}

\* later lists all that earlier lists.
Extends(later, earlier) == \A v \in Slots : earlier[v] \in {None, later[v]}

Init ==
    /\ log = [s \in Sequences |-> None]
    /\ offered = {}
    /\ ordered = TRUE

\* The next index goes at the end of the log.
Publish(s, entries) ==
    /\ \A r \in Logged : r < s /\ Extends(entries, log[r])
    /\ log' = [log EXCEPT ![s] = entries]
    /\ offered' = offered \cup {s}
    /\ UNCHANGED ordered

\* Retention withdraws an index, and the log remembers it.
Withdraw(s) ==
    /\ s \in offered
    /\ Cardinality({r \in offered : r > s}) >= KeepIndexes
    /\ offered' = offered \ {s}
    /\ UNCHANGED <<log, ordered>>

\* Two commands that publish overlap: nothing is promised any more.
Overlap == ordered' = FALSE

Next ==
    \/ \E s \in Sequences, entries \in Listings : Publish(s, entries)
    \/ \E s \in Sequences : Withdraw(s)
    \/ Overlap

Spec == Init /\ [][Next]_logVars
=============================================================================
