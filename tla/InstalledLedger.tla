---------------------------- MODULE InstalledLedger ----------------------------
(***************************************************************************)
(* What the project state promises its users: a ledger of the accepted     *)
(* capabilities.  A finalization either enters one capability in a single  *)
(* step or leaves the ledger as it was; nothing else changes it.  The      *)
(* promise ends when a command is killed.  CapabilityState implements this *)
(* ledger with four files, SolutionInstall with a whole solution.          *)
(***************************************************************************)
EXTENDS Naturals

CONSTANTS
    Caps,        \* capability identifiers
    MaxVersion,  \* versions are 1..MaxVersion
    Bytes,       \* contents of the evidence files of a capability
    Requires,    \* [cap, dep, versions]: cap needs dep at one of versions
    None

VARIABLES
    installed,  \* [Caps -> accepted entry, or None]
    sound       \* no command has been killed

ledgerVars == <<installed, sound>>

Entries == [version : 1..MaxVersion, bytes : Bytes]

Supported(c) ==
    \A r \in Requires : r.cap = c =>
        /\ installed[r.dep] # None
        /\ installed[r.dep].version \in r.versions

LedgerInit ==
    /\ installed = [c \in Caps |-> None]
    /\ sound = TRUE

Accept(c, v, b) ==
    /\ Supported(c)
    /\ installed' = [installed EXCEPT ![c] = [version |-> v, bytes |-> b]]
    /\ UNCHANGED sound

Install(c, v, b) == installed[c] = None /\ Accept(c, v, b)

Upgrade(c, v, b) ==
    /\ installed[c] # None
    /\ v > installed[c].version
    /\ Accept(c, v, b)

\* A command is killed: nothing is promised any more.
Broken == sound' = FALSE

\* Every step enters something, or breaks the promise.
LedgerNext ==
    \/ /\ installed' # installed
       /\ \E c \in Caps, v \in 1..MaxVersion, b \in Bytes :
            Install(c, v, b) \/ Upgrade(c, v, b)
    \/ Broken

LedgerSpec == LedgerInit /\ [][LedgerNext]_ledgerVars
=============================================================================
