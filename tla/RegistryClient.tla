----------------------------- MODULE RegistryClient -----------------------------
(***************************************************************************)
(* "aiba fetch" and "aiba resolve" on one machine                          *)
(* (packages/core/src/transport.ts, registry.ts).                          *)
(*                                                                         *)
(* A fetch downloads the index the registry calls its latest, and the one  *)
(* bundle it selects, into a cache; both commands then resolve the bundle  *)
(* from the highest index of the cache and record that index in a state    *)
(* file, the trust checkpoint.  Mirrors may answer each request with any   *)
(* index that was ever signed, old ones and equivocating ones included.    *)
(* The cache may be cleared; the state file may not.                       *)
(***************************************************************************)
EXTENDS Naturals

CONSTANTS
    Commands,  \* invocations of the CLI, each of which runs once
    Caps,      \* capability identifiers
    Versions,  \* versions of the capabilities
    Bundles,   \* contents (manifest digests) of published bundles
    Signed,    \* the indexes the registry operator has signed
    None

Entries == [cap : Caps, version : Versions, bundle : Bundles]

\* An index is identified by its digest, which here is the index itself.
Indexes == [sequence : Nat \ {0}, entries : SUBSET Entries]

ASSUME RegistryAssumption ==
    /\ Versions \subseteq Nat \ {0}
    /\ Signed \subseteq Indexes
    /\ \A s \in Signed : \A e, f \in s.entries :
         e.cap = f.cap /\ e.version = f.version => e = f
    /\ None \notin Indexes /\ None \notin Bundles /\ None \notin Nat

VARIABLES
    cachedIndex,   \* indexes/<sequence> of the cache, or None
    cachedBundle,  \* bundles/<cap>/<version> of the cache, or None
    checkpoint,    \* the index the state file records, or None
    pc,            \* the next step of each command
    request,       \* [kind, cap, version]; version None asks for the newest
    hint,          \* sequence that latest.json named
    index,         \* the verified index the command works with
    trusted,       \* the checkpoint as the command loaded it
    accepted,      \* history: indexes of the commands that succeeded
    known,         \* history: what was accepted when the command started
    overlapped,    \* history: a command started while another one ran
    cleared        \* history: the cache was cleared

cache == <<cachedIndex, cachedBundle>>
history == <<overlapped, cleared>>
vars == <<cache, checkpoint, pc, request, hint, index, trusted, accepted, known, history>>

Sequences == {s.sequence : s \in Signed}
Requests == [kind : {"fetch", "resolve"}, cap : Caps, version : Versions \cup {None}]

Fetching == {"latest", "index", "publishBundle", "publishIndex"}
Resolving == {"openIndex", "loadState", "openBundle", "writeState"}
Running(p) == pc[p] \in Fetching \cup Resolving
Quiescent == \A p \in Commands : ~Running(p)

\* s may be accepted after t was: it is t itself or an index of a later sequence.
Follows(s, t) == s = t \/ s.sequence > t.sequence

\* Mutant: a state of the same sequence is not compared by digest.
NoRollbackBySequence(state, s) == state # None => s.sequence >= state.sequence

\* assertNoRollback
NoRollback(state, s) == state # None => Follows(s, state)

\* selectRegistryCapability: the newest of the versions that match.
Candidates(s, r) == {e \in s.entries : e.cap = r.cap /\ r.version \in {None, e.version}}
Selects(s, r, e) ==
    e \in Candidates(s, r) /\ \A f \in Candidates(s, r) : f.version <= e.version

-----------------------------------------------------------------------------
Init ==
    /\ cachedIndex = [n \in Sequences |-> None]
    /\ cachedBundle = [c \in Caps |-> [v \in Versions |-> None]]
    /\ checkpoint = None
    /\ pc = [p \in Commands |-> "idle"]
    /\ request = [p \in Commands |-> None]
    /\ hint = [p \in Commands |-> None]
    /\ index = [p \in Commands |-> None]
    /\ trusted = [p \in Commands |-> None]
    /\ accepted = {}
    /\ known = [p \in Commands |-> {}]
    /\ overlapped = FALSE /\ cleared = FALSE

Goto(p, label) == pc' = [pc EXCEPT ![p] = label]

Begin(p, r) ==
    /\ pc[p] = "idle"
    /\ request' = [request EXCEPT ![p] = r]
    /\ known' = [known EXCEPT ![p] = accepted]
    /\ overlapped' = (overlapped \/ ~Quiescent)
    /\ Goto(p, IF r.kind = "fetch" THEN "latest" ELSE "openIndex")
    /\ UNCHANGED <<cache, checkpoint, hint, index, trusted, accepted, cleared>>

\* latest.json is compared with the highest sequence of the cache.
GetLatest(p, n) ==
    /\ pc[p] = "latest"
    /\ \A m \in Sequences : cachedIndex[m] # None => m <= n
    /\ hint' = [hint EXCEPT ![p] = n]
    /\ Goto(p, "index")
    /\ UNCHANGED <<cache, checkpoint, request, index, trusted, accepted, known, history>>

\* The index is downloaded to a staging directory, verified and compared with
\* the state file; the bundle it selects is downloaded and verified.
GetIndex(p, s) ==
    /\ pc[p] = "index"
    /\ s.sequence = hint[p]
    /\ NoRollback(checkpoint, s)
    /\ Candidates(s, request[p]) # {}
    /\ index' = [index EXCEPT ![p] = s]
    /\ Goto(p, "publishBundle")
    /\ UNCHANGED <<cache, checkpoint, request, hint, trusted, accepted, known, history>>

\* Mutant: a bundle that is already cached is not compared.
PublishBundleUnchecked(p, e) ==
    /\ pc[p] = "publishBundle"
    /\ Selects(index[p], request[p], e)
    /\ cachedIndex[index[p].sequence] \in {None, index[p]}
    /\ cachedBundle' = [cachedBundle EXCEPT ![e.cap][e.version] =
                            IF @ = None THEN e.bundle ELSE @]
    /\ Goto(p, "publishIndex")
    /\ UNCHANGED <<cachedIndex, checkpoint, request, hint, index, trusted, accepted, known, history>>

\* publishDirectory renames the staged bundle into the cache, or compares the
\* one that is there.
PublishBundle(p, e) ==
    /\ pc[p] = "publishBundle"
    /\ Selects(index[p], request[p], e)
    /\ cachedIndex[index[p].sequence] \in {None, index[p]}
    /\ cachedBundle[e.cap][e.version] \in {None, e.bundle}
    /\ cachedBundle' = [cachedBundle EXCEPT ![e.cap][e.version] = e.bundle]
    /\ Goto(p, "publishIndex")
    /\ UNCHANGED <<cachedIndex, checkpoint, request, hint, index, trusted, accepted, known, history>>

\* Mutant: the staged index replaces the cached one.
PublishIndexReplacing(p) ==
    /\ pc[p] = "publishIndex"
    /\ cachedIndex' = [cachedIndex EXCEPT ![index[p].sequence] = index[p]]
    /\ Goto(p, "openIndex")
    /\ UNCHANGED <<cachedBundle, checkpoint, request, hint, index, trusted, accepted, known, history>>

\* Then the staged index, in the same way.
PublishIndex(p) ==
    /\ pc[p] = "publishIndex"
    /\ cachedIndex[index[p].sequence] \in {None, index[p]}
    /\ cachedIndex' = [cachedIndex EXCEPT ![index[p].sequence] = index[p]]
    /\ Goto(p, "openIndex")
    /\ UNCHANGED <<cachedBundle, checkpoint, request, hint, index, trusted, accepted, known, history>>

-----------------------------------------------------------------------------
\* resolveRegistryCapability: verifyLatestIndex opens the highest index.
OpenIndex(p, s) ==
    /\ pc[p] = "openIndex"
    /\ cachedIndex[s.sequence] = s
    /\ \A m \in Sequences : cachedIndex[m] # None => m <= s.sequence
    /\ index' = [index EXCEPT ![p] = s]
    /\ Goto(p, "loadState")
    /\ UNCHANGED <<cache, checkpoint, request, hint, trusted, accepted, known, history>>

LoadState(p) ==
    /\ pc[p] = "loadState"
    /\ NoRollback(checkpoint, index[p])
    /\ trusted' = [trusted EXCEPT ![p] = checkpoint]
    /\ Goto(p, "openBundle")
    /\ UNCHANGED <<cache, checkpoint, request, hint, index, accepted, known, history>>

\* Mutant: the cached bundle is not compared with the entry of the index.
OpenBundleUnchecked(p, e) ==
    /\ pc[p] = "openBundle"
    /\ Selects(index[p], request[p], e)
    /\ cachedBundle[e.cap][e.version] # None
    /\ Goto(p, "writeState")
    /\ UNCHANGED <<cache, checkpoint, request, hint, index, trusted, accepted, known, history>>

OpenBundle(p, e) ==
    /\ pc[p] = "openBundle"
    /\ Selects(index[p], request[p], e)
    /\ cachedBundle[e.cap][e.version] = e.bundle
    /\ Goto(p, "writeState")
    /\ UNCHANGED <<cache, checkpoint, request, hint, index, trusted, accepted, known, history>>

\* Mutants: the sequence is recorded without the digest of the index; only the
\* first index is ever recorded.
WriteStateWithoutDigest(p) ==
    /\ pc[p] = "writeState"
    /\ checkpoint' = [index[p] EXCEPT !.entries = {}]
    /\ accepted' = accepted \cup {index[p]}
    /\ Goto(p, "done")
    /\ UNCHANGED <<cache, request, hint, index, trusted, known, history>>

WriteStateOnce(p) ==
    /\ pc[p] = "writeState"
    /\ checkpoint' = IF trusted[p] = None THEN index[p] ELSE checkpoint
    /\ accepted' = accepted \cup {index[p]}
    /\ Goto(p, "done")
    /\ UNCHANGED <<cache, request, hint, index, trusted, known, history>>

\* The state file is replaced, by rename, when the state the command loaded
\* was older; the command succeeds.
WriteState(p) ==
    /\ pc[p] = "writeState"
    /\ checkpoint' = IF trusted[p] = None \/ index[p].sequence > trusted[p].sequence
                     THEN index[p] ELSE checkpoint
    /\ accepted' = accepted \cup {index[p]}
    /\ Goto(p, "done")
    /\ UNCHANGED <<cache, request, hint, index, trusted, known, history>>

\* A command ends at any step: a check above fails, a request times out, an
\* answer is not authentic, a file operation fails, or the process is killed.
\* What it published stays; its staging directory is not modelled.
Stop(p) ==
    /\ Running(p)
    /\ Goto(p, "failed")
    /\ UNCHANGED <<cache, checkpoint, request, hint, index, trusted, accepted, known, history>>

\* The cache is derived data that anyone may delete; the state file stays.
ClearCache ==
    /\ Quiescent
    /\ cachedIndex' = [n \in Sequences |-> None]
    /\ cachedBundle' = [c \in Caps |-> [v \in Versions |-> None]]
    /\ cleared' = TRUE
    /\ UNCHANGED <<checkpoint, pc, request, hint, index, trusted, accepted, known, overlapped>>

Step(p) ==
    \/ \E n \in Sequences : GetLatest(p, n)
    \/ \E s \in Signed : GetIndex(p, s) \/ OpenIndex(p, s)
    \/ \E e \in Entries : PublishBundle(p, e) \/ OpenBundle(p, e)
    \/ PublishIndex(p) \/ LoadState(p) \/ WriteState(p) \/ Stop(p)

Next ==
    \/ \E p \in Commands : Step(p) \/ \E r \in Requests : Begin(p, r)
    \/ ClearCache

Spec == Init /\ [][Next]_vars

-----------------------------------------------------------------------------
TypeOK ==
    /\ cachedIndex \in [Sequences -> Signed \cup {None}]
    /\ cachedBundle \in [Caps -> [Versions -> Bundles \cup {None}]]
    /\ checkpoint \in Signed \cup {None}
    /\ pc \in [Commands -> {"idle", "done", "failed"} \cup Fetching \cup Resolving]
    /\ request \in [Commands -> Requests \cup {None}]
    /\ hint \in [Commands -> Sequences \cup {None}]
    /\ index \in [Commands -> Signed \cup {None}]
    /\ trusted \in [Commands -> Signed \cup {None}]
    /\ accepted \subseteq Signed
    /\ known \in [Commands -> SUBSET Signed]
    /\ overlapped \in BOOLEAN /\ cleared \in BOOLEAN

\* The state file covers every index a command has returned (RFC 0007: it
\* "records the highest accepted sequence and index digest").
HighestAcceptedRecorded ==
    \A s \in accepted : checkpoint # None /\ Follows(checkpoint, s)

\* That is so over failed and interrupted commands and cleared caches, as long as
\* no command has started while another one ran (registry.ts, assertNoRollback
\* and writeRegistryState).
SerialCommandsAreRecorded == ~overlapped => HighestAcceptedRecorded

\* A command never returns an index older than, or equivocating with, one that
\* a command which ended before it started has returned, whatever the mirrors
\* answer: by the state file although the cache was cleared, as long as commands
\* do not overlap, and by the cache although they overlap, as long as it is kept.
NoRollbackAcrossCommands ==
    ~overlapped \/ ~cleared =>
        \A p \in Commands : pc[p] = "done" => \A s \in known[p] : Follows(index[p], s)

\* Commands return one index per sequence, also when they race on first use: then
\* the rename of the index into the cache decides between equivocating ones, as
\* long as the cache is kept.
NoEquivocation ==
    ~overlapped \/ ~cleared => \A s, t \in accepted : s.sequence = t.sequence => s = t

\* The bundle directory a command returned holds the bundle its signed index
\* names, and no later or racing fetch of another index puts a different one
\* there, as long as the cache is not cleared.
ReturnedBundleIsListed ==
    ~cleared => \A p \in Commands : pc[p] = "done" =>
        \A e \in Candidates(index[p], request[p]) :
            Selects(index[p], request[p], e) => cachedBundle[e.cap][e.version] = e.bundle

\* An index reaches the cache only after a bundle it lists: an interrupted or
\* failed fetch never leaves an index that shadows the older ones and of
\* which nothing can be resolved.
CachedIndexIsUsable ==
    \A n \in Sequences : cachedIndex[n] # None =>
        \E e \in cachedIndex[n].entries : cachedBundle[e.cap][e.version] = e.bundle
=============================================================================
