--------------------------- MODULE RegistryPublisher ---------------------------
(***************************************************************************)
(* The operator's side of a registry (packages/core/src/registry.ts,       *)
(* registry-operations.ts): registry-add, registry-index, registry-gc,     *)
(* registry-backup and registry-restore over one registry directory, with  *)
(* no lock between them.                                                   *)
(*                                                                         *)
(* A slot is the directory bundles/<capability>/<version>.  A bundle is    *)
(* known by the digest of its manifest; Torn is a directory that does not  *)
(* verify.  A snapshot is the directory indexes/<sequence>: whole once it  *)
(* holds the index and its signature.  The indexes expire in the order of  *)
(* their sequences, those up to horizon have.                              *)
(***************************************************************************)
EXTENDS Naturals, FiniteSets

CONSTANTS
    Commands,     \* terminals, each of which runs one command after another
    Slots,        \* capability versions, numbered in the order of their paths
    CapabilityOf, \* the capability of each slot, numbered likewise
    Candidates,   \* the bundles there are to import: [slot, digest]
    MaxSequence,  \* bound on the sequences an operator asks for
    KeepIndexes,  \* --keep-indexes of registry-gc
    Sites,        \* what each terminal does, if a server runs, how many
                  \* commands are killed, the last sequence asked for
    Torn,
    None

Kinds == {"import", "index", "gc", "backup", "restore"}
Sequences == 1..MaxSequence
Capabilities == {CapabilityOf[v] : v \in Slots}
Digests == {b.digest : b \in Candidates}
Listings == [Slots -> Digests \cup {None}]
Snapshots == [entries : Listings, whole : BOOLEAN]
Trees == [bundles : [Slots -> Digests \cup {None, Torn}],
          staging : [Commands -> Capabilities \cup {None}],
          snapshots : [Sequences -> Snapshots \cup {None}]]

ASSUME PublisherAssumption ==
    /\ Slots \subseteq Nat /\ MaxSequence \in Nat /\ KeepIndexes \in Nat \ {0}
    /\ \A b \in Candidates : b.slot \in Slots
    /\ CapabilityOf \in [Slots -> Nat] /\ None \notin Nat
    /\ None \notin Digests /\ Torn \notin Digests /\ None # Torn
    /\ None \notin Snapshots /\ None \notin Listings
    /\ Sites \subseteq [does : [Commands -> SUBSET Kinds], served : BOOLEAN,
                  kills : Nat, last : Sequences]

VARIABLES
    site,       \* how the registry is operated, never changed
    registry,   \* the registry directory
    backup,     \* the backup, with the latest sequence of its manifest, or None
    target,     \* the directory a backup was restored to, or None
    horizon,    \* the indexes up to this sequence have expired
    pc,         \* the next step of each terminal's command
    job,        \* what that command holds in memory
    kills,      \* commands killed so far
    raced,      \* history: two registry-index commands have overlapped
    disturbed,  \* history: backups during which the registry changed
    published   \* history: the first index published under each sequence

vars == <<site, registry, backup, target, horizon, pc, job, kills,
          raced, disturbed, published>>

Importing == {"import-check", "import-copy", "import-verify", "import-rename"}
Indexing == {"index-list", "index-verify", "index-mkdir", "index-sign"}
BackingUp == {"backup-copy", "backup-seal"}
Labels == Importing \cup Indexing \cup BackingUp
            \cup {"idle", "gc", "restore-verify", "restore-rename", "killed"}

Running(c) == pc[c] \notin {"idle", "killed"}
Least(S) == CHOOSE n \in S : \A m \in S : n <= m

\* listIndexSequences: every directory counts, whatever it holds.
Listed(t) == {s \in Sequences : t.snapshots[s] # None}
Highest(S) == CHOOSE n \in S \cup {0} : \A m \in S : m <= n
Whole(t, s) == s \in Listed(t) /\ t.snapshots[s].whole

\* verifyCapabilityBundle: envelope, layout, hashes, signature and documents.
VerifiesBundle(t, v) == t.bundles[v] \in Digests

\* Every bundle of the listing is in its slot and verifies.
Present(t, entries) == \A v \in Slots : entries[v] \in {None, t.bundles[v]}
Closed(t) == \A s \in Listed(t) : Whole(t, s) /\ Present(t, t.snapshots[s].entries)

\* verifyRegistryForOperations
VerifiesForOperations(t) ==
    Listed(t) # {} /\ Closed(t) /\ \A s \in Listed(t) : s > horizon

\* Mutant: the first of the sequences are kept.
KeptFirst(t) == {s \in Listed(t) : Cardinality({r \in Listed(t) : r < s}) < KeepIndexes}

\* planRegistryRetention: the latest of the sequences are kept, and the bundles
\* they list.
Kept(t) == {s \in Listed(t) : Cardinality({r \in Listed(t) : r > s}) < KeepIndexes}
ListedIn(t, S) == {v \in Slots : \E s \in S : t.snapshots[s].entries[v] # None}
RemovableBundles(t) == ListedIn(t, Listed(t)) \ ListedIn(t, Kept(t))

-----------------------------------------------------------------------------
EmptyTree == [bundles |-> [v \in Slots |-> None],
              staging |-> [c \in Commands |-> None],
              snapshots |-> [s \in Sequences |-> None]]

Init ==
    /\ site \in Sites
    /\ registry = EmptyTree
    /\ backup = None /\ target = None
    /\ horizon = 0 /\ kills = 0
    /\ pc = [c \in Commands |-> "idle"]
    /\ job = [c \in Commands |-> None]
    /\ raced = FALSE /\ disturbed = {}
    /\ published = [s \in Sequences |-> None]

\* The command goes on at label, with j in memory.
Goto(c, label, j) ==
    /\ pc' = [pc EXCEPT ![c] = label]
    /\ job' = [job EXCEPT ![c] = j]
Finish(c) == Goto(c, "idle", None)
Starts(c, kind) == pc[c] = "idle" /\ kind \in site.does[c]

SetBundle(v, d) == registry' = [registry EXCEPT !.bundles[v] = d]
SetSnapshot(s, snapshot) == registry' = [registry EXCEPT !.snapshots[s] = snapshot]
KeepRegistry == UNCHANGED <<registry, backup, target>>

-----------------------------------------------------------------------------
\* importRegistryBundle: the source verifies, and is compared with what is in
\* the slot, if anything is; it is staged next to the slot and renamed.
ImportStart(c, b) ==
    /\ Starts(c, "import")
    /\ Goto(c, "import-check", [bundle |-> b])
    /\ KeepRegistry

\* A bundle that is there ends the command, with an error when it is another one.
ImportCheck(c) ==
    /\ pc[c] = "import-check"
    /\ IF registry.bundles[job[c].bundle.slot] = None
         THEN Goto(c, "import-copy", job[c])
         ELSE Finish(c)
    /\ KeepRegistry

\* The source may have changed since it was verified: it is another bundle, or
\* none.  The copy is staged in the directory of its capability.
ImportCopy(c, copied) ==
    /\ pc[c] = "import-copy"
    /\ registry' = [registry EXCEPT !.staging[c] = CapabilityOf[job[c].bundle.slot]]
    /\ Goto(c, "import-verify", [bundle |-> job[c].bundle, copied |-> copied])
    /\ UNCHANGED <<backup, target>>

\* Mutant: the copy is not compared with the source.
ImportUnverified(c) ==
    /\ pc[c] = "import-verify"
    /\ Goto(c, "import-rename", job[c])
    /\ KeepRegistry

\* BUNDLE_SOURCE_CHANGED removes the staged copy.
ImportVerify(c) ==
    /\ pc[c] = "import-verify"
    /\ \/ /\ job[c].copied = job[c].bundle.digest
          /\ Goto(c, "import-rename", job[c])
          /\ KeepRegistry
       \/ /\ job[c].copied # job[c].bundle.digest
          /\ registry' = [registry EXCEPT !.staging[c] = None]
          /\ Finish(c)
          /\ UNCHANGED <<backup, target>>

\* Mutant: the rename replaces the bundle that is in the slot.
ImportReplacing(c) ==
    /\ pc[c] = "import-rename"
    /\ registry' = [registry EXCEPT !.staging[c] = None,
                                    !.bundles[job[c].bundle.slot] = job[c].copied]
    /\ Finish(c)
    /\ UNCHANGED <<backup, target>>

\* The slot of another import that was faster is compared, not replaced.
ImportRename(c) ==
    /\ pc[c] = "import-rename"
    /\ registry' = [registry EXCEPT
                      !.staging[c] = None,
                      !.bundles[job[c].bundle.slot] = IF @ = None THEN job[c].copied ELSE @]
    /\ Finish(c)
    /\ UNCHANGED <<backup, target>>

Import(c) ==
    \/ \E b \in Candidates : ImportStart(c, b)
    \/ ImportCheck(c)
    \/ \E copied \in Digests \cup {Torn} : ImportCopy(c, copied)
    \/ ImportVerify(c)
    \/ ImportRename(c)

-----------------------------------------------------------------------------
\* Mutant: any sequence that has no snapshot is accepted.
IndexFree(c, s) ==
    /\ Starts(c, "index")
    /\ s \in 1..site.last \ Listed(registry)
    /\ Goto(c, "index-list", [sequence |-> s])
    /\ KeepRegistry

\* createRegistryIndex: the sequence must exceed every directory listed.
IndexStart(c, s) ==
    /\ Starts(c, "index")
    /\ s > Highest(Listed(registry)) /\ s <= site.last
    /\ Goto(c, "index-list", [sequence |-> s])
    /\ KeepRegistry

\* collectBundleEntries reads which capabilities have a directory; one without a
\* bundle may not.
IndexCapabilities(c, capabilities) ==
    /\ pc[c] = "index-list"
    /\ \A v \in Slots : registry.bundles[v] # None => CapabilityOf[v] \in capabilities
    /\ Goto(c, "index-verify",
            [sequence |-> job[c].sequence, left |-> capabilities, todo |-> {},
             entries |-> [v \in Slots |-> None]])
    /\ KeepRegistry

\* The slots of the next capability are listed when those of the one before have
\* been verified; a staging directory is not a version.
IndexList(c) ==
    /\ pc[c] = "index-verify" /\ job[c].todo = {} /\ job[c].left # {}
    /\ LET next == Least(job[c].left) IN
         IF \E d \in Commands : registry.staging[d] = next
           THEN Finish(c)
           ELSE Goto(c, "index-verify",
                     [job[c] EXCEPT !.left = @ \ {next},
                                    !.todo = {v \in Slots : /\ CapabilityOf[v] = next
                                                            /\ registry.bundles[v] # None}])
    /\ KeepRegistry

\* The bundles listed are verified one after another.
IndexVerify(c) ==
    /\ pc[c] = "index-verify" /\ job[c].todo # {}
    /\ LET v == Least(job[c].todo) IN
         IF VerifiesBundle(registry, v)
           THEN Goto(c, "index-verify",
                     [job[c] EXCEPT !.todo = @ \ {v}, !.entries[v] = registry.bundles[v]])
           ELSE Finish(c)
    /\ KeepRegistry

\* assertIndexSemantics: an index that has expired is not written.
IndexGenerate(c) ==
    /\ pc[c] = "index-verify" /\ job[c].todo = {} /\ job[c].left = {}
    /\ IF job[c].sequence > horizon THEN Goto(c, "index-mkdir", job[c]) ELSE Finish(c)
    /\ KeepRegistry

\* Mutant: the directory may exist (mkdir is recursive).
IndexMkdirRecursive(c) ==
    /\ pc[c] = "index-mkdir"
    /\ SetSnapshot(job[c].sequence, [entries |-> job[c].entries, whole |-> FALSE])
    /\ Goto(c, "index-sign", job[c])
    /\ UNCHANGED <<backup, target>>

\* REGISTRY_SNAPSHOT_EXISTS when the directory is there by now.
IndexMkdir(c) ==
    /\ pc[c] = "index-mkdir"
    /\ IF job[c].sequence \in Listed(registry)
         THEN Finish(c) /\ UNCHANGED registry
         ELSE /\ SetSnapshot(job[c].sequence, [entries |-> job[c].entries, whole |-> FALSE])
              /\ Goto(c, "index-sign", job[c])
    /\ UNCHANGED <<backup, target>>

\* index.json and then index.sig.json, each created and never overwritten: in a
\* directory that is gone, or that another command has filled, the step fails.
IndexSign(c) ==
    /\ pc[c] = "index-sign"
    /\ job[c].sequence \in Listed(registry) /\ ~Whole(registry, job[c].sequence)
    /\ SetSnapshot(job[c].sequence, [entries |-> job[c].entries, whole |-> TRUE])
    /\ Finish(c)
    /\ UNCHANGED <<backup, target>>

Index(c) ==
    \/ \E s \in Sequences : IndexStart(c, s)
    \/ \E capabilities \in SUBSET Capabilities : IndexCapabilities(c, capabilities)
    \/ IndexList(c)
    \/ IndexVerify(c)
    \/ IndexGenerate(c)
    \/ IndexMkdir(c)
    \/ IndexSign(c)

-----------------------------------------------------------------------------
\* Mutant: a directory that is still being published counts as one to keep.
GcUnverified(c) ==
    /\ Starts(c, "gc")
    /\ Listed(registry) # Kept(registry)
    /\ Goto(c, "gc", [indexes |-> Listed(registry) \ Kept(registry),
                      bundles |-> RemovableBundles(registry)])
    /\ KeepRegistry

\* planRegistryRetention with apply: what may go is decided once, after the
\* whole registry has been verified.
GcStart(c) ==
    /\ Starts(c, "gc")
    /\ VerifiesForOperations(registry)
    /\ Listed(registry) # Kept(registry)
    /\ Goto(c, "gc", [indexes |-> Listed(registry) \ Kept(registry),
                      bundles |-> RemovableBundles(registry)])
    /\ KeepRegistry

\* The last directory removed ends the command.
GcGoesOn(c, j) ==
    IF j.indexes = {} /\ j.bundles = {} THEN Finish(c) ELSE Goto(c, "gc", j)

\* Removing a directory takes several calls; one that is gone is an error.
GcIndex(c) ==
    /\ pc[c] = "gc" /\ job[c].indexes # {}
    /\ LET s == Least(job[c].indexes) IN
         \/ /\ Whole(registry, s)
            /\ registry' = [registry EXCEPT !.snapshots[s].whole = FALSE]
            /\ UNCHANGED <<pc, job>>
         \/ /\ s \in Listed(registry) /\ ~Whole(registry, s)
            /\ SetSnapshot(s, None)
            /\ GcGoesOn(c, [job[c] EXCEPT !.indexes = @ \ {s}])
         \/ /\ s \notin Listed(registry)
            /\ Finish(c) /\ UNCHANGED registry
    /\ UNCHANGED <<backup, target>>

\* The bundles go after the indexes that listed them.
GcBundle(c) ==
    /\ pc[c] = "gc" /\ job[c].indexes = {} /\ job[c].bundles # {}
    /\ LET v == Least(job[c].bundles) IN
         \/ /\ VerifiesBundle(registry, v)
            /\ SetBundle(v, Torn)
            /\ UNCHANGED <<pc, job>>
         \/ /\ ~VerifiesBundle(registry, v)
            /\ SetBundle(v, None)
            /\ IF registry.bundles[v] = None THEN Finish(c)
                 ELSE GcGoesOn(c, [job[c] EXCEPT !.bundles = @ \ {v}])
    /\ UNCHANGED <<backup, target>>

Gc(c) == GcStart(c) \/ GcIndex(c) \/ GcBundle(c)

-----------------------------------------------------------------------------
\* Mutant: the registry is copied as it is.
BackupUnverified(c) ==
    /\ Starts(c, "backup") /\ backup = None
    /\ Goto(c, "backup-copy", [latest |-> Highest(Listed(registry)), tree |-> EmptyTree,
                               left |-> {"bundles", "snapshots"}])
    /\ KeepRegistry

\* backupRegistry verifies the registry, and copies it only then.
BackupStart(c) ==
    /\ Starts(c, "backup")
    /\ VerifiesForOperations(registry) /\ backup = None
    /\ Goto(c, "backup-copy", [latest |-> Highest(Listed(registry)), tree |-> EmptyTree,
                               left |-> {"bundles", "snapshots"}])
    /\ KeepRegistry

\* The copy walks the tree, one top directory and then the other.
BackupCopy(c, part) ==
    /\ pc[c] = "backup-copy" /\ part \in job[c].left
    /\ LET left == job[c].left \ {part}
           tree == IF part = "bundles"
                     THEN [job[c].tree EXCEPT !.bundles = registry.bundles,
                                              !.staging = registry.staging]
                     ELSE [job[c].tree EXCEPT !.snapshots = registry.snapshots]
       IN Goto(c, IF left = {} THEN "backup-seal" ELSE "backup-copy",
               [latest |-> job[c].latest, tree |-> tree, left |-> left])
    /\ KeepRegistry

\* The manifest hashes the copy; the rename puts both in place unless another
\* backup is there.
BackupSeal(c) ==
    /\ pc[c] = "backup-seal"
    /\ backup' = IF backup = None
                   THEN [tree |-> job[c].tree, latest |-> job[c].latest,
                         quiet |-> c \notin disturbed]
                   ELSE backup
    /\ Finish(c)
    /\ UNCHANGED <<registry, target>>

Backup(c) ==
    \/ BackupStart(c)
    \/ \E part \in {"bundles", "snapshots"} : BackupCopy(c, part)
    \/ BackupSeal(c)

\* restoreRegistry copies the backup, which is in place for good, to a staging
\* directory.
RestoreStart(c) ==
    /\ Starts(c, "restore")
    /\ backup # None /\ target = None
    /\ Goto(c, "restore-verify", [tree |-> backup.tree, latest |-> backup.latest])
    /\ KeepRegistry

\* Mutant: the files match the manifest, and that is all that is looked at.
RestoreUnverified(c) ==
    /\ pc[c] = "restore-verify"
    /\ Goto(c, "restore-rename", job[c])
    /\ KeepRegistry

\* The staged copy is verified as a registry, and compared with the manifest.
RestoreVerify(c) ==
    /\ pc[c] = "restore-verify"
    /\ IF VerifiesForOperations(job[c].tree) /\ Highest(Listed(job[c].tree)) = job[c].latest
         THEN Goto(c, "restore-rename", job[c])
         ELSE Finish(c)
    /\ KeepRegistry

RestoreRename(c) ==
    /\ pc[c] = "restore-rename"
    /\ target' = IF target = None THEN job[c].tree ELSE target
    /\ Finish(c)
    /\ UNCHANGED <<registry, backup>>

Restore(c) == RestoreStart(c) \/ RestoreVerify(c) \/ RestoreRename(c)

-----------------------------------------------------------------------------
\* Mutant: an import that fails keeps its staging directory.
FailsUncleaned(c) ==
    /\ Running(c)
    /\ registry' = IF pc[c] = "index-sign"
                     THEN [registry EXCEPT !.snapshots[job[c].sequence] = None]
                     ELSE registry
    /\ Finish(c)
    /\ UNCHANGED <<backup, target>>

\* A step fails (a full disk, a policy that no longer trusts the signer): import
\* removes its staging directory, index its snapshot, backup and restore their
\* copies; gc leaves what it has done.
Fails(c) ==
    /\ Running(c)
    /\ registry' = CASE pc[c] \in Importing -> [registry EXCEPT !.staging[c] = None]
                     [] pc[c] = "index-sign" ->
                          [registry EXCEPT !.snapshots[job[c].sequence] = None]
                     [] OTHER -> registry
    /\ Finish(c)
    /\ UNCHANGED <<backup, target>>

Killed(c) ==
    /\ Running(c) /\ kills < site.kills
    /\ kills' = kills + 1
    /\ Goto(c, "killed", None)
    /\ KeepRegistry

\* The next index expires.
Expire ==
    /\ horizon < Highest(Listed(registry))
    /\ horizon' = horizon + 1
    /\ UNCHANGED <<registry, backup, target, pc, job, kills>>

Does(c) ==
    /\ Import(c) \/ Index(c) \/ Gc(c) \/ Backup(c) \/ Restore(c) \/ Fails(c)
    /\ UNCHANGED <<horizon, kills>>

\* The history of the step.
Remember ==
    /\ raced' = (raced \/ \E c, d \in Commands : c # d /\ {pc'[c], pc'[d]} \subseteq Indexing)
    /\ disturbed' = {c \in Commands : /\ pc'[c] \in BackingUp
                                      /\ c \in disturbed \/ registry' # registry}
    /\ published' = [s \in Sequences |->
                       IF published[s] = None /\ registry'.snapshots[s] # None
                            /\ registry'.snapshots[s].whole
                         THEN registry'.snapshots[s].entries
                         ELSE published[s]]

Next ==
    /\ \/ \E c \in Commands : Does(c)
       \/ \E c \in Commands : Killed(c) /\ UNCHANGED horizon
       \/ Expire
    /\ Remember
    /\ UNCHANGED site

Spec == Init /\ [][Next]_vars

-----------------------------------------------------------------------------
Jobs ==
    [bundle : Candidates] \cup [bundle : Candidates, copied : Digests \cup {Torn}]
      \cup [sequence : Sequences]
      \cup [sequence : Sequences, left : SUBSET Capabilities, todo : SUBSET Slots,
            entries : Listings]
      \cup [indexes : SUBSET Sequences, bundles : SUBSET Slots]
      \cup [latest : Sequences, tree : Trees, left : SUBSET {"bundles", "snapshots"}]
      \cup [tree : Trees, latest : Sequences]

\* The type invariant.
TypeOK ==
    /\ site \in Sites
    /\ registry \in Trees
    /\ backup \in [tree : Trees, latest : Sequences, quiet : BOOLEAN] \cup {None}
    /\ target \in Trees \cup {None}
    /\ horizon \in 0..MaxSequence /\ kills \in 0..site.kills
    /\ pc \in [Commands -> Labels]
    /\ job \in [Commands -> Jobs \cup {None}]
    /\ raced \in BOOLEAN /\ disturbed \subseteq Commands
    /\ published \in [Sequences -> Listings \cup {None}]

\* No two terminals index next to two others that collect.
FewWriters ==
    \A a, b, c, d \in Commands :
      /\ "index" \in site.does[a] \cap site.does[b] /\ "gc" \in site.does[c] \cap site.does[d]
      => a = b \/ c = d \/ {a, b} \cap {c, d} # {}

\* A published index is never replaced, and only retention takes it away, when
\* the registry holds at least KeepIndexes later ones: clients are not sent back
\* before their checkpoint.  That is so at sites with few writers, also when
\* index commands overlap, and at every site until two of them have.
PublishedIndexesAreKept ==
    [][FewWriters \/ ~raced' => \A s \in Sequences : Whole(registry, s) =>
         \/ registry'.snapshots[s] = registry.snapshots[s]
         \/ /\ registry'.snapshots[s] = [registry.snapshots[s] EXCEPT !.whole = FALSE]
            /\ Cardinality({r \in Sequences : r > s /\ Whole(registry, r)}) >= KeepIndexes
      ]_vars

\* A version once imported keeps its bytes until retention removes it, also
\* when two commands import conflicting bundles at the same time.
BundlesAreNeverReplaced ==
    [][\A v \in Slots : registry.bundles[v] \in Digests =>
         registry'.bundles[v] \in {registry.bundles[v], Torn}]_vars

\* While no two index commands have overlapped, imports put whole bundles in
\* place, though their sources may change under them, and retention has none to
\* tear down.
BundlesAreWhole == ~raced => \A v \in Slots : registry.bundles[v] # Torn

\* While no two index commands have overlapped, the bundles that a published
\* index lists are there, also while retention runs, is killed, or overlaps an
\* import or an index command.
ListedBundlesArePresent ==
    ~raced => \A s \in Sequences :
                Whole(registry, s) => Present(registry, registry.snapshots[s].entries)

\* While no two index commands have overlapped, a later index lists every bundle
\* an earlier one lists.
HistoryGrows ==
    ~raced => \A s, t \in Sequences : s < t /\ Whole(registry, s) /\ Whole(registry, t) =>
                \A v \in Slots :
                  registry.snapshots[s].entries[v] \in {None, registry.snapshots[t].entries[v]}

\* Each sequence directory is immutable and a snapshot is never replaced
\* (docs/rfcs/0007-signed-registry-indexes.md:26-27): an index that is found
\* under a sequence is the one first published under it.
SequencesAreImmutable ==
    \A s \in Sequences : Whole(registry, s) => registry.snapshots[s].entries = published[s]

\* While no two index commands have overlapped, a sequence names one index, even
\* when retention has removed it: a client that holds it as its checkpoint meets
\* no other one.
SequencesNameOneIndex == ~raced => SequencesAreImmutable

\* The sequences a client can install from: the index is there, it is the one
\* first published under the sequence, and so are the bundles it lists.
Offered ==
    {s \in Sequences : /\ Whole(registry, s)
                       /\ registry.snapshots[s].entries = published[s]
                       /\ Present(registry, registry.snapshots[s].entries)}

\* While no two index commands have overlapped: whichever index a client has
\* recorded as its checkpoint, also one that retention has removed since, there
\* is an index to install from that the client accepts, and it lists all that the
\* checkpoint listed.
CheckpointsStayServed ==
    ~raced => \A s \in Sequences : published[s] # None =>
                \E r \in Offered : /\ r >= s
                                  /\ \A v \in Slots : published[s][v] \in {None, published[r][v]}

Log == INSTANCE RegistryLog WITH log <- published, offered <- Offered, ordered <- ~raced

\* Until two index commands overlap, a registry directory, with imports,
\* retention, failures and kills at any point of publishing, is a log of indexes:
\* one that can be installed from stays so until KeepIndexes later ones can.
ImplementsLog == Log!Spec

\* A command that fails leaves no staging directory behind, which would keep
\* registry-index from running for good; only a killed one does.
StagingIsOwned ==
    \A c \in Commands : registry.staging[c] # None => pc[c] \in Importing \cup {"killed"}

\* What a restore puts in place is a complete registry whose latest index is
\* the one the manifest names, whatever overlapped the backup.
RestoredIsWhole ==
    target # None => Closed(target) /\ Highest(Listed(target)) = backup.latest

\* A backup during which the registry did not change passes the checks of
\* restore, as long as its indexes have not expired.
QuietBackupsRestore ==
    backup # None => (backup.quiet =>
        Closed(backup.tree) /\ Highest(Listed(backup.tree)) = backup.latest)
=============================================================================
