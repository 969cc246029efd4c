-------------------------- MODULE RegistryServerProofs --------------------------
(***************************************************************************)
(* Theorems of RegistryPublisher and RegistryServer for every set of       *)
(* terminals, slots and bundles, however commands overlap, fail or are     *)
(* killed.                                                                 *)
(***************************************************************************)
EXTENDS RegistryServer, NumberLemmas, FiniteSetTheorems, TLAPS

-----------------------------------------------------------------------------
(***************************************************************************)
(* Numbers.                                                                *)
(***************************************************************************)
\* Highest is what its name says.
LEMMA HighestIsGreatest ==
    ASSUME NEW S \in SUBSET Sequences
    PROVE  /\ Highest(S) \in S \cup {0} /\ Highest(S) \in 0..MaxSequence
           /\ \A m \in S : m <= Highest(S)
           /\ S # {} => Highest(S) \in S
<1>1. MaxSequence \in Nat /\ S \cup {0} \in SUBSET (0..MaxSequence) /\ S \cup {0} # {}
  BY PublisherAssumption DEF Sequences
<1>2. \E n \in S \cup {0} : \A m \in S \cup {0} : m <= n
  BY <1>1, NatGreatest
<1>3. Highest(S) \in S \cup {0} /\ \A m \in S : m <= Highest(S)
  BY <1>2 DEF Highest
<1>4. \A m \in S : m >= 1
  BY DEF Sequences
<1> QED
  BY <1>1, <1>3, <1>4

\* Least picks a member.
LEMMA LeastIsMember ==
    ASSUME NEW S \in SUBSET Nat, S # {}
    PROVE  Least(S) \in S
BY NatLeast DEF Least

-----------------------------------------------------------------------------
(***************************************************************************)
(* Types.  What a command holds in memory depends on its next step.        *)
(***************************************************************************)
Restoring == {"restore-verify", "restore-rename"}

Fits(label, j) ==
    /\ label \in Labels
    /\ label \in {"idle", "killed"} => j = None
    /\ label \in {"import-check", "import-copy"} => j \in [bundle : Candidates]
    /\ label \in {"import-verify", "import-rename"} =>
         j \in [bundle : Candidates, copied : Digests \cup {Torn}]
    /\ label = "index-list" => j \in [sequence : Sequences]
    /\ label \in {"index-verify", "index-mkdir", "index-sign"} =>
         j \in [sequence : Sequences, left : SUBSET Capabilities, todo : SUBSET Slots,
               entries : Listings]
    /\ label = "gc" => j \in [indexes : SUBSET Sequences, bundles : SUBSET Slots]
    /\ label \in BackingUp =>
         j \in [latest : Sequences, tree : Trees, left : SUBSET {"bundles", "snapshots"}]
    /\ label \in Restoring => j \in [tree : Trees, latest : Sequences]

Fitting ==
    /\ pc \in [Commands -> Labels] /\ job \in [Commands -> Jobs \cup {None}]
    /\ \A c \in Commands : Fits(pc[c], job[c])
Stored ==
    /\ registry \in Trees
    /\ backup \in [tree : Trees, latest : Sequences, quiet : BOOLEAN] \cup {None}
    /\ target \in Trees \cup {None}

PublisherTypeInv == TypeOK /\ Fitting

\* What a restore is going to put in place is the backup, and has been verified.
RestoreInv ==
    /\ target # None => backup # None
    /\ RestoredIsWhole
    /\ \A c \in Commands : pc[c] \in Restoring =>
         backup # None /\ job[c] = [tree |-> backup.tree, latest |-> backup.latest]
    /\ \A c \in Commands : pc[c] = "restore-rename" =>
         Closed(backup.tree) /\ Highest(Listed(backup.tree)) = backup.latest

\* What fits is a job.
LEMMA FittingJob ==
    ASSUME NEW label, NEW j, Fits(label, j)
    PROVE  label \in Labels /\ j \in Jobs \cup {None}
BY DEF Fits, Labels, Jobs, Importing, Indexing, BackingUp, Restoring

\* A command that goes on with what fits keeps everything fitting.
LEMMA GotoFits ==
    ASSUME Fitting, NEW c \in Commands, NEW label, NEW j, Goto(c, label, j), Fits(label, j)
    PROVE  Fitting'
<1>1. label \in Labels /\ j \in Jobs \cup {None}
  BY FittingJob
<1>2. pc' \in [Commands -> Labels] /\ job' \in [Commands -> Jobs \cup {None}]
  BY <1>1 DEF Fitting, Goto
<1>3. ASSUME NEW d \in Commands PROVE Fits(pc'[d], job'[d])
  <2>1. CASE d = c
    BY <2>1 DEF Fitting, Goto
  <2>2. CASE d # c
    BY <2>2 DEF Fitting, Goto
  <2> QED
    BY <2>1, <2>2
<1> QED
  BY <1>2, <1>3 DEF Fitting

\* A command that ends holds nothing.
LEMMA FinishFits ==
    ASSUME Fitting, NEW c \in Commands, Finish(c)
    PROVE  Fitting'
<1>1. Fits("idle", None)
  BY DEF Fits, Labels, BackingUp, Restoring
<1> QED
  BY <1>1, GotoFits DEF Finish

\* The imports.
LEMMA ImportType ==
    ASSUME Fitting, Stored, NEW c \in Commands, Import(c)
    PROVE  Fitting' /\ Stored'
<1>f. Fits(pc[c], job[c])
  BY DEF Fitting
<1>1. ASSUME NEW b \in Candidates, ImportStart(c, b) PROVE Fitting' /\ Stored'
  <2>1. Fits("import-check", [bundle |-> b])
    BY DEF Fits, Labels, Importing, BackingUp, Restoring
  <2> QED
    BY <1>1, <2>1, GotoFits DEF ImportStart, KeepRegistry, Stored
<1>2. CASE ImportCheck(c)
  <2>1. Fits("import-copy", job[c])
    BY <1>2, <1>f DEF ImportCheck, Fits, Labels, Importing, BackingUp, Restoring
  <2> QED
    BY <1>2, <2>1, GotoFits, FinishFits DEF ImportCheck, KeepRegistry, Stored
<1>3. ASSUME NEW copied \in Digests \cup {Torn}, ImportCopy(c, copied) PROVE Fitting' /\ Stored'
  <2>1. job[c] \in [bundle : Candidates]
    BY <1>3, <1>f DEF ImportCopy, Fits
  <2>2. Fits("import-verify", [bundle |-> job[c].bundle, copied |-> copied])
    BY <2>1 DEF Fits, Labels, Importing, BackingUp, Restoring
  <2>3. registry' \in Trees
    <3>1. CapabilityOf[job[c].bundle.slot] \in Capabilities
      BY <2>1, PublisherAssumption DEF Capabilities
    <3> QED
      BY <1>3, <3>1 DEF ImportCopy, Stored, Trees
  <2> QED
    BY <1>3, <2>2, <2>3, GotoFits DEF ImportCopy, Stored
<1>4. CASE ImportVerify(c)
  <2>1. Fits("import-rename", job[c])
    BY <1>4, <1>f DEF ImportVerify, Fits, Labels, Importing, BackingUp, Restoring
  <2>2. registry' \in Trees
    BY <1>4 DEF ImportVerify, KeepRegistry, Stored, Trees
  <2> QED
    BY <1>4, <2>1, <2>2, GotoFits, FinishFits DEF ImportVerify, KeepRegistry, Stored
<1>5. CASE ImportRename(c)
  <2>1. job[c] \in [bundle : Candidates, copied : Digests \cup {Torn}]
    BY <1>5, <1>f DEF ImportRename, Fits
  <2>2. job[c].bundle.slot \in Slots
    BY <2>1, PublisherAssumption
  <2>3. registry' \in Trees
    BY <1>5, <2>1, <2>2 DEF ImportRename, Stored, Trees
  <2> QED
    BY <1>5, <2>3, FinishFits DEF ImportRename, Stored
<1> QED
  BY <1>1, <1>2, <1>3, <1>4, <1>5 DEF Import

\* The index commands.
LEMMA IndexType ==
    ASSUME Fitting, Stored, NEW c \in Commands, Index(c)
    PROVE  Fitting' /\ Stored'
<1>f. Fits(pc[c], job[c])
  BY DEF Fitting
<1> DEFINE Entry == [sequence : Sequences, left : SUBSET Capabilities, todo : SUBSET Slots,
                     entries : Listings]
<1>e. \A l \in {"index-verify", "index-mkdir", "index-sign"} : \A j \in Entry : Fits(l, j)
  BY DEF Fits, Labels, Indexing, BackingUp, Restoring
<1>s. Stored /\ KeepRegistry => Stored'
  BY DEF Stored, KeepRegistry
<1>1. ASSUME NEW s \in Sequences, IndexStart(c, s) PROVE Fitting' /\ Stored'
  <2>1. Fits("index-list", [sequence |-> s])
    BY DEF Fits, Labels, Indexing, BackingUp, Restoring
  <2> QED
    BY <1>1, <1>s, <2>1, GotoFits DEF IndexStart
<1>7. ASSUME NEW capabilities \in SUBSET Capabilities, IndexCapabilities(c, capabilities)
      PROVE  Fitting' /\ Stored'
  <2>1. job[c] \in [sequence : Sequences]
    BY <1>7, <1>f DEF IndexCapabilities, Fits
  <2> DEFINE j == [sequence |-> job[c].sequence, left |-> capabilities, todo |-> {},
                   entries |-> [v \in Slots |-> None]]
  <2>2. j \in Entry
    BY <2>1 DEF Listings
  <2> QED
    BY <1>7, <1>e, <1>s, <2>2, GotoFits DEF IndexCapabilities
<1>2. CASE IndexList(c)
  <2>1. job[c] \in Entry
    BY <1>2, <1>f DEF IndexList, Fits
  <2> DEFINE next == Least(job[c].left)
             slots == {v \in Slots : CapabilityOf[v] = next /\ registry.bundles[v] # None}
             j == [job[c] EXCEPT !.left = @ \ {next}, !.todo = slots]
  <2>2. j \in Entry
    <3>1. slots \in SUBSET Slots
      OBVIOUS
    <3> HIDE DEF slots, next
    <3> QED
      BY <2>1, <3>1
  <2>3. Goto(c, "index-verify", j) \/ Finish(c)
    BY <1>2 DEF IndexList
  <2> HIDE DEF j, Entry
  <2> QED
    BY <1>2, <1>e, <1>s, <2>2, <2>3, GotoFits, FinishFits DEF IndexList
<1>3. CASE IndexVerify(c)
  <2>1. job[c] \in Entry /\ job[c].todo # {}
    BY <1>3, <1>f DEF IndexVerify, Fits
  <2> DEFINE v == Least(job[c].todo)
  <2>2. v \in Slots
    BY <2>1, LeastIsMember, PublisherAssumption
  <2> DEFINE j == [job[c] EXCEPT !.todo = @ \ {v}, !.entries[v] = registry.bundles[v]]
  <2>3. Finish(c) \/ (VerifiesBundle(registry, v) /\ Goto(c, "index-verify", j))
    BY <1>3 DEF IndexVerify
  <2>4. ASSUME registry.bundles[v] \in Digests PROVE j \in Entry
    <3> HIDE DEF v
    <3> QED
      BY <2>1, <2>2, <2>4 DEF Listings
  <2>5. CASE VerifiesBundle(registry, v) /\ Goto(c, "index-verify", j)
    <3>1. j \in Entry
      BY <2>4, <2>5 DEF VerifiesBundle
    <3> HIDE DEF j, Entry
    <3> QED
      BY <1>3, <1>e, <1>s, <2>5, <3>1, GotoFits DEF IndexVerify
  <2> QED
    BY <1>3, <1>s, <2>3, <2>5, FinishFits DEF IndexVerify
<1>4. CASE IndexGenerate(c)
  <2>1. job[c] \in Entry
    BY <1>4, <1>f DEF IndexGenerate, Fits
  <2> QED
    BY <1>4, <1>e, <1>s, <2>1, GotoFits, FinishFits DEF IndexGenerate
<1>5. CASE IndexMkdir(c)
  <2>1. job[c] \in Entry
    BY <1>5, <1>f DEF IndexMkdir, Fits
  <2>2. [entries |-> job[c].entries, whole |-> FALSE] \in Snapshots
    BY <2>1 DEF Snapshots
  <2>3. registry' \in Trees
    BY <1>5, <2>1, <2>2 DEF IndexMkdir, SetSnapshot, Stored, Trees
  <2> QED
    BY <1>5, <1>e, <2>1, <2>3, GotoFits, FinishFits DEF IndexMkdir, Stored
<1>6. CASE IndexSign(c)
  <2>1. job[c] \in Entry
    BY <1>6, <1>f DEF IndexSign, Fits
  <2>2. [entries |-> job[c].entries, whole |-> TRUE] \in Snapshots
    BY <2>1 DEF Snapshots
  <2>3. registry' \in Trees
    BY <1>6, <2>1, <2>2 DEF IndexSign, SetSnapshot, Stored, Trees
  <2> QED
    BY <1>6, <2>3, FinishFits DEF IndexSign, Stored
<1> QED
  BY <1>1, <1>2, <1>3, <1>4, <1>5, <1>6, <1>7 DEF Index

\* Retention.
LEMMA GcType ==
    ASSUME Fitting, Stored, NEW c \in Commands, Gc(c)
    PROVE  Fitting' /\ Stored'
<1>f. Fits(pc[c], job[c])
  BY DEF Fitting
<1> DEFINE Plan == [indexes : SUBSET Sequences, bundles : SUBSET Slots]
<1>p. \A j \in Plan : Fits("gc", j)
  BY DEF Fits, Labels, BackingUp, Restoring
<1>g. \A j \in Plan : GcGoesOn(c, j) => Fitting'
  BY <1>p, GotoFits, FinishFits DEF GcGoesOn
<1>1. CASE GcStart(c)
  <2>1. [indexes |-> Listed(registry) \ Kept(registry),
         bundles |-> RemovableBundles(registry)] \in Plan
    BY DEF Listed, RemovableBundles, ListedIn
  <2> QED
    BY <1>1, <1>p, <2>1, GotoFits DEF GcStart, Stored, KeepRegistry
<1>2. CASE GcIndex(c)
  <2>1. job[c] \in Plan /\ job[c].indexes # {}
    BY <1>2, <1>f DEF GcIndex, Fits
  <2> DEFINE s == Least(job[c].indexes)
  <2>2. s \in Sequences
    BY <2>1, LeastIsMember DEF Sequences
  <2>3. \/ /\ Whole(registry, s)
           /\ registry' = [registry EXCEPT !.snapshots[s].whole = FALSE]
           /\ UNCHANGED <<pc, job>>
        \/ /\ SetSnapshot(s, None)
           /\ GcGoesOn(c, [job[c] EXCEPT !.indexes = @ \ {s}])
        \/ Finish(c) /\ UNCHANGED registry
    BY <1>2 DEF GcIndex
  <2>4. [job[c] EXCEPT !.indexes = @ \ {s}] \in Plan
    BY <2>1
  <2>5. registry' \in Trees
    <3>1. registry \in Trees
      BY DEF Stored
    <3>2. registry.snapshots[s] # None => registry.snapshots[s] \in Snapshots
      BY <2>2, <3>1 DEF Trees
    <3>3. CASE /\ Whole(registry, s)
               /\ registry' = [registry EXCEPT !.snapshots[s].whole = FALSE]
      <4>1. registry.snapshots[s] \in Snapshots
        BY <3>2, <3>3 DEF Whole, Listed
      <4>2. [registry.snapshots[s] EXCEPT !.whole = FALSE] \in Snapshots
        BY <4>1 DEF Snapshots
      <4>3. registry' = [registry EXCEPT !.snapshots[s] = [@ EXCEPT !.whole = FALSE]]
        BY <3>3
      <4> HIDE DEF s
      <4> QED
        BY <2>2, <3>1, <4>2, <4>3 DEF Trees
    <3>4. CASE SetSnapshot(s, None)
      <4> HIDE DEF s
      <4> QED
        BY <2>2, <3>1, <3>4 DEF SetSnapshot, Trees
    <3> QED
      BY <2>3, <3>1, <3>3, <3>4
  <2>6. Fitting'
    <3>1. UNCHANGED <<pc, job>> => Fitting'
      BY DEF Fitting
    <3> HIDE DEF s
    <3> QED
      BY <2>3, <2>4, <3>1, <1>g, FinishFits
  <2> QED
    BY <1>2, <2>5, <2>6 DEF GcIndex, Stored
<1>3. CASE GcBundle(c)
  <2>1. job[c] \in Plan /\ job[c].bundles # {}
    BY <1>3, <1>f DEF GcBundle, Fits
  <2> DEFINE v == Least(job[c].bundles)
  <2>2. v \in Slots
    BY <2>1, LeastIsMember, PublisherAssumption
  <2>3. \/ SetBundle(v, Torn) /\ UNCHANGED <<pc, job>>
        \/ /\ SetBundle(v, None)
           /\ Finish(c) \/ GcGoesOn(c, [job[c] EXCEPT !.bundles = @ \ {v}])
    BY <1>3 DEF GcBundle
  <2>4. [job[c] EXCEPT !.bundles = @ \ {v}] \in Plan
    BY <2>1
  <2>5. registry' \in Trees
    <3> HIDE DEF v
    <3> QED
      BY <2>2, <2>3 DEF SetBundle, Stored, Trees
  <2>6. Fitting'
    <3>1. UNCHANGED <<pc, job>> => Fitting'
      BY DEF Fitting
    <3> HIDE DEF v
    <3> QED
      BY <2>3, <2>4, <3>1, <1>g, FinishFits
  <2> QED
    BY <1>3, <2>5, <2>6 DEF GcBundle, Stored
<1> QED
  BY <1>1, <1>2, <1>3 DEF Gc

\* Backups.
LEMMA BackupType ==
    ASSUME Fitting, Stored, NEW c \in Commands, Backup(c)
    PROVE  Fitting' /\ Stored'
<1>f. Fits(pc[c], job[c])
  BY DEF Fitting
<1> DEFINE Copy == [latest : Sequences, tree : Trees, left : SUBSET {"bundles", "snapshots"}]
<1>p. \A l \in BackingUp : \A j \in Copy : Fits(l, j)
  BY DEF Fits, Labels, BackingUp, Restoring
<1>s. Stored /\ KeepRegistry => Stored'
  BY DEF Stored, KeepRegistry
<1>1. CASE BackupStart(c)
  <2>1. EmptyTree \in Trees
    BY DEF EmptyTree, Trees
  <2>2. Listed(registry) \in SUBSET Sequences /\ Listed(registry) # {}
    BY <1>1 DEF BackupStart, VerifiesForOperations, Listed
  <2>3. Highest(Listed(registry)) \in Sequences
    BY <2>2, HighestIsGreatest
  <2>4. [latest |-> Highest(Listed(registry)), tree |-> EmptyTree,
         left |-> {"bundles", "snapshots"}] \in Copy
    BY <2>1, <2>3
  <2> QED
    BY <1>1, <1>p, <1>s, <2>4, GotoFits DEF BackupStart, BackingUp
<1>2. ASSUME NEW part \in {"bundles", "snapshots"}, BackupCopy(c, part)
      PROVE  Fitting' /\ Stored'
  <2>1. job[c] \in Copy
    BY <1>2, <1>f DEF BackupCopy, Fits, BackingUp
  <2> DEFINE tree == IF part = "bundles"
                       THEN [job[c].tree EXCEPT !.bundles = registry.bundles,
                                                !.staging = registry.staging]
                       ELSE [job[c].tree EXCEPT !.snapshots = registry.snapshots]
             left == job[c].left \ {part}
             j == [latest |-> job[c].latest, tree |-> tree, left |-> left]
  <2>2. tree \in Trees
    BY <2>1 DEF Stored, Trees
  <2>3. j \in Copy
    BY <2>1, <2>2
  <2>4. \E l \in BackingUp : Goto(c, l, j)
    BY <1>2 DEF BackupCopy, BackingUp
  <2> HIDE DEF j, Copy
  <2> QED
    BY <1>2, <1>p, <1>s, <2>3, <2>4, GotoFits DEF BackupCopy
<1>3. CASE BackupSeal(c)
  <2>1. job[c] \in Copy
    BY <1>3, <1>f DEF BackupSeal, Fits, BackingUp
  <2>2. [tree |-> job[c].tree, latest |-> job[c].latest, quiet |-> c \notin disturbed]
          \in [tree : Trees, latest : Sequences, quiet : BOOLEAN]
    BY <2>1
  <2> QED
    BY <1>3, <2>2, FinishFits DEF BackupSeal, Stored
<1> QED
  BY <1>1, <1>2, <1>3 DEF Backup

\* Restores.
LEMMA RestoreType ==
    ASSUME Fitting, Stored, RestoreInv, NEW c \in Commands, Restore(c)
    PROVE  Fitting' /\ Stored'
<1> DEFINE Copied == [tree : Trees, latest : Sequences]
<1>p. \A l \in Restoring : \A j \in Copied : Fits(l, j)
  BY DEF Fits, Labels, BackingUp, Restoring
<1>s. Stored /\ KeepRegistry => Stored'
  BY DEF Stored, KeepRegistry
<1>1. CASE RestoreStart(c)
  <2>1. [tree |-> backup.tree, latest |-> backup.latest] \in Copied
    BY <1>1 DEF RestoreStart, Stored
  <2> QED
    BY <1>1, <1>p, <1>s, <2>1, GotoFits DEF RestoreStart, Restoring
<1>2. CASE RestoreVerify(c)
  <2>1. job[c] \in Copied
    BY <1>2 DEF RestoreVerify, Fitting, Fits, Restoring
  <2>2. Goto(c, "restore-rename", job[c]) \/ Finish(c)
    BY <1>2 DEF RestoreVerify
  <2> QED
    BY <1>2, <1>p, <1>s, <2>1, <2>2, GotoFits, FinishFits DEF RestoreVerify, Restoring
<1>3. CASE RestoreRename(c)
  <2>1. job[c] \in Copied
    BY <1>3 DEF RestoreRename, Fitting, Fits, Restoring
  <2>2. target' \in Trees \cup {None}
    BY <1>3, <2>1 DEF RestoreRename, Stored
  <2> QED
    BY <1>3, <2>2, FinishFits DEF RestoreRename, Stored
<1> QED
  BY <1>1, <1>2, <1>3 DEF Restore

\* Failing steps.
LEMMA FailsType ==
    ASSUME Fitting, Stored, NEW c \in Commands, Fails(c)
    PROVE  Fitting' /\ Stored'
<1>1. Fits(pc[c], job[c])
  BY DEF Fitting
<1>2. registry' \in Trees
  BY <1>1 DEF Fails, Stored, Trees
<1> QED
  BY <1>2, FinishFits DEF Fails, Stored

\* The initial state is well typed.
LEMMA InitPublisherType == Init => PublisherTypeInv
<1> SUFFICES ASSUME Init PROVE PublisherTypeInv
  OBVIOUS
<1>1. registry \in Trees
  BY DEF Init, EmptyTree, Trees
<1>2. Fits("idle", None)
  BY DEF Fits, Labels, BackingUp, Restoring
<1>3. Fitting
  BY <1>2, FittingJob DEF Init, Fitting
<1>4. horizon \in 0..MaxSequence /\ kills \in 0..site.kills
  BY PublisherAssumption DEF Init
<1>5. published \in [Sequences -> Listings \cup {None}]
  BY DEF Init
<1> QED
  BY <1>1, <1>3, <1>4, <1>5 DEF Init, PublisherTypeInv, TypeOK, Fitting

\* Every step keeps the types.
LEMMA NextPublisherType == PublisherTypeInv /\ RestoreInv /\ [Next]_vars => PublisherTypeInv'
<1> SUFFICES ASSUME PublisherTypeInv, RestoreInv, [Next]_vars PROVE PublisherTypeInv'
  OBVIOUS
<1>0. TypeOK /\ Fitting /\ Stored
  BY DEF PublisherTypeInv, TypeOK, Stored
<1>1. CASE UNCHANGED vars
  BY <1>0, <1>1 DEF PublisherTypeInv, TypeOK, Fitting, vars
<1>2. CASE Next
  <2>1. site' = site /\ Remember
    BY <1>2 DEF Next
  <2>2. MaxSequence \in Nat /\ site.kills \in Nat
    BY <1>0, PublisherAssumption DEF TypeOK
  <2>3. /\ Fitting' /\ Stored'
        /\ horizon' \in 0..MaxSequence /\ kills' \in 0..site.kills
    <3>1. ASSUME NEW c \in Commands, Does(c) PROVE Fitting' /\ Stored' /\ UNCHANGED <<horizon, kills>>
      BY <1>0, <3>1, ImportType, IndexType, GcType, BackupType, RestoreType, FailsType DEF Does
    <3>2. ASSUME NEW c \in Commands, Killed(c), UNCHANGED horizon
          PROVE  Fitting' /\ Stored' /\ horizon' = horizon /\ kills' \in 0..site.kills
      <4>1. Fits("killed", None)
        BY DEF Fits, Labels, BackingUp, Restoring
      <4>2. Fitting'
        BY <1>0, <3>2, <4>1, GotoFits DEF Killed
      <4> QED
        BY <1>0, <2>2, <3>2, <4>2 DEF Killed, KeepRegistry, Stored, TypeOK
    <3>3. ASSUME Expire
          PROVE  Fitting' /\ Stored' /\ horizon' \in 0..MaxSequence /\ kills' = kills
      <4>1. Highest(Listed(registry)) \in 0..MaxSequence
        BY HighestIsGreatest DEF Listed
      <4> QED
        BY <1>0, <2>2, <3>3, <4>1 DEF Expire, Fitting, Stored, TypeOK
    <3> QED
      BY <1>0, <1>2, <3>1, <3>2, <3>3 DEF Next, TypeOK
  <2>4. raced' \in BOOLEAN /\ disturbed' \subseteq Commands
    BY <1>0, <2>1 DEF Remember, TypeOK
  <2>5. published' \in [Sequences -> Listings \cup {None}]
    <3>1. \A s \in Sequences :
            registry'.snapshots[s] # None => registry'.snapshots[s].entries \in Listings
      BY <2>3 DEF Stored, Trees, Snapshots
    <3> QED
      BY <1>0, <2>1, <3>1 DEF Remember, TypeOK
  <2> QED
    BY <1>0, <2>1, <2>3, <2>4, <2>5 DEF PublisherTypeInv, TypeOK, Fitting, Stored
<1> QED
  BY <1>1, <1>2

-----------------------------------------------------------------------------
(***************************************************************************)
(* Restores.  A backup is put in place once and is never replaced, so what *)
(* a restore has verified is what it renames.                              *)
(***************************************************************************)
\* Initially there is no backup.
LEMMA InitRestoreInv == Init => RestoreInv
BY DEF Init, RestoreInv, RestoredIsWhole, Restoring

\* What a step does to backups and restores.
LEMMA RestoreSteps ==
    ASSUME PublisherTypeInv, [Next]_vars
    PROVE  /\ backup' = backup \/ backup = None
           /\ \/ target' = target
              \/ \E c \in Commands : pc[c] = "restore-rename" /\ target' = job[c].tree
           /\ \A c \in Commands : pc'[c] \in Restoring =>
                \/ pc'[c] = pc[c] /\ job'[c] = job[c]
                \/ /\ pc'[c] = "restore-verify" /\ backup # None
                   /\ job'[c] = [tree |-> backup.tree, latest |-> backup.latest]
                \/ /\ pc[c] = "restore-verify" /\ job'[c] = job[c] /\ Closed(job[c].tree)
                   /\ Highest(Listed(job[c].tree)) = job[c].latest
<1> DEFINE Q == /\ backup' = backup \/ backup = None
                /\ \/ target' = target
                   \/ \E c \in Commands : pc[c] = "restore-rename" /\ target' = job[c].tree
                /\ \A c \in Commands : pc'[c] \in Restoring =>
                     \/ pc'[c] = pc[c] /\ job'[c] = job[c]
                     \/ /\ pc'[c] = "restore-verify" /\ backup # None
                        /\ job'[c] = [tree |-> backup.tree, latest |-> backup.latest]
                     \/ /\ pc[c] = "restore-verify" /\ job'[c] = job[c] /\ Closed(job[c].tree)
                        /\ Highest(Listed(job[c].tree)) = job[c].latest
<1>0. pc \in [Commands -> Labels] /\ job \in [Commands -> Jobs \cup {None}]
  BY DEF PublisherTypeInv, TypeOK
<1>1. CASE UNCHANGED vars
  BY <1>1 DEF vars
<1>2. ASSUME NEW c \in Commands, Import(c) PROVE Q
  BY <1>0, <1>2 DEF Import, ImportStart, ImportCheck, ImportCopy, ImportVerify, ImportRename,
                    Restoring, Goto, Finish, KeepRegistry
<1>3. ASSUME NEW c \in Commands, Index(c) PROVE Q
  BY <1>0, <1>3 DEF Index, IndexStart, IndexCapabilities, IndexList, IndexVerify,
                    IndexGenerate, IndexMkdir, IndexSign, Restoring, Goto, Finish, KeepRegistry
<1>4. ASSUME NEW c \in Commands, Gc(c) PROVE Q
  BY <1>0, <1>4 DEF Gc, GcStart, GcIndex, GcBundle, GcGoesOn, Restoring, Goto, Finish,
                    KeepRegistry
<1>5. ASSUME NEW c \in Commands, Backup(c) PROVE Q
  BY <1>0, <1>5 DEF Backup, BackupStart, BackupCopy, BackupSeal, Restoring, Goto, Finish,
                    KeepRegistry
<1>6. ASSUME NEW c \in Commands, Restore(c) PROVE Q
  BY <1>0, <1>6 DEF Restore, RestoreStart, RestoreVerify, RestoreRename, VerifiesForOperations,
                    Restoring, Goto, Finish, KeepRegistry
<1>7. ASSUME NEW c \in Commands, Fails(c) \/ Killed(c) PROVE Q
  BY <1>0, <1>7 DEF Fails, Killed, Restoring, Goto, Finish, KeepRegistry
<1>8. CASE Expire
  BY <1>8 DEF Expire
<1> QED
  BY <1>1, <1>2, <1>3, <1>4, <1>5, <1>6, <1>7, <1>8 DEF Next, Does

\* Every step keeps what has been verified.
LEMMA NextRestoreInv == PublisherTypeInv /\ RestoreInv /\ [Next]_vars => RestoreInv'
<1> SUFFICES ASSUME PublisherTypeInv, RestoreInv, [Next]_vars PROVE RestoreInv'
  OBVIOUS
<1>1. ASSUME NEW c \in Commands, pc'[c] \in Restoring
      PROVE  /\ backup' # None /\ job'[c] = [tree |-> backup'.tree, latest |-> backup'.latest]
             /\ pc'[c] = "restore-rename" =>
                  Closed(backup'.tree) /\ Highest(Listed(backup'.tree)) = backup'.latest
  BY <1>1, RestoreSteps DEF RestoreInv, Restoring
<1>2. target' # None => backup' # None /\ Closed(target') /\ Highest(Listed(target')) = backup'.latest
  BY RestoreSteps DEF RestoreInv, RestoredIsWhole, Restoring
<1> QED
  BY <1>1, <1>2 DEF RestoreInv, RestoredIsWhole, Restoring

\* RegistryPublisher is well typed.
THEOREM PublisherTypeCorrect == Spec => []TypeOK
<1>1. Init => PublisherTypeInv /\ RestoreInv
  BY InitPublisherType, InitRestoreInv
<1>2. PublisherTypeInv /\ RestoreInv /\ [Next]_vars => PublisherTypeInv' /\ RestoreInv'
  BY NextPublisherType, NextRestoreInv
<1>3. PublisherTypeInv => TypeOK
  BY DEF PublisherTypeInv
<1> QED
  BY <1>1, <1>2, <1>3, PTL DEF Spec

\* Whatever overlaps a backup or a restore, what a restore puts in place is a
\* complete registry with the latest index of the backup's manifest.
THEOREM RestoresAreWhole == Spec => []RestoredIsWhole
<1>1. Init => PublisherTypeInv /\ RestoreInv
  BY InitPublisherType, InitRestoreInv
<1>2. PublisherTypeInv /\ RestoreInv /\ [Next]_vars => PublisherTypeInv' /\ RestoreInv'
  BY NextPublisherType, NextRestoreInv
<1>3. RestoreInv => RestoredIsWhole
  BY DEF RestoreInv
<1> QED
  BY <1>1, <1>2, <1>3, PTL DEF Spec

\* A command leaves the others where they are.
LEMMA OthersStay ==
    ASSUME Fitting, NEW c \in Commands, Does(c) \/ Killed(c), NEW d \in Commands, d # c
    PROVE  pc'[d] = pc[d] /\ job'[d] = job[d]
<1> DEFINE Q == pc'[d] = pc[d] /\ job'[d] = job[d]
<1>0. pc \in [Commands -> Labels] /\ job \in [Commands -> Jobs \cup {None}]
  BY DEF Fitting
<1>1. \A label, j : Goto(c, label, j) => Q
  BY <1>0 DEF Goto
<1>2. Finish(c) => Q
  BY <1>1 DEF Finish
<1>3. CASE Import(c)
  BY <1>1, <1>2, <1>3 DEF Import, ImportStart, ImportCheck, ImportCopy, ImportVerify,
                          ImportRename
<1>4. CASE Index(c)
  BY <1>1, <1>2, <1>4 DEF Index, IndexStart, IndexCapabilities, IndexList, IndexVerify,
                          IndexGenerate, IndexMkdir, IndexSign
<1>5. CASE Gc(c)
  BY <1>1, <1>2, <1>5 DEF Gc, GcStart, GcIndex, GcBundle, GcGoesOn
<1>6. CASE Backup(c) \/ Restore(c)
  BY <1>1, <1>2, <1>6 DEF Backup, BackupStart, BackupCopy, BackupSeal, Restore, RestoreStart,
                          RestoreVerify, RestoreRename
<1>7. CASE Fails(c) \/ Killed(c)
  BY <1>1, <1>2, <1>7 DEF Fails, Killed
<1> QED
  BY <1>3, <1>4, <1>5, <1>6, <1>7 DEF Does

-----------------------------------------------------------------------------
(***************************************************************************)
(* Imports.  Only the command that staged a copy holds it, and a slot that *)
(* is taken is compared with the copy and left as it is.                   *)
(***************************************************************************)
StagingInv ==
    \A c \in Commands : registry.staging[c] # None =>
      pc[c] \in {"import-verify", "import-rename", "killed"}

\* Initially nothing is staged.
LEMMA InitStagingInv == Init => StagingInv
BY DEF Init, EmptyTree, StagingInv

\* What a step does to the staging directories.
LEMMA StagingSteps ==
    ASSUME PublisherTypeInv, StagingInv, NEW c \in Commands, Does(c) \/ Killed(c)
    PROVE  /\ \A d \in Commands : d # c => registry'.staging[d] = registry.staging[d]
           /\ registry'.staging[c] # None => pc'[c] \in {"import-verify", "import-rename", "killed"}
<1> DEFINE Q == /\ \A d \in Commands : d # c => registry'.staging[d] = registry.staging[d]
                /\ registry'.staging[c] # None =>
                     pc'[c] \in {"import-verify", "import-rename", "killed"}
<1>0. /\ pc \in [Commands -> Labels]
      /\ registry \in Trees /\ registry.staging \in [Commands -> Capabilities \cup {None}]
      /\ registry.staging[c] # None => pc[c] \in {"import-verify", "import-rename", "killed"}
  BY DEF PublisherTypeInv, TypeOK, StagingInv, Trees
<1>1. CASE Import(c)
  <2>1. CASE registry' = registry /\ registry.staging[c] = None
    BY <2>1
  <2>2. CASE registry'.staging = [registry.staging EXCEPT ![c] = None]
    BY <1>0, <2>2
  <2>4. ASSUME NEW b \in Candidates, ImportStart(c, b) PROVE Q
    BY <1>0, <2>1, <2>4 DEF ImportStart, KeepRegistry, Starts
  <2>5. CASE ImportCheck(c)
    BY <1>0, <2>1, <2>5 DEF ImportCheck, KeepRegistry
  <2>6. ASSUME NEW copied \in Digests \cup {Torn}, ImportCopy(c, copied) PROVE Q
    <3>1. /\ registry'.staging =
              [registry.staging EXCEPT ![c] = CapabilityOf[job[c].bundle.slot]]
          /\ pc'[c] = "import-verify"
      BY <1>0, <2>6 DEF ImportCopy, Goto, Trees
    <3> QED
      BY <1>0, <3>1
  <2>7. CASE ImportVerify(c)
    <3>1. CASE registry' = registry /\ pc'[c] = "import-rename"
      BY <3>1
    <3>2. CASE registry' = [registry EXCEPT !.staging[c] = None]
      BY <1>0, <2>2, <3>2 DEF Trees
    <3> QED
      BY <1>0, <2>7, <3>1, <3>2 DEF ImportVerify, Goto, KeepRegistry
  <2>8. CASE ImportRename(c)
    BY <1>0, <2>2, <2>8 DEF ImportRename, Trees
  <2> QED
    BY <1>1, <2>4, <2>5, <2>6, <2>7, <2>8 DEF Import
<1>2. CASE Index(c)
  BY <1>0, <1>2 DEF Index, IndexStart, IndexCapabilities, IndexList, IndexVerify,
                    IndexGenerate, IndexMkdir, IndexSign, KeepRegistry, Starts, SetSnapshot,
                    Trees
<1>3. CASE Gc(c)
  BY <1>0, <1>3 DEF Gc, GcStart, GcIndex, GcBundle, KeepRegistry, Starts, SetSnapshot,
                    SetBundle, Trees
<1>4. CASE Backup(c) \/ Restore(c)
  BY <1>0, <1>4 DEF Backup, BackupStart, BackupCopy, BackupSeal, Restore, RestoreStart,
                    RestoreVerify, RestoreRename, KeepRegistry, Starts
<1>5. CASE Fails(c)
  <2>1. \/ registry'.staging = [registry.staging EXCEPT ![c] = None]
        \/ registry'.staging = registry.staging /\ pc[c] \notin Importing \cup {"idle", "killed"}
    BY <1>0, <1>5 DEF Fails, Running, Trees
  <2>2. CASE registry'.staging = [registry.staging EXCEPT ![c] = None]
    BY <1>0, <2>2
  <2>3. CASE registry'.staging = registry.staging /\ pc[c] \notin Importing \cup {"idle", "killed"}
    BY <1>0, <2>3 DEF Importing
  <2> QED
    BY <2>1, <2>2, <2>3
<1>6. CASE Killed(c)
  BY <1>0, <1>6 DEF Killed, Goto, KeepRegistry
<1> QED
  BY <1>1, <1>2, <1>3, <1>4, <1>5, <1>6 DEF Does

\* Every step keeps the owners of staging directories.
LEMMA NextStagingInv == PublisherTypeInv /\ StagingInv /\ [Next]_vars => StagingInv'
<1> SUFFICES ASSUME PublisherTypeInv, StagingInv, [Next]_vars PROVE StagingInv'
  OBVIOUS
<1>1. CASE UNCHANGED vars \/ Expire
  BY <1>1 DEF vars, Expire, StagingInv
<1>2. ASSUME NEW c \in Commands, Does(c) \/ Killed(c) PROVE StagingInv'
  <2> SUFFICES ASSUME NEW d \in Commands, registry'.staging[d] # None
               PROVE  pc'[d] \in {"import-verify", "import-rename", "killed"}
    BY DEF StagingInv
  <2>1. CASE d = c
    BY <1>2, <2>1, StagingSteps
  <2>2. CASE d # c
    <3>1. registry.staging[d] # None
      BY <1>2, <2>2, StagingSteps
    <3> QED
      BY <1>2, <2>2, <3>1, OthersStay DEF StagingInv, PublisherTypeInv
  <2> QED
    BY <2>1, <2>2
<1> QED
  BY <1>1, <1>2 DEF Next

\* Whichever imports and other commands overlap and fail, only a command that
\* goes on or was killed has a staging directory.
THEOREM StagingDirectoriesAreOwned == Spec => []StagingIsOwned
<1>1. Init => PublisherTypeInv /\ RestoreInv /\ StagingInv
  BY InitPublisherType, InitRestoreInv, InitStagingInv
<1>2. PublisherTypeInv /\ RestoreInv /\ StagingInv /\ [Next]_vars
        => PublisherTypeInv' /\ RestoreInv' /\ StagingInv'
  BY NextPublisherType, NextRestoreInv, NextStagingInv
<1>3. StagingInv => StagingIsOwned
  BY DEF StagingInv, StagingIsOwned, Importing
<1> QED
  BY <1>1, <1>2, <1>3, PTL DEF Spec

\* What a step does to a slot.
LEMMA BundleSteps ==
    ASSUME PublisherTypeInv, NEW c \in Commands, Does(c) \/ Killed(c), NEW v \in Slots
    PROVE  \/ registry'.bundles[v] = registry.bundles[v]
           \/ /\ pc[c] = "import-rename" /\ registry.bundles[v] = None
              /\ registry'.bundles[v] = job[c].copied
           \/ /\ pc[c] = "gc" /\ v \in job[c].bundles
              /\ \/ registry'.bundles[v] = Torn
                 \/ registry.bundles[v] \notin Digests /\ registry'.bundles[v] = None
<1> DEFINE Q == \/ registry'.bundles[v] = registry.bundles[v]
                \/ /\ pc[c] = "import-rename" /\ registry.bundles[v] = None
                   /\ registry'.bundles[v] = job[c].copied
                \/ /\ pc[c] = "gc" /\ v \in job[c].bundles
                   /\ \/ registry'.bundles[v] = Torn
                      \/ registry.bundles[v] \notin Digests /\ registry'.bundles[v] = None
<1>0. registry \in Trees /\ Fits(pc[c], job[c])
  BY DEF PublisherTypeInv, TypeOK, Fitting
<1>1. CASE Import(c)
  <2>1. CASE registry'.bundles = registry.bundles
    BY <2>1
  <2>2. ASSUME NEW b \in Candidates, ImportStart(c, b) PROVE Q
    BY <2>2 DEF ImportStart, KeepRegistry
  <2>3. CASE ImportCheck(c)
    BY <2>3 DEF ImportCheck, KeepRegistry
  <2>4. ASSUME NEW copied \in Digests \cup {Torn}, ImportCopy(c, copied) PROVE Q
    BY <1>0, <2>1, <2>4 DEF ImportCopy, Trees
  <2>5. CASE ImportVerify(c)
    BY <1>0, <2>1, <2>5 DEF ImportVerify, KeepRegistry, Trees
  <2>6. CASE ImportRename(c)
    <3>1. registry'.bundles = [registry.bundles EXCEPT
            ![job[c].bundle.slot] = IF registry.bundles[job[c].bundle.slot] = None
                                      THEN job[c].copied
                                      ELSE registry.bundles[job[c].bundle.slot]]
      BY <1>0, <2>6 DEF ImportRename, Trees
    <3>2. registry.bundles \in [Slots -> Digests \cup {None, Torn}]
      BY <1>0 DEF Trees
    <3>3. v # job[c].bundle.slot => registry'.bundles[v] = registry.bundles[v]
      BY <3>1, <3>2
    <3>4. v = job[c].bundle.slot => Q
      BY <2>6, <3>1, <3>2 DEF ImportRename
    <3> QED
      BY <3>3, <3>4
  <2> QED
    BY <1>1, <2>2, <2>3, <2>4, <2>5, <2>6 DEF Import
<1>2. CASE Index(c)
  <2>1. registry'.bundles = registry.bundles
    BY <1>0, <1>2 DEF Index, IndexStart, IndexCapabilities, IndexList, IndexVerify,
                      IndexGenerate, IndexMkdir, IndexSign, KeepRegistry, SetSnapshot, Trees
  <2> QED
    BY <2>1
<1>3. CASE Gc(c)
  <2>1. CASE GcStart(c) \/ GcIndex(c)
    <3>1. registry'.bundles = registry.bundles
      BY <1>0, <2>1 DEF GcStart, GcIndex, KeepRegistry, SetSnapshot, Trees
    <3> QED
      BY <3>1
  <2>2. CASE GcBundle(c)
    <3> DEFINE w == Least(job[c].bundles)
    <3>1. w \in job[c].bundles
      <4>1. job[c].bundles \in SUBSET Nat /\ job[c].bundles # {}
        BY <1>0, <2>2, PublisherAssumption DEF GcBundle, Fits
      <4> QED
        BY <4>1, LeastIsMember
    <3>2. pc[c] = "gc" /\ \/ SetBundle(w, Torn)
                          \/ SetBundle(w, None) /\ registry.bundles[w] \notin Digests
      BY <2>2 DEF GcBundle, VerifiesBundle
    <3>3. \A d : SetBundle(w, d) => registry'.bundles = [registry.bundles EXCEPT ![w] = d]
      BY <1>0 DEF SetBundle, Trees
    <3>4. registry.bundles \in [Slots -> Digests \cup {None, Torn}]
      BY <1>0 DEF Trees
    <3> HIDE DEF w
    <3> QED
      BY <3>1, <3>2, <3>3, <3>4
  <2> QED
    BY <1>3, <2>1, <2>2 DEF Gc
<1>4. CASE Backup(c) \/ Restore(c) \/ Killed(c)
  <2>1. registry' = registry
    BY <1>4 DEF Backup, BackupStart, BackupCopy, BackupSeal, Restore, RestoreStart,
                RestoreVerify, RestoreRename, Killed, KeepRegistry
  <2> QED
    BY <2>1
<1>5. CASE Fails(c)
  <2>1. registry'.bundles = registry.bundles
    BY <1>0, <1>5 DEF Fails, Trees
  <2> QED
    BY <2>1
<1> QED
  BY <1>1, <1>2, <1>3, <1>4, <1>5 DEF Does

\* Whatever commands overlap, a version keeps its bytes until retention takes it
\* away.
THEOREM ImportedBundlesStay == Spec => BundlesAreNeverReplaced
<1>1. ASSUME PublisherTypeInv, [Next]_vars, NEW v \in Slots, registry.bundles[v] \in Digests
      PROVE  registry'.bundles[v] = registry.bundles[v] \/ registry'.bundles[v] = Torn
  <2>1. CASE UNCHANGED vars \/ Expire
    <3>1. registry' = registry
      BY <2>1 DEF vars, Expire
    <3> QED
      BY <3>1
  <2>2. ASSUME NEW c \in Commands, Does(c) \/ Killed(c)
        PROVE  registry'.bundles[v] = registry.bundles[v] \/ registry'.bundles[v] = Torn
    <3>1. registry.bundles[v] # None
      BY <1>1, PublisherAssumption
    <3> QED
      BY <1>1, <2>2, <3>1, BundleSteps
  <2> QED
    BY <1>1, <2>1, <2>2 DEF Next
<1>2. Init => PublisherTypeInv /\ RestoreInv
  BY InitPublisherType, InitRestoreInv
<1>3. PublisherTypeInv /\ RestoreInv /\ [Next]_vars => PublisherTypeInv' /\ RestoreInv'
  BY NextPublisherType, NextRestoreInv
<1>4. PublisherTypeInv /\ [Next]_vars =>
        \A v \in Slots : registry.bundles[v] \in Digests =>
          registry'.bundles[v] \in {registry.bundles[v], Torn}
  BY <1>1
<1> QED
  BY <1>2, <1>3, <1>4, PTL DEF Spec, BundlesAreNeverReplaced

-----------------------------------------------------------------------------
(***************************************************************************)
(* Backups.  As long as the registry has not changed, the copy a backup    *)
(* makes is of the registry that was verified first.                       *)
(***************************************************************************)
\* Whether a directory is complete depends on its bundles and snapshots.
LEMMA ClosedDepends ==
    ASSUME NEW t, NEW u, t.bundles = u.bundles, t.snapshots = u.snapshots
    PROVE  Listed(t) = Listed(u) /\ (Closed(t) => Closed(u))
BY DEF Listed, Closed, Whole, Present

Copying(c) ==
    /\ Closed(registry) /\ job[c].latest = Highest(Listed(registry))
    /\ "bundles" \notin job[c].left => job[c].tree.bundles = registry.bundles
    /\ "snapshots" \notin job[c].left => job[c].tree.snapshots = registry.snapshots
    /\ pc[c] = "backup-seal" => job[c].left = {}

QuietInv ==
    /\ QuietBackupsRestore
    /\ \A c \in Commands : pc[c] \in BackingUp /\ c \notin disturbed => Copying(c)

\* Initially there is no backup.
LEMMA InitQuietInv == Init => QuietInv
BY DEF Init, QuietInv, QuietBackupsRestore, BackingUp

\* Where a backup can be after a step.
LEMMA BackupSteps ==
    ASSUME PublisherTypeInv, NEW c \in Commands, Does(c) \/ Killed(c), pc'[c] \in BackingUp
    PROVE  BackupStart(c) \/ \E part \in {"bundles", "snapshots"} : BackupCopy(c, part)
<1>0. pc \in [Commands -> Labels] /\ job \in [Commands -> Jobs \cup {None}]
  BY DEF PublisherTypeInv, TypeOK
<1>1. \A label, j : Goto(c, label, j) => label \in BackingUp
  BY <1>0 DEF Goto
<1>2. ~Finish(c)
  BY <1>1 DEF Finish, BackingUp
<1>3. ~Import(c)
  <2>1. Import(c) => pc'[c] \notin BackingUp
    BY <1>0 DEF Import, ImportStart, ImportCheck, ImportCopy, ImportVerify, ImportRename,
                Goto, Finish, BackingUp
  <2> QED
    BY <2>1
<1>4. ~Index(c)
  <2>1. Index(c) => pc'[c] \notin BackingUp
    BY <1>0 DEF Index, IndexStart, IndexCapabilities, IndexList, IndexVerify, IndexGenerate,
                IndexMkdir, IndexSign, Goto, Finish, BackingUp
  <2> QED
    BY <2>1
<1>5. ~Gc(c)
  <2>1. Gc(c) => pc'[c] \notin BackingUp
    BY <1>1, <1>2 DEF Gc, GcStart, GcIndex, GcBundle, GcGoesOn, BackingUp
  <2> QED
    BY <2>1
<1>6. ~Restore(c) /\ ~Fails(c) /\ ~Killed(c) /\ ~BackupSeal(c)
  BY <1>1, <1>2 DEF Restore, RestoreStart, RestoreVerify, RestoreRename, Fails, Killed,
                    BackupSeal, BackingUp
<1> QED
  BY <1>3, <1>4, <1>5, <1>6 DEF Does, Backup

\* What a step makes of the backup.
LEMMA SealSteps ==
    ASSUME NEW c \in Commands, Does(c) \/ Killed(c)
    PROVE  backup' = backup \/ BackupSeal(c)
<1>1. CASE Import(c) \/ Index(c)
  BY <1>1 DEF Import, ImportStart, ImportCheck, ImportCopy, ImportVerify, ImportRename, Index,
              IndexStart, IndexCapabilities, IndexList, IndexVerify, IndexGenerate, IndexMkdir,
              IndexSign, KeepRegistry
<1>2. CASE Gc(c) \/ Backup(c)
  BY <1>2 DEF Gc, GcStart, GcIndex, GcBundle, Backup, BackupStart, BackupCopy, KeepRegistry
<1>3. CASE Restore(c) \/ Fails(c) \/ Killed(c)
  BY <1>3 DEF Restore, RestoreStart, RestoreVerify, RestoreRename, Fails, Killed, KeepRegistry
<1> QED
  BY <1>1, <1>2, <1>3 DEF Does

\* Every step keeps copies that are not disturbed true to the registry.
LEMMA NextQuietInv == PublisherTypeInv /\ QuietInv /\ [Next]_vars => QuietInv'
<1> SUFFICES ASSUME PublisherTypeInv, QuietInv, [Next]_vars PROVE QuietInv'
  OBVIOUS
<1> DEFINE Restorable(b) == b # None /\ b.quiet =>
             Closed(b.tree) /\ Highest(Listed(b.tree)) = b.latest
<1>q. /\ QuietBackupsRestore <=> Restorable(backup)
      /\ QuietBackupsRestore' <=> Restorable(backup')
  BY DEF QuietBackupsRestore
<1>1. CASE UNCHANGED vars
  BY <1>1 DEF vars, QuietInv, QuietBackupsRestore, Copying, Closed, Listed, Whole, Present,
              Highest
<1>2. CASE Next
  <2>1. ASSUME NEW c \in Commands, Does(c) \/ Killed(c) PROVE Restorable(backup')
    <3>1. CASE backup' = backup
      BY <1>q, <3>1 DEF QuietInv
    <3>2. CASE BackupSeal(c) /\ backup = None /\ c \notin disturbed
      <4>1. Copying(c) /\ job[c].left = {}
        BY <3>2 DEF BackupSeal, QuietInv, Copying, BackingUp
      <4>2. Closed(job[c].tree) /\ Listed(job[c].tree) = Listed(registry)
        BY <4>1, ClosedDepends DEF Copying
      <4>3. backup'.tree = job[c].tree /\ backup'.latest = job[c].latest
        BY <3>2 DEF BackupSeal
      <4> QED
        BY <4>1, <4>2, <4>3 DEF Copying
    <3>3. CASE BackupSeal(c) /\ backup = None /\ c \in disturbed
      BY <3>3 DEF BackupSeal
    <3> QED
      BY <2>1, <3>1, <3>2, <3>3, SealSteps DEF BackupSeal
  <2>2. Restorable(backup')
    BY <1>2, <1>q, <2>1 DEF Next, Expire, QuietInv
  <2>3. ASSUME NEW d \in Commands, pc'[d] \in BackingUp, d \notin disturbed' PROVE Copying(d)'
    <3>1. registry' = registry /\ d \notin disturbed
      BY <1>2, <2>3 DEF Next, Remember
    <3>2. CASE pc'[d] = pc[d] /\ job'[d] = job[d]
      <4>1. Copying(d)
        BY <2>3, <3>1, <3>2 DEF QuietInv
      <4> QED
        BY <3>1, <3>2, <4>1 DEF Copying, Closed, Listed, Whole, Present, Highest
    <3>3. CASE Does(d) \/ Killed(d)
      <4>0. pc \in [Commands -> Labels] /\ job \in [Commands -> Jobs \cup {None}]
        BY DEF PublisherTypeInv, TypeOK
      <4>1. CASE BackupStart(d)
        <5>1. /\ Closed(registry) /\ job'[d].latest = Highest(Listed(registry))
              /\ job'[d].left = {"bundles", "snapshots"} /\ pc'[d] = "backup-copy"
          BY <4>0, <4>1 DEF BackupStart, VerifiesForOperations, Goto
        <5> QED
          BY <3>1, <5>1 DEF Copying, Closed, Listed, Whole, Present, Highest
      <4>2. ASSUME NEW part \in {"bundles", "snapshots"}, BackupCopy(d, part)
            PROVE  Copying(d)'
        <5> DEFINE tree == IF part = "bundles"
                             THEN [job[d].tree EXCEPT !.bundles = registry.bundles,
                                                      !.staging = registry.staging]
                             ELSE [job[d].tree EXCEPT !.snapshots = registry.snapshots]
        <5>1. Copying(d) /\ Fits(pc[d], job[d]) /\ pc[d] = "backup-copy"
          BY <3>1, <4>2 DEF BackupCopy, QuietInv, BackingUp, PublisherTypeInv, Fitting
        <5>2. job[d].tree \in Trees
          BY <5>1 DEF Fits, BackingUp
        <5>3. /\ job'[d] = [latest |-> job[d].latest, tree |-> tree, left |-> job[d].left \ {part}]
              /\ pc'[d] = IF job[d].left \ {part} = {} THEN "backup-seal" ELSE "backup-copy"
          BY <4>0, <4>2 DEF BackupCopy, Goto
        <5>4. /\ part = "bundles" => /\ tree.bundles = registry.bundles
                                     /\ tree.snapshots = job[d].tree.snapshots
              /\ part = "snapshots" => /\ tree.snapshots = registry.snapshots
                                       /\ tree.bundles = job[d].tree.bundles
          BY <5>2 DEF Trees
        <5> HIDE DEF tree
        <5>5. /\ "bundles" \notin job'[d].left => job'[d].tree.bundles = registry.bundles
              /\ "snapshots" \notin job'[d].left => job'[d].tree.snapshots = registry.snapshots
              /\ pc'[d] = "backup-seal" => job'[d].left = {}
              /\ job'[d].latest = job[d].latest
          BY <5>1, <5>3, <5>4 DEF Copying
        <5> QED
          BY <3>1, <5>1, <5>5 DEF Copying, Closed, Listed, Whole, Present, Highest
      <4> QED
        BY <2>3, <3>3, <4>1, <4>2, BackupSteps
    <3> QED
      BY <1>2, <3>2, <3>3, OthersStay DEF Next, Expire, PublisherTypeInv
  <2> QED
    BY <1>q, <2>2, <2>3 DEF QuietInv
<1> QED
  BY <1>1, <1>2

\* A backup during which the registry did not change can be restored, whatever
\* else runs, fails or is killed.
THEOREM QuietBackupsCanBeRestored == Spec => []QuietBackupsRestore
<1>1. Init => PublisherTypeInv /\ RestoreInv /\ QuietInv
  BY InitPublisherType, InitRestoreInv, InitQuietInv
<1>2. PublisherTypeInv /\ RestoreInv /\ QuietInv /\ [Next]_vars
        => PublisherTypeInv' /\ RestoreInv' /\ QuietInv'
  BY NextPublisherType, NextRestoreInv, NextQuietInv
<1>3. QuietInv => QuietBackupsRestore
  BY DEF QuietInv
<1> QED
  BY <1>1, <1>2, <1>3, PTL DEF Spec

-----------------------------------------------------------------------------
(***************************************************************************)
(* The history of a registry whose index commands do not overlap.  An      *)
(* index command lists all that the published indexes list, so a later     *)
(* index lists what an earlier one does.  Hence retention, which keeps the *)
(* latest index, finds no bundle to remove, although it decides once and   *)
(* removes later; and it never removes the latest index, so no sequence is *)
(* used twice.                                                             *)
(***************************************************************************)
Entries(s) == registry.snapshots[s].entries
Published(s) == s \in Sequences /\ Whole(registry, s)

SlotsHold == \A v \in Slots : registry.bundles[v] # Torn
CopiesHold == \A c \in Commands : pc[c] = "import-rename" => job[c].copied \in Digests
ListingsHold == \A s \in Sequences : Published(s) => Present(registry, Entries(s))
Grows == \A s, t \in Sequences : s < t /\ Published(s) /\ Published(t) =>
           \A v \in Slots : Entries(s)[v] \in {None, Entries(t)[v]}
NamesOne == \A s \in Sequences :
              /\ Published(s) => Entries(s) = published[s]
              /\ published[s] # None => \E r \in Sequences : r >= s /\ Published(r)

\* A retention command has only superseded indexes to remove.
Collects(c) ==
    /\ job[c].bundles = {}
    /\ \A s \in job[c].indexes : \E r \in Sequences : r > s /\ Published(r)

\* An index command is going to publish the latest index, and misses no bundle.
Precedes(c) ==
    /\ pc[c] # "index-sign" => \A s \in Listed(registry) : s < job[c].sequence
    /\ pc[c] = "index-sign" => /\ \A s \in Listed(registry) : s <= job[c].sequence
                               /\ ~Published(job[c].sequence)
Covers(c) ==
    /\ \A v \in Slots : job[c].entries[v] \in {None, registry.bundles[v]}
    /\ \A s \in Sequences : Published(s) =>
         \A v \in Slots : Entries(s)[v] # None =>
           \/ CapabilityOf[v] \in job[c].left \/ v \in job[c].todo
           \/ job[c].entries[v] = Entries(s)[v]
    /\ pc[c] # "index-verify" => job[c].left = {} /\ job[c].todo = {}

HistoryInv ==
    /\ SlotsHold /\ CopiesHold /\ ListingsHold /\ Grows /\ NamesOne
    /\ \A c, d \in Commands : pc[c] \in Indexing /\ pc[d] \in Indexing => c = d
    /\ \A c \in Commands :
         /\ pc[c] = "gc" => Collects(c)
         /\ pc[c] \in Indexing => Precedes(c)
         /\ pc[c] \in Indexing \ {"index-list"} => Covers(c)

\* Initially the registry is empty.
LEMMA InitHistoryInv == Init => HistoryInv
<1> SUFFICES ASSUME Init PROVE HistoryInv
  OBVIOUS
<1>1. /\ registry.bundles = [v \in Slots |-> None] /\ registry.snapshots = [s \in Sequences |-> None]
      /\ pc = [c \in Commands |-> "idle"] /\ published = [s \in Sequences |-> None]
  BY DEF Init, EmptyTree
<1>2. \A s : ~Published(s)
  BY <1>1 DEF Published, Whole, Listed
<1> QED
  BY <1>1, <1>2, PublisherAssumption
  DEF HistoryInv, SlotsHold, CopiesHold, ListingsHold, Grows, NamesOne, Indexing

\* A retention command goes on only by its own steps.
LEMMA GcContinues ==
    ASSUME PublisherTypeInv, NEW c \in Commands, Does(c) \/ Killed(c), pc'[c] = "gc"
    PROVE  Gc(c)
<1>0. pc \in [Commands -> Labels]
  BY DEF PublisherTypeInv, TypeOK
<1>1. ~Import(c)
  <2>1. Import(c) => pc'[c] # "gc"
    BY <1>0 DEF Import, ImportStart, ImportCheck, ImportCopy, ImportVerify, ImportRename,
                Goto, Finish
  <2> QED
    BY <2>1
<1>2. ~Index(c)
  <2>1. Index(c) => pc'[c] # "gc"
    BY <1>0 DEF Index, IndexStart, IndexCapabilities, IndexList, IndexVerify, IndexGenerate,
                IndexMkdir, IndexSign, Goto, Finish
  <2> QED
    BY <2>1
<1>3. ~Backup(c) /\ ~Restore(c) /\ ~Fails(c) /\ ~Killed(c)
  <2>1. Backup(c) \/ Restore(c) \/ Fails(c) \/ Killed(c) => pc'[c] # "gc"
    BY <1>0 DEF Backup, BackupStart, BackupCopy, BackupSeal, Restore, RestoreStart,
                RestoreVerify, RestoreRename, Fails, Killed, Goto, Finish
  <2> QED
    BY <2>1
<1> QED
  BY <1>1, <1>2, <1>3 DEF Does

\* So does an index command.
LEMMA IndexContinues ==
    ASSUME PublisherTypeInv, NEW c \in Commands, Does(c) \/ Killed(c), pc'[c] \in Indexing
    PROVE  Index(c)
<1>0. pc \in [Commands -> Labels]
  BY DEF PublisherTypeInv, TypeOK
<1>1. ~Import(c)
  <2>1. Import(c) => pc'[c] \notin Indexing
    BY <1>0 DEF Import, ImportStart, ImportCheck, ImportCopy, ImportVerify, ImportRename,
                Goto, Finish, Indexing
  <2> QED
    BY <2>1
<1>2. ~Gc(c)
  <2>1. Gc(c) => pc'[c] \notin Indexing
    BY <1>0 DEF Gc, GcStart, GcIndex, GcBundle, GcGoesOn, Goto, Finish, Indexing
  <2> QED
    BY <2>1
<1>3. ~Backup(c) /\ ~Restore(c) /\ ~Fails(c) /\ ~Killed(c)
  <2>1. Backup(c) \/ Restore(c) \/ Fails(c) \/ Killed(c) => pc'[c] \notin Indexing
    BY <1>0 DEF Backup, BackupStart, BackupCopy, BackupSeal, Restore, RestoreStart,
                RestoreVerify, RestoreRename, Fails, Killed, Goto, Finish, Indexing
  <2> QED
    BY <2>1
<1> QED
  BY <1>1, <1>2, <1>3 DEF Does

\* What a step does to a snapshot.
LEMMA SnapshotSteps ==
    ASSUME PublisherTypeInv, NEW c \in Commands, Does(c) \/ Killed(c), NEW s \in Sequences
    PROVE  \/ registry'.snapshots[s] = registry.snapshots[s]
           \/ /\ pc[c] = "index-mkdir" /\ s = job[c].sequence /\ s \notin Listed(registry)
              /\ registry'.snapshots[s] = [entries |-> job[c].entries, whole |-> FALSE]
              /\ pc'[c] = "index-sign" /\ job'[c] = job[c]
           \/ /\ pc[c] = "index-sign" /\ s = job[c].sequence /\ pc'[c] = "idle"
              /\ \/ registry'.snapshots[s] = None
                 \/ /\ s \in Listed(registry) /\ ~Whole(registry, s)
                    /\ registry'.snapshots[s] = [entries |-> job[c].entries, whole |-> TRUE]
           \/ /\ pc[c] = "gc" /\ s \in job[c].indexes /\ s = Least(job[c].indexes)
              /\ \/ ~Whole(registry, s) /\ registry'.snapshots[s] = None
                 \/ /\ Whole(registry, s)
                    /\ registry'.snapshots[s] = [registry.snapshots[s] EXCEPT !.whole = FALSE]
<1> DEFINE Mkdir == /\ pc[c] = "index-mkdir" /\ s = job[c].sequence /\ s \notin Listed(registry)
                    /\ registry'.snapshots[s] = [entries |-> job[c].entries, whole |-> FALSE]
                    /\ pc'[c] = "index-sign" /\ job'[c] = job[c]
           Sign == /\ pc[c] = "index-sign" /\ s = job[c].sequence /\ pc'[c] = "idle"
                   /\ \/ registry'.snapshots[s] = None
                      \/ /\ s \in Listed(registry) /\ ~Whole(registry, s)
                         /\ registry'.snapshots[s] = [entries |-> job[c].entries, whole |-> TRUE]
           Collect == /\ pc[c] = "gc" /\ s \in job[c].indexes /\ s = Least(job[c].indexes)
                      /\ \/ ~Whole(registry, s) /\ registry'.snapshots[s] = None
                         \/ /\ Whole(registry, s)
                            /\ registry'.snapshots[s] = [registry.snapshots[s] EXCEPT !.whole = FALSE]
           Q == registry'.snapshots[s] = registry.snapshots[s] \/ Mkdir \/ Sign \/ Collect
<1>0. /\ registry \in Trees /\ Fits(pc[c], job[c])
      /\ pc \in [Commands -> Labels] /\ job \in [Commands -> Jobs \cup {None}]
  BY DEF PublisherTypeInv, TypeOK, Fitting
<1>u. registry'.snapshots = registry.snapshots => Q
  OBVIOUS
<1>s. \A r, n : SetSnapshot(r, n) => registry'.snapshots = [registry.snapshots EXCEPT ![r] = n]
  BY <1>0 DEF SetSnapshot, Trees
<1>w. registry.snapshots \in [Sequences -> Snapshots \cup {None}]
  BY <1>0 DEF Trees
<1>1. CASE Import(c)
  <2>1. registry'.snapshots = registry.snapshots
    BY <1>0, <1>1 DEF Import, ImportStart, ImportCheck, ImportCopy, ImportVerify, ImportRename,
                      KeepRegistry, Trees
  <2> QED
    BY <1>u, <2>1
<1>2. CASE Index(c)
  <2>1. \/ registry' = registry
        \/ IndexMkdir(c) /\ job[c].sequence \notin Listed(registry)
        \/ IndexSign(c)
    BY <1>2 DEF Index, IndexStart, IndexCapabilities, IndexList, IndexVerify, IndexGenerate,
                IndexMkdir, KeepRegistry
  <2>2. CASE IndexMkdir(c) /\ job[c].sequence \notin Listed(registry)
    <3>1. /\ registry'.snapshots = [registry.snapshots EXCEPT
               ![job[c].sequence] = [entries |-> job[c].entries, whole |-> FALSE]]
          /\ pc[c] = "index-mkdir" /\ pc'[c] = "index-sign" /\ job'[c] = job[c]
      BY <1>0, <1>s, <2>2 DEF IndexMkdir, Goto
    <3>2. CASE s = job[c].sequence
      BY <1>w, <2>2, <3>1, <3>2
    <3>3. CASE s # job[c].sequence
      BY <1>w, <3>1, <3>3
    <3> QED
      BY <3>2, <3>3
  <2>3. CASE IndexSign(c)
    <3>1. /\ registry'.snapshots = [registry.snapshots EXCEPT
               ![job[c].sequence] = [entries |-> job[c].entries, whole |-> TRUE]]
          /\ pc[c] = "index-sign" /\ pc'[c] = "idle"
          /\ job[c].sequence \in Listed(registry) /\ ~Whole(registry, job[c].sequence)
      BY <1>0, <1>s, <2>3 DEF IndexSign, Goto, Finish
    <3>2. CASE s = job[c].sequence
      BY <1>w, <3>1, <3>2
    <3>3. CASE s # job[c].sequence
      BY <1>w, <3>1, <3>3
    <3> QED
      BY <3>2, <3>3
  <2> QED
    BY <1>u, <2>1, <2>2, <2>3
<1>3. CASE Gc(c)
  <2>1. CASE GcStart(c) \/ GcBundle(c)
    <3>1. registry'.snapshots = registry.snapshots
      BY <1>0, <2>1 DEF GcStart, GcBundle, KeepRegistry, SetBundle, Trees
    <3> QED
      BY <1>u, <3>1
  <2>2. CASE GcIndex(c)
    <3> DEFINE r == Least(job[c].indexes)
    <3>1. r \in job[c].indexes /\ pc[c] = "gc"
      <4>1. job[c].indexes \in SUBSET Nat /\ job[c].indexes # {}
        BY <1>0, <2>2 DEF GcIndex, Fits, Sequences
      <4> QED
        BY <2>2, <4>1, LeastIsMember DEF GcIndex
    <3>2. \/ /\ Whole(registry, r)
             /\ registry' = [registry EXCEPT !.snapshots[r].whole = FALSE]
          \/ ~Whole(registry, r) /\ SetSnapshot(r, None)
          \/ registry' = registry
      BY <2>2 DEF GcIndex
    <3>r. r = Least(job[c].indexes)
      OBVIOUS
    <3> HIDE DEF r
    <3>3. ASSUME Whole(registry, r), registry' = [registry EXCEPT !.snapshots[r].whole = FALSE]
          PROVE  Q
      <4>1. registry'.snapshots =
              [registry.snapshots EXCEPT ![r] = [registry.snapshots[r] EXCEPT !.whole = FALSE]]
        BY <1>0, <3>3 DEF Trees
      <4>2. CASE s = r
        BY <1>w, <3>1, <3>3, <3>r, <4>1, <4>2
      <4>3. CASE s # r
        BY <1>w, <4>1, <4>3
      <4> QED
        BY <4>2, <4>3
    <3>4. ASSUME ~Whole(registry, r), SetSnapshot(r, None) PROVE Q
      <4>1. registry'.snapshots = [registry.snapshots EXCEPT ![r] = None]
        BY <1>s, <3>4
      <4>2. CASE s = r
        BY <1>w, <3>1, <3>4, <3>r, <4>1, <4>2
      <4>3. CASE s # r
        BY <1>w, <4>1, <4>3
      <4> QED
        BY <4>2, <4>3
    <3> QED
      BY <1>u, <3>2, <3>3, <3>4
  <2> QED
    BY <1>3, <2>1, <2>2 DEF Gc
<1>4. CASE Backup(c) \/ Restore(c) \/ Killed(c)
  <2>1. registry' = registry
    BY <1>4 DEF Backup, BackupStart, BackupCopy, BackupSeal, Restore, RestoreStart,
                RestoreVerify, RestoreRename, Killed, KeepRegistry
  <2> QED
    BY <1>u, <2>1
<1>5. CASE Fails(c)
  <2>1. CASE pc[c] # "index-sign"
    <3>1. registry'.snapshots = registry.snapshots
      BY <1>0, <1>5, <2>1 DEF Fails, Trees
    <3> QED
      BY <1>u, <3>1
  <2>2. CASE pc[c] = "index-sign"
    <3>1. /\ registry'.snapshots = [registry.snapshots EXCEPT ![job[c].sequence] = None]
          /\ pc'[c] = "idle"
      BY <1>0, <1>5, <2>2 DEF Fails, Importing, Goto, Finish, Trees
    <3>2. CASE s = job[c].sequence
      BY <1>w, <2>2, <3>1, <3>2
    <3>3. CASE s # job[c].sequence
      BY <1>w, <3>1, <3>3
    <3> QED
      BY <3>2, <3>3
  <2> QED
    BY <2>1, <2>2
<1>6. Q
  BY <1>1, <1>2, <1>3, <1>4, <1>5 DEF Does
<1> QED
  BY <1>6

\* The latest published index survives a step, and so something survives after
\* every published index.
LEMMA LatestStays ==
    ASSUME PublisherTypeInv, HistoryInv, NEW c \in Commands, Does(c) \/ Killed(c),
           NEW s \in Sequences, Published(s)
    PROVE  \E r \in Sequences : r >= s /\ Published(r) /\ registry'.snapshots[r] = registry.snapshots[r]
<1> DEFINE P == {r \in Sequences : Published(r)}
           top == Highest(P)
<1>1. P \in SUBSET Sequences /\ s \in P
  OBVIOUS
<1>2. top \in P /\ \A r \in P : r <= top
  BY <1>1, HighestIsGreatest
<1>3. top \in Sequences /\ Published(top) /\ Whole(registry, top) /\ top \in Nat /\ s \in Nat
  BY <1>2 DEF Published, Sequences
<1> HIDE DEF top
<1>4. s <= top
  BY <1>1, <1>2
<1>5. registry'.snapshots[top] = registry.snapshots[top]
  <2>1. CASE pc[c] = "index-mkdir" /\ top \notin Listed(registry)
    BY <1>3, <2>1 DEF Whole
  <2>2. CASE pc[c] = "index-sign" /\ top = job[c].sequence
    BY <1>3, <2>2 DEF HistoryInv, Precedes, Indexing
  <2>3. CASE pc[c] = "gc" /\ top \in job[c].indexes
    <3>1. PICK r \in Sequences : r > top /\ Published(r)
      BY <2>3 DEF HistoryInv, Collects
    <3>2. r \in P /\ r \in Nat
      BY <3>1 DEF Sequences
    <3> QED
      BY <1>2, <1>3, <3>1, <3>2
  <2> QED
    BY <1>3, <2>1, <2>2, <2>3, SnapshotSteps
<1> QED
  BY <1>3, <1>4, <1>5

\* A published index was published before, or is the one a command signs.
LEMMA PublishSteps ==
    ASSUME PublisherTypeInv, HistoryInv, NEW c \in Commands, Does(c) \/ Killed(c),
           NEW s \in Sequences, Published(s)'
    PROVE  \/ Published(s) /\ registry'.snapshots[s] = registry.snapshots[s]
           \/ /\ pc[c] = "index-sign" /\ s = job[c].sequence /\ pc'[c] = "idle" /\ ~Published(s)
              /\ registry'.snapshots[s] = [entries |-> job[c].entries, whole |-> TRUE]
<1>0. /\ registry \in Trees /\ registry'.snapshots[s] # None /\ registry'.snapshots[s].whole
  BY DEF PublisherTypeInv, TypeOK, Published, Whole, Listed
<1>1. CASE registry'.snapshots[s] = registry.snapshots[s]
  BY <1>0, <1>1 DEF Published, Whole, Listed
<1>2. CASE registry'.snapshots[s] = [entries |-> job[c].entries, whole |-> FALSE]
  BY <1>0, <1>2
<1>3. CASE /\ pc[c] = "index-sign" /\ s = job[c].sequence /\ pc'[c] = "idle"
           /\ registry'.snapshots[s] = [entries |-> job[c].entries, whole |-> TRUE]
  BY <1>3 DEF HistoryInv, Precedes, Indexing
<1>4. CASE Whole(registry, s) /\ registry'.snapshots[s] = [registry.snapshots[s] EXCEPT !.whole = FALSE]
  <2>1. registry.snapshots[s] \in Snapshots
    BY <1>0, <1>4 DEF Whole, Listed, Trees
  <2> QED
    BY <1>0, <1>4, <2>1 DEF Snapshots
<1> QED
  BY <1>0, <1>1, <1>2, <1>3, <1>4, SnapshotSteps

\* Slots are filled and never emptied.
LEMMA SlotsFill ==
    ASSUME PublisherTypeInv, HistoryInv, NEW c \in Commands, Does(c) \/ Killed(c), NEW v \in Slots
    PROVE  \/ registry'.bundles[v] = registry.bundles[v]
           \/ registry.bundles[v] = None /\ registry'.bundles[v] \in Digests
<1>1. ~(pc[c] = "gc" /\ v \in job[c].bundles)
  BY DEF HistoryInv, Collects
<1>2. pc[c] = "import-rename" => job[c].copied \in Digests
  BY DEF HistoryInv, CopiesHold
<1> QED
  BY <1>1, <1>2, BundleSteps

\* What retention plans.
LEMMA RetentionPlan ==
    ASSUME PublisherTypeInv, HistoryInv, VerifiesForOperations(registry)
    PROVE  /\ RemovableBundles(registry) = {}
           /\ \A s \in Listed(registry) \ Kept(registry) :
                \E r \in Sequences : r > s /\ Published(r)
<1>1. /\ Listed(registry) \in SUBSET Sequences /\ Listed(registry) # {}
      /\ \A s \in Listed(registry) : Published(s)
  BY DEF VerifiesForOperations, Closed, Listed, Published
<1> DEFINE top == Highest(Listed(registry))
<1>2. top \in Listed(registry) /\ \A r \in Listed(registry) : r <= top
  BY <1>1, HighestIsGreatest
<1>3. /\ MaxSequence \in Nat /\ KeepIndexes \in Nat \ {0} /\ Sequences \in SUBSET Nat
      /\ \A s \in Listed(registry) : s \in Nat
  BY <1>1, PublisherAssumption DEF Sequences
<1>4. top \in Kept(registry)
  <2>1. {r \in Listed(registry) : r > top} = {}
    <3> HIDE DEF top
    <3> QED
      BY <1>2, <1>3
  <2>2. Cardinality({r \in Listed(registry) : r > top}) = 0
    BY <2>1, FS_EmptySet
  <2> HIDE DEF top
  <2> QED
    BY <1>2, <1>3, <2>2 DEF Kept
<1> HIDE DEF top
<1>5. ASSUME NEW v \in RemovableBundles(registry) PROVE FALSE
  <2>1. v \in Slots /\ v \notin ListedIn(registry, Kept(registry))
    BY <1>5 DEF RemovableBundles, ListedIn
  <2>2. PICK s \in Listed(registry) : Entries(s)[v] # None
    BY <1>5 DEF RemovableBundles, ListedIn, Entries
  <2>3. s = top \/ s < top
    BY <1>2, <1>3
  <2>4. Entries(top)[v] # None
    BY <1>1, <1>2, <2>1, <2>2, <2>3 DEF HistoryInv, Grows
  <2> QED
    BY <1>4, <2>1, <2>4 DEF ListedIn, Entries
<1>6. ASSUME NEW s \in Listed(registry), s \notin Kept(registry)
      PROVE  \E r \in Sequences : r > s /\ Published(r)
  <2>1. Cardinality({r \in Listed(registry) : r > s}) # 0
    <3>1. ~(Cardinality({r \in Listed(registry) : r > s}) < KeepIndexes)
      BY <1>6 DEF Kept
    <3> QED
      BY <1>3, <3>1
  <2>2. {r \in Listed(registry) : r > s} # {}
    BY <2>1, FS_EmptySet
  <2> QED
    BY <1>1, <2>2
<1> QED
  BY <1>5, <1>6

\* What a retention command has left after a step.
LEMMA GcSteps ==
    ASSUME PublisherTypeInv, HistoryInv, NEW c \in Commands, Does(c) \/ Killed(c), pc'[c] = "gc"
    PROVE  Collects(c)'
<1>0. pc \in [Commands -> Labels] /\ job \in [Commands -> Jobs \cup {None}] /\ Fits(pc[c], job[c])
  BY DEF PublisherTypeInv, TypeOK, Fitting
<1>1. Gc(c)
  BY GcContinues
<1>2. /\ job'[c].bundles = {}
      /\ \A s \in job'[c].indexes : \E r \in Sequences : r > s /\ Published(r)
  <2>1. CASE GcStart(c)
    <3>1. job'[c] = [indexes |-> Listed(registry) \ Kept(registry),
                     bundles |-> RemovableBundles(registry)]
      BY <1>0, <2>1 DEF GcStart, Goto
    <3>2. VerifiesForOperations(registry)
      BY <2>1 DEF GcStart
    <3> QED
      BY <3>1, <3>2, RetentionPlan
  <2>2. CASE GcIndex(c)
    <3>1. Collects(c) /\ job[c] \in [indexes : SUBSET Sequences, bundles : SUBSET Slots]
      BY <1>0, <2>2 DEF GcIndex, HistoryInv, Fits
    <3>2. \/ job'[c] = job[c]
          \/ job'[c] = [job[c] EXCEPT !.indexes = @ \ {Least(job[c].indexes)}]
      BY <1>0, <2>2 DEF GcIndex, GcGoesOn, Goto, Finish
    <3>3. job'[c].bundles = job[c].bundles /\ job'[c].indexes \subseteq job[c].indexes
      BY <3>1, <3>2
    <3> QED
      BY <3>1, <3>3 DEF Collects
  <2>3. CASE GcBundle(c)
    BY <2>3 DEF GcBundle, HistoryInv, Collects
  <2> QED
    BY <1>1, <2>1, <2>2, <2>3 DEF Gc
<1>3. ASSUME NEW s \in job'[c].indexes PROVE \E r \in Sequences : r > s /\ Published(r)'
  <2>1. PICK r \in Sequences : r > s /\ Published(r)
    BY <1>2
  <2>2. PICK q \in Sequences : q >= r /\ Published(q) /\ registry'.snapshots[q] = registry.snapshots[q]
    BY <2>1, LatestStays
  <2>3. Published(q)'
    BY <2>2 DEF Published, Whole, Listed
  <2>4. s \in Nat
    <3>1. Fitting'
      BY <1>1, GcType DEF PublisherTypeInv, TypeOK, Stored
    <3>2. job'[c] \in [indexes : SUBSET Sequences, bundles : SUBSET Slots]
      BY <3>1 DEF Fitting, Fits
    <3> QED
      BY <3>2 DEF Sequences
  <2>5. q > s
    BY <2>1, <2>2, <2>4 DEF Sequences
  <2> QED
    BY <2>3, <2>5
<1> QED
  BY <1>2, <1>3 DEF Collects

\* What an index command holds after a step.
LEMMA IndexSteps ==
    ASSUME PublisherTypeInv, HistoryInv, NEW c \in Commands, Does(c) \/ Killed(c),
           pc'[c] \in Indexing
    PROVE  Precedes(c)' /\ (pc'[c] # "index-list" => Covers(c)')
<1>0. /\ pc \in [Commands -> Labels] /\ job \in [Commands -> Jobs \cup {None}] /\ Fits(pc[c], job[c])
      /\ registry \in Trees /\ registry.snapshots \in [Sequences -> Snapshots \cup {None}]
  BY DEF PublisherTypeInv, TypeOK, Fitting, Trees
<1>1. Index(c)
  BY IndexContinues
<1>2. ASSUME registry' = registry
      PROVE  /\ \A s : Published(s)' <=> Published(s)
             /\ \A s : Entries(s)' = Entries(s)
             /\ Listed(registry)' = Listed(registry)
  BY <1>2 DEF Published, Whole, Listed, Entries
<1>3. ASSUME NEW s \in Sequences, IndexStart(c, s) PROVE Precedes(c)' /\ pc'[c] = "index-list"
  <2>1. pc'[c] = "index-list" /\ job'[c] = [sequence |-> s] /\ registry' = registry
    BY <1>0, <1>3 DEF IndexStart, Goto, KeepRegistry
  <2>2. Listed(registry) \in SUBSET Sequences /\ s > Highest(Listed(registry))
    BY <1>3 DEF IndexStart, Listed
  <2>3. \A r \in Listed(registry) : r <= Highest(Listed(registry))
    BY <2>2, HighestIsGreatest
  <2>4. Highest(Listed(registry)) \in 0..MaxSequence
    BY <2>2, HighestIsGreatest
  <2>5. \A r \in Listed(registry) : r < s
    BY <2>2, <2>3, <2>4 DEF Sequences
  <2> QED
    BY <1>2, <2>1, <2>5 DEF Precedes
<1>4. ASSUME NEW capabilities \in SUBSET Capabilities, IndexCapabilities(c, capabilities)
      PROVE  Precedes(c)' /\ Covers(c)'
  <2>1. /\ pc[c] = "index-list" /\ pc'[c] = "index-verify" /\ registry' = registry
        /\ job'[c] = [sequence |-> job[c].sequence, left |-> capabilities, todo |-> {},
                      entries |-> [v \in Slots |-> None]]
        /\ \A v \in Slots : registry.bundles[v] # None => CapabilityOf[v] \in capabilities
    BY <1>0, <1>4 DEF IndexCapabilities, Goto, KeepRegistry
  <2>2. Precedes(c)
    BY <2>1 DEF HistoryInv, Indexing
  <2>3. Precedes(c)'
    BY <1>2, <2>1, <2>2 DEF Precedes
  <2>4. \A s \in Sequences : Published(s) => \A v \in Slots : Entries(s)[v] # None =>
          CapabilityOf[v] \in capabilities
    BY <2>1 DEF HistoryInv, ListingsHold, Present
  <2>5. Covers(c)'
    BY <1>2, <2>1, <2>4 DEF Covers
  <2> QED
    BY <2>3, <2>5
<1>9. CASE IndexList(c)
  <2> DEFINE next == Least(job[c].left)
             slots == {v \in Slots : CapabilityOf[v] = next /\ registry.bundles[v] # None}
  <2>1. /\ job[c] \in [sequence : Sequences, left : SUBSET Capabilities, todo : SUBSET Slots,
                       entries : Listings]
        /\ pc[c] = "index-verify" /\ job[c].todo = {}
    BY <1>0, <1>9 DEF IndexList, Fits
  <2>2. /\ pc'[c] = "index-verify" /\ registry' = registry
        /\ job'[c] = [job[c] EXCEPT !.left = @ \ {next}, !.todo = slots]
    BY <1>0, <1>9 DEF IndexList, Goto, Finish, Indexing, KeepRegistry
  <2>3. Precedes(c) /\ Covers(c)
    BY <2>1 DEF HistoryInv, Indexing
  <2>4. ASSUME NEW s \in Sequences, Published(s), NEW v \in Slots, Entries(s)[v] # None
        PROVE  \/ CapabilityOf[v] \in job[c].left \ {next} \/ v \in slots
               \/ job[c].entries[v] = Entries(s)[v]
    <3>1. registry.bundles[v] # None
      BY <2>4 DEF HistoryInv, ListingsHold, Present
    <3>2. CapabilityOf[v] \in job[c].left \/ job[c].entries[v] = Entries(s)[v]
      BY <2>1, <2>3, <2>4 DEF Covers
    <3> HIDE DEF next
    <3> QED
      BY <3>1, <3>2
  <2> HIDE DEF next, slots
  <2>5. /\ job'[c].sequence = job[c].sequence /\ job'[c].entries = job[c].entries
        /\ job'[c].left = job[c].left \ {next} /\ job'[c].todo = slots
    BY <2>1, <2>2
  <2>6. Precedes(c)'
    BY <1>2, <2>1, <2>2, <2>3, <2>5 DEF Precedes
  <2>7. Covers(c)'
    BY <1>2, <2>2, <2>3, <2>4, <2>5 DEF Covers
  <2> QED
    BY <2>6, <2>7
<1>5. CASE IndexVerify(c)
  <2> DEFINE v == Least(job[c].todo)
  <2>1. /\ job[c] \in [sequence : Sequences, left : SUBSET Capabilities, todo : SUBSET Slots,
                       entries : Listings]
        /\ job[c].todo # {} /\ pc[c] = "index-verify"
    BY <1>0, <1>5 DEF IndexVerify, Fits
  <2>2. v \in job[c].todo
    BY <2>1, LeastIsMember, PublisherAssumption
  <2>3. /\ pc'[c] = "index-verify" /\ registry' = registry
        /\ job'[c] = [job[c] EXCEPT !.todo = @ \ {v}, !.entries[v] = registry.bundles[v]]
    BY <1>0, <1>5 DEF IndexVerify, Goto, Finish, Indexing, KeepRegistry
  <2> HIDE DEF v
  <2>4. /\ job'[c].sequence = job[c].sequence /\ job'[c].left = job[c].left
        /\ job'[c].todo = job[c].todo \ {v}
        /\ job'[c].entries = [job[c].entries EXCEPT ![v] = registry.bundles[v]]
        /\ job[c].entries \in [Slots -> Digests \cup {None}]
    BY <2>1, <2>3 DEF Listings
  <2>5. Precedes(c) /\ Covers(c)
    BY <2>1 DEF HistoryInv, Indexing
  <2>6. Precedes(c)'
    BY <1>2, <2>1, <2>3, <2>4, <2>5 DEF Precedes
  <2>7. \A w \in Slots : job'[c].entries[w] \in {None, registry.bundles[w]}
    BY <2>4, <2>5 DEF Covers
  <2>8. ASSUME NEW s \in Sequences, Published(s), NEW w \in Slots, Entries(s)[w] # None
        PROVE  \/ CapabilityOf[w] \in job'[c].left \/ w \in job'[c].todo
               \/ job'[c].entries[w] = Entries(s)[w]
    <3>1. \/ CapabilityOf[w] \in job[c].left \/ w \in job[c].todo
          \/ job[c].entries[w] = Entries(s)[w]
      BY <2>5, <2>8 DEF Covers
    <3>2. registry.bundles[w] = Entries(s)[w]
      BY <2>8 DEF HistoryInv, ListingsHold, Present
    <3> QED
      BY <2>4, <3>1, <3>2
  <2> QED
    BY <1>2, <2>3, <2>6, <2>7, <2>8 DEF Covers
<1>6. CASE IndexGenerate(c)
  <2>1. /\ pc[c] = "index-verify" /\ pc'[c] = "index-mkdir" /\ registry' = registry
        /\ job'[c] = job[c] /\ job[c].left = {} /\ job[c].todo = {}
    BY <1>0, <1>6 DEF IndexGenerate, Goto, Finish, Indexing, KeepRegistry
  <2>2. Precedes(c) /\ Covers(c)
    BY <2>1 DEF HistoryInv, Indexing
  <2> QED
    BY <1>2, <2>1, <2>2 DEF Precedes, Covers
<1>7. CASE IndexMkdir(c)
  <2>1. /\ pc[c] = "index-mkdir" /\ pc'[c] = "index-sign" /\ job'[c] = job[c]
        /\ job[c].sequence \notin Listed(registry)
        /\ SetSnapshot(job[c].sequence, [entries |-> job[c].entries, whole |-> FALSE])
    BY <1>0, <1>7 DEF IndexMkdir, Goto, Finish, Indexing
  <2>0. PICK q \in Sequences : q = job[c].sequence
    BY <1>0, <2>1 DEF Fits
  <2>2. /\ registry'.snapshots =
             [registry.snapshots EXCEPT ![q] = [entries |-> job[c].entries, whole |-> FALSE]]
        /\ registry'.bundles = registry.bundles
    BY <1>0, <2>0, <2>1 DEF SetSnapshot, Trees, Fits
  <2>3. Precedes(c) /\ Covers(c)
    BY <2>1 DEF HistoryInv, Indexing
  <2>a. \A s \in Sequences : s # q => registry'.snapshots[s] = registry.snapshots[s]
    BY <1>0, <2>2
  <2>b. registry'.snapshots[q] = [entries |-> job[c].entries, whole |-> FALSE]
    BY <1>0, <2>2
  <2>c. ~Published(q)'
    BY <2>b DEF Published, Whole, Listed
  <2>d. \A s \in Sequences : Published(s)' => Published(s) /\ Entries(s)' = Entries(s)
    BY <2>a, <2>c DEF Published, Whole, Listed, Entries
  <2>4. \A s \in Listed(registry)' : s \in Listed(registry) \/ s = q
    BY <2>a DEF Listed
  <2>5. Precedes(c)'
    <3>1. \A s \in Listed(registry)' : s <= q
      BY <2>0, <2>1, <2>3, <2>4 DEF Precedes, Listed, Sequences
    <3> QED
      BY <2>0, <2>1, <2>c, <3>1 DEF Precedes
  <2>6. Covers(c)'
    BY <2>1, <2>2, <2>3, <2>d DEF Covers
  <2> QED
    BY <2>5, <2>6
<1>8. CASE IndexSign(c)
  BY <1>0, <1>8 DEF IndexSign, Goto, Finish, Indexing
<1> QED
  BY <1>1, <1>3, <1>4, <1>5, <1>6, <1>7, <1>8, <1>9 DEF Index

\* What is copied for an import is a bundle once it has been verified.
LEMMA CopySteps ==
    ASSUME PublisherTypeInv, HistoryInv, NEW c \in Commands, Does(c) \/ Killed(c)
    PROVE  CopiesHold'
<1>0. pc \in [Commands -> Labels] /\ job \in [Commands -> Jobs \cup {None}] /\ Fits(pc[c], job[c])
  BY DEF PublisherTypeInv, TypeOK, Fitting
<1>1. ASSUME pc'[c] = "import-rename" PROVE job'[c].copied \in Digests
  <2>1. ~Index(c)
    <3>1. Index(c) => pc'[c] # "import-rename"
      BY <1>0 DEF Index, IndexStart, IndexCapabilities, IndexList, IndexVerify, IndexGenerate,
                  IndexMkdir, IndexSign, Goto, Finish
    <3> QED
      BY <1>1, <3>1
  <2>2. ~Gc(c)
    <3>1. Gc(c) => pc'[c] # "import-rename"
      BY <1>0 DEF Gc, GcStart, GcIndex, GcBundle, GcGoesOn, Goto, Finish
    <3> QED
      BY <1>1, <3>1
  <2>3. ~Backup(c) /\ ~Restore(c) /\ ~Fails(c) /\ ~Killed(c)
    <3>1. Backup(c) \/ Restore(c) \/ Fails(c) \/ Killed(c) => pc'[c] # "import-rename"
      BY <1>0 DEF Backup, BackupStart, BackupCopy, BackupSeal, Restore, RestoreStart,
                  RestoreVerify, RestoreRename, Fails, Killed, Goto, Finish
    <3> QED
      BY <1>1, <3>1
  <2>4. ImportVerify(c)
    <3>1. Import(c)
      BY <2>1, <2>2, <2>3 DEF Does
    <3> QED
      BY <1>0, <1>1, <3>1 DEF Import, ImportStart, ImportCheck, ImportCopy, ImportRename,
                              Goto, Finish
  <2>5. job'[c] = job[c] /\ job[c].copied = job[c].bundle.digest /\ pc[c] = "import-verify"
    BY <1>0, <1>1, <2>4 DEF ImportVerify, Goto, Finish
  <2>6. job[c].bundle \in Candidates
    BY <1>0, <2>5 DEF Fits
  <2> QED
    BY <2>5, <2>6 DEF Digests
<1>2. ASSUME NEW d \in Commands, d # c, pc'[d] = "import-rename" PROVE job'[d].copied \in Digests
  <2>1. pc'[d] = pc[d] /\ job'[d] = job[d]
    BY <1>2, OthersStay DEF PublisherTypeInv
  <2> QED
    BY <1>2, <2>1 DEF HistoryInv, CopiesHold
<1> QED
  BY <1>1, <1>2 DEF CopiesHold

\* What a command signs lists every bundle that is listed, as it is in its slot.
LEMMA Signing ==
    ASSUME HistoryInv, NEW c \in Commands, pc[c] = "index-sign"
    PROVE  /\ \A v \in Slots : job[c].entries[v] \in {None, registry.bundles[v]}
           /\ \A s \in Sequences : Published(s) =>
                /\ s <= job[c].sequence /\ s # job[c].sequence
                /\ \A v \in Slots : Entries(s)[v] \in {None, job[c].entries[v]}
<1>1. Precedes(c) /\ Covers(c) /\ job[c].left = {} /\ job[c].todo = {}
  BY DEF HistoryInv, Indexing, Covers
<1> QED
  BY <1>1 DEF Precedes, Covers, Published, Whole

\* The published indexes after a step list bundles that are there, and the later
\* ones what the earlier ones list.
LEMMA ListingSteps ==
    ASSUME PublisherTypeInv, HistoryInv, NEW c \in Commands, Does(c) \/ Killed(c)
    PROVE  SlotsHold' /\ ListingsHold' /\ Grows'
<1>1. ASSUME NEW v \in Slots
      PROVE  /\ registry'.bundles[v] # Torn
             /\ registry.bundles[v] \in {None, registry'.bundles[v]}
  BY SlotsFill, PublisherAssumption DEF HistoryInv, SlotsHold
<1> DEFINE Stays(s) == Published(s) /\ Entries(s)' = Entries(s)
           Signs(s) == /\ pc[c] = "index-sign" /\ s = job[c].sequence
                       /\ Entries(s)' = job[c].entries
<1>2. ASSUME NEW s \in Sequences, Published(s)' PROVE Stays(s) \/ Signs(s)
  <2>1. CASE Published(s) /\ registry'.snapshots[s] = registry.snapshots[s]
    BY <2>1 DEF Entries
  <2>2. CASE /\ pc[c] = "index-sign" /\ s = job[c].sequence
             /\ registry'.snapshots[s] = [entries |-> job[c].entries, whole |-> TRUE]
    BY <2>2 DEF Entries
  <2> QED
    BY <1>2, <2>1, <2>2, PublishSteps
<1>3. ASSUME NEW s \in Sequences, Published(s)', NEW v \in Slots
      PROVE  Entries(s)'[v] \in {None, registry'.bundles[v]}
  <2>1. CASE Stays(s)
    BY <1>1, <2>1 DEF HistoryInv, ListingsHold, Present
  <2>2. CASE Signs(s)
    BY <1>1, <2>2, Signing
  <2> QED
    BY <1>2, <1>3, <2>1, <2>2
<1>4. ASSUME NEW s \in Sequences, NEW t \in Sequences, s < t, Published(s)', Published(t)',
             NEW v \in Slots
      PROVE  Entries(s)'[v] \in {None, Entries(t)'[v]}
  <2>1. CASE Stays(s) /\ Stays(t)
    BY <1>4, <2>1 DEF HistoryInv, Grows
  <2>2. CASE Stays(s) /\ Signs(t)
    BY <2>2, Signing
  <2>3. CASE Signs(s) /\ Stays(t)
    BY <1>4, <2>3, Signing DEF Sequences
  <2>4. CASE Signs(s) /\ Signs(t)
    BY <1>4, <2>4 DEF Sequences
  <2> QED
    BY <1>2, <1>4, <2>1, <2>2, <2>3, <2>4
<1>5. SlotsHold'
  BY <1>1 DEF SlotsHold
<1>6. ListingsHold'
  BY <1>3 DEF ListingsHold, Present
<1>7. Grows'
  BY <1>4 DEF Grows
<1> QED
  BY <1>5, <1>6, <1>7

\* A sequence is signed once: the index it named is recorded, and what was
\* recorded is not after the latest index.
LEMMA NameSteps ==
    ASSUME PublisherTypeInv, HistoryInv, NEW c \in Commands, Does(c) \/ Killed(c), Remember
    PROVE  NamesOne'
<1>0. published \in [Sequences -> Listings \cup {None}]
  BY DEF PublisherTypeInv, TypeOK
<1> SUFFICES ASSUME NEW s \in Sequences
             PROVE  /\ Published(s)' => Entries(s)' = published'[s]
                    /\ published'[s] # None => \E r \in Sequences : r >= s /\ Published(r)'
  BY DEF NamesOne
<1>1. published'[s] = IF published[s] = None /\ registry'.snapshots[s] # None
                           /\ registry'.snapshots[s].whole
                        THEN registry'.snapshots[s].entries ELSE published[s]
  BY DEF Remember
<1>2. Published(s)' <=> registry'.snapshots[s] # None /\ registry'.snapshots[s].whole
  BY DEF Published, Whole, Listed
<1>3. ASSUME Published(s)' PROVE Entries(s)' = published'[s]
  <2>1. CASE published[s] = None
    BY <1>1, <1>2, <1>3, <2>1 DEF Entries
  <2>2. CASE published[s] # None
    <3>1. PICK r \in Sequences : r >= s /\ Published(r)
      BY <2>2 DEF HistoryInv, NamesOne
    <3>2. ~(pc[c] = "index-sign" /\ s = job[c].sequence)
      BY <3>1, Signing DEF Sequences
    <3>3. Published(s) /\ registry'.snapshots[s] = registry.snapshots[s]
      BY <1>3, <3>2, PublishSteps
    <3> QED
      BY <1>1, <2>2, <3>3 DEF HistoryInv, NamesOne, Entries
  <2> QED
    BY <2>1, <2>2
<1>4. ASSUME published'[s] # None PROVE \E r \in Sequences : r >= s /\ Published(r)'
  <2>1. CASE Published(s)'
    BY <2>1 DEF Sequences
  <2>2. CASE ~Published(s)'
    <3>1. PICK r \in Sequences : r >= s /\ Published(r)
      BY <1>1, <1>2, <1>4, <2>2 DEF HistoryInv, NamesOne
    <3>2. PICK q \in Sequences : q >= r /\ Published(q) /\ registry'.snapshots[q] = registry.snapshots[q]
      BY <3>1, LatestStays
    <3>3. Published(q)'
      BY <3>2 DEF Published, Whole, Listed
    <3> QED
      BY <3>1, <3>2, <3>3 DEF Sequences
  <2> QED
    BY <2>1, <2>2
<1> QED
  BY <1>3, <1>4

\* What the other commands have left after a step.
LEMMA OthersKeep ==
    ASSUME PublisherTypeInv, HistoryInv, NEW c \in Commands, Does(c) \/ Killed(c),
           NEW d \in Commands, d # c
    PROVE  /\ pc[d] = "gc" => Collects(d)'
           /\ pc[d] \in Indexing => Precedes(d)'
           /\ pc[d] \in Indexing \ {"index-list"} => Covers(d)'
<1>1. pc'[d] = pc[d] /\ job'[d] = job[d]
  BY OthersStay DEF PublisherTypeInv
<1>2. ASSUME pc[d] = "gc" PROVE Collects(d)'
  <2>1. Collects(d) /\ job[d].indexes \in SUBSET Sequences
    BY <1>2 DEF HistoryInv, PublisherTypeInv, Fitting, Fits
  <2>2. ASSUME NEW s \in job[d].indexes PROVE \E q \in Sequences : q > s /\ Published(q)'
    <3>1. PICK r \in Sequences : r > s /\ Published(r)
      BY <2>1 DEF Collects
    <3>2. PICK q \in Sequences : q >= r /\ Published(q) /\ registry'.snapshots[q] = registry.snapshots[q]
      BY <3>1, LatestStays
    <3>3. Published(q)'
      BY <3>2 DEF Published, Whole, Listed
    <3> QED
      BY <2>1, <3>1, <3>2, <3>3 DEF Sequences
  <2> QED
    BY <1>1, <2>1, <2>2 DEF Collects
<1>3. ASSUME pc[d] \in Indexing
      PROVE  /\ Listed(registry)' \subseteq Listed(registry)
             /\ \A s \in Sequences : Published(s)' => Published(s) /\ Entries(s)' = Entries(s)
             /\ \A s \in Sequences \ Listed(registry) : ~Published(s)'
  <2>1. pc[c] \notin Indexing
    BY <1>3 DEF HistoryInv
  <2>2. pc[c] # "index-mkdir" /\ pc[c] # "index-sign"
    BY <2>1 DEF Indexing
  <2>3. ASSUME NEW s \in Sequences, registry'.snapshots[s] # None PROVE s \in Listed(registry)
    <3>1. CASE registry'.snapshots[s] = registry.snapshots[s]
      BY <2>3, <3>1 DEF Listed
    <3>2. CASE Whole(registry, s)
      BY <3>2 DEF Whole
    <3> QED
      BY <2>2, <2>3, <3>1, <3>2, SnapshotSteps
  <2>4. ASSUME NEW s \in Sequences, Published(s)' PROVE Published(s) /\ Entries(s)' = Entries(s)
    BY <2>2, <2>4, PublishSteps DEF Entries
  <2> QED
    BY <2>3, <2>4 DEF Listed, Published, Whole
<1>4. ASSUME pc[d] \in Indexing PROVE Precedes(d)'
  <2>1. Precedes(d)
    BY <1>4 DEF HistoryInv
  <2>2. job[d].sequence \in Sequences
    BY <1>4 DEF PublisherTypeInv, Fitting, Fits, Indexing
  <2>3. Published(job[d].sequence)' => Published(job[d].sequence)
    <3>1. PICK q \in Sequences : q = job[d].sequence
      BY <2>2
    <3>2. Published(q)' => Published(q)
      BY <1>3, <1>4
    <3> QED
      BY <1>1, <3>1, <3>2
  <2> QED
    BY <1>1, <1>3, <1>4, <2>1, <2>3 DEF Precedes
<1>5. ASSUME pc[d] \in Indexing \ {"index-list"} PROVE Covers(d)'
  <2>1. Covers(d)
    BY <1>5 DEF HistoryInv
  <2>2. \A v \in Slots : registry.bundles[v] \in {None, registry'.bundles[v]}
    BY SlotsFill
  <2>3. \A v \in Slots : job[d].entries[v] \in {None, registry'.bundles[v]}
    BY <2>1, <2>2 DEF Covers
  <2>4. ASSUME NEW s \in Sequences, Published(s)', NEW v \in Slots, Entries(s)'[v] # None
        PROVE  \/ CapabilityOf[v] \in job[d].left \/ v \in job[d].todo
               \/ job[d].entries[v] = Entries(s)'[v]
    BY <1>3, <1>5, <2>1, <2>4 DEF Covers
  <2> QED
    BY <1>1, <2>1, <2>3, <2>4 DEF Covers
<1> QED
  BY <1>2, <1>4, <1>5

\* Every step keeps the history, as long as no index commands overlap.
LEMMA NextHistoryInv ==
    PublisherTypeInv /\ (~raced => HistoryInv) /\ [Next]_vars => (~raced => HistoryInv)'
<1> SUFFICES ASSUME PublisherTypeInv, ~raced => HistoryInv, [Next]_vars, ~raced'
             PROVE  HistoryInv'
  OBVIOUS
<1>1. CASE UNCHANGED vars
  BY <1>1 DEF vars, HistoryInv, SlotsHold, CopiesHold, ListingsHold, Grows, NamesOne, Collects,
              Precedes, Covers, Published, Entries
<1>2. CASE Next
  <2>1. Remember /\ ~raced
    BY <1>2 DEF Next, Remember
  <2>2. HistoryInv
    BY <2>1
  <2>3. \A c, d \in Commands : pc'[c] \in Indexing /\ pc'[d] \in Indexing => c = d
    BY <2>1 DEF Remember
  <2>4. CASE Expire
    <3>1. UNCHANGED <<registry, pc, job>>
      BY <2>4 DEF Expire
    <3>2. NamesOne'
      <4> SUFFICES ASSUME NEW s \in Sequences
                   PROVE  /\ Published(s)' => Entries(s)' = published'[s]
                          /\ published'[s] # None => \E r \in Sequences : r >= s /\ Published(r)'
        BY DEF NamesOne
      <4>1. published'[s] = IF published[s] = None /\ registry.snapshots[s] # None
                                 /\ registry.snapshots[s].whole
                              THEN registry.snapshots[s].entries ELSE published[s]
        BY <2>1, <3>1 DEF Remember
      <4>2. (Published(s)' <=> Published(s)) /\ Entries(s)' = Entries(s)
        BY <3>1 DEF Published, Entries
      <4>3. \/ published'[s] = published[s]
            \/ Published(s) /\ published'[s] = Entries(s)
        BY <4>1 DEF Published, Whole, Listed, Entries
      <4>4. \A r \in Sequences : Published(r) => Published(r)'
        BY <3>1 DEF Published
      <4> QED
        BY <2>2, <4>2, <4>3, <4>4 DEF HistoryInv, NamesOne, Sequences
    <3> QED
      BY <2>2, <3>1, <3>2 DEF HistoryInv, SlotsHold, CopiesHold, ListingsHold, Grows, Collects,
                              Precedes, Covers, Published, Entries
  <2>5. ASSUME NEW c \in Commands, Does(c) \/ Killed(c) PROVE HistoryInv'
    <3>1. SlotsHold' /\ CopiesHold' /\ ListingsHold' /\ Grows' /\ NamesOne'
      BY <2>1, <2>2, <2>5, CopySteps, ListingSteps, NameSteps
    <3>2. ASSUME NEW d \in Commands
          PROVE  /\ pc'[d] = "gc" => Collects(d)'
                 /\ pc'[d] \in Indexing => Precedes(d)'
                 /\ pc'[d] \in Indexing \ {"index-list"} => Covers(d)'
      <4>1. CASE d = c
        BY <2>2, <2>5, <4>1, GcSteps, IndexSteps
      <4>2. CASE d # c
        <5>1. pc'[d] = pc[d]
          BY <2>5, <4>2, OthersStay DEF PublisherTypeInv
        <5> QED
          BY <2>2, <2>5, <4>2, <5>1, OthersKeep
      <4> QED
        BY <4>1, <4>2
    <3> QED
      BY <2>3, <3>1, <3>2 DEF HistoryInv
  <2> QED
    BY <1>2, <2>4, <2>5 DEF Next
<1> QED
  BY <1>1, <1>2

\* The invariants of the publisher, together.
PublisherInv == PublisherTypeInv /\ RestoreInv /\ (~raced => HistoryInv)

\* They hold initially, and every step keeps them.
LEMMA PublisherInvariant ==
    /\ Init => PublisherInv
    /\ PublisherInv /\ [Next]_vars => PublisherInv'
BY InitPublisherType, NextPublisherType, InitRestoreInv, NextRestoreInv, InitHistoryInv,
   NextHistoryInv DEF PublisherInv

\* While no two index commands have overlapped, no slot holds a torn bundle: imports
\* put whole bundles in place and retention has none to tear down.
THEOREM BundlesStayWhole == Spec => []BundlesAreWhole
<1>1. PublisherInv => BundlesAreWhole
  BY DEF PublisherInv, HistoryInv, SlotsHold, BundlesAreWhole
<1> QED
  BY <1>1, PublisherInvariant, PTL DEF Spec

\* While no two index commands have overlapped, the bundles that a published
\* index lists are there, whichever imports, retention commands, failures and
\* kills its publication overlaps.
THEOREM ListedBundlesStay == Spec => []ListedBundlesArePresent
<1>1. PublisherInv => ListedBundlesArePresent
  BY DEF PublisherInv, HistoryInv, ListingsHold, ListedBundlesArePresent, Published, Entries
<1> QED
  BY <1>1, PublisherInvariant, PTL DEF Spec

\* While no two index commands have overlapped, a later index lists every bundle
\* an earlier one lists.
THEOREM LaterIndexesExtendEarlierOnes == Spec => []HistoryGrows
<1>1. PublisherInv => HistoryGrows
  BY DEF PublisherInv, HistoryInv, Grows, HistoryGrows, Published, Entries
<1> QED
  BY <1>1, PublisherInvariant, PTL DEF Spec

\* While no two index commands have overlapped, a sequence names one index,
\* although retention removes indexes and a failed or killed command leaves its
\* sequence free.
THEOREM SequencesAreNotReused == Spec => []SequencesNameOneIndex
<1>1. PublisherInv => SequencesNameOneIndex
  BY DEF PublisherInv, HistoryInv, NamesOne, SequencesNameOneIndex, SequencesAreImmutable,
         Published, Entries
<1> QED
  BY <1>1, PublisherInvariant, PTL DEF Spec

-----------------------------------------------------------------------------
(***************************************************************************)
(* Retention next to index commands, also when those overlap.  A command   *)
(* collects a sequence that has enough published ones after it, and these  *)
(* stay or have enough after them in turn.  What goes wrong would need a   *)
(* command that fails over a directory another one has published in: two   *)
(* index commands that hold the same sequence, and a directory that was    *)
(* taken away between their mkdirs, by retention twice.                    *)
(***************************************************************************)
Claims(c, s) == pc[c] \in Indexing /\ job[c].sequence = s
Signs(c, s) == pc[c] = "index-sign" /\ job[c].sequence = s
Collecting(c, s) == pc[c] = "gc" /\ s \in job[c].indexes
Later(s) == {r \in Sequences : r > s /\ Published(r)}

\* A command runs where its kind is run.
Allowed ==
    \A c \in Commands : /\ pc[c] \in Indexing => "index" \in site.does[c]
                        /\ pc[c] = "gc" => "gc" \in site.does[c]

\* What is collected has enough later indexes.
Superseded ==
    \A c \in Commands, s \in Sequences :
      Collecting(c, s) => Cardinality(Later(s)) >= KeepIndexes

\* The directory a command signs in is not published, and if it is gone then
\* retention took it.
Unsigned ==
    \A a \in Commands, s \in Sequences : Signs(a, s) =>
      ~Published(s) /\ (s \in Listed(registry) \/ Later(s) # {})

\* While another command holds the same sequence, that directory stays.
Contended ==
    \A a, b \in Commands, s \in Sequences : Signs(a, s) /\ Claims(b, s) /\ a # b =>
      /\ pc[b] # "index-sign" /\ s \in Listed(registry)
      /\ \A c \in Commands : ~Collecting(c, s)

\* And retention does not find it gone.
Crowded ==
    \A a, b, c \in Commands, s \in Sequences :
      Claims(a, s) /\ Claims(b, s) /\ a # b /\ Collecting(c, s) => s \in Listed(registry)

RetainInv == Allowed /\ Superseded /\ Unsigned /\ Contended /\ Crowded

\* Later sequences are finitely many.
LEMMA LaterFinite ==
    ASSUME NEW S \in SUBSET Sequences
    PROVE  IsFiniteSet(S) /\ Cardinality(S) \in Nat
<1>1. MaxSequence \in Nat
  BY PublisherAssumption
<1>2. IsFiniteSet(Sequences)
  BY <1>1, FS_Interval DEF Sequences
<1> QED
  BY <1>2, FS_Subset, FS_CardinalityType

\* More of them are no fewer.
LEMMA LaterMonotone ==
    ASSUME NEW T \in SUBSET Sequences, NEW S \in SUBSET T
    PROVE  Cardinality(S) <= Cardinality(T)
BY LaterFinite, FS_Subset

\* How a command comes to hold a sequence, and to sign it.
LEMMA ClaimSteps ==
    ASSUME PublisherTypeInv, NEW c \in Commands, Does(c) \/ Killed(c),
           NEW s \in Sequences, Claims(c, s)'
    PROVE  /\ \/ Claims(c, s)
              \/ /\ \A r \in Listed(registry) : r < s
                 /\ registry' = registry /\ pc'[c] = "index-list" /\ "index" \in site.does[c]
           /\ Signs(c, s)' => /\ Claims(c, s) /\ s \notin Listed(registry)
                              /\ s \in Listed(registry)' /\ ~Published(s)'
<1>0. /\ pc \in [Commands -> Labels] /\ job \in [Commands -> Jobs \cup {None}] /\ Fits(pc[c], job[c])
      /\ registry \in Trees
  BY DEF PublisherTypeInv, TypeOK, Fitting
<1>1. Index(c)
  BY IndexContinues DEF Claims
<1> DEFINE Q == /\ \/ Claims(c, s)
                   \/ /\ \A r \in Listed(registry) : r < s
                      /\ registry' = registry /\ pc'[c] = "index-list" /\ "index" \in site.does[c]
                /\ Signs(c, s)' => /\ Claims(c, s) /\ s \notin Listed(registry)
                                   /\ s \in Listed(registry)' /\ ~Published(s)'
<1>2. ASSUME NEW r \in Sequences, IndexStart(c, r) PROVE Q
  <2>1. pc'[c] = "index-list" /\ job'[c] = [sequence |-> r] /\ registry' = registry
    BY <1>0, <1>2 DEF IndexStart, Goto, KeepRegistry
  <2>2. r = s
    BY <2>1 DEF Claims
  <2>3. Listed(registry) \in SUBSET Sequences /\ s > Highest(Listed(registry))
    BY <1>2, <2>2 DEF IndexStart, Listed
  <2>4. /\ \A q \in Listed(registry) : q <= Highest(Listed(registry))
        /\ Highest(Listed(registry)) \in 0..MaxSequence
    BY <2>3, HighestIsGreatest
  <2>5. \A q \in Listed(registry) : q < s
    BY <2>3, <2>4 DEF Sequences
  <2> QED
    BY <1>2, <2>1, <2>5 DEF Signs, IndexStart, Starts
<1>6. ASSUME NEW capabilities \in SUBSET Capabilities, IndexCapabilities(c, capabilities) PROVE Q
  BY <1>0, <1>6 DEF IndexCapabilities, Goto, Indexing, Claims, Signs
<1>3. CASE IndexList(c) \/ IndexVerify(c) \/ IndexGenerate(c)
  <2>1. pc[c] \in Indexing /\ pc'[c] # "index-sign" /\ job'[c].sequence = job[c].sequence
    <3>1. CASE IndexList(c)
      <4>1. job[c] \in [sequence : Sequences, left : SUBSET Capabilities, todo : SUBSET Slots,
                        entries : Listings]
        BY <1>0, <3>1 DEF IndexList, Fits
      <4> DEFINE next == Least(job[c].left)
                 slots == {v \in Slots : CapabilityOf[v] = next /\ registry.bundles[v] # None}
                 j == [job[c] EXCEPT !.left = @ \ {next}, !.todo = slots]
      <4>2. j.sequence = job[c].sequence
        BY <4>1
      <4>3. pc[c] = "index-verify" /\ (Goto(c, "index-verify", j) \/ Finish(c))
        BY <3>1 DEF IndexList
      <4> HIDE DEF j
      <4> QED
        BY <1>0, <4>2, <4>3 DEF Goto, Finish, Indexing, Claims
    <3>2. CASE IndexVerify(c)
      <4>1. job[c] \in [sequence : Sequences, left : SUBSET Capabilities, todo : SUBSET Slots,
                        entries : Listings]
        BY <1>0, <3>2 DEF IndexVerify, Fits
      <4> DEFINE v == Least(job[c].todo)
                 j == [job[c] EXCEPT !.todo = @ \ {v}, !.entries[v] = registry.bundles[v]]
      <4>2. j.sequence = job[c].sequence
        BY <4>1
      <4>3. pc[c] = "index-verify" /\ (Goto(c, "index-verify", j) \/ Finish(c))
        BY <3>2 DEF IndexVerify
      <4> HIDE DEF j
      <4> QED
        BY <1>0, <4>2, <4>3 DEF Goto, Finish, Indexing, Claims
    <3>3. CASE IndexGenerate(c)
      BY <1>0, <3>3 DEF IndexGenerate, Goto, Finish, Indexing, Claims
    <3> QED
      BY <1>3, <3>1, <3>2, <3>3
  <2> QED
    BY <2>1 DEF Claims, Signs
<1>4. CASE IndexMkdir(c)
  <2>1. /\ pc[c] = "index-mkdir" /\ job'[c] = job[c] /\ job[c].sequence \notin Listed(registry)
        /\ SetSnapshot(job[c].sequence, [entries |-> job[c].entries, whole |-> FALSE])
    BY <1>0, <1>4 DEF IndexMkdir, Goto, Finish, Indexing, Claims
  <2>2. s = job[c].sequence
    BY <2>1 DEF Claims
  <2>3. registry'.snapshots[s] = [entries |-> job[c].entries, whole |-> FALSE]
    BY <1>0, <2>1, <2>2 DEF SetSnapshot, Trees
  <2>4. [entries |-> job[c].entries, whole |-> FALSE] # None
    <3>1. job[c].entries \in Listings
      BY <1>0, <2>1 DEF Fits
    <3>2. [entries |-> job[c].entries, whole |-> FALSE] \in Snapshots
      BY <3>1 DEF Snapshots
    <3> QED
      BY <3>2, PublisherAssumption
  <2> QED
    BY <2>1, <2>2, <2>3, <2>4 DEF Claims, Signs, Indexing, Listed, Published, Whole
<1>5. CASE IndexSign(c)
  BY <1>0, <1>5 DEF IndexSign, Goto, Finish, Indexing, Claims
<1> QED
  BY <1>1, <1>2, <1>3, <1>4, <1>5, <1>6 DEF Index

\* How a command comes to collect a sequence; one it has removed it leaves.
LEMMA CollectSteps ==
    ASSUME PublisherTypeInv, NEW c \in Commands, Does(c) \/ Killed(c),
           NEW s \in Sequences, Collecting(c, s)'
    PROVE  \/ /\ registry' = registry /\ s \in Listed(registry) \ Kept(registry)
              /\ \A r \in Listed(registry) : Published(r)
              /\ "gc" \in site.does[c]
           \/ /\ Collecting(c, s)
              /\ s \in Listed(registry) => s \in Listed(registry)'
<1>0. /\ pc \in [Commands -> Labels] /\ job \in [Commands -> Jobs \cup {None}] /\ Fits(pc[c], job[c])
      /\ registry \in Trees /\ registry.snapshots \in [Sequences -> Snapshots \cup {None}]
  BY DEF PublisherTypeInv, TypeOK, Fitting, Trees
<1>1. Gc(c)
  BY GcContinues DEF Collecting
<1>2. CASE GcStart(c)
  <2>1. job'[c] = [indexes |-> Listed(registry) \ Kept(registry),
                   bundles |-> RemovableBundles(registry)]
    BY <1>0, <1>2 DEF GcStart, Goto
  <2>2. registry' = registry /\ \A r \in Listed(registry) : Published(r)
    BY <1>2 DEF GcStart, KeepRegistry, VerifiesForOperations, Closed, Published, Listed
  <2> QED
    BY <1>2, <2>1, <2>2 DEF GcStart, Starts, Collecting
<1>3. CASE GcIndex(c)
  <2> DEFINE r == Least(job[c].indexes)
  <2>1. pc[c] = "gc" /\ job[c] \in [indexes : SUBSET Sequences, bundles : SUBSET Slots]
    BY <1>0, <1>3 DEF GcIndex, Fits
  <2>2. r \in Sequences
    <3>1. job[c].indexes \in SUBSET Nat /\ job[c].indexes # {}
      BY <1>3, <2>1 DEF GcIndex, Sequences
    <3> QED
      BY <2>1, <3>1, LeastIsMember
  <2>3. \/ /\ Whole(registry, r)
           /\ registry' = [registry EXCEPT !.snapshots[r].whole = FALSE]
           /\ UNCHANGED <<pc, job>>
        \/ /\ SetSnapshot(r, None)
           /\ GcGoesOn(c, [job[c] EXCEPT !.indexes = @ \ {r}])
        \/ Finish(c)
    BY <1>3 DEF GcIndex
  <2> HIDE DEF r
  <2>4. CASE /\ Whole(registry, r)
             /\ registry' = [registry EXCEPT !.snapshots[r].whole = FALSE]
             /\ UNCHANGED <<pc, job>>
    <3>1. registry.snapshots[r] \in Snapshots
      BY <1>0, <2>2, <2>4 DEF Whole, Listed
    <3>2. [registry.snapshots[r] EXCEPT !.whole = FALSE] \in Snapshots
      BY <3>1 DEF Snapshots
    <3>3. registry'.snapshots = [registry.snapshots EXCEPT
            ![r] = [registry.snapshots[r] EXCEPT !.whole = FALSE]]
      BY <1>0, <2>4 DEF Trees
    <3>4. s \in Listed(registry) => s \in Listed(registry)'
      BY <1>0, <3>2, <3>3, PublisherAssumption DEF Listed
    <3> QED
      BY <2>4, <3>4 DEF Collecting
  <2>5. CASE /\ SetSnapshot(r, None)
             /\ GcGoesOn(c, [job[c] EXCEPT !.indexes = @ \ {r}])
    <3>1. job'[c] = [job[c] EXCEPT !.indexes = @ \ {r}]
      BY <1>0, <2>5 DEF GcGoesOn, Goto, Finish, Collecting
    <3>2. s \in job[c].indexes /\ s # r
      BY <2>1, <3>1 DEF Collecting
    <3>3. registry'.snapshots[s] = registry.snapshots[s]
      BY <1>0, <2>5, <3>2 DEF SetSnapshot, Trees
    <3> QED
      BY <2>1, <3>2, <3>3 DEF Collecting, Listed
  <2>6. ~Finish(c)
    BY <1>0 DEF Finish, Goto, Collecting
  <2> QED
    BY <2>3, <2>4, <2>5, <2>6
<1>4. CASE GcBundle(c)
  <2>1. pc[c] = "gc" /\ job[c] \in [indexes : SUBSET Sequences, bundles : SUBSET Slots]
    BY <1>0, <1>4 DEF GcBundle, Fits
  <2>2. job'[c].indexes = job[c].indexes
    BY <1>0, <1>4, <2>1 DEF GcBundle, GcGoesOn, Goto, Finish, Collecting
  <2>3. registry'.snapshots = registry.snapshots
    BY <1>0, <1>4 DEF GcBundle, SetBundle, Trees
  <2> QED
    BY <2>1, <2>2, <2>3 DEF Collecting, Listed
<1> QED
  BY <1>1, <1>2, <1>3, <1>4 DEF Gc

\* A published index stays, or the step begins to collect it.
LEMMA PublishedStays ==
    ASSUME PublisherTypeInv, NEW c \in Commands, Does(c) \/ Killed(c),
           NEW s \in Sequences, Published(s), ~Signs(c, s)
    PROVE  \/ registry'.snapshots[s] = registry.snapshots[s] /\ Published(s)'
           \/ /\ Collecting(c, s) /\ s = Least(job[c].indexes)
              /\ registry'.snapshots[s] = [registry.snapshots[s] EXCEPT !.whole = FALSE]
<1>1. s \in Listed(registry) /\ Whole(registry, s)
  BY DEF Published, Whole
<1> QED
  BY <1>1, SnapshotSteps DEF Signs, Collecting, Published, Whole, Listed

\* The later indexes stay, or there are still enough of them.
LEMMA LaterStays ==
    ASSUME PublisherTypeInv, Superseded, NEW c \in Commands, Does(c) \/ Killed(c),
           \A r \in Sequences : Published(r) => ~Signs(c, r), NEW s \in Sequences
    PROVE  /\ Cardinality(Later(s)) >= KeepIndexes => Cardinality(Later(s)') >= KeepIndexes
           /\ Later(s) # {} => Later(s)' # {}
<1> DEFINE Gone == Later(s) \ Later(s)'
<1>0. /\ KeepIndexes \in Nat \ {0} /\ MaxSequence \in Nat
      /\ \A r : Later(r) \in SUBSET Sequences /\ Later(r)' \in SUBSET Sequences
      /\ Cardinality(Later(s)) \in Nat /\ Cardinality(Later(s)') \in Nat
  BY PublisherAssumption, LaterFinite DEF Later
<1>1. CASE Gone = {}
  <2>1. Later(s) \in SUBSET Later(s)'
    BY <1>1
  <2>2. Cardinality(Later(s)) <= Cardinality(Later(s)')
    BY <1>0, <2>1, LaterMonotone
  <2> QED
    BY <1>0, <2>1, <2>2
<1>2. CASE Gone # {}
  <2>1. Gone \in SUBSET (0..MaxSequence)
    BY DEF Later, Sequences
  <2>2. PICK r \in Gone : \A q \in Gone : q <= r
    BY <1>0, <1>2, <2>1, NatGreatest
  <2>3. r \in Sequences /\ r > s /\ Published(r) /\ ~Published(r)'
    BY <2>2 DEF Later
  <2>4. Collecting(c, r)
    BY <2>3, PublishedStays
  <2>5. Cardinality(Later(r)) >= KeepIndexes
    BY <2>3, <2>4 DEF Superseded
  <2>6. ASSUME NEW q \in Later(r) PROVE q \in Later(s)'
    <3>1. q \in Later(s) /\ q > r
      BY <2>3, <2>6 DEF Later, Sequences
    <3>2. q \notin Gone
      BY <2>2, <2>3, <3>1 DEF Later, Sequences
    <3> QED
      BY <3>1, <3>2
  <2>7. Cardinality(Later(r)) <= Cardinality(Later(s)') /\ Cardinality(Later(r)) \in Nat
    BY <1>0, <2>6, LaterMonotone, LaterFinite
  <2>8. Cardinality(Later(s)') >= KeepIndexes
    BY <1>0, <2>5, <2>7
  <2> QED
    BY <1>0, <2>8, FS_EmptySet
<1> QED
  BY <1>1, <1>2

\* What is collected goes on having enough later indexes.
LEMMA SupersededSteps ==
    ASSUME PublisherTypeInv, Superseded, NEW c \in Commands, Does(c) \/ Killed(c),
           \A r \in Sequences : Published(r) => ~Signs(c, r)
    PROVE  Superseded'
<1> SUFFICES ASSUME NEW d \in Commands, NEW s \in Sequences, Collecting(d, s)'
             PROVE  Cardinality(Later(s)') >= KeepIndexes
  BY DEF Superseded
<1>1. CASE Collecting(d, s)
  BY <1>1, LaterStays DEF Superseded
<1>2. CASE d = c /\ ~Collecting(c, s)
  <2>1. /\ registry' = registry /\ s \in Listed(registry) \ Kept(registry)
        /\ \A r \in Listed(registry) : Published(r)
    BY <1>2, CollectSteps
  <2>2. {r \in Listed(registry) : r > s} = Later(s)'
    BY <2>1 DEF Later, Published, Whole, Listed
  <2>3. ~(Cardinality(Later(s)') < KeepIndexes)
    BY <2>1, <2>2 DEF Kept
  <2>4. Cardinality(Later(s)') \in Nat /\ KeepIndexes \in Nat
    BY LaterFinite, PublisherAssumption DEF Later
  <2> QED
    BY <2>3, <2>4
<1>3. d # c => Collecting(d, s)
  BY OthersStay DEF PublisherTypeInv, Collecting
<1> QED
  BY <1>1, <1>2, <1>3

\* A command that runs one kind does not run another.
LEMMA KindsDiffer ==
    ASSUME NEW a, NEW s, NEW r
    PROVE  /\ ~(Claims(a, s) /\ Collecting(a, r))
           /\ Signs(a, s) => Claims(a, s)
BY DEF Claims, Collecting, Signs, Indexing

\* What collecting means for the sequences a command holds.
LEMMA SupersededListed ==
    ASSUME PublisherTypeInv, Superseded, NEW c \in Commands, NEW s \in Sequences, Collecting(c, s)
    PROVE  Later(s) # {}
<1>1. Cardinality(Later(s)) >= KeepIndexes /\ KeepIndexes \in Nat \ {0}
  BY PublisherAssumption DEF Superseded
<1> QED
  BY <1>1, FS_EmptySet

\* Initially no command runs.
LEMMA InitRetainInv == Init => RetainInv
BY DEF Init, RetainInv, Allowed, Superseded, Unsigned, Contended, Crowded, Claims, Signs,
       Collecting, Indexing

\* Every step keeps what retention relies on, where few terminals write and until
\* two index commands overlap.
LEMMA NextRetainInv ==
    ASSUME FewWriters \/ ~raced', PublisherTypeInv, PublisherTypeInv', RetainInv, [Next]_vars
    PROVE  RetainInv'
<1>0. Allowed /\ Superseded /\ Unsigned /\ Contended /\ Crowded
  BY DEF RetainInv
<1>1. CASE UNCHANGED vars \/ Expire
  <2>1. UNCHANGED <<site, registry, pc, job>>
    BY <1>1 DEF vars, Expire, Next
  <2> QED
    BY <1>0, <2>1 DEF RetainInv, Allowed, Superseded, Unsigned, Contended, Crowded, Claims,
                      Signs, Collecting, Later, Published, Whole, Listed
<1>2. ASSUME NEW c \in Commands, Does(c) \/ Killed(c), site' = site, Remember PROVE RetainInv'
  <2>0. ASSUME NEW d \in Commands, d # c
        PROVE  /\ pc'[d] = pc[d] /\ job'[d] = job[d]
               /\ \A s : /\ Claims(d, s)' <=> Claims(d, s)
                         /\ Signs(d, s)' <=> Signs(d, s)
                         /\ Collecting(d, s)' <=> Collecting(d, s)
    BY <1>2, <2>0, OthersStay DEF PublisherTypeInv, Claims, Signs, Collecting
  <2>p. \A s : Signs(c, s)' => Claims(c, s)'
    BY DEF Signs, Claims, Indexing
  <2>1. ASSUME NEW s \in Sequences, s \in Listed(registry), s \notin Listed(registry)'
        PROVE  /\ Signs(c, s) \/ Collecting(c, s)
               /\ ~Claims(c, s)' /\ ~Collecting(c, s)'
    <3>1. (Signs(c, s) /\ pc'[c] = "idle") \/ (Collecting(c, s) /\ pc[c] = "gc")
      BY <1>2, <2>1, SnapshotSteps, PublisherAssumption DEF Signs, Collecting, Listed, Whole
    <3>2. ~Collecting(c, s)'
      BY <1>2, <2>1, <3>1, CollectSteps DEF Collecting
    <3>3. ~Claims(c, s)'
      BY <1>2, <2>1, <3>1, ClaimSteps DEF Claims, Indexing
    <3> QED
      BY <3>1, <3>2, <3>3
  <2>2. Allowed'
    <3>1. ASSUME pc'[c] \in Indexing PROVE "index" \in site.does[c]
      <4>1. PICK s \in Sequences : s = job'[c].sequence
        BY <3>1 DEF PublisherTypeInv, Fitting, Fits, Indexing
      <4>2. Claims(c, s)'
        BY <3>1, <4>1 DEF Claims
      <4>3. pc[c] \in Indexing \/ "index" \in site.does[c]
        BY <1>2, <4>1, <4>2, ClaimSteps DEF Claims
      <4> QED
        BY <1>0, <4>3 DEF Allowed
    <3>2. ASSUME pc'[c] = "gc" PROVE "gc" \in site.does[c]
      <4>1. Gc(c)
        BY <1>2, <3>2, GcContinues
      <4> QED
        BY <1>0, <4>1 DEF Gc, GcStart, GcIndex, GcBundle, Starts, Allowed
    <3> QED
      BY <1>0, <1>2, <2>0, <3>1, <3>2 DEF Allowed
  <2>s. \A r \in Sequences : Published(r) => ~Signs(c, r)
    BY <1>0 DEF Unsigned
  <2>3. Superseded'
    BY <1>0, <1>2, <2>s, SupersededSteps
  <2>4. Unsigned'
    <3> SUFFICES ASSUME NEW a \in Commands, NEW s \in Sequences, Signs(a, s)'
                 PROVE  ~Published(s)' /\ (s \in Listed(registry)' \/ Later(s)' # {})
      BY DEF Unsigned
    <3>1. CASE a = c
      BY <1>2, <2>p, <3>1, ClaimSteps
    <3>2. CASE a # c
      <4>1. Signs(a, s) /\ Claims(a, s) /\ ~Published(s)
        BY <1>0, <2>0, <3>2, KindsDiffer DEF Unsigned
      <4>2. ~Signs(c, s)
        BY <1>0, <3>2, <4>1, KindsDiffer DEF Contended, Signs
      <4>3. ~Published(s)'
        <5>0. /\ registry \in Trees /\ registry.snapshots \in [Sequences -> Snapshots \cup {None}]
              /\ Published(s)' <=> registry'.snapshots[s] # None /\ registry'.snapshots[s].whole
              /\ Published(s) <=> registry.snapshots[s] # None /\ registry.snapshots[s].whole
          BY DEF PublisherTypeInv, TypeOK, Trees, Published, Whole, Listed
        <5>1. CASE registry'.snapshots[s] = registry.snapshots[s] \/ registry'.snapshots[s] = None
          BY <4>1, <5>0, <5>1
        <5>2. CASE registry'.snapshots[s] = [entries |-> job[c].entries, whole |-> FALSE]
          BY <5>0, <5>2
        <5>3. ~Whole(registry, s)
          BY <4>1 DEF Published
        <5> QED
          BY <1>2, <4>2, <5>1, <5>2, <5>3, SnapshotSteps DEF Signs
      <4>4. CASE Later(s) # {}
        BY <1>0, <1>2, <2>s, <4>3, <4>4, LaterStays
      <4>5. CASE s \in Listed(registry) /\ s \notin Listed(registry)'
        <5>1. Collecting(c, s)
          BY <2>1, <4>2, <4>5
        <5> QED
          BY <1>0, <4>4, <5>1, SupersededListed
      <4> QED
        BY <1>0, <4>1, <4>3, <4>4, <4>5 DEF Unsigned
    <3> QED
      BY <3>1, <3>2
  <2>5. Contended'
    <3> SUFFICES ASSUME NEW a \in Commands, NEW b \in Commands, NEW s \in Sequences,
                        Signs(a, s)', Claims(b, s)', a # b
                 PROVE  /\ pc'[b] # "index-sign" /\ s \in Listed(registry)'
                        /\ \A e \in Commands : ~Collecting(e, s)'
      BY DEF Contended
    <3>1. CASE a = c
      <4>1. /\ Claims(c, s) /\ s \notin Listed(registry) /\ s \in Listed(registry)'
            /\ Claims(c, s)'
        BY <1>2, <2>p, <3>1, ClaimSteps
      <4>2. Claims(b, s) /\ pc'[b] = pc[b]
        BY <2>0, <3>1
      <4>3. pc[b] # "index-sign"
        BY <1>0, <3>1, <4>1, <4>2 DEF Contended, Signs, Claims
      <4>4. ASSUME NEW e \in Commands, Collecting(e, s)' PROVE FALSE
        <5>1. e # c
          BY <4>1, <4>4 DEF Claims, Collecting, Indexing
        <5>2. Collecting(e, s)
          BY <2>0, <4>4, <5>1
        <5> QED
          BY <1>0, <3>1, <4>1, <4>2, <5>2 DEF Crowded
      <4> QED
        BY <4>1, <4>2, <4>3, <4>4
    <3>2. CASE b = c
      <4>1. Signs(a, s) /\ ~Published(s)
        BY <1>0, <2>0, <3>2 DEF Unsigned
      <4>2. Claims(c, s)
        <5>1. CASE \A r \in Listed(registry) : r < s
          <6>1. s \notin Listed(registry)
            BY <5>1 DEF Sequences
          <6>2. PICK r \in Sequences : r > s /\ r \in Listed(registry)
            BY <1>0, <4>1, <6>1 DEF Unsigned, Later, Published, Whole
          <6> QED
            BY <5>1, <6>2 DEF Sequences
        <5> QED
          BY <1>2, <3>2, <5>1, ClaimSteps
      <4>3. /\ pc[c] # "index-sign" /\ s \in Listed(registry)
            /\ \A e \in Commands : ~Collecting(e, s)
        BY <1>0, <3>2, <4>1, <4>2 DEF Contended
      <4>4. pc'[c] # "index-sign"
        BY <1>2, <3>2, <4>3, ClaimSteps DEF Signs, Claims
      <4>5. s \in Listed(registry)'
        BY <2>1, <3>2, <4>3
      <4>6. ASSUME NEW e \in Commands, Collecting(e, s)' PROVE FALSE
        BY <2>0, <3>2, <4>3, <4>6 DEF Claims, Collecting, Indexing
      <4> QED
        BY <3>2, <4>4, <4>5, <4>6
    <3>3. CASE a # c /\ b # c
      <4>1. Signs(a, s) /\ Claims(b, s) /\ pc'[b] = pc[b] /\ ~Published(s)
        BY <1>0, <2>0, <3>3 DEF Unsigned
      <4>2. /\ pc[b] # "index-sign" /\ s \in Listed(registry)
            /\ \A e \in Commands : ~Collecting(e, s)
        BY <1>0, <4>1 DEF Contended
      <4>3. ~Signs(c, s)
        BY <1>0, <3>3, <4>1, KindsDiffer DEF Contended, Signs
      <4>4. s \in Listed(registry)'
        BY <2>1, <4>2, <4>3
      <4>5. ASSUME NEW e \in Commands, Collecting(e, s)' PROVE FALSE
        BY <1>2, <2>0, <4>1, <4>2, <4>5, CollectSteps
      <4> QED
        BY <4>1, <4>2, <4>4, <4>5
    <3> QED
      BY <3>1, <3>2, <3>3
  <2>6. Crowded'
    <3>1. ASSUME NEW a \in Commands, NEW b \in Commands, NEW e \in Commands, NEW s \in Sequences,
                 Claims(a, s)', Claims(b, s)', a # b, Collecting(e, s)', b # c
          PROVE  s \in Listed(registry)'
      <4>1. CASE a = c
        <5>1. Claims(b, s) /\ e # c
          BY <2>0, <3>1, <4>1 DEF Claims, Collecting, Indexing
        <5>2. Collecting(e, s)
          BY <2>0, <3>1, <5>1
        <5>3. Claims(c, s)
          <6>1. CASE \A r \in Listed(registry) : r < s
            <7>1. PICK r \in Sequences : r > s /\ r \in Listed(registry)
              BY <1>0, <5>2, SupersededListed DEF Later, Published, Whole
            <7> QED
              BY <6>1, <7>1 DEF Sequences
          <6> QED
            BY <1>2, <3>1, <4>1, <6>1, ClaimSteps
        <5>4. s \in Listed(registry)
          BY <1>0, <3>1, <4>1, <5>1, <5>2, <5>3 DEF Crowded
        <5> QED
          BY <2>1, <3>1, <4>1, <5>4
      <4>2. CASE a # c /\ e = c
        <5>1. Claims(a, s) /\ Claims(b, s)
          BY <2>0, <3>1, <4>2
        <5>2. CASE Collecting(c, s)
          <6>1. s \in Listed(registry)
            BY <1>0, <3>1, <5>1, <5>2 DEF Crowded
          <6> QED
            BY <2>1, <3>1, <4>2, <6>1
        <5>3. CASE registry' = registry /\ s \in Listed(registry)
          BY <5>3 DEF Listed
        <5> QED
          BY <1>2, <3>1, <4>2, <5>2, <5>3, CollectSteps
      <4>3. CASE a # c /\ e # c
        <5>1. Claims(a, s) /\ Claims(b, s) /\ Collecting(e, s)
          BY <2>0, <3>1, <4>3
        <5>2. s \in Listed(registry)
          BY <1>0, <3>1, <5>1 DEF Crowded
        <5>3. ~Signs(c, s)
          BY <1>0, <4>3, <5>1 DEF Contended
        <5>4. ASSUME Collecting(c, s) PROVE FALSE
          <6>1. {a, b} \cap {c, e} = {}
            BY <5>1, <5>4, KindsDiffer
          <6>2. /\ "index" \in site.does[a] /\ "index" \in site.does[b]
                /\ "gc" \in site.does[c] /\ "gc" \in site.does[e]
            BY <1>0, <5>1, <5>4 DEF Allowed, Claims, Collecting
          <6>3. raced'
            BY <1>2, <3>1 DEF Remember, Claims
          <6> QED
            BY <3>1, <4>3, <6>1, <6>2, <6>3 DEF FewWriters
        <5> QED
          BY <2>1, <5>2, <5>3, <5>4
      <4> QED
        BY <4>1, <4>2, <4>3
    <3> QED
      BY <3>1 DEF Crowded
  <2> QED
    BY <2>2, <2>3, <2>4, <2>5, <2>6 DEF RetainInv
<1> QED
  BY <1>1, <1>2 DEF Next

\* A published index is never replaced, and is taken away only by retention and
\* only when enough later ones are there: where few terminals write also when
\* index commands overlap, and everywhere until two of them have.  (With two
\* indexing terminals next to two others that collect it can be afterwards.)
THEOREM PublishedIndexesStay == Spec => PublishedIndexesAreKept
<1>1. ASSUME PublisherTypeInv, RetainInv, [Next]_vars, NEW s \in Sequences, Whole(registry, s)
      PROVE  \/ registry'.snapshots[s] = registry.snapshots[s]
             \/ /\ registry'.snapshots[s] = [registry.snapshots[s] EXCEPT !.whole = FALSE]
                /\ Cardinality({r \in Sequences : r > s /\ Whole(registry, r)}) >= KeepIndexes
  <2>1. CASE UNCHANGED vars \/ Expire
    <3>1. registry' = registry
      BY <2>1 DEF vars, Expire
    <3> QED
      BY <3>1
  <2>2. ASSUME NEW c \in Commands, Does(c) \/ Killed(c), registry'.snapshots[s] # registry.snapshots[s]
        PROVE  /\ registry'.snapshots[s] = [registry.snapshots[s] EXCEPT !.whole = FALSE]
               /\ Cardinality({r \in Sequences : r > s /\ Whole(registry, r)}) >= KeepIndexes
    <3>1. Published(s)
      BY <1>1 DEF Published
    <3>2. /\ Collecting(c, s)
          /\ registry'.snapshots[s] = [registry.snapshots[s] EXCEPT !.whole = FALSE]
      BY <1>1, <2>2, <3>1, PublishedStays DEF RetainInv, Unsigned
    <3>3. Later(s) = {r \in Sequences : r > s /\ Whole(registry, r)}
      BY DEF Later, Published
    <3> QED
      BY <1>1, <3>2, <3>3 DEF RetainInv, Superseded
  <2> QED
    BY <1>1, <2>1, <2>2 DEF Next
<1> DEFINE Few == FewWriters \/ ~raced
           FewInv == Few => RetainInv
<1>2. [Next]_vars => (FewWriters \/ ~raced' => Few) /\ (Few' => FewWriters \/ ~raced')
  <2> SUFFICES ASSUME [Next]_vars
               PROVE  (FewWriters \/ ~raced' => Few) /\ (Few' => FewWriters \/ ~raced')
    OBVIOUS
  <2>1. site' = site
    BY DEF Next, vars
  <2>2. FewWriters' <=> FewWriters
    BY <2>1 DEF FewWriters
  <2>3. ~raced' => ~raced
    <3>1. CASE UNCHANGED vars
      BY <3>1 DEF vars
    <3>2. CASE Next
      BY <3>2 DEF Next, Remember
    <3> QED
      BY <3>1, <3>2
  <2> QED
    BY <2>2, <2>3
<1>3. PublisherTypeInv /\ FewInv /\ [Next]_vars =>
        (FewWriters \/ ~raced' => \A s \in Sequences : Whole(registry, s) =>
          \/ registry'.snapshots[s] = registry.snapshots[s]
          \/ /\ registry'.snapshots[s] = [registry.snapshots[s] EXCEPT !.whole = FALSE]
             /\ Cardinality({r \in Sequences : r > s /\ Whole(registry, r)}) >= KeepIndexes)
  BY <1>1, <1>2
<1>4. Init => PublisherTypeInv /\ RestoreInv /\ FewInv
  BY InitPublisherType, InitRestoreInv, InitRetainInv
<1>5. PublisherTypeInv /\ RestoreInv /\ FewInv /\ [Next]_vars
        => PublisherTypeInv' /\ RestoreInv' /\ FewInv'
  BY <1>2, NextPublisherType, NextRestoreInv, NextRetainInv
<1> QED
  BY <1>3, <1>4, <1>5, PTL DEF Spec, PublishedIndexesAreKept

-----------------------------------------------------------------------------
(***************************************************************************)
(* The registry as a log of indexes.  What has been published stays part   *)
(* of every later index also after retention, so the log grows; and a step *)
(* of a command publishes one index, withdraws one or does neither.        *)
(***************************************************************************)
\* Every index ever published lists what the earlier ones listed.
LogGrows ==
    \A s, t \in Sequences : s < t /\ published[s] # None /\ published[t] # None =>
      \A v \in Slots : published[s][v] \in {None, published[t][v]}

LogInv == PublisherInv /\ (~raced => Superseded /\ LogGrows)

\* What is published can be installed from, and is remembered.
OfferedIsPublished ==
    /\ Offered = {s \in Sequences : Published(s)}
    /\ \A s \in Sequences : Published(s) => published[s] # None /\ Entries(s) = published[s]

\* That is so while no index commands overlap.
LEMMA OfferedArePublished == PublisherTypeInv /\ HistoryInv => OfferedIsPublished
<1> SUFFICES ASSUME PublisherTypeInv, HistoryInv PROVE OfferedIsPublished
  OBVIOUS
<1>1. ASSUME NEW s \in Sequences, Published(s)
      PROVE  Entries(s) = published[s] /\ Entries(s) \in Listings /\ Present(registry, Entries(s))
  <2>1. Entries(s) = published[s] /\ Present(registry, Entries(s))
    BY <1>1 DEF HistoryInv, NamesOne, ListingsHold
  <2>2. registry.snapshots[s] \in Snapshots
    BY <1>1 DEF PublisherTypeInv, TypeOK, Trees, Published, Whole, Listed
  <2> QED
    BY <2>1, <2>2 DEF Snapshots, Entries
<1> QED
  BY <1>1, PublisherAssumption DEF OfferedIsPublished, Offered, Published, Entries

\* And after the next step.
LEMMA OfferedArePublishedNext == (PublisherTypeInv /\ HistoryInv => OfferedIsPublished)'
BY OfferedArePublished, PTL

\* What a command signs goes at the end of the log and lists all that the log does.
LEMMA SignsLast ==
    ASSUME PublisherTypeInv, HistoryInv, LogGrows, NEW c \in Commands, pc[c] = "index-sign"
    PROVE  /\ job[c].sequence \in Sequences /\ job[c].entries \in Listings
           /\ published[job[c].sequence] = None
           /\ \A r \in Sequences : published[r] # None =>
                /\ r < job[c].sequence
                /\ \A v \in Slots : published[r][v] \in {None, job[c].entries[v]}
<1>1. job[c].sequence \in Sequences /\ job[c].entries \in Listings
  BY DEF PublisherTypeInv, Fitting, Fits
<1>2. ASSUME NEW r \in Sequences, published[r] # None
      PROVE  /\ r < job[c].sequence
             /\ \A v \in Slots : published[r][v] \in {None, job[c].entries[v]}
  <2>1. PICK t \in Sequences : t >= r /\ Published(t)
    BY <1>2 DEF HistoryInv, NamesOne
  <2>2. /\ t <= job[c].sequence /\ t # job[c].sequence
        /\ \A v \in Slots : Entries(t)[v] \in {None, job[c].entries[v]}
    BY <2>1, Signing
  <2>3. Entries(t) = published[t] /\ published[t] # None
    BY <2>1, OfferedArePublished DEF OfferedIsPublished
  <2>4. \A v \in Slots : published[r][v] \in {None, published[t][v]}
    BY <1>2, <2>1, <2>3 DEF LogGrows, Sequences
  <2> QED
    BY <1>1, <2>1, <2>2, <2>3, <2>4 DEF Sequences
<1>3. published[job[c].sequence] = None
  BY <1>1, <1>2 DEF Sequences
<1> QED
  BY <1>1, <1>2, <1>3

\* The log counts as this module does.
LEMMA SameCardinality ==
    ASSUME NEW S
    PROVE  Log!Cardinality(S) = Cardinality(S)
BY DEF Log!Cardinality, Cardinality, Log!IsFiniteSet, IsFiniteSet

\* What a step of a command does to the log.
LEMMA LogSteps ==
    ASSUME PublisherTypeInv, PublisherTypeInv', HistoryInv, HistoryInv', Superseded, LogGrows,
           NEW c \in Commands, Does(c) \/ Killed(c), Remember, raced' = raced
    PROVE  LogGrows' /\ [Log!Next]_(Log!logVars)
<1> DEFINE entries == job[c].entries
<1>0. published \in [Sequences -> Listings \cup {None}] /\ published' \in [Sequences -> Listings \cup {None}]
  BY DEF PublisherTypeInv, TypeOK
<1>1. OfferedIsPublished /\ OfferedIsPublished'
  BY OfferedArePublished, OfferedArePublishedNext
<1>2. ASSUME NEW s \in Sequences
      PROVE  /\ Published(s)' => \/ Published(s)
                                 \/ /\ pc[c] = "index-sign" /\ s = job[c].sequence
                                    /\ registry'.snapshots[s] = [entries |-> entries, whole |-> TRUE]
             /\ published'[s] = published[s] \/ (published[s] = None /\ Published(s)')
             /\ Published(s)' /\ published[s] = None =>
                  published'[s] = registry'.snapshots[s].entries
             /\ Published(s) => ~Signs(c, s)
  <2>1. Published(s)' <=> registry'.snapshots[s] # None /\ registry'.snapshots[s].whole
    BY DEF Published, Whole, Listed
  <2>2. published'[s] = IF published[s] = None /\ Published(s)'
                          THEN registry'.snapshots[s].entries ELSE published[s]
    BY <2>1 DEF Remember
  <2>3. Published(s) => ~Signs(c, s)
    BY Signing DEF Signs
  <2> QED
    BY <2>2, <2>3, PublishSteps
<1>3. ASSUME NEW q \in Sequences, pc[c] = "index-sign", q = job[c].sequence, Published(q)'
      PROVE  LogGrows' /\ [Log!Next]_(Log!logVars)
  <2>1. /\ q \in Sequences /\ entries \in Listings /\ published[q] = None /\ ~Published(q)
        /\ \A r \in Sequences : published[r] # None =>
             r < q /\ \A v \in Slots : published[r][v] \in {None, entries[v]}
    BY <1>1, <1>3, SignsLast DEF OfferedIsPublished
  <2>2. published'[q] = entries
    <3>1. registry'.snapshots[q] = [entries |-> entries, whole |-> TRUE]
      BY <1>2, <1>3, <2>1
    <3>2. published'[q] = registry'.snapshots[q].entries
      BY <1>2, <1>3, <2>1
    <3> QED
      BY <3>1, <3>2
  <2>3. \A s \in Sequences : s # q => published'[s] = published[s]
    BY <1>1, <1>2, <1>3 DEF OfferedIsPublished
  <2>4. published' = [published EXCEPT ![q] = entries]
    BY <1>0, <2>1, <2>2, <2>3
  <2>5. ASSUME NEW s \in Sequences PROVE Published(s)' <=> Published(s) \/ s = q
    <3>1. Published(s) => Published(s)'
      BY <1>2, <1>3, PublishedStays DEF Collecting
    <3>2. Published(s)' => Published(s) \/ s = q
      BY <1>2, <1>3
    <3>3. s = q => Published(s)'
      BY <1>3
    <3> QED
      BY <3>1, <3>2, <3>3
  <2>6. Offered' = Offered \cup {q}
    BY <1>1, <2>1, <2>5 DEF OfferedIsPublished
  <2>7. LogGrows'
    <3> SUFFICES ASSUME NEW s \in Sequences, NEW t \in Sequences, s < t,
                        published'[s] # None, published'[t] # None, NEW v \in Slots
                 PROVE  published'[s][v] \in {None, published'[t][v]}
      BY DEF LogGrows
    <3>1. CASE s # q /\ t # q
      BY <2>3, <3>1 DEF LogGrows
    <3>2. CASE s # q /\ t = q
      BY <2>1, <2>2, <2>3, <3>2
    <3>3. CASE s = q
      <4>1. t # q /\ published[t] # None
        BY <2>3, <3>3 DEF Sequences
      <4> QED
        BY <2>1, <3>3, <4>1 DEF Sequences
    <3> QED
      BY <3>1, <3>2, <3>3
  <2>8. Log!Publish(q, entries)
    BY <2>1, <2>4, <2>6 DEF Log!Publish, Log!Logged, Log!Extends
  <2> QED
    BY <2>1, <2>7, <2>8 DEF Log!Next
<1>4. CASE \A s \in Sequences : pc[c] = "index-sign" /\ s = job[c].sequence => ~Published(s)'
  <2>1. \A s \in Sequences : Published(s)' => Published(s)
    BY <1>2, <1>4
  <2>2. \A s \in Sequences : published'[s] = published[s]
    BY <1>1, <1>2, <2>1 DEF OfferedIsPublished
  <2>3. published' = published
    BY <1>0, <2>2
  <2>4. LogGrows'
    BY <2>3 DEF LogGrows
  <2>5. CASE \A s \in Sequences : Published(s) => Published(s)'
    <3>1. Offered' = Offered
      BY <1>1, <2>1, <2>5 DEF OfferedIsPublished
    <3> QED
      BY <2>3, <2>4, <3>1 DEF Log!logVars
  <2>6. ASSUME NEW s \in Sequences, Published(s), ~Published(s)'
        PROVE  Log!Withdraw(s)
    <3>1. Collecting(c, s) /\ s = Least(job[c].indexes)
      BY <1>2, <2>6, PublishedStays
    <3>2. \A r \in Sequences : Published(r) /\ r # s => Published(r)'
      BY <1>2, <3>1, PublishedStays
    <3>3. Offered' = Offered \ {s}
      BY <1>1, <2>1, <2>6, <3>2 DEF OfferedIsPublished
    <3>4. Later(s) = {r \in Offered : r > s}
      BY <1>1 DEF Later, OfferedIsPublished
    <3>5. Cardinality({r \in Offered : r > s}) >= KeepIndexes
      BY <3>1, <3>4 DEF Superseded
    <3>6. s \in Offered
      BY <1>1, <2>6 DEF OfferedIsPublished
    <3>7. UNCHANGED <<published, ~raced>>
      BY <2>3
    <3>8. Log!Cardinality({r \in Offered : r > s}) = Cardinality({r \in Offered : r > s})
      BY SameCardinality
    <3> QED
      BY <3>3, <3>5, <3>6, <3>7, <3>8 DEF Log!Withdraw
  <2> QED
    BY <2>4, <2>5, <2>6 DEF Log!Next
<1> QED
  BY <1>3, <1>4

\* Every step of the registry is one of the log, or leaves it as it is.
LEMMA LogRefines ==
    ASSUME LogInv, PublisherInv', [Next]_vars
    PROVE  LogInv' /\ [Log!Next]_(Log!logVars)
<1>1. CASE UNCHANGED vars
  <2>1. Offered' = Offered
    BY <1>1 DEF vars, Offered, Whole, Listed, Present
  <2>2. Superseded' <=> Superseded
    BY <1>1 DEF vars, Superseded, Collecting, Later, Published, Whole, Listed
  <2>3. LogGrows' <=> LogGrows
    BY <1>1 DEF vars, LogGrows
  <2> QED
    BY <1>1, <2>1, <2>2, <2>3 DEF vars, LogInv, Log!logVars
<1>2. CASE Next /\ raced'
  <2>1. Log!Overlap
    BY <1>2 DEF Log!Overlap
  <2> QED
    BY <1>2, <2>1 DEF LogInv, Log!Next
<1>3. CASE Next /\ ~raced'
  <2>1. Remember /\ ~raced /\ PublisherTypeInv /\ HistoryInv /\ Superseded /\ LogGrows
    BY <1>3 DEF Next, Remember, LogInv, PublisherInv
  <2>2. PublisherTypeInv' /\ HistoryInv'
    BY <1>3 DEF PublisherInv
  <2>3. raced' = raced
    BY <1>3, <2>1, <2>2 DEF PublisherTypeInv, TypeOK
  <2>4. ASSUME NEW c \in Commands, Does(c) \/ Killed(c)
        PROVE  LogInv' /\ [Log!Next]_(Log!logVars)
    <3>1. LogGrows' /\ [Log!Next]_(Log!logVars)
      BY <2>1, <2>2, <2>3, <2>4, LogSteps
    <3>2. \A r \in Sequences : Published(r) => ~Signs(c, r)
      BY <2>1, Signing DEF Signs
    <3>3. Superseded'
      BY <2>1, <2>4, <3>2, SupersededSteps
    <3> QED
      BY <3>1, <3>3 DEF LogInv
  <2>5. ASSUME Expire PROVE LogInv' /\ [Log!Next]_(Log!logVars)
    <3>1. UNCHANGED <<registry, pc, job>>
      BY <2>5 DEF Expire
    <3>2. OfferedIsPublished /\ published \in [Sequences -> Listings \cup {None}]
          /\ published' \in [Sequences -> Listings \cup {None}]
      BY <2>1, <2>2, OfferedArePublished DEF PublisherTypeInv, TypeOK
    <3>3. \A s \in Sequences : published'[s] = published[s]
      BY <2>1, <3>1, <3>2 DEF Remember, OfferedIsPublished, Published, Whole, Listed
    <3>4. published' = published
      BY <3>2, <3>3
    <3>5. Offered' = Offered
      BY <3>1, <3>4 DEF Offered, Whole, Listed, Present
    <3>6. Superseded' /\ LogGrows'
      BY <2>1, <3>1, <3>4 DEF Superseded, Collecting, Later, Published, Whole, Listed, LogGrows
    <3> QED
      BY <2>3, <3>4, <3>5, <3>6 DEF LogInv, Log!logVars
  <2> QED
    BY <1>3, <2>4, <2>5 DEF Next
<1> QED
  BY <1>1, <1>2, <1>3

\* A registry directory is a log of indexes until two index commands overlap,
\* whichever imports, retention commands, failures and kills its publications
\* meet: a sequence names one
\* index, later indexes extend earlier ones, and what can be installed from
\* stays so until KeepIndexes later indexes can.
THEOREM RegistryImplementsLog == Spec => ImplementsLog
<1>1. Init => Log!Init /\ LogInv
  <2> SUFFICES ASSUME Init PROVE Log!Init /\ LogInv
    OBVIOUS
  <2>1. PublisherInv
    BY PublisherInvariant
  <2>2. published = [s \in Sequences |-> None] /\ raced = FALSE /\ Offered = {}
    BY DEF Init, EmptyTree, Offered, Whole, Listed
  <2>3. Superseded /\ LogGrows
    BY <2>2 DEF Init, Superseded, Collecting, LogGrows
  <2> QED
    BY <2>1, <2>2, <2>3 DEF LogInv, Log!Init
<1>2. LogInv /\ [Next]_vars => LogInv' /\ [Log!Next]_(Log!logVars)
  BY LogRefines, PublisherInvariant DEF LogInv
<1> QED
  BY <1>1, <1>2, PTL DEF Spec, ImplementsLog, Log!Spec

\* While no two index commands have overlapped, a client is never left behind its
\* checkpoint: an index it accepts, with all
\* that its checkpoint listed, can be installed from at any time.
THEOREM ClientsAreNotStranded == Spec => []CheckpointsStayServed
<1>1. LogInv => CheckpointsStayServed
  <2> SUFFICES ASSUME LogInv, ~raced, NEW s \in Sequences, published[s] # None
               PROVE  \E r \in Offered : /\ r >= s
                                         /\ \A v \in Slots : published[s][v] \in {None, published[r][v]}
    BY DEF CheckpointsStayServed
  <2>1. PublisherTypeInv /\ HistoryInv /\ LogGrows
    BY DEF LogInv, PublisherInv
  <2>2. PICK r \in Sequences : r >= s /\ Published(r)
    BY <2>1 DEF HistoryInv, NamesOne
  <2>3. r \in Offered /\ published[r] # None
    BY <2>1, <2>2, OfferedArePublished DEF OfferedIsPublished
  <2>4. \A v \in Slots : published[s][v] \in {None, published[r][v]}
    BY <2>1, <2>2, <2>3 DEF LogGrows, Sequences
  <2> QED
    BY <2>2, <2>3, <2>4
<1>2. Init => LogInv
  <2>1. Init => PublisherInv
    BY PublisherInvariant
  <2>2. Init => Superseded /\ LogGrows
    BY DEF Init, Superseded, Collecting, LogGrows
  <2> QED
    BY <2>1, <2>2 DEF LogInv
<1>3. LogInv /\ [Next]_vars => LogInv'
  BY LogRefines, PublisherInvariant DEF LogInv
<1> QED
  BY <1>1, <1>2, <1>3, PTL DEF Spec

-----------------------------------------------------------------------------
(***************************************************************************)
(* The server.  What it verified stays in its slots, and the sequence it   *)
(* serves is never signed again.                                           *)
(***************************************************************************)
\* What a running server verified is still the registry's.
Serves ==
    /\ \A v \in Slots : server.entries[v] \in {None, registry.bundles[v]}
    /\ Published(server.sequence) => Entries(server.sequence) = server.entries
    /\ \E r \in Sequences : r >= server.sequence /\ Published(r)

ServerInv ==
    /\ ~raced => (server.phase = "up" => Serves)
    /\ ServedAsVerified

\* The server's part of the type invariant.
ServerTypeOK ==
    /\ server \in {Down} \cup [phase : {"starting"}, sequence : Sequences]
                    \cup [phase : {"up"}, sequence : Sequences, entries : Listings]
    /\ window \in [requests : 0..(Limit + 1), over : BOOLEAN]
    /\ answer \in Statuses

\* What a server that has started holds.
LEMMA UpFits ==
    ASSUME ServerTypeOK, server.phase # "down"
    PROVE  /\ server.sequence \in Sequences
           /\ server.phase = "up" => server.entries \in Listings
<1>1. Down.phase = "down"
  BY DEF Down
<1>2. \/ server \in [phase : {"starting"}, sequence : Sequences]
      \/ server \in [phase : {"up"}, sequence : Sequences, entries : Listings]
  BY <1>1 DEF ServerTypeOK
<1>3. CASE server \in [phase : {"starting"}, sequence : Sequences]
  BY <1>3
<1>4. CASE server \in [phase : {"up"}, sequence : Sequences, entries : Listings]
  BY <1>4
<1> QED
  BY <1>2, <1>3, <1>4

\* Every step keeps the types of the server.
LEMMA NextServerType ==
    ASSUME PublisherTypeInv, ServerTypeOK, [ServiceNext]_serviceVars
    PROVE  ServerTypeOK'
<1>0. /\ Limit \in Nat \ {0} /\ registry \in Trees
      /\ Fresh \in [requests : 0..(Limit + 1), over : BOOLEAN]
  BY LimitAssumption DEF PublisherTypeInv, TypeOK, Fresh
<1>1. CASE UNCHANGED serverVars
  BY <1>1 DEF serverVars, ServerTypeOK
<1>2. CASE ServerStart
  <2>1. Listed(registry) \in SUBSET Sequences /\ Listed(registry) # {}
    BY <1>2 DEF ServerStart, Listed
  <2>2. Highest(Listed(registry)) \in Sequences
    BY <2>1, HighestIsGreatest
  <2> QED
    BY <1>2, <2>2 DEF ServerStart, ServerTypeOK
<1>3. CASE ServerVerify
  <2>1. server.sequence \in Sequences
    BY <1>3, UpFits DEF ServerVerify
  <2>2. Whole(registry, server.sequence) => registry.snapshots[server.sequence].entries \in Listings
    BY <1>0, <2>1 DEF Whole, Listed, Trees, Snapshots
  <2> QED
    BY <1>0, <1>3, <2>1, <2>2 DEF ServerVerify, ServerTypeOK
<1>4. CASE ServerStop \/ Tick \/ Unauthorized
  BY <1>0, <1>4 DEF ServerStop, Tick, Unauthorized, ServerTypeOK, Statuses
<1>5. ASSUME NEW path \in Paths, Authorized(path) PROVE ServerTypeOK'
  <2>1. window' \in [requests : 0..(Limit + 1), over : BOOLEAN]
    BY <1>0, <1>5 DEF Authorized, Count, ServerTypeOK
  <2>2. answer' \in Statuses /\ server' = server
    BY <1>5 DEF Authorized, Admitted, Statuses
  <2> QED
    BY <2>1, <2>2 DEF ServerTypeOK
<1> QED
  BY <1>1, <1>2, <1>3, <1>4, <1>5 DEF ServiceNext, ServerStep, serviceVars

\* What a running server verified is kept by the operator's commands.
LEMMA ServesStays ==
    ASSUME PublisherInv, ServerTypeOK, ~raced', [Next]_vars, server.phase = "up", Serves,
           server' = server
    PROVE  Serves'
<1>1. CASE UNCHANGED registry
  BY <1>1 DEF Serves, Published, Entries
<1>2. ASSUME NEW c \in Commands, Does(c) \/ Killed(c), Remember PROVE Serves'
  <2>1. PublisherTypeInv /\ HistoryInv
    BY <1>2 DEF PublisherInv, Remember
  <2>2. PICK q \in Sequences : q = server.sequence
    BY UpFits
  <2>3. PICK r \in Sequences : r >= q /\ Published(r)
    BY <2>2 DEF Serves
  <2>4. PICK p \in Sequences : p >= r /\ Published(p) /\ registry'.snapshots[p] = registry.snapshots[p]
    BY <1>2, <2>1, <2>3, LatestStays
  <2>5. Published(p)' /\ p >= q
    BY <2>3, <2>4 DEF Published, Whole, Listed, Sequences
  <2>6. ASSUME Published(q)' PROVE Entries(q)' = server.entries
    <3>1. ~(pc[c] = "index-sign" /\ q = job[c].sequence)
      BY <2>1, <2>3, Signing DEF Sequences
    <3>2. Published(q) /\ registry'.snapshots[q] = registry.snapshots[q]
      BY <1>2, <2>1, <2>6, <3>1, PublishSteps
    <3> QED
      BY <2>2, <3>2 DEF Serves, Entries
  <2>7. \A v \in Slots : server.entries[v] \in {None, registry'.bundles[v]}
    BY <1>2, <2>1, SlotsFill DEF Serves
  <2> QED
    BY <2>2, <2>5, <2>6, <2>7 DEF Serves
<1> QED
  BY <1>1, <1>2 DEF Next, vars, Expire

\* Every step keeps what the server verified, and answers with it.
LEMMA NextServerInv ==
    ASSUME PublisherInv, ServerTypeOK, ServerInv, [ServiceNext]_serviceVars
    PROVE  ServerInv'
<1> SUFFICES ASSUME ~raced'
             PROVE  /\ server'.phase = "up" => Serves'
                    /\ answer' # "200 other"
  BY DEF ServerInv, ServedAsVerified
<1>a. [Next]_vars
  BY DEF ServiceNext, serviceVars
<1>b. ~raced
  BY <1>a DEF vars, Next, Remember
<1>0. /\ PublisherTypeInv /\ HistoryInv
      /\ server.phase = "up" => Serves
      /\ answer # "200 other"
  BY <1>b DEF PublisherInv, ServerInv, ServedAsVerified
<1>1. CASE UNCHANGED serverVars
  BY <1>0, <1>1, <1>a, ServesStays DEF serverVars
<1>2. CASE ServerStep /\ UNCHANGED vars
  <2>0. registry' = registry
    BY <1>2 DEF vars
  <2>1. CASE ServerStart \/ ServerStop
    <3>1. server'.phase # "up"
      <4>1. CASE ServerStart
        BY <4>1 DEF ServerStart
      <4>2. CASE ServerStop
        BY <4>2 DEF ServerStop, Down
      <4> QED
        BY <2>1, <4>1, <4>2
    <3>2. answer' # "200 other"
      BY <1>0, <2>1 DEF ServerStart, ServerStop
    <3> QED
      BY <3>1, <3>2
  <2>2. CASE ServerVerify
    <3>1. server.sequence \in Sequences /\ answer' = answer
      BY <2>2, UpFits DEF ServerVerify
    <3>2. ASSUME server'.phase = "up" PROVE Serves'
      <4>1. /\ server' = [phase |-> "up", sequence |-> server.sequence,
                          entries |-> registry.snapshots[server.sequence].entries]
            /\ Whole(registry, server.sequence)
            /\ Present(registry, registry.snapshots[server.sequence].entries)
        BY <2>2, <3>2 DEF ServerVerify, Down
      <4> QED
        BY <2>0, <3>1, <4>1 DEF Serves, Present, Published, Entries, Sequences
    <3> QED
      BY <1>0, <3>1, <3>2
  <2>3. CASE Tick \/ Unauthorized
    BY <1>0, <2>0, <2>3 DEF Tick, Unauthorized, Serves, Published, Entries
  <2>4. ASSUME NEW path \in Paths, Authorized(path)
        PROVE  (server'.phase = "up" => Serves') /\ answer' # "200 other"
    <3>0. server.phase = "up" /\ server' = server
      BY <2>4 DEF Authorized
    <3>1. Serves /\ server.sequence \in Sequences
      BY <1>0, <3>0, UpFits
    <3>2. ASSUME Reads(path, "200 other") PROVE FALSE
      <4>1. CASE path.kind = "latest"
        BY <3>2, <4>1 DEF Reads
      <4>2. CASE path.kind = "index"
        BY <3>0, <3>1, <3>2, <4>2 DEF Reads, Serves, Published, Entries, Whole, Listed
      <4>3. CASE path.kind = "bundle"
        BY <3>0, <3>1, <3>2, <4>3 DEF Reads, Serves, Paths
      <4> QED
        BY <4>1, <4>2, <4>3 DEF Paths
    <3>3. answer' # "200 other"
      BY <2>4, <3>2 DEF Authorized
    <3> QED
      BY <2>0, <3>0, <3>1, <3>3 DEF Serves, Published, Entries
  <2> QED
    BY <1>2, <2>1, <2>2, <2>3, <2>4 DEF ServerStep
<1> QED
  BY <1>1, <1>2 DEF ServiceNext, serviceVars

\* The invariants of the publisher and the server hold initially, and every
\* step keeps them.
LEMMA ServiceInvariant ==
    /\ ServiceInit => PublisherInv /\ ServerTypeOK /\ ServerInv
    /\ PublisherInv /\ ServerTypeOK /\ ServerInv /\ [ServiceNext]_serviceVars
         => PublisherInv' /\ ServerTypeOK' /\ ServerInv'
<1>1. ASSUME ServiceInit PROVE PublisherInv /\ ServerTypeOK /\ ServerInv
  <2>1. PublisherInv
    BY <1>1, PublisherInvariant DEF ServiceInit
  <2>2. ServerTypeOK /\ ServerInv
    BY <1>1, LimitAssumption
    DEF ServiceInit, ServerTypeOK, ServerInv, ServedAsVerified, Down, Fresh, Statuses
  <2> QED
    BY <2>1, <2>2
<1>2. [ServiceNext]_serviceVars => [Next]_vars
  BY DEF ServiceNext, serviceVars
<1> QED
  BY <1>1, <1>2, PublisherInvariant, NextServerType, NextServerInv DEF PublisherInv

\* Type correctness of the server and the commands next to it.
THEOREM ServiceTypeCorrect == ServiceSpec => []ServiceTypeOK
<1>1. PublisherInv /\ ServerTypeOK => ServiceTypeOK
  BY DEF PublisherInv, PublisherTypeInv, ServerTypeOK, ServiceTypeOK
<1> QED
  BY <1>1, ServiceInvariant, PTL DEF ServiceSpec

\* While no two index commands have overlapped, an answer holds what was verified
\* when the server started, although the file is read again for every request and
\* the operator's commands go on.
THEOREM AnswersAreVerified == ServiceSpec => []ServedAsVerified
<1>1. ServerInv => ServedAsVerified
  BY DEF ServerInv
<1> QED
  BY <1>1, ServiceInvariant, PTL DEF ServiceSpec

=============================================================================
