------------------------- MODULE CapabilityLedgerProofs -------------------------
(***************************************************************************)
(* Theorems of CapabilityState about commands that do not overlap: what a  *)
(* crash tears is never built on, and without a crash the four files are a *)
(* ledger.                                                                 *)
(***************************************************************************)
EXTENDS CapabilityStateProofs

-----------------------------------------------------------------------------
(***************************************************************************)
(* What a crash can leave of a capability.  A lock without a receipt, or   *)
(* an intact baseline that is locked at another version and could be       *)
(* upgraded, does not occur: the plan of the upgrade that was interrupted  *)
(* stays, and it names the version that was replaced.                      *)
(***************************************************************************)
Upgradable(c) ==
    DiffOk(c) /\ lock[c] # 0 /\ (upgradePlan[c] # None => upgradePlan[c].from = manifest[c])

Sound(c) ==
    /\ receipt[c] = None => lock[c] = 0
    /\ Upgradable(c) => lock[c] = manifest[c]
    /\ upgradePlan[c] # None => upgradePlan[c].from < upgradePlan[c].to

\* What a command that has made its checks knows until it saves the lock.
Checked == {"hash", "check", "saveManifest", "saveLock"}

Rises(listing, p) ==
    /\ listing[Cap(p)] < op[p].version
    /\ DependenciesInstalled(listing, Cap(p))
    /\ op[p].kind = "install" => listing[Cap(p)] = 0
    /\ op[p].kind = "upgrade" => /\ upgradePlan[Cap(p)] # None
                                 /\ upgradePlan[Cap(p)].from = listing[Cap(p)]

Prepared(p) ==
    pc[p] \in Checked =>
        /\ project[p] = manifest /\ locked[p] = lock
        /\ Rises(manifest, p)
        /\ op[p].kind = "upgrade" \/ pc[p] \in {"saveManifest", "saveLock"} => Whole(Cap(p))
        /\ pc[p] \in {"saveManifest", "saveLock"} =>
             original[p].receipt = receipt[Cap(p)] /\ original[p].ancestry = ancestry[Cap(p)]
        /\ pc[p] = "saveLock" => original[p].manifest = manifest

\* The files while a command replaces or restores them: each is the saved or the
\* new one, and the capabilities of others are left alone.
Between(p) ==
    LET c == Cap(p)  o == original[p] IN
    /\ \A d \in Caps \ {c} : manifest[d] = o.manifest[d] /\ lock[d] = o.lock[d]
    /\ manifest[c] \in {o.manifest[c], op[p].version}
    /\ lock[c] \in {o.lock[c], op[p].version}
    /\ receipt[c] \in {o.receipt, DocumentOf(p)}
    /\ ancestry[c] \in {o.ancestry, DocumentOf(p)}
    /\ lock[c] # o.lock[c] => receipt[c] = DocumentOf(p)
    /\ receipt[c] # o.receipt => "receipt" \in linked[p]
    /\ ancestry[c] # o.ancestry => "ancestry" \in linked[p]

\* How far it has come.
Stage(p) ==
    LET c == Cap(p)  o == original[p] IN
    /\ pc[p] \in Writing => project[p] = o.manifest /\ locked[p] = o.lock
    /\ pc[p] = "linkAncestry" => ancestry[c] = o.ancestry
    /\ pc[p] \in {"linkAncestry", "linkReceipt"} => receipt[c] = o.receipt
    /\ pc[p] \in {"linkAncestry", "linkReceipt", "renameManifest"} => manifest = o.manifest
    /\ pc[p] \in {"linkAncestry", "linkReceipt", "renameManifest", "renameLock"} => lock = o.lock
    /\ pc[p] \in {"linkReceipt", "renameManifest", "renameLock", "verify"} =>
         ancestry[c] = DocumentOf(p)
    /\ pc[p] \in {"renameManifest", "renameLock", "verify"} => receipt[c] = DocumentOf(p)
    /\ pc[p] \in {"renameLock", "verify"} => manifest[c] = op[p].version
    /\ pc[p] \in {"restoreLock", "restoreReceipt", "restoreAncestry"} => manifest = o.manifest
    /\ pc[p] \in {"restoreReceipt", "restoreAncestry"} => lock = o.lock
    /\ pc[p] = "restoreAncestry" => receipt[c] = o.receipt

SavedWhole(p) ==
    Agree(original[p].manifest[Cap(p)], original[p].lock[Cap(p)],
          original[p].receipt, original[p].ancestry)

Replaces(p) ==
    Replacing(p) => SavedWhole(p) /\ Rises(original[p].manifest, p) /\ Between(p) /\ Stage(p)

\* A command knows that what it read is still there.
Current(p) ==
    /\ pc[p] = "loadLock" => project[p] = manifest
    /\ Prepared(p)
    /\ Replaces(p)

SoundInv == SoleRunner /\ (\A c \in Caps : Sound(c)) /\ \A p \in Commands : Current(p)

\* Without a crash, whatever nobody replaces is whole.
WholeInv == \A c \in Caps : (\A p \in Commands : ~(Replacing(p) /\ Cap(p) = c)) => Whole(c)

-----------------------------------------------------------------------------
\* What a running command works on.
LEMMA RunnerFacts ==
    ASSUME TypeInv, NEW p \in Commands, Running(p)
    PROVE  /\ op[p] \in Operation /\ Cap(p) \in Caps /\ op[p].version \in Versions
           /\ op[p].kind = "install" \/ op[p].kind = "upgrade"
           /\ pc[p] \in Hashed => DocumentOf(p) \in Document /\ DocumentOf(p) # None
           /\ pc[p] \in Saved => original[p] \in Original
           /\ MaxVersion \in Nat
<1>1. /\ op[p] \in Operation /\ Kinds \subseteq {"install", "upgrade"} /\ MaxVersion \in Nat
      /\ pc[p] \in Hashed => hashed[p] \in Bytes
      /\ pc[p] \in Saved => original[p] \in Original
  BY ConstantsAssumption DEF TypeInv, LocalsFilled, Running, Reading, Writing, Restoring
<1>2. None \notin Document
  BY ConstantsAssumption DEF Document, Versions
<1>3. pc[p] \in Hashed => DocumentOf(p) \in Document
  BY <1>1 DEF DocumentOf, Document, Operation
<1> QED
  BY <1>1, <1>2, <1>3 DEF Operation, Cap

\* Initially every capability is absent.
LEMMA InitSoundInv == Init => SoundInv /\ WholeInv
<1> SUFFICES ASSUME Init PROVE SoundInv /\ WholeInv
  OBVIOUS
<1>1. \A c \in Caps : Sound(c) /\ Whole(c)
  BY DEF Init, Sound, Upgradable, Whole, Agree
<1>2. \A p \in Commands : ~Running(p) /\ Current(p)
  BY DEF Init, Current, Prepared, Checked, Replaces, Replacing, Running, Reading, Writing, Restoring
<1> QED
  BY <1>1, <1>2 DEF SoundInv, SoleRunner, WholeInv

\* A step of the one command that runs says nothing of the others.
LEMMA OthersRest ==
    ASSUME TypeInv, SoundInv, NEW p \in Commands, Running(p), NEW l, Goto(p, l),
           \A c \in Caps : Sound(c)', Current(p)'
    PROVE  SoundInv'
<1>1. pc' = [pc EXCEPT ![p] = l] /\ pc \in [Commands -> {"idle"} \cup Reading \cup Writing \cup Restoring \cup Ended]
  BY DEF Goto, TypeInv, TypeOK
<1>2. ASSUME NEW q \in Commands, q # p PROVE ~Running(q) /\ pc'[q] = pc[q]
  BY <1>1, <1>2 DEF SoundInv, SoleRunner
<1>3. ASSUME NEW q \in Commands, q # p PROVE ~Running(q)'
  BY <1>2, <1>3 DEF Running
<1>4. SoleRunner'
  BY <1>3 DEF SoleRunner
<1>5. ASSUME NEW q \in Commands, q # p PROVE Current(q)'
  BY <1>3, <1>5
  DEF Current, Prepared, Checked, Replaces, Replacing, Running, Reading, Writing, Restoring
<1> QED
  BY <1>4, <1>5 DEF SoundInv

\* What is sound depends on the files and the plans.
LEMMA SoundStays ==
    ASSUME UNCHANGED <<files, upgradePlan>>, NEW c \in Caps
    PROVE  (Sound(c)' <=> Sound(c)) /\ (Whole(c)' <=> Whole(c))
BY DEF Sound, Upgradable, DiffOk, Whole, files

\* A capability whose files and plan stay is as sound as before.
LEMMA SoundIfSame ==
    ASSUME NEW c \in Caps, upgradePlan' = upgradePlan, Sound(c),
           manifest'[c] = manifest[c], lock'[c] = lock[c],
           receipt'[c] = receipt[c], ancestry'[c] = ancestry[c]
    PROVE  Sound(c)'
BY DEF Sound, Upgradable, DiffOk

-----------------------------------------------------------------------------
\* The checks: a command goes on from a whole capability only.
LEMMA LoadLockSound ==
    ASSUME TypeInv, SoundInv, NEW p \in Commands, LoadLock(p)
    PROVE  SoundInv'
<1>1. /\ pc[p] = "loadLock" /\ Goto(p, "hash") /\ UNCHANGED <<files, upgradePlan, op, project>>
      /\ locked' = [locked EXCEPT ![p] = lock] /\ Running(p)
      /\ MayInstall(p) \/ MayUpgrade(p)
      /\ DependenciesInstalled(project[p], Cap(p))
  BY DEF LoadLock, Running, Reading
<1>2. /\ project[p] = manifest /\ Sound(Cap(p)) /\ Cap(p) \in Caps /\ op[p].version \in Versions
      /\ MaxVersion \in Nat
  BY <1>1, RunnerFacts DEF SoundInv, Current
<1>3. pc'[p] = "hash" /\ locked'[p] = lock
  BY <1>1 DEF Goto, TypeInv, TypeOK
<1>4. Rises(manifest, p) /\ (op[p].kind = "upgrade" => Whole(Cap(p)))
  <2>1. CASE MayInstall(p)
    <3>1. op[p].kind = "install" /\ manifest[Cap(p)] = 0 /\ 0 < op[p].version
      BY <1>2, <2>1 DEF MayInstall, Versions
    <3> QED
      BY <1>1, <1>2, <3>1 DEF Rises
  <2>2. CASE MayUpgrade(p)
    <3>1. /\ op[p].kind = "upgrade" /\ lock[Cap(p)] # 0 /\ DiffOk(Cap(p))
          /\ upgradePlan[Cap(p)] = [from |-> manifest[Cap(p)], to |-> op[p].version]
      BY <1>2, <2>2 DEF MayUpgrade
    <3>2. manifest[Cap(p)] \in Versions /\ upgradePlan[Cap(p)] # None
      <4>1. manifest[Cap(p)] \in Versions
        BY <1>2, <3>1, ConstantsAssumption DEF TypeInv, TypeOK, DiffOk, Document
      <4> QED
        BY <1>2, <3>1, <4>1, NoneAssumption DEF Versions
    <3> QED
      BY <1>1, <1>2, <3>1, <3>2 DEF Rises, Sound, Upgradable, Whole, Agree, DiffOk
  <2> QED
    BY <1>1, <2>1, <2>2
<1>5. Current(p)'
  BY <1>1, <1>2, <1>3, <1>4
  DEF Current, Prepared, Checked, Replaces, Replacing, Writing, Restoring, Rises, Whole, Cap, files,
      DependenciesInstalled
<1> QED
  BY <1>1, <1>5, OthersRest, SoundStays DEF SoundInv

\* Other steps that only read.
LEMMA ReadingSound ==
    ASSUME TypeInv, SoundInv, NEW p \in Commands,
           HashEvidence(p) \/ CheckTargets(p) \/ SaveManifest(p) \/ Refuse(p) \/ Crash(p)
    PROVE  SoundInv'
<1>1. /\ Running(p) /\ UNCHANGED <<files, upgradePlan, op, project, locked>>
      /\ Prepared(p)
  BY DEF HashEvidence, CheckTargets, SaveManifest, Refuse, Crash, Running, Reading, SoundInv, Current
<1>s. SUFFICES Current(p)'
  <2>1. \E l : Goto(p, l)
    BY DEF HashEvidence, CheckTargets, SaveManifest, Refuse, Crash
  <2> QED
    BY <1>1, <2>1, OthersRest, SoundStays DEF SoundInv
<1>2. /\ \A l : Goto(p, l) => pc'[p] = l
      /\ \A d \in Caps : Whole(d)' <=> Whole(d)
      /\ Cap(p)' = Cap(p) /\ Cap(p) \in Caps
  BY <1>1, SoundStays, RunnerFacts DEF Goto, TypeInv, TypeOK, Cap
<1>3. Rises(manifest, p)' <=> Rises(manifest, p)
  BY <1>1 DEF Rises, Cap, files, DependenciesInstalled
<1>4. ASSUME NEW l, Goto(p, l), l \in {"failed", "crashed"} PROVE Current(p)'
  BY <1>2, <1>4 DEF Current, Prepared, Checked, Replaces, Replacing, Writing, Restoring
<1>5. ASSUME NEW l \in Checked, Goto(p, l), pc[p] \in Checked,
             op[p].kind = "upgrade" \/ l \in {"saveManifest", "saveLock"} => Whole(Cap(p)),
             l \in {"saveManifest", "saveLock"} =>
               /\ original'[p].receipt = receipt[Cap(p)]
               /\ original'[p].ancestry = ancestry[Cap(p)],
             l = "saveLock" => original'[p].manifest = manifest
      PROVE  Current(p)'
  BY <1>1, <1>2, <1>3, <1>5
  DEF Current, Prepared, Checked, Replaces, Replacing, Writing, Restoring, files, Cap
<1>a. CASE HashEvidence(p)
  BY <1>1, <1>5, <1>a DEF HashEvidence, Prepared, Checked
<1>b. CASE CheckTargets(p)
  <2>1. /\ pc[p] = "check" /\ Goto(p, "saveManifest")
        /\ original'[p].receipt = receipt[Cap(p)] /\ original'[p].ancestry = ancestry[Cap(p)]
        /\ op[p].kind = "install" => receipt[Cap(p)] = None /\ ancestry[Cap(p)] = None
    BY <1>b DEF CheckTargets, TypeInv, TypeOK
  <2>2. op[p].kind = "install" => manifest[Cap(p)] = 0
    BY <1>1, <2>1 DEF Prepared, Checked, Rises
  <2>3. op[p].kind = "install" => Whole(Cap(p))
    BY <1>2, <2>1, <2>2 DEF SoundInv, Sound, Whole, Agree
  <2>4. op[p].kind = "upgrade" => Whole(Cap(p))
    BY <1>1, <2>1 DEF Prepared, Checked
  <2> QED
    BY <1>1, <1>5, <2>1, <2>3, <2>4, RunnerFacts DEF Checked
<1>c. CASE SaveManifest(p)
  <2>1. /\ pc[p] = "saveManifest" /\ Goto(p, "saveLock")
        /\ original' = [original EXCEPT ![p].manifest = manifest]
        /\ original[p].receipt = receipt[Cap(p)] /\ original[p].ancestry = ancestry[Cap(p)]
        /\ Whole(Cap(p))
    BY <1>1, <1>c DEF SaveManifest, Prepared, Checked
  <2>2. original[p] \in Original
    BY <1>1, <2>1, RunnerFacts DEF Saved
  <2>3. /\ original'[p].manifest = manifest
        /\ original'[p].receipt = receipt[Cap(p)] /\ original'[p].ancestry = ancestry[Cap(p)]
    BY <2>1, <2>2 DEF TypeInv, TypeOK, Original
  <2> QED
    BY <1>5, <2>1, <2>3 DEF Checked
<1>d. CASE Refuse(p) \/ Crash(p)
  BY <1>4, <1>d DEF Refuse, Crash
<1> QED
  BY <1>a, <1>b, <1>c, <1>d

\* The last file that is saved: nothing has been replaced.
LEMMA SaveLockSound ==
    ASSUME TypeInv, SoundInv, NEW p \in Commands, SaveLock(p)
    PROVE  SoundInv'
<1>1. /\ pc[p] = "saveLock" /\ Goto(p, "linkAncestry") /\ Running(p)
      /\ UNCHANGED <<files, upgradePlan, op, project, locked>>
      /\ original' = [original EXCEPT ![p].lock = lock]
  BY DEF SaveLock, Running, Reading
<1>2. /\ project[p] = manifest /\ locked[p] = lock /\ Rises(manifest, p) /\ Whole(Cap(p))
      /\ original[p].receipt = receipt[Cap(p)] /\ original[p].ancestry = ancestry[Cap(p)]
      /\ original[p].manifest = manifest
  BY <1>1 DEF SoundInv, Current, Prepared, Checked
<1>3. original[p] \in Original
  BY <1>1, RunnerFacts DEF Saved
<1>4. /\ original'[p].manifest = manifest /\ original'[p].lock = lock
      /\ original'[p].receipt = receipt[Cap(p)] /\ original'[p].ancestry = ancestry[Cap(p)]
  BY <1>1, <1>2, <1>3 DEF TypeInv, TypeOK, Original
<1>5. pc'[p] = "linkAncestry" /\ Cap(p)' = Cap(p)
  BY <1>1 DEF Goto, TypeInv, TypeOK, Cap
<1>6. SavedWhole(p)' /\ Rises(original[p].manifest, p)'
  BY <1>1, <1>2, <1>4, <1>5 DEF SavedWhole, Whole, Rises, DependenciesInstalled
<1>7. Between(p)' /\ Stage(p)'
  BY <1>1, <1>2, <1>4, <1>5 DEF Between, Stage, Writing, files
<1>8. Current(p)'
  BY <1>5, <1>6, <1>7 DEF Current, Prepared, Checked, Replaces
<1> QED
  BY <1>1, <1>8, OthersRest, SoundStays DEF SoundInv

-----------------------------------------------------------------------------
\* What is known while a command replaces files.
LEMMA ReplacerFacts ==
    ASSUME TypeInv, SoundInv, NEW p \in Commands, Replacing(p)
    PROVE  /\ Running(p) /\ SavedWhole(p) /\ Rises(original[p].manifest, p) /\ Between(p) /\ Stage(p)
           /\ op[p] \in Operation /\ Cap(p) \in Caps /\ op[p].version \in Versions
           /\ MaxVersion \in Nat
           /\ DocumentOf(p) \in Document /\ DocumentOf(p) # None
           /\ DocumentOf(p).version = op[p].version /\ original[p] \in Original
           /\ original[p].manifest[Cap(p)] \in 0..MaxVersion
           /\ original[p].lock[Cap(p)] = original[p].manifest[Cap(p)]
           /\ original[p].receipt = None <=> original[p].manifest[Cap(p)] = 0
           /\ original[p].receipt # None =>
                original[p].receipt.version = original[p].manifest[Cap(p)]
           /\ original[p].receipt # DocumentOf(p) /\ original[p].ancestry = original[p].receipt
<1>1. Running(p) /\ SavedWhole(p) /\ Rises(original[p].manifest, p) /\ Between(p) /\ Stage(p)
  BY DEF Running, Replacing, SoundInv, Current, Replaces
<1>2. /\ op[p] \in Operation /\ Cap(p) \in Caps /\ op[p].version \in Versions /\ MaxVersion \in Nat
      /\ DocumentOf(p) \in Document /\ DocumentOf(p) # None /\ original[p] \in Original
  BY <1>1, RunnerFacts DEF Replacing, Hashed, Saved
<1>3. DocumentOf(p).version = op[p].version
  BY DEF DocumentOf
<1>4. /\ original[p].receipt \in Document \cup {None}
      /\ original[p].receipt # None => original[p].receipt.version \in Versions
  BY <1>2 DEF Original, Document
<1>5. /\ original[p].lock[Cap(p)] = original[p].manifest[Cap(p)]
      /\ original[p].manifest[Cap(p)] \in 0..MaxVersion
      /\ original[p].receipt = None <=> original[p].manifest[Cap(p)] = 0
      /\ original[p].receipt # None =>
           original[p].receipt.version = original[p].manifest[Cap(p)]
      /\ original[p].ancestry = original[p].receipt
  BY <1>1, <1>2, <1>4 DEF SavedWhole, Agree, Versions
<1>6. original[p].receipt # DocumentOf(p)
  BY <1>1, <1>2, <1>3, <1>5 DEF Rises, Versions
<1> QED
  BY <1>1, <1>2, <1>3, <1>5, <1>6

\* A step of a replacement is sound if it is so for the capability itself.
LEMMA ReplacementSound ==
    ASSUME TypeInv, SoundInv, NEW p \in Commands, Replacing(p), NEW l, Goto(p, l),
           UNCHANGED <<upgradePlan, op, hashed, original>>,
           \A d \in Caps \ {Cap(p)} : /\ manifest'[d] = manifest[d] /\ lock'[d] = lock[d]
                                      /\ receipt'[d] = receipt[d] /\ ancestry'[d] = ancestry[d],
           Sound(Cap(p))',
           l \in Writing \cup Restoring => Between(p)' /\ Stage(p)',
           l \in Writing \cup Restoring \cup {"done", "failed", "crashed"}
    PROVE  SoundInv'
<1>1. Running(p) /\ SavedWhole(p) /\ Rises(original[p].manifest, p)
  BY ReplacerFacts
<1>2. pc'[p] = l /\ Cap(p)' = Cap(p)
  BY DEF Goto, TypeInv, TypeOK, Cap
<1>3. SavedWhole(p)' /\ Rises(original[p].manifest, p)'
  BY <1>1, <1>2 DEF SavedWhole, Rises, DependenciesInstalled
<1>4. Current(p)'
  BY <1>2, <1>3 DEF Current, Prepared, Checked, Replaces, Replacing, Writing, Restoring
<1>5. ASSUME NEW c \in Caps PROVE Sound(c)'
  <2>1. CASE c = Cap(p)
    BY <1>2, <2>1 DEF Sound, Upgradable, DiffOk
  <2>2. CASE c # Cap(p)
    BY <1>5, <2>2, SoundIfSame DEF SoundInv
  <2> QED
    BY <2>1, <2>2
<1> QED
  BY <1>1, <1>4, <1>5, OthersRest

\* The documents are put in place.
LEMMA LinkAncestrySound ==
    ASSUME TypeInv, SoundInv, NEW p \in Commands, LinkAncestry(p)
    PROVE  SoundInv'
<1>1. /\ pc[p] = "linkAncestry" /\ Goto(p, "linkReceipt") /\ Replacing(p)
      /\ ancestry' = [ancestry EXCEPT ![Cap(p)] = DocumentOf(p)]
      /\ linked' = [linked EXCEPT ![p] = linked[p] \cup {"ancestry"}]
      /\ UNCHANGED <<manifest, lock, receipt, upgradePlan, op, project, locked, hashed, original>>
  BY DEF LinkAncestry, Replacing, Writing
<1>2. /\ ancestry'[Cap(p)] = DocumentOf(p) /\ "ancestry" \in linked'[p]
      /\ \A d \in Caps \ {Cap(p)} : ancestry'[d] = ancestry[d]
      /\ \A x \in linked[p] : x \in linked'[p]
      /\ pc'[p] = "linkReceipt" /\ Cap(p)' = Cap(p) /\ DocumentOf(p)' = DocumentOf(p)
  BY <1>1, ReplacerFacts DEF Goto, TypeInv, TypeOK, Cap, DocumentOf
<1>3. /\ Between(p) /\ Stage(p) /\ Cap(p) \in Caps /\ Sound(Cap(p))
      /\ original[p].lock[Cap(p)] = original[p].manifest[Cap(p)]
      /\ original[p].receipt = None <=> original[p].manifest[Cap(p)] = 0
  BY <1>1, ReplacerFacts DEF SoundInv
<1>4. Sound(Cap(p))'
  BY <1>1, <1>2, <1>3 DEF Sound, Upgradable, Stage
<1>5. Between(p)' /\ Stage(p)'
  BY <1>1, <1>2, <1>3 DEF Between, Stage, Writing
<1> QED
  BY <1>1, <1>2, <1>4, <1>5, ReplacementSound DEF Writing

\* The second link: the ancestry is already this command's.
LEMMA LinkReceiptSound ==
    ASSUME TypeInv, SoundInv, NEW p \in Commands, LinkReceipt(p)
    PROVE  SoundInv'
<1>1. /\ pc[p] = "linkReceipt" /\ Goto(p, "renameManifest") /\ Replacing(p)
      /\ receipt' = [receipt EXCEPT ![Cap(p)] = DocumentOf(p)]
      /\ linked' = [linked EXCEPT ![p] = linked[p] \cup {"receipt"}]
      /\ UNCHANGED <<manifest, lock, ancestry, upgradePlan, op, project, locked, hashed, original>>
  BY DEF LinkReceipt, Replacing, Writing
<1>2. /\ receipt'[Cap(p)] = DocumentOf(p) /\ "receipt" \in linked'[p]
      /\ \A d \in Caps \ {Cap(p)} : receipt'[d] = receipt[d]
      /\ \A x \in linked[p] : x \in linked'[p]
      /\ pc'[p] = "renameManifest" /\ Cap(p)' = Cap(p) /\ DocumentOf(p)' = DocumentOf(p)
  BY <1>1, ReplacerFacts DEF Goto, TypeInv, TypeOK, Cap, DocumentOf
<1>3. /\ Between(p) /\ Stage(p) /\ Cap(p) \in Caps /\ Sound(Cap(p)) /\ DocumentOf(p) # None
      /\ original[p].lock[Cap(p)] = original[p].manifest[Cap(p)]
  BY <1>1, ReplacerFacts DEF SoundInv
<1>4. Sound(Cap(p))'
  BY <1>1, <1>2, <1>3 DEF Sound, Upgradable, Stage
<1>5. Between(p)' /\ Stage(p)'
  BY <1>1, <1>2, <1>3 DEF Between, Stage, Writing
<1> QED
  BY <1>1, <1>2, <1>4, <1>5, ReplacementSound DEF Writing

\* The manifest and then the lock are renamed.  In between the capability is
\* not one to upgrade: it was absent from the lock, or the plan names the version
\* that was replaced.
LEMMA RenameManifestSound ==
    ASSUME TypeInv, SoundInv, NEW p \in Commands, RenameManifest(p)
    PROVE  SoundInv'
<1>1. /\ pc[p] = "renameManifest" /\ Goto(p, "renameLock") /\ Replacing(p)
      /\ manifest' = [project[p] EXCEPT ![Cap(p)] = op[p].version]
      /\ UNCHANGED <<lock, receipt, ancestry, upgradePlan, op, project, locked, hashed,
                     original, linked>>
  BY DEF RenameManifest, NextManifest, Replacing, Writing
<1>2. /\ Between(p) /\ Stage(p) /\ Cap(p) \in Caps /\ Sound(Cap(p)) /\ DocumentOf(p) # None
      /\ original[p].lock[Cap(p)] = original[p].manifest[Cap(p)]
      /\ Rises(original[p].manifest, p) /\ op[p].version \in Versions
      /\ op[p].kind = "install" \/ op[p].kind = "upgrade"
  BY <1>1, ReplacerFacts, RunnerFacts DEF SoundInv
<1>3. project[p] = manifest /\ manifest = original[p].manifest
  BY <1>1, <1>2 DEF Stage, Writing
<1>4. /\ manifest'[Cap(p)] = op[p].version
      /\ \A d \in Caps \ {Cap(p)} : manifest'[d] = manifest[d]
      /\ pc'[p] = "renameLock" /\ Cap(p)' = Cap(p) /\ DocumentOf(p)' = DocumentOf(p)
  BY <1>1, <1>2, <1>3 DEF Goto, TypeInv, TypeOK, Listing, Cap, DocumentOf
<1>5. original[p].manifest[Cap(p)] # op[p].version
  BY <1>1, <1>2, ReplacerFacts DEF Rises, Versions
<1>6. receipt[Cap(p)] = DocumentOf(p) /\ lock[Cap(p)] = original[p].manifest[Cap(p)]
  BY <1>1, <1>2 DEF Stage
<1>7. ~Upgradable(Cap(p))'
  BY <1>1, <1>2, <1>4, <1>5, <1>6 DEF Rises, Upgradable
<1>8. Sound(Cap(p))'
  BY <1>1, <1>2, <1>4, <1>6, <1>7 DEF Sound
<1>9. Between(p)' /\ Stage(p)'
  BY <1>1, <1>2, <1>3, <1>4 DEF Between, Stage, Writing
<1> QED
  BY <1>1, <1>4, <1>8, <1>9, ReplacementSound DEF Writing

\* The lock comes last, when the receipt and the manifest are new.
LEMMA RenameLockSound ==
    ASSUME TypeInv, SoundInv, NEW p \in Commands, RenameLock(p)
    PROVE  SoundInv'
<1>1. /\ pc[p] = "renameLock" /\ Goto(p, "verify") /\ Replacing(p) /\ lock' = NextLock(p)
      /\ UNCHANGED <<manifest, receipt, ancestry, upgradePlan, op, project, locked, hashed,
                     original, linked>>
  BY DEF RenameLock, Replacing, Writing
<1>2. /\ Between(p) /\ Stage(p) /\ Cap(p) \in Caps /\ Sound(Cap(p)) /\ DocumentOf(p) # None
      /\ original[p].lock[Cap(p)] = original[p].manifest[Cap(p)]
      /\ original[p].receipt = None <=> original[p].manifest[Cap(p)] = 0
      /\ original[p].manifest[Cap(p)] \in 0..MaxVersion /\ MaxVersion \in Nat
      /\ Rises(original[p].manifest, p) /\ op[p].version \in Versions
      /\ op[p].kind = "install" \/ op[p].kind = "upgrade"
  BY <1>1, ReplacerFacts, RunnerFacts DEF SoundInv
<1>3. locked[p] = lock /\ lock = original[p].lock /\ lock \in Listing
  BY <1>1, <1>2 DEF Stage, Writing, TypeInv, TypeOK
<1>4. op[p].kind = "install" => lock[Cap(p)] = 0
  BY <1>2, <1>3 DEF Rises
<1>5. op[p].kind = "upgrade" => lock[Cap(p)] \notin {0, Twice}
  <2>1. ASSUME op[p].kind = "upgrade" PROVE upgradePlan[Cap(p)].from \in Versions
    BY <1>2, <2>1 DEF Rises, TypeInv, TypeOK
  <2> QED
    BY <1>2, <1>3, <2>1 DEF Rises, Versions, Twice
<1>6. /\ lock'[Cap(p)] = op[p].version
      /\ \A d \in Caps \ {Cap(p)} : lock'[d] = lock[d]
  BY <1>1, <1>2, <1>3, <1>4, <1>5 DEF NextLock, Listing
<1>7. pc'[p] = "verify" /\ Cap(p)' = Cap(p) /\ DocumentOf(p)' = DocumentOf(p)
  BY <1>1 DEF Goto, TypeInv, TypeOK, Cap, DocumentOf
<1>8. receipt[Cap(p)] = DocumentOf(p) /\ manifest[Cap(p)] = op[p].version
  BY <1>1, <1>2 DEF Stage
<1>9. Sound(Cap(p))'
  BY <1>1, <1>2, <1>6, <1>7, <1>8 DEF Sound
<1>10. Between(p)' /\ Stage(p)'
  BY <1>1, <1>2, <1>3, <1>6, <1>7, <1>8 DEF Between, Stage, Writing
<1> QED
  BY <1>1, <1>6, <1>9, <1>10, ReplacementSound DEF Writing

\* The outcome is verified, or an error leads to the restoration.
LEMMA OutcomeSound ==
    ASSUME TypeInv, SoundInv, NEW p \in Commands, Verify(p) \/ Catch(p)
    PROVE  SoundInv'
<1>1. /\ Replacing(p)
      /\ Goto(p, "done") \/ Goto(p, "restoreManifest")
      /\ UNCHANGED <<manifest, lock, receipt, ancestry, upgradePlan, op, project, locked, hashed,
                     original, linked>>
  BY DEF Verify, Catch, FailedWrite, Replacing, Writing, files
<1>2. Between(p) /\ Cap(p) \in Caps /\ Sound(Cap(p))
  BY <1>1, ReplacerFacts DEF SoundInv
<1>3. Cap(p)' = Cap(p) /\ DocumentOf(p)' = DocumentOf(p)
  BY <1>1 DEF Cap, DocumentOf
<1>4. Sound(Cap(p))' /\ Between(p)'
  BY <1>1, <1>2, <1>3 DEF Sound, Upgradable, DiffOk, Between
<1>5. CASE Goto(p, "done")
  BY <1>1, <1>4, <1>5, ReplacementSound DEF Writing, Restoring
<1>6. CASE Goto(p, "restoreManifest")
  <2>1. pc'[p] = "restoreManifest"
    BY <1>6 DEF Goto, TypeInv, TypeOK
  <2>2. Stage(p)'
    BY <2>1 DEF Stage, Writing
  <2> QED
    BY <1>1, <1>4, <1>6, <2>2, ReplacementSound DEF Restoring
<1> QED
  BY <1>1, <1>5, <1>6

-----------------------------------------------------------------------------
\* The restoration goes from the manifest to the ancestry.
LEMMA RestoreManifestSound ==
    ASSUME TypeInv, SoundInv, NEW p \in Commands, RestoreManifest(p)
    PROVE  SoundInv'
<1>1. /\ pc[p] = "restoreManifest" /\ Goto(p, "restoreLock") /\ Replacing(p)
      /\ manifest' = original[p].manifest
      /\ UNCHANGED <<lock, receipt, ancestry, upgradePlan, op, project, locked, hashed,
                     original, linked>>
  BY DEF RestoreManifest, Replacing, Restoring
<1>2. /\ Between(p) /\ Cap(p) \in Caps /\ Sound(Cap(p)) /\ DocumentOf(p) # None
      /\ original[p].lock[Cap(p)] = original[p].manifest[Cap(p)]
      /\ Rises(original[p].manifest, p) /\ op[p].version \in Versions
      /\ original[p].manifest[Cap(p)] # op[p].version
      /\ DocumentOf(p).version = op[p].version
  BY <1>1, ReplacerFacts DEF SoundInv, Rises, Versions
<1>3. pc'[p] = "restoreLock" /\ Cap(p)' = Cap(p) /\ DocumentOf(p)' = DocumentOf(p)
  BY <1>1 DEF Goto, TypeInv, TypeOK, Cap, DocumentOf
<1>4. Upgradable(Cap(p))' => receipt[Cap(p)] # DocumentOf(p)
  BY <1>1, <1>2, <1>3 DEF Upgradable, DiffOk
<1>5. receipt[Cap(p)] # DocumentOf(p) => lock[Cap(p)] = original[p].manifest[Cap(p)]
  BY <1>2 DEF Between
<1>6. Sound(Cap(p))'
  BY <1>1, <1>2, <1>3, <1>4, <1>5 DEF Sound
<1>7. Between(p)' /\ Stage(p)'
  BY <1>1, <1>2, <1>3 DEF Between, Stage, Writing
<1> QED
  BY <1>1, <1>2, <1>6, <1>7, ReplacementSound DEF Between, Restoring

\* Then the lock.
LEMMA RestoreLockSound ==
    ASSUME TypeInv, SoundInv, NEW p \in Commands, RestoreLock(p)
    PROVE  SoundInv'
<1>1. /\ pc[p] = "restoreLock" /\ Goto(p, "restoreReceipt") /\ Replacing(p)
      /\ lock' = original[p].lock
      /\ UNCHANGED <<manifest, receipt, ancestry, upgradePlan, op, project, locked, hashed,
                     original, linked>>
  BY DEF RestoreLock, Replacing, Restoring
<1>2. /\ Between(p) /\ Stage(p) /\ Cap(p) \in Caps /\ Sound(Cap(p)) /\ DocumentOf(p) # None
      /\ original[p].lock[Cap(p)] = original[p].manifest[Cap(p)]
      /\ original[p].receipt = None <=> original[p].manifest[Cap(p)] = 0
  BY <1>1, ReplacerFacts DEF SoundInv
<1>3. pc'[p] = "restoreReceipt" /\ Cap(p)' = Cap(p) /\ DocumentOf(p)' = DocumentOf(p)
  BY <1>1 DEF Goto, TypeInv, TypeOK, Cap, DocumentOf
<1>4. manifest = original[p].manifest /\ (receipt[Cap(p)] = None => original[p].receipt = None)
  BY <1>1, <1>2 DEF Stage, Between
<1>5. Sound(Cap(p))'
  BY <1>1, <1>2, <1>3, <1>4 DEF Sound
<1>6. Between(p)' /\ Stage(p)'
  BY <1>1, <1>2, <1>3, <1>4 DEF Between, Stage, Writing
<1> QED
  BY <1>1, <1>2, <1>5, <1>6, ReplacementSound DEF Between, Restoring

\* Then the receipt, if this command linked it.
LEMMA RestoreReceiptSound ==
    ASSUME TypeInv, SoundInv, NEW p \in Commands, RestoreReceipt(p)
    PROVE  SoundInv'
<1>1. /\ pc[p] = "restoreReceipt" /\ Goto(p, "restoreAncestry") /\ Replacing(p)
      /\ receipt' = IF "receipt" \in linked[p]
                    THEN [receipt EXCEPT ![Cap(p)] = original[p].receipt] ELSE receipt
      /\ UNCHANGED <<manifest, lock, ancestry, upgradePlan, op, project, locked, hashed,
                     original, linked>>
  BY DEF RestoreReceipt, Replacing, Restoring
<1>2. /\ Between(p) /\ Stage(p) /\ Cap(p) \in Caps /\ Sound(Cap(p))
      /\ original[p].lock[Cap(p)] = original[p].manifest[Cap(p)]
      /\ original[p].receipt = None <=> original[p].manifest[Cap(p)] = 0
  BY <1>1, ReplacerFacts DEF SoundInv
<1>3. pc'[p] = "restoreAncestry" /\ Cap(p)' = Cap(p) /\ DocumentOf(p)' = DocumentOf(p)
  BY <1>1 DEF Goto, TypeInv, TypeOK, Cap, DocumentOf
<1>4. /\ receipt'[Cap(p)] = original[p].receipt
      /\ \A d \in Caps \ {Cap(p)} : receipt'[d] = receipt[d]
  BY <1>1, <1>2 DEF Between, TypeInv, TypeOK
<1>5. manifest = original[p].manifest /\ lock = original[p].lock
  BY <1>1, <1>2 DEF Stage
<1>6. Sound(Cap(p))'
  BY <1>1, <1>2, <1>3, <1>4, <1>5 DEF Sound
<1>7. Between(p)' /\ Stage(p)'
  BY <1>1, <1>2, <1>3, <1>4, <1>5 DEF Between, Stage, Writing
<1> QED
  BY <1>1, <1>4, <1>6, <1>7, ReplacementSound DEF Restoring

\* Last the ancestry; the capability is as it was saved.
LEMMA RestoreAncestrySound ==
    ASSUME TypeInv, SoundInv, NEW p \in Commands, RestoreAncestry(p)
    PROVE  SoundInv' /\ (Cap(p) \in Caps /\ Whole(Cap(p))')
<1>1. /\ pc[p] = "restoreAncestry" /\ Goto(p, "failed") /\ Replacing(p)
      /\ ancestry' = IF "ancestry" \in linked[p]
                     THEN [ancestry EXCEPT ![Cap(p)] = original[p].ancestry] ELSE ancestry
      /\ UNCHANGED <<manifest, lock, receipt, upgradePlan, op, project, locked, hashed,
                     original, linked>>
  BY DEF RestoreAncestry, Replacing, Restoring
<1>2. /\ Between(p) /\ Stage(p) /\ SavedWhole(p) /\ Cap(p) \in Caps /\ Sound(Cap(p))
      /\ original[p].lock[Cap(p)] = original[p].manifest[Cap(p)]
  BY <1>1, ReplacerFacts DEF SoundInv
<1>3. /\ ancestry'[Cap(p)] = original[p].ancestry
      /\ \A d \in Caps \ {Cap(p)} : ancestry'[d] = ancestry[d]
  BY <1>1, <1>2 DEF Between, TypeInv, TypeOK
<1>4. /\ manifest = original[p].manifest /\ lock = original[p].lock
      /\ receipt[Cap(p)] = original[p].receipt /\ Cap(p)' = Cap(p)
  BY <1>1, <1>2 DEF Stage, Cap
<1>5. Sound(Cap(p))'
  BY <1>1, <1>2, <1>4 DEF Sound
<1>6. Whole(Cap(p))'
  BY <1>1, <1>2, <1>3, <1>4 DEF Whole, SavedWhole
<1> QED
  BY <1>1, <1>2, <1>3, <1>5, <1>6, ReplacementSound DEF Writing, Restoring

-----------------------------------------------------------------------------
\* A new plan names the version that is installed, and only if there was none.
LEMMA PrepareUpgradeSound ==
    ASSUME TypeInv, SoundInv, NEW c \in Caps, NEW v \in Versions, PrepareUpgrade(c, v)
    PROVE  SoundInv'
<1>1. /\ upgradePlan[c] = None /\ upgradePlan' = [upgradePlan EXCEPT ![c] = [from |-> manifest[c], to |-> v]]
      /\ v > manifest[c] /\ DiffOk(c) /\ lock[c] # 0
      /\ UNCHANGED <<files, pc, op, project, locked, hashed, original, linked>>
  BY DEF PrepareUpgrade
<1>2. /\ upgradePlan'[c] = [from |-> manifest[c], to |-> v]
      /\ \A d \in Caps \ {c} : upgradePlan'[d] = upgradePlan[d]
  BY <1>1 DEF TypeInv, TypeOK
<1>3. ASSUME NEW d \in Caps PROVE Sound(d)' /\ (Whole(d)' <=> Whole(d))
  <2>1. Whole(d)' <=> Whole(d)
    BY <1>1 DEF Whole, files
  <2>2. CASE d = c
    <3>1. Upgradable(c) /\ Sound(c)
      BY <1>1 DEF Upgradable, SoundInv
    <3>2. upgradePlan'[c].from < upgradePlan'[c].to
      <4>1. manifest[c] \in Nat /\ v \in Nat
        BY ConstantsAssumption DEF TypeInv, TypeOK, Listing, Versions, Twice
      <4> QED
        BY <1>1, <1>2, <4>1
    <3> QED
      BY <1>1, <2>1, <2>2, <3>1, <3>2 DEF Sound, files
  <2>3. CASE d # c
    <3>1. Sound(d)
      BY DEF SoundInv
    <3> QED
      BY <1>1, <1>2, <2>1, <2>3, <3>1 DEF Sound, Upgradable, DiffOk, files
  <2> QED
    BY <2>2, <2>3
<1>4. ASSUME NEW p \in Commands, Running(p), NEW listing
      PROVE  Rises(listing, p) => Rises(listing, p)'
  BY <1>1, <1>2, <1>4, RunnerFacts DEF Rises, Cap, DependenciesInstalled
<1>5. ASSUME NEW p \in Commands PROVE Current(p)'
  <2>1. CASE ~Running(p)
    BY <1>1, <2>1
    DEF Current, Prepared, Checked, Replaces, Replacing, Running, Reading, Writing, Restoring
  <2>2. CASE Running(p)
    <3>1. Current(p) /\ Cap(p) \in Caps /\ Cap(p)' = Cap(p) /\ DocumentOf(p)' = DocumentOf(p)
      BY <1>1, <2>2, RunnerFacts DEF SoundInv, Cap, DocumentOf
    <3>2. Prepared(p)'
      BY <1>1, <1>3, <1>4, <2>2, <3>1 DEF Current, Prepared, files
    <3>3. Replaces(p)'
      <4>1. Replacing(p)' <=> Replacing(p)
        BY <1>1 DEF Replacing
      <4>2. SavedWhole(p)' <=> SavedWhole(p)
        BY <1>1, <3>1 DEF SavedWhole
      <4>3. Between(p)' <=> Between(p)
        BY <1>1, <3>1 DEF Between, files
      <4>4. Stage(p)' <=> Stage(p)
        BY <1>1, <3>1 DEF Stage, files
      <4>5. Rises(original[p].manifest, p) => Rises(original[p].manifest, p)'
        BY <1>1, <1>2, <2>2, <3>1, RunnerFacts DEF Rises, DependenciesInstalled
      <4> QED
        BY <3>1, <4>1, <4>2, <4>3, <4>4, <4>5 DEF Current, Replaces
    <3> QED
      BY <1>1, <3>1, <3>2, <3>3 DEF Current, files
  <2> QED
    BY <2>1, <2>2
<1>6. SoleRunner'
  BY <1>1 DEF SoundInv, SoleRunner, Running
<1> QED
  BY <1>3, <1>5, <1>6 DEF SoundInv

\* Every step keeps what is sound, when commands do not overlap.
LEMMA NextSoundInv ==
    ASSUME ~Overlap
    PROVE  TypeInv /\ SoundInv /\ [Next]_vars => SoundInv'
<1> SUFFICES ASSUME TypeInv, SoundInv, [Next]_vars PROVE SoundInv'
  OBVIOUS
<1>1. ASSUME UNCHANGED <<files, upgradePlan, pc, op, project, locked, hashed, original, linked>>
      PROVE  SoundInv'
  BY <1>1
  DEF SoundInv, SoleRunner, Running, Sound, Upgradable, DiffOk, Current, Prepared, Rises, Whole,
      DependenciesInstalled, Replaces, Replacing, SavedWhole, Between, Stage, Cap, DocumentOf, files
<1>2. ASSUME NEW p \in Commands, NEW k \in Kinds, NEW c \in Caps, NEW v \in Versions,
             Begin(p, k, c, v)
      PROVE SoundInv'
  <2>1. /\ pc' = [pc EXCEPT ![p] = "loadLock"] /\ project'[p] = manifest
        /\ \A q \in Commands : ~Running(q)
        /\ UNCHANGED <<files, upgradePlan>>
    BY <1>2 DEF Begin, Goto, TypeInv, TypeOK
  <2>2. /\ pc'[p] = "loadLock"
        /\ \A q \in Commands \ {p} : ~Running(q)'
    BY <2>1 DEF Running, TypeInv, TypeOK
  <2>3. SoleRunner'
    BY <2>2 DEF SoleRunner
  <2>4. ASSUME NEW q \in Commands PROVE Current(q)'
    BY <2>1, <2>2
    DEF Current, Prepared, Checked, Replaces, Replacing, Running, Reading, Writing, Restoring, files
  <2> QED
    BY <2>1, <2>3, <2>4, SoundStays DEF SoundInv
<1>3. CASE Environment
  <2>1. CASE \E c \in Caps, v \in Versions : PrepareInstall(c, v)
    BY <1>1, <2>1 DEF PrepareInstall
  <2>2. CASE \E c \in Caps, b \in Bytes : EditEvidence(c, b)
    BY <1>1, <2>2 DEF EditEvidence
  <2>3. CASE \E c \in Caps, v \in Versions : PrepareUpgrade(c, v)
    BY <2>3, PrepareUpgradeSound
  <2> QED
    BY <1>3, <2>1, <2>2, <2>3 DEF Environment
<1>4. ASSUME NEW p \in Commands, Step(p) PROVE SoundInv'
  BY <1>4, LoadLockSound, ReadingSound, SaveLockSound, LinkAncestrySound, LinkReceiptSound,
     RenameManifestSound, RenameLockSound, OutcomeSound, RestoreManifestSound, RestoreLockSound,
     RestoreReceiptSound, RestoreAncestrySound DEF Step
<1>5. ASSUME NEW p \in Commands, Crash(p) PROVE SoundInv'
  BY <1>5, ReadingSound
<1>6. CASE UNCHANGED vars
  BY <1>1, <1>6 DEF vars
<1> QED
  BY <1>2, <1>3, <1>4, <1>5, <1>6 DEF Next

\* What a crash has torn is neither built on nor rolled back to, as long as
\* commands do not overlap (add.ts, writeCapabilityState; upgrade.ts,
\* finalizeUpgrade).
THEOREM CommandsBuildOnWholeState ==
    ASSUME ~Overlap
    PROVE  Spec => []BuiltOnWholeState
<1>1. Init => TypeInv /\ SoundInv
  BY InitTypeInv, InitSoundInv
<1>2. (TypeInv /\ SoundInv) /\ [Next]_vars => (TypeInv /\ SoundInv)'
  BY NextTypeInv, NextSoundInv
<1>3. TypeInv /\ SoundInv => BuiltOnWholeState
  BY DEF SoundInv, Current, Replaces, SavedWhole, BuiltOnWholeState
<1> QED
  BY <1>1, <1>2, <1>3, PTL DEF Spec

-----------------------------------------------------------------------------
(***************************************************************************)
(* Without crashes, what no command is replacing is whole.                 *)
(***************************************************************************)
\* What a step of a command does to the files of other capabilities.
LEMMA StepFiles ==
    ASSUME TypeInv, SoundInv, NEW p \in Commands, Step(p)
    PROVE  /\ Running(p) /\ UNCHANGED op
           /\ \E l : Goto(p, l) /\ (Replacing(p) => \/ l \in Writing \cup Restoring
                                                    \/ Verify(p) \/ RestoreAncestry(p))
           /\ ~Replacing(p) => UNCHANGED files
           /\ Replacing(p) =>
                \A d \in Caps \ {Cap(p)} : /\ manifest'[d] = manifest[d] /\ lock'[d] = lock[d]
                                           /\ receipt'[d] = receipt[d] /\ ancestry'[d] = ancestry[d]
<1>1. CASE LoadLock(p) \/ HashEvidence(p) \/ CheckTargets(p) \/ SaveManifest(p) \/ SaveLock(p) \/ Refuse(p)
  BY <1>1
  DEF LoadLock, HashEvidence, CheckTargets, SaveManifest, SaveLock, Refuse, Running, Reading,
      Replacing, Writing, Restoring, files
<1>2. CASE LinkAncestry(p) \/ LinkReceipt(p)
  BY <1>2
  DEF LinkAncestry, LinkReceipt, Running, Replacing, Writing, Restoring, files, TypeInv, TypeOK
<1>3. CASE RenameManifest(p)
  <2>1. /\ Replacing(p) /\ manifest' = [project[p] EXCEPT ![Cap(p)] = op[p].version]
        /\ Goto(p, "renameLock") /\ UNCHANGED <<lock, receipt, ancestry, op>>
    BY <1>3 DEF RenameManifest, NextManifest, Replacing, Writing
  <2>2. Running(p) /\ project[p] = manifest
    BY <1>3, <2>1, ReplacerFacts DEF RenameManifest, Stage, Writing
  <2> QED
    BY <2>1, <2>2 DEF Writing, TypeInv, TypeOK, Listing
<1>4. CASE RenameLock(p)
  <2>1. /\ Replacing(p) /\ lock' = NextLock(p)
        /\ Goto(p, "verify") /\ UNCHANGED <<manifest, receipt, ancestry, op>>
    BY <1>4 DEF RenameLock, Replacing, Writing
  <2>2. Running(p) /\ locked[p] = lock
    BY <1>4, <2>1, ReplacerFacts DEF RenameLock, Stage, Writing
  <2> QED
    BY <2>1, <2>2 DEF NextLock, Writing, TypeInv, TypeOK, Listing
<1>5. CASE Verify(p) \/ Catch(p)
  BY <1>5 DEF Verify, Catch, FailedWrite, Running, Replacing, Writing, Restoring, files
<1>6. CASE RestoreManifest(p)
  <2>1. Replacing(p) /\ manifest' = original[p].manifest /\ Goto(p, "restoreLock")
        /\ UNCHANGED <<lock, receipt, ancestry, op>>
    BY <1>6 DEF RestoreManifest, Replacing, Restoring
  <2> QED
    BY <2>1, ReplacerFacts DEF Between, Restoring
<1>7. CASE RestoreLock(p)
  <2>1. Replacing(p) /\ lock' = original[p].lock /\ Goto(p, "restoreReceipt")
        /\ UNCHANGED <<manifest, receipt, ancestry, op>>
    BY <1>7 DEF RestoreLock, Replacing, Restoring
  <2> QED
    BY <2>1, ReplacerFacts DEF Between, Restoring
<1>8. CASE RestoreReceipt(p) \/ RestoreAncestry(p)
  BY <1>8
  DEF RestoreReceipt, RestoreAncestry, Running, Replacing, Writing, Restoring, files, TypeInv, TypeOK
<1> QED
  BY <1>1, <1>2, <1>3, <1>4, <1>5, <1>6, <1>7, <1>8 DEF Step

\* A replacement ends with a whole capability.
LEMMA EndsWhole ==
    ASSUME TypeInv, SoundInv, NEW p \in Commands, Verify(p) \/ RestoreAncestry(p)
    PROVE  Replacing(p) /\ Cap(p) \in Caps /\ Whole(Cap(p))'
<1>1. CASE Verify(p)
  <2>1. Replacing(p) /\ Cap(p)' = Cap(p) /\ UNCHANGED files /\ VerifyCapability(Cap(p), op[p].version)
    BY <1>1 DEF Verify, Replacing, Writing, Cap
  <2>2. Cap(p) \in Caps
    BY <2>1, ReplacerFacts
  <2> QED
    BY <2>1, <2>2 DEF VerifyCapability, Whole, Agree, files
<1>2. CASE RestoreAncestry(p)
  BY <1>2, RestoreAncestrySound DEF RestoreAncestry, Replacing, Restoring
<1> QED
  BY <1>1, <1>2

\* A command that was killed stays so, and a crash is one.
LEMMA KilledStays ==
    ASSUME TypeInv, [Next]_vars
    PROVE  /\ Killed => Killed'
           /\ \A p \in Commands : Crash(p) => Killed'
<1>1. ASSUME NEW p \in Commands, Crash(p) PROVE Killed'
  BY <1>1 DEF Crash, Goto, Killed, TypeInv, TypeOK
<1>2. ASSUME NEW q \in Commands, pc[q] = "crashed" PROVE pc'[q] = "crashed"
  <2>1. ASSUME NEW p \in Commands, NEW k \in Kinds, NEW c \in Caps, NEW v \in Versions,
               Begin(p, k, c, v)
        PROVE  pc'[q] = "crashed"
    BY <1>2, <2>1 DEF Begin, Goto, TypeInv, TypeOK
  <2>2. ASSUME NEW p \in Commands, Step(p) PROVE pc'[q] = "crashed"
    <3>1. pc[p] # "crashed" /\ \E l : Goto(p, l)
      BY <2>2
      DEF Step, LoadLock, HashEvidence, CheckTargets, SaveManifest, SaveLock, Refuse,
          LinkAncestry, LinkReceipt, RenameManifest, RenameLock, Verify, Catch, FailedWrite,
          RestoreManifest, RestoreLock, RestoreReceipt, RestoreAncestry, Reading, Writing
    <3> QED
      BY <1>2, <3>1 DEF Goto, TypeInv, TypeOK
  <2>3. CASE Environment \/ UNCHANGED vars
    BY <1>2, <2>3 DEF Environment, PrepareInstall, PrepareUpgrade, EditEvidence, vars
  <2>4. ASSUME NEW p \in Commands, Crash(p) PROVE pc'[q] = "crashed"
    BY <1>2, <2>4 DEF Crash, Goto, TypeInv, TypeOK
  <2> QED
    BY <2>1, <2>2, <2>3, <2>4 DEF Next
<1> QED
  BY <1>1, <1>2 DEF Killed

UnkilledWhole == ~Killed => WholeInv

\* And, until a command is killed, WholeInv.
LEMMA NextWholeInv ==
    ASSUME ~Overlap
    PROVE  TypeInv /\ SoundInv /\ UnkilledWhole /\ [Next]_vars => UnkilledWhole'
<1> SUFFICES ASSUME TypeInv, SoundInv, WholeInv, [Next]_vars, ~Killed' PROVE WholeInv'
  BY KilledStays DEF UnkilledWhole
<1>1. ASSUME UNCHANGED files,
             \A q \in Commands : Replacing(q) => Replacing(q)' /\ Cap(q)' = Cap(q)
      PROVE  WholeInv'
  BY <1>1 DEF WholeInv, Whole, files
<1>2. ASSUME NEW p \in Commands, Step(p) PROVE WholeInv'
  <2>1. PICK l : Goto(p, l) /\ (Replacing(p) => \/ l \in Writing \cup Restoring
                                                \/ Verify(p) \/ RestoreAncestry(p))
    BY <1>2, StepFiles
  <2>2. /\ pc'[p] = l /\ \A q \in Commands \ {p} : pc'[q] = pc[q]
        /\ \A q \in Commands : Cap(q)' = Cap(q)
    BY <1>2, <2>1, StepFiles DEF Goto, TypeInv, TypeOK, Cap
  <2>3. ASSUME NEW c \in Caps, \A q \in Commands : ~(Replacing(q) /\ Cap(q) = c)' PROVE Whole(c)'
    <3>1. \A q \in Commands \ {p} : ~(Replacing(q) /\ Cap(q) = c)
      BY <2>2, <2>3 DEF Replacing
    <3>2. CASE Replacing(p) /\ Cap(p) = c
      <4>1. l \notin Writing \cup Restoring
        BY <2>2, <2>3, <3>2 DEF Replacing
      <4>2. Whole(Cap(p))' /\ Cap(p)' = c
        BY <2>1, <2>2, <3>2, <4>1, EndsWhole
      <4> QED
        BY <4>2
    <3>3. CASE ~(Replacing(p) /\ Cap(p) = c)
      <4>1. Whole(c)
        BY <3>1, <3>3 DEF WholeInv
      <4>2. /\ manifest'[c] = manifest[c] /\ lock'[c] = lock[c]
            /\ receipt'[c] = receipt[c] /\ ancestry'[c] = ancestry[c]
        BY <1>2, <3>3, StepFiles DEF files
      <4> QED
        BY <4>1, <4>2 DEF Whole
    <3> QED
      BY <3>2, <3>3
  <2> QED
    BY <2>3 DEF WholeInv
<1>3. ASSUME NEW p \in Commands, NEW k \in Kinds, NEW c \in Caps, NEW v \in Versions,
             Begin(p, k, c, v)
      PROVE WholeInv'
  <2>1. UNCHANGED files /\ \A q \in Commands : ~Replacing(q)
    BY <1>3 DEF Begin, Running, Replacing
  <2> QED
    BY <1>1, <2>1
<1>4. CASE Environment \/ UNCHANGED vars
  <2>1. UNCHANGED <<files, pc, op>>
    BY <1>4 DEF Environment, PrepareInstall, PrepareUpgrade, EditEvidence, vars
  <2> QED
    BY <1>1, <2>1 DEF Replacing, Cap
<1> QED
  BY <1>2, <1>3, <1>4, KilledStays DEF Next

\* While commands do not overlap and none has been killed, every capability is
\* whole or absent between commands, whichever link, rename or verification failed
\* in them ("recoverable operation" of RFC 0003); a write that restores a file is
\* assumed not to fail.
THEOREM FailedCommandsRestore ==
    ASSUME ~Overlap
    PROVE  Spec => []FailuresAreRolledBack
<1>1. Init => TypeInv /\ SoundInv /\ UnkilledWhole
  BY InitTypeInv, InitSoundInv DEF UnkilledWhole
<1>2. (TypeInv /\ SoundInv /\ UnkilledWhole) /\ [Next]_vars
        => (TypeInv /\ SoundInv /\ UnkilledWhole)'
  BY NextTypeInv, NextSoundInv, NextWholeInv
<1>3. UnkilledWhole => FailuresAreRolledBack
  BY DEF UnkilledWhole, WholeInv, FailuresAreRolledBack, RecoverableState, Quiescent, Running,
         Replacing
<1> QED
  BY <1>1, <1>2, <1>3, PTL DEF Spec

-----------------------------------------------------------------------------
(***************************************************************************)
(* What a command that reported success has installed.                     *)
(***************************************************************************)
\* It is declared at its version or a later one, and a command that is replacing
\* it has saved such a declaration.
SuccessInv ==
    \A q \in Commands : pc[q] = "done" =>
        /\ op[q] \in Operation
        /\ manifest[Cap(q)] >= op[q].version
        /\ \A p \in Commands : Replacing(p) /\ Cap(p) = Cap(q) =>
               original[p].manifest[Cap(q)] >= op[q].version

\* No command has reported anything yet.
LEMMA InitSuccessInv == Init => SuccessInv
BY DEF Init, SuccessInv

\* A step of a command moves the declaration of its capability between the one
\* it saved and its own, and comes to replace what is declared.
LEMMA StepDeclares ==
    ASSUME TypeInv, SoundInv, SoundInv', NEW p \in Commands, Step(p)
    PROVE  /\ \A d \in Caps : \/ manifest'[d] = manifest[d]
                              \/ /\ d = Cap(p) /\ Replacing(p)
                                 /\ manifest'[d] \in {original[p].manifest[d], op[p].version}
           /\ Replacing(p)' => \/ Replacing(p) /\ original'[p] = original[p]
                               \/ original'[p].manifest = manifest
<1>1. CASE ~Replacing(p)
  <2>1. UNCHANGED manifest
    BY <1>1, StepFiles DEF files
  <2>2. ASSUME Replacing(p)' PROVE SaveLock(p)
    BY <1>1, <2>2
    DEF Step, LoadLock, HashEvidence, CheckTargets, SaveManifest, Refuse, LinkAncestry, LinkReceipt,
        RenameManifest, RenameLock, Verify, Catch, FailedWrite, RestoreManifest, RestoreLock,
        RestoreReceipt, RestoreAncestry, Goto, Replacing, Writing, Restoring, TypeInv, TypeOK
  <2>3. ASSUME SaveLock(p) PROVE original'[p].manifest = manifest
    <3>1. /\ pc[p] = "saveLock" /\ original' = [original EXCEPT ![p].lock = lock]
          /\ Running(p) /\ original[p].manifest = manifest
      BY <2>3 DEF SaveLock, SoundInv, Current, Prepared, Checked, Running, Reading
    <3>2. original[p] \in Original
      BY <3>1, RunnerFacts DEF Saved
    <3> QED
      BY <3>1, <3>2 DEF TypeInv, TypeOK, Original
  <2> QED
    BY <2>1, <2>2, <2>3
<1>2. CASE Replacing(p)
  <2>1. UNCHANGED original
    BY <1>2 DEF Step, LoadLock, HashEvidence, CheckTargets, SaveManifest, SaveLock, Refuse,
      LinkAncestry, LinkReceipt, RenameManifest, RenameLock, Verify, Catch, RestoreManifest,
      RestoreLock, RestoreReceipt, RestoreAncestry, Replacing, Writing, Restoring, Reading
  <2>2. /\ UNCHANGED op
        /\ \A d \in Caps \ {Cap(p)} : manifest'[d] = manifest[d]
    BY <1>2, StepFiles
  <2>3. Replacing(p)' \/ UNCHANGED manifest
    <3>1. PICK l : Goto(p, l) /\ (l \in Writing \cup Restoring \/ Verify(p) \/ RestoreAncestry(p))
      BY <1>2, StepFiles
    <3>2. CASE l \in Writing \cup Restoring
      BY <3>1, <3>2 DEF Goto, Replacing, TypeInv, TypeOK
    <3> QED
      BY <3>1, <3>2 DEF Verify, RestoreAncestry, files
  <2>4. Replacing(p)' => manifest'[Cap(p)] \in {original[p].manifest[Cap(p)], op[p].version}
    <3>1. ASSUME Replacing(p)' PROVE Between(p)'
      BY <3>1 DEF SoundInv, Current, Replaces
    <3> QED
      BY <2>1, <2>2, <3>1 DEF Between, Cap
  <2> QED
    BY <1>2, <2>1, <2>2, <2>3, <2>4
<1> QED
  BY <1>1, <1>2

\* What has been reported stays installed at every step.
LEMMA NextSuccessInv ==
    ASSUME ~Overlap
    PROVE  TypeInv /\ SoundInv /\ SoundInv' /\ SuccessInv /\ [Next]_vars => SuccessInv'
<1> SUFFICES ASSUME TypeInv, SoundInv, SoundInv', SuccessInv, [Next]_vars PROVE SuccessInv'
  OBVIOUS
<1>1. MaxVersion \in Nat /\ manifest \in [Caps -> Nat]
  BY ConstantsAssumption DEF TypeInv, TypeOK, Listing, Twice
<1>2. ASSUME UNCHANGED <<manifest, op, original>>,
             \A q \in Commands : /\ Replacing(q)' => Replacing(q)
                                 /\ pc'[q] = "done" => pc[q] = "done"
      PROVE  SuccessInv'
  BY <1>2 DEF SuccessInv, Cap
<1>3. ASSUME NEW p \in Commands, Step(p) PROVE SuccessInv'
  <2>1. /\ Running(p) /\ UNCHANGED op
        /\ \A d \in Caps : \/ manifest'[d] = manifest[d]
                           \/ /\ d = Cap(p) /\ Replacing(p)
                              /\ manifest'[d] \in {original[p].manifest[d], op[p].version}
        /\ Replacing(p)' => \/ Replacing(p) /\ original'[p] = original[p]
                            \/ original'[p].manifest = manifest
    BY <1>3, StepFiles, StepDeclares
  <2>2. \A q \in Commands \ {p} : /\ ~Replacing(q)' /\ pc'[q] = pc[q]
    <3>1. PICK l : Goto(p, l)
      BY <1>3, StepFiles
    <3>2. \A q \in Commands \ {p} : pc'[q] = pc[q] /\ ~Running(q)
      BY <2>1, <3>1 DEF Goto, TypeInv, TypeOK, SoundInv, SoleRunner
    <3> QED
      BY <3>2 DEF Running, Replacing
  <2>3. \A q \in Commands : Cap(q)' = Cap(q)
    BY <2>1 DEF Cap
  <2>4. ASSUME NEW q \in Commands, pc[q] = "done", q # p
        PROVE  /\ manifest'[Cap(q)] >= op[q].version
               /\ Replacing(p)' /\ Cap(p) = Cap(q) =>
                    original'[p].manifest[Cap(q)] >= op[q].version
    <3>1. /\ op[q] \in Operation /\ Cap(q) \in Caps /\ op[q].version \in Nat
          /\ manifest[Cap(q)] >= op[q].version
          /\ Replacing(p) /\ Cap(p) = Cap(q) => original[p].manifest[Cap(q)] >= op[q].version
      BY <2>4 DEF SuccessInv, Operation, Cap, Versions
    <3>2. ASSUME Replacing(p), Cap(p) = Cap(q) PROVE op[p].version >= op[q].version
      <4>1. /\ Rises(original[p].manifest, p) /\ op[p].version \in Nat
            /\ original[p].manifest[Cap(p)] \in Nat
        BY <1>1, <3>2, ReplacerFacts DEF Versions
      <4> QED
        BY <3>1, <3>2, <4>1 DEF Rises
    <3> QED
      BY <2>1, <3>1, <3>2
  <2>5. ASSUME pc'[p] = "done"
        PROVE  op[p] \in Operation /\ manifest'[Cap(p)] >= op[p].version /\ ~Replacing(p)'
    <3>1. Verify(p)
      BY <1>3, <2>5
      DEF Step, LoadLock, HashEvidence, CheckTargets, SaveManifest, SaveLock, Refuse, LinkAncestry,
          LinkReceipt, RenameManifest, RenameLock, Catch, RestoreManifest, RestoreLock,
          RestoreReceipt, RestoreAncestry, Goto, TypeInv, TypeOK
    <3>2. manifest' = manifest /\ manifest[Cap(p)] = op[p].version
      BY <3>1 DEF Verify, VerifyCapability, files
    <3>3. op[p] \in Operation /\ op[p].version \in Nat
      BY <2>1, RunnerFacts DEF Versions
    <3> QED
      BY <2>5, <3>2, <3>3 DEF Replacing, Writing, Restoring
  <2>6. pc[p] # "done"
    BY <2>1 DEF Running, Reading, Writing, Restoring
  <2>7. ASSUME NEW q \in Commands, pc'[q] = "done"
        PROVE  /\ op[q] \in Operation
               /\ manifest'[Cap(q)] >= op[q].version
               /\ \A r \in Commands : Replacing(r)' /\ Cap(r) = Cap(q) =>
                      original'[r].manifest[Cap(q)] >= op[q].version
    <3>1. CASE q = p
      BY <2>2, <2>5, <2>7, <3>1
    <3>2. CASE q # p
      <4>1. pc[q] = "done" /\ op[q] \in Operation
        BY <2>2, <2>7, <3>2 DEF SuccessInv
      <4> QED
        BY <2>2, <2>4, <3>2, <4>1
    <3> QED
      BY <3>1, <3>2
  <2> QED
    BY <2>1, <2>3, <2>7 DEF SuccessInv
<1>4. ASSUME NEW p \in Commands, NEW k \in Kinds, NEW c \in Caps, NEW v \in Versions,
             Begin(p, k, c, v)
      PROVE SuccessInv'
  <2>1. /\ UNCHANGED manifest /\ Goto(p, "loadLock") /\ \A q \in Commands : ~Running(q)
        /\ op' = [op EXCEPT ![p] = [kind |-> k, cap |-> c, version |-> v]]
    BY <1>4 DEF Begin, files
  <2>2. /\ \A q \in Commands : ~Replacing(q)'
        /\ \A q \in Commands : pc'[q] = "done" => pc[q] = "done" /\ op'[q] = op[q]
    BY <2>1 DEF Goto, Running, Replacing, Writing, Restoring, TypeInv, TypeOK
  <2> QED
    BY <2>1, <2>2 DEF SuccessInv, Cap
<1>5. ASSUME NEW p \in Commands, Crash(p) PROVE SuccessInv'
  <2>1. Goto(p, "crashed") /\ UNCHANGED <<manifest, op, original>>
    BY <1>5 DEF Crash, files
  <2>2. \A q \in Commands : pc'[q] = pc[q] \/ pc'[q] = "crashed"
    BY <2>1 DEF Goto, TypeInv, TypeOK
  <2> QED
    BY <1>2, <2>1, <2>2 DEF Replacing, Writing, Restoring
<1>6. CASE Environment \/ UNCHANGED vars
  <2>1. UNCHANGED <<manifest, op, original, pc>>
    BY <1>6 DEF Environment, PrepareInstall, PrepareUpgrade, EditEvidence, vars, files
  <2> QED
    BY <1>2, <2>1 DEF Replacing
<1> QED
  BY <1>3, <1>4, <1>5, <1>6 DEF Next

\* What a command reported as installed is never removed or declared at a lower
\* version by one that comes after it, succeeds, fails or is killed, as long as
\* commands do not overlap (add.ts, writeCapabilityState).
THEOREM SuccessIsForGood ==
    ASSUME ~Overlap
    PROVE  Spec => []AcceptedStaysInstalled
<1>1. Init => TypeInv /\ SoundInv /\ SuccessInv
  BY InitTypeInv, InitSoundInv, InitSuccessInv
<1>2. (TypeInv /\ SoundInv /\ SuccessInv) /\ [Next]_vars => (TypeInv /\ SoundInv /\ SuccessInv)'
  BY NextTypeInv, NextSoundInv, NextSuccessInv
<1>3. SuccessInv => AcceptedStaysInstalled
  BY DEF SuccessInv, AcceptedStaysInstalled
<1> QED
  BY <1>1, <1>2, <1>3, PTL DEF Spec

-----------------------------------------------------------------------------
(***************************************************************************)
(* The refinement.  The ledger does not see a replacement before the step  *)
(* that verifies it, or at all.                                            *)
(***************************************************************************)
Entry(c) == EntryOf(manifest, receipt[c], c)
SavedEntry(p) == EntryOf(original[p].manifest, original[p].receipt, Cap(p))

\* What the ledger holds, before and after a step.
LEMMA AcceptedWhileReplacing ==
    ASSUME NEW p \in Commands
    PROVE  /\ (Replacing(p) /\ \A q \in Commands : Replacing(q) => q = p) =>
                Accepted = [c \in Caps |-> IF c = Cap(p) THEN SavedEntry(p) ELSE Entry(c)]
           /\ (Replacing(p) /\ \A q \in Commands : Replacing(q) => q = p)' =>
                Accepted' = [c \in Caps |-> IF c = Cap(p)' THEN SavedEntry(p)' ELSE Entry(c)']
<1>1. ASSUME Replacing(p), \A q \in Commands : Replacing(q) => q = p, NEW c \in Caps
      PROVE  Accepted[c] = IF c = Cap(p) THEN SavedEntry(p) ELSE Entry(c)
  <2>1. CASE c = Cap(p)
    <3>1. (CHOOSE q \in Commands : Replacing(q) /\ Cap(q) = c) = p
      BY <1>1, <2>1
    <3> QED
      BY <1>1, <2>1, <3>1 DEF Accepted, SavedEntry
  <2>2. CASE c # Cap(p)
    BY <1>1, <2>2 DEF Accepted, Entry
  <2> QED
    BY <2>1, <2>2
<1>2. ASSUME Replacing(p)', (\A q \in Commands : Replacing(q) => q = p)', NEW c \in Caps
      PROVE  Accepted'[c] = IF c = Cap(p)' THEN SavedEntry(p)' ELSE Entry(c)'
  <2>1. CASE c = Cap(p)'
    <3>1. (CHOOSE q \in Commands : Replacing(q)' /\ Cap(q)' = c) = p
      BY <1>2, <2>1
    <3> QED
      BY <1>2, <2>1, <3>1 DEF Accepted, SavedEntry
  <2>2. CASE c # Cap(p)'
    BY <1>2, <2>2 DEF Accepted, Entry
  <2> QED
    BY <2>1, <2>2
<1>3. /\ Accepted = [c \in Caps |-> Accepted[c]]
      /\ Accepted' = [c \in Caps |-> Accepted'[c]]
  BY DEF Accepted
<1> QED
  BY <1>1, <1>2, <1>3

\* When nobody replaces files the ledger is what they say.
LEMMA AcceptedOtherwise ==
    /\ (\A q \in Commands : ~Replacing(q)) => Accepted = [c \in Caps |-> Entry(c)]
    /\ (\A q \in Commands : ~Replacing(q))' => Accepted' = [c \in Caps |-> Entry(c)']
BY DEF Accepted, Entry

\* The entries are those of whole capabilities.
LEMMA SavedEntries ==
    ASSUME TypeInv, SoundInv, NEW p \in Commands, Replacing(p)
    PROVE  /\ original[p].manifest[Cap(p)] = 0 => SavedEntry(p) = None
           /\ original[p].manifest[Cap(p)] # 0 =>
                SavedEntry(p) # None /\ SavedEntry(p).version = original[p].manifest[Cap(p)]
<1>1. original[p].manifest[Cap(p)] = 0 => SavedEntry(p) = None
  BY DEF SavedEntry, EntryOf
<1>2. ASSUME original[p].manifest[Cap(p)] # 0
      PROVE  SavedEntry(p) # None /\ SavedEntry(p).version = original[p].manifest[Cap(p)]
  <2>1. /\ original[p].receipt \in Document
        /\ original[p].receipt.version = original[p].manifest[Cap(p)]
    BY <1>2, ReplacerFacts DEF Original
  <2>2. SavedEntry(p) = [version |-> original[p].receipt.version, bytes |-> original[p].receipt.bytes]
    BY <1>2 DEF SavedEntry, EntryOf
  <2>3. SavedEntry(p) \in [version : 1..MaxVersion, bytes : Bytes]
    BY <2>1, <2>2 DEF Document, Versions
  <2> QED
    BY <2>1, <2>2, <2>3, NoneAssumption
<1> QED
  BY <1>1, <1>2

\* The entry of a whole capability has the declared version.
LEMMA WholeEntries ==
    ASSUME TypeInv, NEW c \in Caps, Whole(c), manifest[c] # 0
    PROVE  Entry(c) # None /\ Entry(c).version = manifest[c]
<1>1. receipt[c] \in Document /\ receipt[c].version = manifest[c]
  BY DEF Whole, Agree, TypeInv, TypeOK
<1>2. Entry(c) = [version |-> receipt[c].version, bytes |-> receipt[c].bytes]
  BY DEF Entry, EntryOf
<1>3. Entry(c) \in [version : 1..MaxVersion, bytes : Bytes]
  BY <1>1, <1>2 DEF Document, Versions
<1> QED
  BY <1>1, <1>2, <1>3, NoneAssumption

\* The step that verifies a replacement enters it.
LEMMA VerifyAccepts ==
    ASSUME TypeInv, SoundInv, WholeInv, NEW p \in Commands, Verify(p), ~Killed, ~Killed',
           Accepted' # Accepted
    PROVE  Ledger!LedgerNext
<1> DEFINE c == Cap(p)
           v == op[p].version
           b == hashed[p]
<1>1. /\ Replacing(p) /\ pc[p] = "verify" /\ UNCHANGED files /\ Goto(p, "done")
  BY DEF Verify, Replacing, Writing
<1>2. /\ Stage(p) /\ Between(p) /\ Rises(original[p].manifest, p)
      /\ c \in Caps /\ v \in 1..MaxVersion /\ MaxVersion \in Nat
      /\ original[p].manifest[c] \in 0..MaxVersion
  BY <1>1, ReplacerFacts DEF Versions
<1>3. b \in Bytes
  BY <1>1 DEF TypeInv, LocalsFilled, Hashed, Writing
<1>4. \A q \in Commands : Replacing(q) => q = p
  BY <1>1 DEF SoundInv, SoleRunner, Running, Replacing
<1>5. \A q \in Commands : ~Replacing(q)'
  BY <1>1, <1>4 DEF Goto, Replacing, Writing, Restoring, TypeInv, TypeOK
<1>6. Accepted = [d \in Caps |-> IF d = c THEN SavedEntry(p) ELSE Entry(d)]
  BY <1>1, <1>4, AcceptedWhileReplacing
<1>7. Accepted' = [d \in Caps |-> Entry(d)]
  <2>1. \A d \in Caps : Entry(d)' = Entry(d)
    BY <1>1 DEF Entry, EntryOf, files
  <2>2. Accepted' = [d \in Caps |-> Entry(d)']
    BY <1>5, AcceptedOtherwise
  <2> QED
    BY <2>1, <2>2
<1>8. Entry(c) = [version |-> v, bytes |-> b]
  <2>1. manifest[c] = v /\ receipt[c] = DocumentOf(p) /\ v # 0
    BY <1>1, <1>2 DEF Stage
  <2> QED
    BY <2>1 DEF Entry, EntryOf, DocumentOf
<1>9. Accepted' = [Accepted EXCEPT ![c] = [version |-> v, bytes |-> b]]
  BY <1>2, <1>6, <1>7, <1>8
<1>10. Ledger!Supported(c)
  <2> SUFFICES ASSUME NEW r \in Requires, r.cap = c
               PROVE  Accepted[r.dep] # None /\ Accepted[r.dep].version \in r.versions
    BY DEF Ledger!Supported
  <2>1. /\ r.dep \in Caps /\ r.versions \in SUBSET (1..MaxVersion)
        /\ original[p].manifest[r.dep] \in r.versions
    BY <1>2, ConstantsAssumption DEF Rises, DependenciesInstalled
  <2>2. original[p].manifest[r.dep] # 0
    BY <1>2, <2>1
  <2>3. CASE r.dep = c
    BY <1>1, <1>6, <2>1, <2>2, <2>3, SavedEntries
  <2>4. CASE r.dep # c
    <3>1. manifest[r.dep] = original[p].manifest[r.dep]
      BY <1>2, <2>1, <2>4 DEF Between
    <3>2. Whole(r.dep)
      BY <1>4, <2>1, <2>4 DEF WholeInv
    <3>3. Entry(r.dep) # None /\ Entry(r.dep).version = manifest[r.dep]
      BY <2>1, <2>2, <3>1, <3>2, WholeEntries
    <3> QED
      BY <1>6, <2>1, <2>4, <3>1, <3>3
  <2> QED
    BY <2>3, <2>4
<1>11. Accepted[c] = SavedEntry(p)
  BY <1>2, <1>6
<1>12. CASE original[p].manifest[c] = 0
  <2>1. Ledger!Install(c, v, b)
    BY <1>1, <1>9, <1>10, <1>11, <1>12, SavedEntries DEF Ledger!Install, Ledger!Accept
  <2> QED
    BY <1>2, <1>3, <2>1 DEF Ledger!LedgerNext
<1>13. CASE original[p].manifest[c] # 0
  <2>1. Accepted[c] # None /\ v > Accepted[c].version
    BY <1>1, <1>2, <1>11, <1>13, SavedEntries DEF Rises
  <2>2. Ledger!Upgrade(c, v, b)
    BY <1>9, <1>10, <2>1 DEF Ledger!Upgrade, Ledger!Accept
  <2> QED
    BY <1>2, <1>3, <2>2 DEF Ledger!LedgerNext
<1> QED
  BY <1>12, <1>13

\* No other step changes what the ledger holds.
LEMMA SavingKeepsAccepted ==
    ASSUME TypeInv, SoundInv, NEW p \in Commands, Step(p), ~Replacing(p)
    PROVE  Accepted' = Accepted
<1>1. /\ Running(p) /\ UNCHANGED <<op, files>>
      /\ \E l : Goto(p, l)
  BY StepFiles DEF TypeInv, TypeOK
<1>2. \A q \in Commands : q # p => ~Replacing(q) /\ ~Replacing(q)' /\ pc'[q] = pc[q]
  BY <1>1 DEF SoundInv, SoleRunner, Running, Replacing, Goto
<1>3. Accepted = [c \in Caps |-> Entry(c)] /\ \A c \in Caps : Entry(c)' = Entry(c)
  BY <1>1, <1>2, AcceptedOtherwise DEF Entry, EntryOf, files
<1>4. CASE Replacing(p)'
  <2>1. SaveLock(p)
    BY <1>4
    DEF Step, LoadLock, HashEvidence, CheckTargets, SaveManifest, Refuse, LinkAncestry, LinkReceipt,
        RenameManifest, RenameLock, Verify, Catch, FailedWrite, RestoreManifest, RestoreLock,
        RestoreReceipt, RestoreAncestry, Goto, Replacing, Writing, Restoring, TypeInv, TypeOK
  <2>2. /\ pc[p] = "saveLock" /\ original' = [original EXCEPT ![p].lock = lock]
        /\ original[p].receipt = receipt[Cap(p)] /\ original[p].manifest = manifest
    BY <2>1 DEF SaveLock, SoundInv, Current, Prepared, Checked
  <2>3. original[p] \in Original
    BY <1>1, <2>2, RunnerFacts DEF Saved
  <2>4. original'[p].manifest = manifest /\ original'[p].receipt = receipt[Cap(p)]
    BY <2>2, <2>3 DEF TypeInv, TypeOK, Original
  <2>5. Cap(p)' = Cap(p) /\ SavedEntry(p)' = Entry(Cap(p))
    BY <1>1, <2>4 DEF SavedEntry, Entry, EntryOf, Cap
  <2>6. Accepted' = [c \in Caps |-> IF c = Cap(p)' THEN SavedEntry(p)' ELSE Entry(c)']
    BY <1>2, <1>4, AcceptedWhileReplacing
  <2> QED
    BY <1>3, <2>5, <2>6
<1>5. CASE ~Replacing(p)'
  <2>1. Accepted' = [c \in Caps |-> Entry(c)']
    BY <1>2, <1>5, AcceptedOtherwise
  <2> QED
    BY <1>3, <2>1
<1> QED
  BY <1>4, <1>5

\* Between the saved files and the verification the ledger stays at the saved entry.
LEMMA ReplacingKeepsAccepted ==
    ASSUME TypeInv, SoundInv, NEW p \in Commands, Step(p), Replacing(p), ~Verify(p)
    PROVE  Accepted' = Accepted
<1>1. PICK l : Goto(p, l) /\ (l \in Writing \cup Restoring \/ RestoreAncestry(p))
  BY StepFiles
<1>2. /\ pc'[p] = l /\ \A q \in Commands : q # p => ~Replacing(q) /\ ~Replacing(q)'
      /\ Cap(p)' = Cap(p) /\ Cap(p) \in Caps
  BY <1>1, StepFiles, ReplacerFacts
  DEF SoundInv, SoleRunner, Running, Replacing, Goto, TypeInv, TypeOK, Cap
<1>3. UNCHANGED original
  BY DEF Step, LoadLock, HashEvidence, CheckTargets, SaveManifest, SaveLock, Refuse, LinkAncestry,
         LinkReceipt, RenameManifest, RenameLock, Verify, Catch, RestoreManifest, RestoreLock,
         RestoreReceipt, RestoreAncestry, Replacing, Writing, Restoring, Reading
<1>4. Accepted = [c \in Caps |-> IF c = Cap(p) THEN SavedEntry(p) ELSE Entry(c)]
  BY <1>2, AcceptedWhileReplacing
<1>5. \A c \in Caps : c # Cap(p) => Entry(c)' = Entry(c)
  BY StepFiles DEF Entry, EntryOf
<1>6. SavedEntry(p)' = SavedEntry(p)
  BY <1>2, <1>3 DEF SavedEntry, EntryOf
<1>7. CASE l \in Writing \cup Restoring
  <2>1. Accepted' = [c \in Caps |-> IF c = Cap(p)' THEN SavedEntry(p)' ELSE Entry(c)']
    BY <1>2, <1>7, AcceptedWhileReplacing DEF Replacing
  <2> QED
    BY <1>2, <1>4, <1>5, <1>6, <2>1
<1>8. CASE RestoreAncestry(p)
  <2>1. pc'[p] = "failed" /\ pc[p] = "restoreAncestry" /\ UNCHANGED <<manifest, receipt>>
    BY <1>8 DEF RestoreAncestry, Goto, TypeInv, TypeOK
  <2>2. manifest = original[p].manifest /\ receipt[Cap(p)] = original[p].receipt
    BY <2>1, ReplacerFacts DEF Stage
  <2>3. Entry(Cap(p))' = SavedEntry(p)
    BY <1>2, <2>1, <2>2 DEF Entry, SavedEntry, EntryOf
  <2>4. Accepted' = [c \in Caps |-> Entry(c)']
    BY <1>2, <2>1, AcceptedOtherwise DEF Replacing, Writing, Restoring
  <2> QED
    BY <1>2, <1>4, <1>5, <2>3, <2>4
<1> QED
  BY <1>1, <1>7, <1>8

\* A command that starts, a crash aside, and the environment leave it alone.
LEMMA OthersKeepAccepted ==
    ASSUME TypeInv, SoundInv, ~Overlap,
           \/ \E p \in Commands, k \in Kinds, c \in Caps, v \in Versions : Begin(p, k, c, v)
           \/ Environment
           \/ UNCHANGED vars
    PROVE  Accepted' = Accepted
<1>1. CASE Environment \/ UNCHANGED vars
  <2>1. UNCHANGED <<manifest, receipt, pc, op, original>>
    BY <1>1 DEF Environment, PrepareInstall, PrepareUpgrade, EditEvidence, vars, files
  <2> QED
    BY <2>1 DEF Accepted, EntryOf, Replacing, Cap
<1>2. ASSUME NEW p \in Commands, NEW k \in Kinds, NEW c \in Caps, NEW v \in Versions,
             Begin(p, k, c, v)
      PROVE  Accepted' = Accepted
  <2>1. /\ UNCHANGED <<manifest, receipt>> /\ Goto(p, "loadLock")
        /\ \A q \in Commands : ~Running(q)
    BY <1>2 DEF Begin, files
  <2>2. \A q \in Commands : ~Replacing(q) /\ ~Replacing(q)'
    BY <2>1 DEF Running, Replacing, Writing, Restoring, Goto, TypeInv, TypeOK
  <2>3. \A d \in Caps : Entry(d)' = Entry(d)
    BY <2>1 DEF Entry, EntryOf
  <2> QED
    BY <2>2, <2>3, AcceptedOtherwise
<1> QED
  BY <1>1, <1>2

\* Initially the ledger is empty.
LEMMA InitAccepted == Init => Ledger!LedgerInit
<1> SUFFICES ASSUME Init PROVE Accepted = [c \in Caps |-> None] /\ ~Killed
  BY DEF Ledger!LedgerInit
<1>1. \A p \in Commands : ~Replacing(p)
  BY DEF Init, Replacing, Writing, Restoring
<1>2. \A c \in Caps : Entry(c) = None
  BY DEF Init, Entry, EntryOf
<1> QED
  BY <1>1, <1>2, AcceptedOtherwise DEF Init, Killed

\* Commands that do not overlap implement the ledger of accepted installs and
\* upgrades until one is killed: a finalization takes effect at the step of
\* writeCapabilityState that verifies it, and at no other, or not at all.
THEOREM CommandsImplementLedger ==
    ASSUME ~Overlap
    PROVE  Spec => ImplementsLedger
<1>1. Init => TypeInv /\ SoundInv /\ UnkilledWhole /\ Ledger!LedgerInit
  BY InitTypeInv, InitSoundInv, InitAccepted DEF UnkilledWhole
<1>2. (TypeInv /\ SoundInv /\ UnkilledWhole) /\ [Next]_vars
        => (TypeInv /\ SoundInv /\ UnkilledWhole)'
  BY NextTypeInv, NextSoundInv, NextWholeInv
<1>3. (TypeInv /\ SoundInv /\ UnkilledWhole) /\ [Next]_vars
        => [Ledger!LedgerNext]_<<Accepted, ~Killed>>
  <2> SUFFICES ASSUME TypeInv, SoundInv, UnkilledWhole, [Next]_vars
               PROVE  Ledger!LedgerNext \/ UNCHANGED <<Accepted, ~Killed>>
    OBVIOUS
  <2>1. CASE Killed'
    BY <2>1 DEF Ledger!LedgerNext, Ledger!Broken
  <2>2. CASE ~Killed'
    <3>1. ~Killed /\ WholeInv
      BY <2>2, KilledStays DEF UnkilledWhole
    <3>2. ASSUME NEW p \in Commands, Step(p) PROVE Ledger!LedgerNext \/ Accepted' = Accepted
      BY <2>2, <3>1, <3>2, VerifyAccepts, SavingKeepsAccepted, ReplacingKeepsAccepted
    <3>3. Ledger!LedgerNext \/ Accepted' = Accepted
      BY <2>2, <3>2, KilledStays, OthersKeepAccepted DEF Next
    <3>4. (~Killed)' = ~Killed
      BY <2>2, <3>1
    <3> QED
      BY <3>3, <3>4
  <2> QED
    BY <2>1, <2>2
<1> QED
  BY <1>1, <1>2, <1>3, PTL DEF Spec, ImplementsLedger, Ledger!LedgerSpec, Ledger!ledgerVars
=============================================================================
