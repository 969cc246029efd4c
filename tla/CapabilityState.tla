---------------------------- MODULE CapabilityState ----------------------------
(***************************************************************************)
(* The project state under .aiba/ and the commands that replace it:        *)
(* finalizeCapability and finalizeUpgrade, both through                    *)
(* writeCapabilityState (packages/core/src/add.ts, upgrade.ts).            *)
(*                                                                         *)
(* The state is four kinds of file that no lock protects: manifest.yaml,   *)
(* lock.json, one receipt and one ancestry per capability.  A command is   *)
(* one process; every file it creates, renames or restores is a step of    *)
(* its own, so other commands, edits of the evidence and a crash can come  *)
(* between any two of them.                                                *)
(***************************************************************************)
EXTENDS Naturals

CONSTANTS
    Commands,    \* invocations of the CLI, each of which runs once
    Caps,        \* capability identifiers
    MaxVersion,  \* capability versions are 1..MaxVersion
    Bytes,       \* contents of the evidence files of a capability
    Requires,    \* [cap, dep, versions]: cap needs dep at one of versions
    Kinds,       \* the finalizations the commands run
    Overlap,     \* TRUE: a command may start while another one runs
    Crashes,     \* TRUE: a command may be killed between two steps
    IoErrors,    \* TRUE: a file operation of a command may fail
    None

ASSUME ConstantsAssumption ==
    /\ MaxVersion \in Nat \ {0}
    /\ Kinds \subseteq {"install", "upgrade"}
    /\ Requires \subseteq
         [cap : Caps, dep : Caps, versions : SUBSET (1..MaxVersion)]
    /\ Overlap \in BOOLEAN /\ Crashes \in BOOLEAN /\ IoErrors \in BOOLEAN
    /\ None \notin Bytes
    /\ None \notin [version : 1..MaxVersion, bytes : Bytes, by : Commands]

ASSUME NoneAssumption ==
    /\ None \notin [from : 1..MaxVersion, to : 1..MaxVersion]
    /\ None \notin [version : 1..MaxVersion, bytes : Bytes]

VARIABLES
    manifest,     \* manifest.yaml: version each capability is declared at, 0 if not
    lock,         \* lock.json: version each capability is locked at, 0 if not
    receipt,      \* receipts/<cap>.yaml, or None
    ancestry,     \* ancestry/<cap>.json, or None
    plan,         \* plans/<cap>.yaml: version it was prepared for, 0 if absent
    upgradePlan,  \* plans/<cap>.upgrade.yaml: [from, to], or None
    evidence,     \* project files the plan of a capability names as evidence
    pc,           \* the next file operation of each command
    op,           \* [kind, cap, version] of each command, None before it starts
    project,      \* manifest.yaml as the command loaded it when it started
    locked,       \* lock.json as the command loaded it when it started
    hashed,       \* evidence bytes the command hashed into its receipt
    original,     \* the four files as writeCapabilityState saved them
    linked        \* receiptLinked and ancestryLinked

files == <<manifest, lock, receipt, ancestry>>
vars == <<files, plan, upgradePlan, evidence,
          pc, op, project, locked, hashed, original, linked>>

-----------------------------------------------------------------------------
Versions == 1..MaxVersion

\* A list may record a capability twice: install appends without looking.
Twice == MaxVersion + 1
Listing == [Caps -> 0..Twice]

\* A receipt and the ancestry written with it carry the same provenance; the
\* hash a receipt pins its ancestry with matches exactly when they are equal.
\* "by" stands for createdAt, which no two commands share.
Document == [version : Versions, bytes : Bytes, by : Commands]
Operation == [kind : Kinds, cap : Caps, version : Versions]
Original == [manifest : Listing, lock : Listing,
             receipt : Document \cup {None}, ancestry : Document \cup {None}]

Writing == {"linkAncestry", "linkReceipt", "renameManifest", "renameLock", "verify"}
Restoring == {"restoreManifest", "restoreLock", "restoreReceipt", "restoreAncestry"}
Reading == {"loadLock", "hash", "check", "saveManifest", "saveLock"}
Ended == {"done", "failed", "crashed"}
Replacing(p) == pc[p] \in Writing \cup Restoring
Running(p) == pc[p] \in Reading \cup Writing \cup Restoring
Killed == \E p \in Commands : pc[p] = "crashed"

Cap(p) == op[p].cap
DocumentOf(p) == [version |-> op[p].version, bytes |-> hashed[p], by |-> p]

NextManifest(p) == [project[p] EXCEPT ![Cap(p)] = op[p].version]

\* Install appends a record, upgrade rewrites the records it finds.
NextLock(p) ==
    [locked[p] EXCEPT ![Cap(p)] =
        CASE op[p].kind = "install" -> IF @ = 0 THEN op[p].version ELSE Twice
          [] op[p].kind = "upgrade" -> IF @ \in {0, Twice} THEN @ ELSE op[p].version]

DependenciesInstalled(listing, c) ==
    \A r \in Requires : r.cap = c => listing[r.dep] \in r.versions

\* loadAncestryFiles: the baseline an upgrade is compared with is intact.
DiffOk(c) ==
    /\ manifest[c] # 0
    /\ receipt[c] # None
    /\ receipt[c].version = manifest[c]
    /\ ancestry[c] = receipt[c]

\* verifyProject for one capability against the pack that provides version v.
VerifyCapability(c, v) ==
    /\ \A d \in Caps : manifest[d] # Twice /\ lock[d] # Twice
    /\ manifest[c] = v
    /\ receipt[c] # None
    /\ receipt[c].version = manifest[c]
    /\ lock[c] = manifest[c]
    /\ DependenciesInstalled(manifest, c)
    /\ ancestry[c] = receipt[c]
    /\ evidence[c] = receipt[c].bytes

-----------------------------------------------------------------------------
\* A project just after "aiba init".
Init ==
    /\ manifest = [c \in Caps |-> 0]
    /\ lock = [c \in Caps |-> 0]
    /\ receipt = [c \in Caps |-> None]
    /\ ancestry = [c \in Caps |-> None]
    /\ plan = [c \in Caps |-> 0]
    /\ upgradePlan = [c \in Caps |-> None]
    /\ evidence \in [Caps -> Bytes]
    /\ pc = [p \in Commands |-> "idle"]
    /\ op = [p \in Commands |-> None]
    /\ project = [p \in Commands |-> manifest]
    /\ locked = [p \in Commands |-> lock]
    /\ hashed = [p \in Commands |-> None]
    /\ original = [p \in Commands |-> None]
    /\ linked = [p \in Commands |-> {}]

Goto(p, label) == pc' = [pc EXCEPT ![p] = label]

\* prepareCapability: the plan is written with flag "wx".
PrepareInstall(c, v) ==
    /\ "install" \in Kinds
    /\ manifest[c] = 0
    /\ DependenciesInstalled(manifest, c)
    /\ plan[c] = 0
    /\ plan' = [plan EXCEPT ![c] = v]
    /\ UNCHANGED <<files, upgradePlan, evidence,
                   pc, op, project, locked, hashed, original, linked>>

\* prepareUpgrade: likewise; a plan of an earlier upgrade is never removed.
PrepareUpgrade(c, v) ==
    /\ "upgrade" \in Kinds
    /\ lock[c] # 0
    /\ v > manifest[c]
    /\ DependenciesInstalled(manifest, c)
    /\ DiffOk(c)
    /\ upgradePlan[c] = None
    /\ upgradePlan' = [upgradePlan EXCEPT ![c] = [from |-> manifest[c], to |-> v]]
    /\ UNCHANGED <<files, plan, evidence,
                   pc, op, project, locked, hashed, original, linked>>

\* The Agent or a developer changes project code, at any time.
EditEvidence(c, b) ==
    /\ evidence[c] # b
    /\ evidence' = [evidence EXCEPT ![c] = b]
    /\ UNCHANGED <<files, plan, upgradePlan,
                   pc, op, project, locked, hashed, original, linked>>

\* A command starts and loads manifest.yaml.
Begin(p, k, c, v) ==
    /\ pc[p] = "idle"
    /\ Overlap \/ \A q \in Commands : ~Running(q)
    /\ op' = [op EXCEPT ![p] = [kind |-> k, cap |-> c, version |-> v]]
    /\ project' = [project EXCEPT ![p] = manifest]
    /\ Goto(p, "loadLock")
    /\ UNCHANGED <<files, plan, upgradePlan, evidence, locked, hashed, original, linked>>

\* What install and upgrade check before they build a receipt.
MayInstall(p) ==
    /\ op[p].kind = "install"
    /\ project[p][Cap(p)] = 0
    /\ plan[Cap(p)] = op[p].version

\* Mutant: the plan is not compared with the installed version.
MayUpgradeFromAnyVersion(p) ==
    /\ op[p].kind = "upgrade"
    /\ project[p][Cap(p)] # 0
    /\ lock[Cap(p)] # 0
    /\ upgradePlan[Cap(p)] # None /\ upgradePlan[Cap(p)].to = op[p].version
    /\ DiffOk(Cap(p))

MayUpgrade(p) ==
    /\ op[p].kind = "upgrade"
    /\ project[p][Cap(p)] # 0
    /\ lock[Cap(p)] # 0
    /\ upgradePlan[Cap(p)] = [from |-> project[p][Cap(p)], to |-> op[p].version]
    /\ DiffOk(Cap(p))

\* It loads lock.json and its plan and checks them.
LoadLock(p) ==
    /\ pc[p] = "loadLock"
    /\ MayInstall(p) \/ MayUpgrade(p)
    /\ DependenciesInstalled(project[p], Cap(p))
    /\ locked' = [locked EXCEPT ![p] = lock]
    /\ Goto(p, "hash")
    /\ UNCHANGED <<files, plan, upgradePlan, evidence, op, project, hashed, original, linked>>

\* Mutant: the receipt is built before the evidence is hashed.
HashEvidenceSkipped(p) ==
    /\ pc[p] = "hash"
    /\ Goto(p, "check")
    /\ UNCHANGED <<files, plan, upgradePlan, evidence, op, project, locked, hashed, original, linked>>

\* createCapabilityReceipt hashes the evidence files.
HashEvidence(p) ==
    /\ pc[p] = "hash"
    /\ hashed' = [hashed EXCEPT ![p] = evidence[Cap(p)]]
    /\ Goto(p, "check")
    /\ UNCHANGED <<files, plan, upgradePlan, evidence, op, project, locked, original, linked>>

\* Mutant: install does not look for a receipt or an ancestry left behind.
CheckTargetsUnguarded(p) ==
    /\ pc[p] = "check"
    /\ original' = [original EXCEPT ![p] =
           [manifest |-> manifest, lock |-> lock,
            receipt |-> receipt[Cap(p)], ancestry |-> ancestry[Cap(p)]]]
    /\ Goto(p, "saveManifest")
    /\ UNCHANGED <<files, plan, upgradePlan, evidence, op, project, locked, hashed, linked>>

\* writeCapabilityState: install refuses to replace a receipt or an ancestry;
\* upgrade saves the ones it is about to replace.  (The manifest and the lock
\* of the record are overwritten by the next two steps.)
CheckTargets(p) ==
    /\ pc[p] = "check"
    /\ op[p].kind = "install" => receipt[Cap(p)] = None /\ ancestry[Cap(p)] = None
    /\ original' = [original EXCEPT ![p] =
           [manifest |-> manifest, lock |-> lock,
            receipt |-> receipt[Cap(p)], ancestry |-> ancestry[Cap(p)]]]
    /\ Goto(p, "saveManifest")
    /\ UNCHANGED <<files, plan, upgradePlan, evidence, op, project, locked, hashed, linked>>

SaveManifest(p) ==
    /\ pc[p] = "saveManifest"
    /\ original' = [original EXCEPT ![p].manifest = manifest]
    /\ Goto(p, "saveLock")
    /\ UNCHANGED <<files, plan, upgradePlan, evidence, op, project, locked, hashed, linked>>

SaveLock(p) ==
    /\ pc[p] = "saveLock"
    /\ original' = [original EXCEPT ![p].lock = lock]
    /\ Goto(p, "linkAncestry")
    /\ UNCHANGED <<files, plan, upgradePlan, evidence, op, project, locked, hashed, linked>>

\* An error before anything is written ends the command.  The model leaves out
\* some of the checks (recipe, write scope, evidence contract, conflicts), so
\* any command may be refused at any of these steps.
Refuse(p) ==
    /\ pc[p] \in Reading
    /\ Goto(p, "failed")
    /\ UNCHANGED <<files, plan, upgradePlan, evidence,
                   op, project, locked, hashed, original, linked>>

-----------------------------------------------------------------------------
\* The try block.  link() refuses an existing target, rename() replaces it.
LinkAncestry(p) ==
    /\ pc[p] = "linkAncestry"
    /\ op[p].kind = "install" => ancestry[Cap(p)] = None
    /\ ancestry' = [ancestry EXCEPT ![Cap(p)] = DocumentOf(p)]
    /\ linked' = [linked EXCEPT ![p] = @ \cup {"ancestry"}]
    /\ Goto(p, "linkReceipt")
    /\ UNCHANGED <<manifest, lock, receipt, plan, upgradePlan, evidence,
                   op, project, locked, hashed, original>>

LinkReceipt(p) ==
    /\ pc[p] = "linkReceipt"
    /\ op[p].kind = "install" => receipt[Cap(p)] = None
    /\ receipt' = [receipt EXCEPT ![Cap(p)] = DocumentOf(p)]
    /\ linked' = [linked EXCEPT ![p] = @ \cup {"receipt"}]
    /\ Goto(p, "renameManifest")
    /\ UNCHANGED <<manifest, lock, ancestry, plan, upgradePlan, evidence,
                   op, project, locked, hashed, original>>

RenameManifest(p) ==
    /\ pc[p] = "renameManifest"
    /\ manifest' = NextManifest(p)
    /\ Goto(p, "renameLock")
    /\ UNCHANGED <<lock, receipt, ancestry, plan, upgradePlan, evidence,
                   op, project, locked, hashed, original, linked>>

RenameLock(p) ==
    /\ pc[p] = "renameLock"
    /\ lock' = NextLock(p)
    /\ Goto(p, "verify")
    /\ UNCHANGED <<manifest, receipt, ancestry, plan, upgradePlan, evidence,
                   op, project, locked, hashed, original, linked>>

Verify(p) ==
    /\ pc[p] = "verify"
    /\ VerifyCapability(Cap(p), op[p].version)
    /\ Goto(p, "done")
    /\ UNCHANGED <<files, plan, upgradePlan, evidence,
                   op, project, locked, hashed, original, linked>>

\* Any error of the try block enters the catch block.
FailedWrite(p) ==
    \/ pc[p] = "linkAncestry" /\ op[p].kind = "install" /\ ancestry[Cap(p)] # None
    \/ pc[p] = "linkReceipt" /\ op[p].kind = "install" /\ receipt[Cap(p)] # None
    \/ pc[p] = "verify" /\ ~VerifyCapability(Cap(p), op[p].version)
    \/ pc[p] \in Writing /\ IoErrors

Catch(p) ==
    /\ FailedWrite(p)
    /\ Goto(p, "restoreManifest")
    /\ UNCHANGED <<files, plan, upgradePlan, evidence,
                   op, project, locked, hashed, original, linked>>

-----------------------------------------------------------------------------
\* Mutants: the manifest is not restored; an ancestry is removed whoever made
\* it; an ancestry that did not exist before is left in place.
RestoreManifestForgotten(p) ==
    /\ pc[p] = "restoreManifest"
    /\ Goto(p, "restoreLock")
    /\ UNCHANGED <<files, plan, upgradePlan, evidence,
                   op, project, locked, hashed, original, linked>>

RestoreAncestryOfAnyone(p) ==
    /\ pc[p] = "restoreAncestry"
    /\ ancestry' = [ancestry EXCEPT ![Cap(p)] = original[p].ancestry]
    /\ Goto(p, "failed")
    /\ UNCHANGED <<manifest, lock, receipt, plan, upgradePlan, evidence,
                   op, project, locked, hashed, original, linked>>

RestoreAncestryOnlyIfSaved(p) ==
    /\ pc[p] = "restoreAncestry"
    /\ ancestry' = IF "ancestry" \in linked[p] /\ original[p].ancestry # None
                   THEN [ancestry EXCEPT ![Cap(p)] = original[p].ancestry]
                   ELSE ancestry
    /\ Goto(p, "failed")
    /\ UNCHANGED <<manifest, lock, receipt, plan, upgradePlan, evidence,
                   op, project, locked, hashed, original, linked>>

\* Mutant: the declaration is removed and not restored.
RestoreManifestByRemoval(p) ==
    /\ pc[p] = "restoreManifest"
    /\ manifest' = [manifest EXCEPT ![Cap(p)] = 0]
    /\ Goto(p, "restoreLock")
    /\ UNCHANGED <<lock, receipt, ancestry, plan, upgradePlan, evidence,
                   op, project, locked, hashed, original, linked>>

\* The catch block restores the manifest and the lock unconditionally, the
\* receipt and the ancestry only if this command put its own there.
RestoreManifest(p) ==
    /\ pc[p] = "restoreManifest"
    /\ manifest' = original[p].manifest
    /\ Goto(p, "restoreLock")
    /\ UNCHANGED <<lock, receipt, ancestry, plan, upgradePlan, evidence,
                   op, project, locked, hashed, original, linked>>

RestoreLock(p) ==
    /\ pc[p] = "restoreLock"
    /\ lock' = original[p].lock
    /\ Goto(p, "restoreReceipt")
    /\ UNCHANGED <<manifest, receipt, ancestry, plan, upgradePlan, evidence,
                   op, project, locked, hashed, original, linked>>

RestoreReceipt(p) ==
    /\ pc[p] = "restoreReceipt"
    /\ receipt' = IF "receipt" \in linked[p]
                  THEN [receipt EXCEPT ![Cap(p)] = original[p].receipt]
                  ELSE receipt
    /\ Goto(p, "restoreAncestry")
    /\ UNCHANGED <<manifest, lock, ancestry, plan, upgradePlan, evidence,
                   op, project, locked, hashed, original, linked>>

RestoreAncestry(p) ==
    /\ pc[p] = "restoreAncestry"
    /\ ancestry' = IF "ancestry" \in linked[p]
                   THEN [ancestry EXCEPT ![Cap(p)] = original[p].ancestry]
                   ELSE ancestry
    /\ Goto(p, "failed")
    /\ UNCHANGED <<manifest, lock, receipt, plan, upgradePlan, evidence,
                   op, project, locked, hashed, original, linked>>

\* The process is killed: what it wrote stays.
Crash(p) ==
    /\ Crashes
    /\ Running(p)
    /\ Goto(p, "crashed")
    /\ UNCHANGED <<files, plan, upgradePlan, evidence,
                   op, project, locked, hashed, original, linked>>

-----------------------------------------------------------------------------
Step(p) ==
    \/ LoadLock(p) \/ HashEvidence(p) \/ CheckTargets(p)
    \/ SaveManifest(p) \/ SaveLock(p) \/ Refuse(p)
    \/ LinkAncestry(p) \/ LinkReceipt(p)
    \/ RenameManifest(p) \/ RenameLock(p) \/ Verify(p) \/ Catch(p)
    \/ RestoreManifest(p) \/ RestoreLock(p)
    \/ RestoreReceipt(p) \/ RestoreAncestry(p)

Environment ==
    \/ \E c \in Caps, v \in Versions : PrepareInstall(c, v) \/ PrepareUpgrade(c, v)
    \/ \E c \in Caps, b \in Bytes : EditEvidence(c, b)

Next ==
    \/ \E p \in Commands :
         \/ \E k \in Kinds, c \in Caps, v \in Versions : Begin(p, k, c, v)
         \/ Step(p)
         \/ Crash(p)
    \/ Environment

Spec == Init /\ [][Next]_vars

-----------------------------------------------------------------------------
TypeOK ==
    /\ manifest \in Listing
    /\ lock \in Listing
    /\ receipt \in [Caps -> Document \cup {None}]
    /\ ancestry \in [Caps -> Document \cup {None}]
    /\ plan \in [Caps -> 0..MaxVersion]
    /\ upgradePlan \in [Caps -> [from : Versions, to : Versions] \cup {None}]
    /\ evidence \in [Caps -> Bytes]
    /\ pc \in [Commands -> {"idle"} \cup Reading \cup Writing \cup Restoring \cup Ended]
    /\ op \in [Commands -> Operation \cup {None}]
    /\ project \in [Commands -> Listing]
    /\ locked \in [Commands -> Listing]
    /\ hashed \in [Commands -> Bytes \cup {None}]
    /\ original \in [Commands -> Original \cup {None}]
    /\ linked \in [Commands -> SUBSET {"ancestry", "receipt"}]

\* The four records of one capability are all there and agree, or all absent.
Agree(m, l, r, a) ==
    \/ m = 0 /\ l = 0 /\ r = None /\ a = None
    \/ r # None /\ a = r /\ m = r.version /\ l = r.version

Whole(c) == Agree(manifest[c], lock[c], receipt[c], ancestry[c])

Quiescent == \A p \in Commands : ~Running(p)

\* The manifest never declares a capability whose receipt or ancestry file is
\* missing, at no step of a command and after no crash or failed write: the
\* documents are linked before the manifest is renamed (add.ts 651-664) and
\* the manifest is restored before they are removed (add.ts 678-691).
DeclaredHasDocuments ==
    \A c \in Caps : manifest[c] # 0 => receipt[c] # None /\ ancestry[c] # None

\* A command replaces files only over a capability that was wholly absent
\* (install) or wholly present (upgrade) when it saved the originals: what a
\* crash has torn is refused by the checks on the lock, the baseline and the
\* existing documents (add.ts 611-625, upgrade.ts 120, diff.ts 80-134), never
\* taken for the state to upgrade from or to roll back to.
BuiltOnWholeState ==
    \A p \in Commands : Replacing(p) =>
        Agree(original[p].manifest[Cap(p)], original[p].lock[Cap(p)],
              original[p].receipt, original[p].ancestry)

\* When installs of the same capability race, crash and roll back, a receipt
\* never stands beside the ancestry of another command or without one: only
\* the command whose link() created the ancestry may link or remove a receipt
\* (add.ts 656-661, 680-691).
ReceiptHasItsAncestry ==
    \A c \in Caps : receipt[c] # None => ancestry[c] = receipt[c]

\* Between commands every capability is wholly present or wholly absent (RFC
\* 0003: the receipt, manifest and lock are written "as one recoverable
\* operation").
RecoverableState == Quiescent => \A c \in Caps : Whole(c)

\* That is so, whichever link, rename or verification fails, over any sequence of
\* commands, as long as they do not overlap and none has been killed: the catch
\* block undoes what the try block did (add.ts 651-691).  A write of the catch
\* block is assumed not to fail.
FailuresAreRolledBack == ~Killed => RecoverableState

\* A command that reported success installed its version for good: no later
\* command, whether it succeeds, fails and restores the files (add.ts 678-691) or
\* is killed, leaves the capability removed or declared at a lower version.
AcceptedStaysInstalled ==
    Quiescent => \A p \in Commands : pc[p] = "done" => manifest[Cap(p)] >= op[p].version

-----------------------------------------------------------------------------
\* The ledger a reader may rely on: while a command is replacing the files of
\* a capability the entry is the one the command saved, otherwise the receipt
\* of the declared capability.
EntryOf(listing, document, c) ==
    IF listing[c] = 0 THEN None
    ELSE [version |-> document.version, bytes |-> document.bytes]

Accepted ==
    [c \in Caps |->
        IF \E p \in Commands : Replacing(p) /\ Cap(p) = c
        THEN LET p == CHOOSE q \in Commands : Replacing(q) /\ Cap(q) = c
             IN  EntryOf(original[p].manifest, original[p].receipt, c)
        ELSE EntryOf(manifest, receipt[c], c)]

Ledger == INSTANCE InstalledLedger WITH installed <- Accepted, sound <- ~Killed

\* Commands that do not overlap implement the ledger until one of them is killed:
\* each finalization takes effect at the step that verifies it, or not at all.
ImplementsLedger == Ledger!LedgerSpec
=============================================================================
