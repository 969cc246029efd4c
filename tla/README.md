# AIBA in TLA+

AIBA installs *capabilities* (versioned contracts with recipes) into a project:
an Agent or a developer writes the code, and AIBA Core records what was
installed, checks the evidence, and distributes the capability packs through
signed registries. These modules model the parts whose correctness depends on
order, failure and concurrency: the state files of a project, the guided
installation of a solution, behavior proofs, team governance, the operator's
side of a registry, its server, and its client.

## Inventory

| Component | Source | State | Operations | Interacts through | Hard behaviour | Correct when |
|---|---|---|---|---|---|---|
| Capability state | `packages/core/src/add.ts`, `upgrade.ts`, `init.ts` | `.aiba/manifest.yaml`, `lock.json`, `receipts/`, `ancestry/`, `plans/` | init, prepare, finalize (install, upgrade), rollback | files; no lock | several files replaced one by one; rollback; kill; overlapping commands | an accepted capability has all its records, they agree, and it stays |
| Drift and verification | `diff.ts`, `verify.ts` | none | diff, verify | reads the state files and evidence | reads while others write | accepts only intact provenance |
| Registry client | `transport.ts`, `registry.ts` | cache of indexes and bundles, state file | fetch, resolve | HTTP, cache, state file | old and equivocating mirrors, racing and interrupted commands, cleared cache | nothing is rolled back; a returned bundle is the listed one |
| Team governance | `governance.ts` | policy and approval files | init policy, approve, evaluate | files read by finalization | edits between reads, several keys, time | what is accepted is what enough people signed |
| Registry publisher | `registry.ts`, `registry-operations.ts` | `indexes/<n>`, `bundles/`, backups | import, index, retention, backup, restore | one directory, no lock; the server reads it | overlapping commands, partial snapshots and removals, failures, kill, expiry | a published index stays and lists whole bundles that are there; a restore is complete |
| Registry server | `packages/registry-server` | routes frozen at start, rate window | start, GET, stop | HTTP, the publisher's directory | publishing and collecting while serving, one rate window for all | serves what it verified; a refusal ends |
| Bundles, signatures | `bundle.ts`, `signing.ts`, `solution-signing.ts` | none | build, sign, verify | files | byte layout, cryptography | what verifies was signed |
| Behavior proofs | `behavior.ts` | challenges, proofs | test, attest, verify-behavior | files, an external runner | edits and installations between challenge, test and verification, and while files are hashed; expiry, revocation | a trusted proof speaks of the bytes that were tested; nothing else is refused |
| Solutions | `solution.ts`, `solution-install.ts`, `workflow.ts` | derived from the manifest | status, continue, doctor, check; add | capability state, plans, packs | everything is derived again by each command while others install, edit and update | one ledger; drift blocks; answers are true; following the advice completes |
| Blueprints, planner | `application-*.ts` | blueprint files | plan, diff, upgrade | documents | little | plans close over dependencies |
| CLI | `packages/cli` | none | starts the operations above | the user | none | the right operation starts |
| Loaders, validation, discovery, authoring, schemas | `loaders.ts`, `validation.ts`, ..., `packages/spec` | none | read, validate, render | everything | none | pure I/O |
| Reference services | `fixtures/identity-reference` | in-memory maps | jobs, challenges, ... | callers, awaits | leases, attempts, idempotency across awaits | per-capability invariants |

`PROJECT.json` lists each component with its status, and under `hazards` every
place where the code is hard to test, with the properties that watch it.

## Plan

Most important first.

1. Done: `CapabilityState` with `InstalledLedger` (what it promises): four
   files, crashes, failures, overlap. Proofs in `CapabilityStateProofs` and
   `CapabilityLedgerProofs`.
2. Done: `RegistryClient`: cache, state file, hostile mirrors. Proofs in
   `RegistryClientProofs`.
3. Done: `Governance`: one operation under a policy, files read one by one.
   Proofs in `GovernanceProofs`.
4. Done: `RegistryPublisher`: import, index, retention, backup and restore over
   one directory.
5. Done: `RegistryServer` over `RegistryPublisher`: routes frozen at the start
   against what is published and collected later; the rate window.
6. Done: `SolutionInstall` over `InstalledLedger`: status, continue, doctor and
   add from several terminals.
7. Done: `BehaviorProof` over `SolutionInstall`: challenge, run, attestation and
   verification with edits, expiry and revocation.
8. Done: theorems about 4 to 7 in `RegistryServerProofs`, `SolutionInstallProofs`
   and `BehaviorProofProofs`, with `NumberLemmas`.
9. Done: `RegistryLog`, what a registry promises to its clients, implemented by
   `RegistryPublisher`.
10. Done: approvals signed step by step next to a finalization, with the edits
   that overtake it; kills in the same run as failures and rollbacks; index
   commands that list one capability after the other; a finalization of a
   solution read by read.
11. Left: approvals that are replaced after a receipt pins them; several evidence
   files with different ownership; rollback writes that fail or are cut short;
   theorems about installs that race with upgrades.

Which composes which: `RegistryServer` extends `RegistryPublisher`, and
`BehaviorProof` extends `SolutionInstall`, so that one run interleaves the
components; `SolutionInstall` and `CapabilityState` implement the same abstract
`InstalledLedger`, the first with the writes of a finalization as one step, the
second with each of its files.

## Modules

### `CapabilityState`: install and upgrade

Each command is a process `p` with a program counter; each file that
`finalizeCapability`, `finalizeUpgrade` and `writeCapabilityState` read, create,
rename or restore is one action, in the order of the code:

    Begin, LoadLock                    loadProjectManifest, loadProjectLock, the checks
    HashEvidence                       createCapabilityReceipt
    CheckTargets, SaveManifest,        the existence checks and the saved originals
      SaveLock
    LinkAncestry, LinkReceipt,         link (install) or rename (upgrade), rename
      RenameManifest, RenameLock
    Verify                             verifyProject
    Catch, RestoreManifest, ...,       the catch block
      RestoreAncestry

`manifest` and `lock` map a capability to its version (0: not listed; `Twice`:
listed twice, which a stale append can produce). A receipt and the ancestry
written with it are one `Document`; the hash that pins the ancestry matches
exactly when the two are equal. `by` tells documents of different commands
apart, as `createdAt` does in the code. `PrepareInstall` and `PrepareUpgrade`
write the plans; `EditEvidence` is the Agent or a developer, who may change
files at any time, during commands too.

`InstalledLedger` is the abstract specification: a map from capabilities to
accepted entries that changes only by an installation or an upgrade of one
capability whose dependencies are in the ledger. `CapabilityState` implements
it (`ImplementsLedger`) under the refinement `Accepted`: while a command is
replacing files, the entry of its capability is the one it saved. The ledger
promises something only while it is `sound`: a kill (`Killed`) may tear the four
files, and ends the promise.

Abstractions. The checks of plan, recipe, write scope, evidence contract and
conflicts are left out where the state does not depend on them; instead any
command may be refused at any reading step (`Refuse`). The two files
`loadInstalledState` loads concurrently are read manifest first. Saving the
originals of receipt and ancestry is merged with the check for their existence.
`verifyProject` reads everything in one step. Each write of the rollback
succeeds and is atomic; in the code `writeFile` works in place and can fail or be
killed in the middle, so "whatever failed" in these modules means an operation
of the update or the verification, never one of the undo. `PROJECT.json` has
that as a hazard without a property. Temporary files are not modelled: their
names are unique and nothing reads them.

### `RegistryClient`: fetch and resolve

A command is a process; `cachedIndex`, `cachedBundle` and `checkpoint` are the
cache directories and the state file. `GetLatest` and `GetIndex` take any
answer a mirror can give that verifies: any index ever signed, including older
and equivocating ones. `PublishBundle` and `PublishIndex` are the two renames of
`publishDirectory`; `OpenIndex`, `LoadState`, `OpenBundle`, `WriteState` are
`resolveRegistryCapability`, which `resolve` runs alone and `fetch` runs last.
`Stop` ends a command at any step (a failed check, a bad signature, a timeout,
a kill); what it published stays. `ClearCache` deletes the cache, which
`docs/ARCHITECTURE.md` allows; it happens only between commands. `accepted`,
`known`, `overlapped` and `cleared` are history variables: what commands have
returned, what had been returned when a command started, whether one started
while another ran, and whether the cache has been cleared. Each property says
which of the last two it needs; one run covers all combinations.

Abstractions. One registry; the digest of an index is the index; expiry is not
modelled; answers that do not verify, size limits, redirects and timeouts are
`Stop`; listing the indexes and reading the highest is one step; the check for
an existing snapshot before publishing is part of `PublishBundle`; staging
directories, which no other command reads, are not modelled.

### `Governance`: one operation under a policy

The files are `policy`, `plan`, `evidence` and `approvals` (one per person and
key). They are edited at any time (`EditPolicy`, `EditPlan`, `EditEvidence`), the
clock ticks, and two commands read them, each file in a step of its own and in the
code's order.

    ParsePolicy, DigestPolicy,          createCapabilityApproval: loadPolicy parses the
      BindPlan, BindEvidence, Approve     policy, hashes it in a second read, then the
                                          plan, the evidence, and the approval is written
    GiveUp                              it fails
    Start                               finalizeUpgrade: the checks before
                                          requireGovernance
    LoadPolicy, HashPolicy, LoadPlan,   requireGovernance: the policy in two reads, the
      DigestEvidence                      operation
    ListApprovals, ReadApproval,        one file after another; what counts is hashed
      HashApproval, Decide                again after it was compared
    HashEvidence, HashPlan, Write       createCapabilityReceipt, and the write with the
                                          verification of what the receipt pins
    Abort                               a denial or a failure anywhere

An approval can therefore carry the lifetime, or be signed by a key, of policy A
and the digest of policy B, and it then matches a finalization under B; the
comparison of the lifetime (`Timely`) is what keeps it from counting for longer
than B allows, and the finalization compares the signer with the policy it
parsed itself. `overtaken` is a history variable: a file was edited, or an
approval replaced, while the present finalization ran. The properties say what
holds when that has not happened; the run `governance_edits` shows what happens
when it has.

Abstractions. One capability, one evidence file with one ownership that can
conflict, no missing files and no "remove" resolutions; the plan's other fields
are not edited; an approval takes its time when it is written; signatures, the
capability allow-list and malformed approval files are left out, since such
approvals only fail to count; which valid approvals the receipt keeps is any
subset of the required size. Writing the state is one step: `CapabilityState`
models it. One approval is prepared at a time.

### `RegistryPublisher`: the operator's side

A command is a terminal `c` with a program counter and what it holds in memory
(`job`); `registry` is the directory: what is in each slot
`bundles/<capability>/<version>`, the staging directories of imports, and the
snapshots `indexes/<sequence>`.

    ImportStart, ImportCheck,           importRegistryBundle: source, destination,
      ImportCopy, ImportVerify,           staging, comparison, rename
      ImportRename
    IndexStart, IndexCapabilities,      createRegistryIndex: sequence, capabilities, the
      IndexList, IndexVerify,             slots of each listed when those of the one
      IndexGenerate, IndexMkdir,          before are verified, one bundle at a time,
      IndexSign                           expiry, mkdir, index and signature
    GcStart, GcIndex, GcBundle          planRegistryRetention with apply: the plan,
                                          one directory after another, each in two calls
    BackupStart, BackupCopy, BackupSeal backupRegistry: verification, one top
                                          directory after the other, manifest and rename
    RestoreStart, RestoreVerify,        restoreRegistry: staging, verification of the
      RestoreRename                       staged copy, rename
    Fails, Killed, Expire               an error in any step, a kill, time

`ImportCopy` may copy something else than was verified: a torn bundle, or another
one that is valid, when the source is swapped (BUNDLE_SOURCE_CHANGED finds both).
`CapabilityOf` says which slots belong to one capability. `Fails` has the cleanup of
each command's catch and finally blocks; `Killed` has
none. `site` fixes what the terminals do, so that one run can have several
instances. `raced` (two index commands have overlapped), `disturbed` and `published`
are history.

Abstractions. A bundle is the digest of its manifest, and `Torn` when its
directory does not verify; `VerifiesBundle` is all that is kept of
`bundle.ts`. A snapshot is whole once the signature is there. One publisher key
that is trusted (losing that trust is a failure); generation time and expiry
follow the sequences. Checking that a path is free and creating it exclusively
is one step where the system call is (`mkdir`, flag `wx`); `rename` onto an
existing directory fails unless it is empty, and an emptied slot is taken as
free. The copy of a backup reads each top directory at once. Readers on the
other end, with their own checks, are `RegistryClient`.

`RegistryLog` is the abstract specification: a log in which a sequence names one
index for ever and each index extends the earlier ones, and the set of sequences
that can be installed from, which loses one only when `KeepIndexes` later ones can
be. `RegistryPublisher` implements it (`ImplementsLog`): the log is `published`,
what is offered are the snapshots that are whole, as first published, with all
their bundles (`Offered`). The many steps of an import, an index command or a
retention are stutters but for the signature of an index and the first removal
inside a snapshot. Once two index commands have overlapped (`Overlap`) the log
promises nothing. `CheckpointsStayServed` says what it is for: a client whose
state file holds a sequence that retention has removed can still install.

### `RegistryServer`: serving while it is published

`ServerStart` picks the highest directory and `ServerVerify` verifies its index,
the expiry and every bundle, or there is no server. `Authorized` counts a
request in the window and answers it with what the file of its route holds
now (`Reads`): the bytes the server verified (`200`), other ones (`200 other`),
`404` without a route, `500` when the file is gone or is not a regular one;
`Unauthorized` answers `401` before the window is looked at. `Tick` ends the
minute. A file in a directory that is being removed may or may not be there.
A request is counted and answered in one step. TLS and headers are left out, and so
are the answers that read no file (health, metrics, other methods, malformed
paths), which are counted like `latest.json`.

### `SolutionInstall`: a solution from several terminals

The project is the manifest with the lock (`installed`: the recipe each
constituent was locked with), `receipt`, `plan`, `evidence`, and `recipe`, the
packs on disk. A command holds what it loaded first (`loaded`), the constituents
it still has to verify (`todo`) and the current one.

    Begin, VerifyInstalled              solutionStatus and advanceSolutionInstallation:
                                          manifest, then each installed constituent
    LookForPlan, Validate, Prepare,     a pending plan is validated; otherwise it is
      Create                              prepared and created (prepareCapability)
    ChooseFinalize, Finalize,           finalizeCapability: manifest, lock and plan are
      MatchPlan, HashReceipt, Record      loaded; plan against recipe; evidence and plan
                                          are hashed into the receipt; the write
    AllInstalled, CheckLoad, Check      checkSolution, from a manifest loaded again
    DoctorBegin, DoctorVerify           doctorProject
    Add                                 aiba add, straight to prepare or finalize
    Implement, Edit, Repair,            the Agent, a developer and the operator,
      UpdateRecipe, Discard               at any time

`Implement` follows the plan; `Repair` and `Discard` are what a person does about
reported drift and a reported stale plan; no command of AIBA does them. `answer`
is what the last command answered; `Advice` maps it to the next command as
`status` prints it. A `guided` terminal runs only that. `stuck` is the history
variable of the drift properties: the constituents that were declared and did
not verify at every moment since the command began.

Abstractions. The recipe is read once by `MatchPlan`, where the code parses it and
then hashes it: recipes only move forward, so two reads that both agree with the
plan are one. (A recipe that is replaced and put back is not modelled.) The
evidence and the plan are hashed in one step; an edit between the two is found,
like one after them, by the verification of what was written. The writes with
their verification and rollback are one step, and one terminal at most finalizes:
overlapping finalizations are `CapabilityState` and its violated run. `prepare` and `finalize` of `add --solution` are those of
`continue`. Evidence counts only for required invariants (the others only warn)
and is one value per constituent. The pack's manifest is pinned by the solution
and does not change; its recipe is not pinned and does. `doctor` loads manifest,
lock and pending plans in one step, and only its verdict is an answer. The
intermediate order of reads inside `verifyCapability` is one step per
constituent. Upgrades are not part of the guided workflow and are in
`CapabilityState`.

### `BehaviorProof`: tests of a project that is worked on

Each element of `Tests` is one run of `aiba test` with its challenge, the runner's
result and the proof. `TestBegin`, `VerifySubject`, `HashState`, `HashFile` and
`WriteChallenge` are `prepareBehaviorChallenge`, which verifies the subject's
constituents and hashes state documents and evidence one after another; `Run` is
the external runner; `Attest` is `createBehaviorProof`; `VerifyBegin`, the same
hashing again and `Trust` are `verifyBehaviorProof`. `Tick` and `Revoke` are the
clock and the operator's trust policy. Everything `SolutionInstall` does
interleaves with it.

Abstractions. The runner is honest and tests what is there in one moment; a
signature is who signed; scenarios and reports are data; the documents under
`.aiba/behavior` are written in one step each and are not edited.

## Runs

Deadlock is not checked: commands may stop at any step, and a finished instance
has nothing left to do.

Fairness is assumed in two runs, of as little as their liveness property needs.
`registry_service` (`FairServiceSpec`): the minute ends (`Tick`, wall-clock time),
and a client with the token keeps asking. It is weak fairness of "some
authorized request", on any path; the operator's commands, failures, the
server's stop and requests without the token are not assumed to happen or to
stop. `solution_work` (`FairProofSpec`): the guided terminal runs what `status`
advised and lets its commands end (the code of a command has no loop that waits,
so a command ends when it is scheduled); the Agent implements a plan that exists,
and somebody repairs reported drift and discards a stale plan, which is what the
messages ask a person to do. Nothing is assumed of the other terminal, the
edits, the pack updates, the tests or the clock. The other runs state only
safety and assume nothing.

| Run | Instance | Shows |
|---|---|---|
| `state_serial` | 3 commands in turn, 2 capabilities (`users` needs `identity`), 2 versions, 2 evidence contents, failing file operations and kills | types; until a kill every capability is wholly present or absent between commands, and the ledger is implemented; with kills a declared capability has its documents at every step, no command builds on a torn state, and what was reported as installed stays at its version or a later one |
| `state_race` | 3 overlapping installs of one capability with kills and failures | a receipt is never beside a foreign ancestry |
| `state_crash_recovery` | 1 install that may be killed | **violated**: nothing recovers a torn state |
| `state_overlap` | 2 overlapping installs of different capabilities | **violated**: an accepted capability disappears |
| `registry_commands` | 3 commands that overlap or not, cache cleared in between, 3 signed indexes of which 2 equivocate | types; without overlap the checkpoint covers what was accepted; no rollback and no equivocation unless commands overlapped and the cache was cleared; a returned bundle stays the listed one while the cache is kept; a cached index is usable |
| `registry_overlap` | 2 overlapping commands | **violated**: the checkpoint regresses |
| `governance_upgrade` | 2 people with 3 keys, 2 policies, 3 contents, 2 edits, 2 approvals, clock up to 1 | unless overtaken: approvals bind the receipt; enough people; fresh votes; preserved files |
| `governance_edits` | 2 contents, 1 edit, 1 approval | **violated**: an edit during the finalization is pinned beside approvals of what was there before |
| `governance_conflicts` | 2 contents, 2 edits, 1 approval | **violated**: conflicts that appear after preparation do not raise the threshold |
| `registry_service` | 2 terminals at 4 sites (two publishers with a kill; two that collect, one imports; a publisher next to retention, backup and restore with a kill; a server next to publishing and retention), 2 capabilities with 3 bundles, 2 of which conflict | types; imported bundles never replaced; no staging left by failures; restores are complete; published indexes are kept; a rate refusal ends; and until two index commands have overlapped: bundles whole, indexes never without bundles, later indexes extend earlier ones, sequences name one index, a client finds an index that extends its checkpoint, the directory implements the log of indexes, served bytes are the verified ones |
| `registry_immutable` | a publisher that also collects next to another one | **violated**: a sequence is published a second time, with another index |
| `solution_work` | 2 terminals at 5 sites (a guided one next to `continue`; a solution next to `add` and `doctor`, and the other way round; a test of one constituent; a test of the whole solution), 3 constituents with one dependency, 2 evidence contents, 2 recipes | types; the ledger is implemented; what is installed follows its plan and recipe; drift blocks; answers are true; plans are kept; the advice completes the solution; a trusted proof speaks of the tested bytes; undisturbed proofs are trusted |

Bounds. Three commands let one command spoil what a second builds on and a third
observe it; each runs once, so sequences are three finalizations long. Two
versions allow one upgrade, two contents an edit and its undoing, two
capabilities one dependency. In the registry, two indexes of sequence 1
equivocate but share a bundle, so that two fetches can both get as far as
publishing their index, and sequence 2 publishes another bundle under the same
version, so a cached bundle can differ from the newer index. In governance the
second policy lets approvals live one tick, so an approval expires within the
clock's bound, and does not trust one of the keys; the skew is as large as the
bound. Of three contents of the evidence one is the baseline, one the observed
customization and one a later edit of it. Two edits change the policy between the
two reads of a signature, or a file and back; two signatures are two votes, two
keys of one person, or a replaced approval. Symmetry permutes commands, which are interchangeable. The safety
properties are ones that a counterexample with few actors breaks, and the
proofs below cover all sizes.
In `registry_service` an operator asks for sequences up to 2 (`last`), which
with `KeepIndexes` 1 lets retention collect the index that a backup, a server or
an importer has in hand; one kill per instance leaves each partial state once,
since a killed terminal runs nothing afterwards and another one meets what it
left. Two slots make one bundle that stays and one that goes. `Limit` is 1: the
second request of a minute is refused. In `solution_work` the third constituent
needs the first, so that both an order and a free choice remain; one edit and its
repair are the drift, one recipe update makes a plan stale at each of its stages;
a challenge lives one tick and the clock runs to 2, so that a proof can be
verified in time, late, and after an earlier or later revocation.

### Disagreements

The six violated properties quote the repository's documents; `PROJECT.json`
names the quotes under `findings`.

- *Crash* (`add.ts:656`): RFC 0003 calls the state write one recoverable
  operation; recovery is only the catch block of the same process.
- *Overlap* (`add.ts:663`): a manifest computed from a stale copy is renamed over
  the current one, and both commands report success.
- *Checkpoint* (`registry.ts:725`): RFC 0007 says the highest accepted sequence
  is recorded; two overlapping commands can record the lower one.
- *Conflicts* (`governance.ts:247`): RFC 0008 promises a threshold for upgrades
  with conflicts; it is computed from the plan's record, not from the files.
- *Edits* (`add.ts:511`): RFC 0008:32-33 says that editing the plan, the evidence
  or the policy invalidates prior approvals; plan and evidence are hashed for the
  comparison and a second time for the receipt, and an edit in between is pinned.
- *Immutable sequences* (`registry.ts:403`): RFC 0007:26-27 says sequences increase
  monotonically and snapshots are immutable; two overlapping index commands and a
  retention publish a collected sequence again.

Two more sentences do not hold, without a run of their own:

- `docs/REGISTRY_OPERATIONS.md:46-47`: "It never deletes a bundle referenced by a
  retained index." Of two overlapping index commands the one that listed the slots
  before an import can publish the higher sequence. A retention that finds it the
  latest plans to remove the imported bundle, while a third index command, which
  has verified that bundle, publishes an index that lists it. With a third
  terminal TLC finds this history; `ListedBundlesArePresent` is therefore stated
  until an overlap.
- RFC 0018:19-20: "an existing valid plan is returned rather than recreated". Of
  two terminals that prepare the same constituent at once the second ends with
  OPERATION_PLAN_EXISTS.

### What the modules show besides

The properties hold under conditions that their comments name. Behind the
conditions is behaviour that a reader of the code should know.

- Two slow index commands that hold a sequence which a third has meanwhile
  published, superseded and two retention commands plan to remove, can lose an
  index: one retention removes the directory before the first `mkdir`, the other
  between the first and the second; the command whose exclusive write then fails
  removes the directory in which the other one has published. It takes four
  terminals, two of which index while the two others collect, and a lower
  sequence published after a higher one, against RFC 0007:26-27 like the violated run
  above. `PublishedIndexesAreKept` is stated for
  sites without such a quartet (`FewWriters`), and elsewhere until an overlap.
- After two overlapping `registry-index` commands a server can answer other bytes
  than it verified: retention collects its sequence, and another index takes the
  directory (`ServedAsVerified` is stated until such an overlap).
- An old index that has expired blocks retention and backup for good, since both
  verify every index. So does the partial snapshot a killed `registry-index` or
  `registry-gc` leaves; the staging directory of a killed import blocks further
  indexing. Only a person removes these.
- A backup that overlaps an import or a publication can be one that restore
  refuses; it is never restored in part.
- Retention can collect the index and bundles of a running server, which then
  answers 500 until it is started again.
- After the restore of an older backup, publishing uses sequences a second time;
  restores go to a new directory, so no property is about this.
- A finalization that drifted constituents overlap is not stopped when the drift
  comes after their verification: `DriftBlocks` is about constituents that were
  broken since the command began.
- Updating the recipe of an installed constituent blocks the solution until the
  old recipe is back or an upgrade is done: `AdviceCompletes` assumes it away.
- A test between whose challenge and verification a file was changed and changed
  back is accepted: a proof is about bytes, not about time. `TrustedBytesWereTested`
  is therefore conditional on nothing having changed before the run.

## Proofs

All theorems hold for every value of the constants that the named assumptions
of the modules allow (`ConstantsAssumption`, `RegistryAssumption`,
`GovernanceAssumption`, `PublisherAssumption`, `LimitAssumption`,
`SolutionAssumption`, `NoneAssumption`, `TestAssumption`; TLC evaluates them in
each run).

- `CapabilityStateProofs`. `TypeCorrect` needs no more than itself. For
  `ReceiptHasItsAncestry` with overlapping installs (`Kinds = {"install"}`),
  the induction follows ownership: a document belongs to the command `by` which
  it was written, only that command has it in `linked`, and `link` fails when
  a file exists, so a receipt is linked or removed only by the owner of the
  ancestry. For `DeclaredHasDocuments` without overlap, `SerialInv` relates
  what the running command saved and has done so far to the files, one conjunct
  per phase: the documents exist before the manifest is renamed, and the saved
  manifest declared only capabilities with documents.
- `CapabilityLedgerProofs`, for commands that do not overlap. A crash can tear a
  capability, so `SoundInv` says what the next command can mistake for whole:
  nothing. A lock without a receipt does not occur, and an intact baseline that
  is locked at another version is not upgradable, because the plan of the
  upgrade that was killed stays and names the version it replaced.
  `Between` and `Stage` say of each file of a replacement whether it is the saved
  or the new one. This gives `CommandsBuildOnWholeState` with crashes; until
  a command is killed a replacement ends with the saved files or the verified ones
  (`WholeInv`), hence `FailedCommandsRestore`. In `CommandsImplementLedger` every
  file operation is a stutter of `InstalledLedger` except the verification: the
  entry of a capability that is being replaced is the saved one, which a
  rollback brings back. `SuccessIsForGood`, with crashes: the declaration of a
  capability moves between the saved version and the command's own, which is
  higher, and a command that replaces a capability which was reported as
  installed has saved a version at least that one (`SuccessInv`).
- `RegistryClientProofs`. Until it is cleared, the cache only grows: an index or a
  bundle once there is not replaced, so a verified bundle stays
  (`ReturnedBundlesAreListed`), and all commands that accept a sequence have
  opened the same cached index. `CachedIndexesAreUsable` needs that a command
  about to publish an index has published its bundle, and no condition. Until
  commands overlap, the checkpoint a command loaded is still the current one
  when it writes, so it covers all that was accepted (`CheckpointCoversAccepted`),
  and the comparison with it is a comparison with all of it. `RacingCommandsAgree`
  and `CommandsNeverRollBack` need one of the two only: while the cache is kept, a
  command opens the latest cached index, and the cache holds every index that any
  command had returned before (`OpensLatest`), whatever an overlap has done to the
  checkpoint.
- `GovernanceProofs`. Unless the finalization is overtaken, everything it has read
  is still what the files say (`ReadsAreCurrent`), and every vote it has counted
  is valid for what it read (`VotesValid`), although approvals are signed next to
  it, step by step, and with the terms of one policy and the digest of another.
  What the receipt pins is therefore what the votes name
  (`ApprovalsBindWhatIsInstalled`), as many people as votes stand behind it
  (`EnoughPeopleApprove`, through a bijection between votes and people), no vote has
  outlived the pinned policy's lifetime (`CountedVotesAreFresh`), and a preserved
  file is the observed one (`PreservedFilesAreThoseObserved`). The theorems also
  cover installations, which the runs do not instantiate. What remains whatever
  is edited or replaced is `NobodyCountsTwice`: a vote is taken only from a file of
  a person who has none.
- `RegistryServerProofs`, the publisher and the server. Without condition: an
  import renames onto an empty slot only (`ImportedBundlesStay`), a staging
  directory belongs to the command that made it (`StagingDirectoriesAreOwned`),
  a restore puts in place what it verified (`RestoresAreWhole`), and a backup
  that saw no change copied one state of the registry
  (`QuietBackupsCanBeRestored`). The others hold as long as two index commands
  do not overlap (`raced`); the run `registry_immutable` shows what an overlap
  does. The argument
  goes round once: an index command starts from every slot, so its index lists
  what all published ones list; later indexes extend earlier ones
  (`LaterIndexesExtendEarlierOnes`); retention keeps the latest index, so it
  finds no bundle to remove (`ListedBundlesStay`, `BundlesStayWhole`); the latest
  sequence is never given up, so the next command takes a new one
  (`SequencesAreNotReused`). What the server verified therefore stays in its
  slots, and its sequence is not signed again (`AnswersAreVerified`).
  `RegistryImplementsLog` adds that a published index which a retention has
  planned to remove has `KeepIndexes` later ones until the removal, whichever
  retention commands overlap (`Superseded`), and that an index lists what the
  earlier ones listed also when these are gone (`LogGrows`).
  `ClientsAreNotStranded` follows from the same invariant.
  `PublishedIndexesStay` holds also after index commands have overlapped, at a site
  where no four terminals index and collect two by two (`FewWriters`); without that
  assumption TLC finds the four-terminal history described above.
- `SolutionInstallProofs`. Only one terminal finalizes (`OneFinalizes`), and nobody
  else changes the ledger, so what a finalization has loaded of it is still so
  when it records (`Stands`). The plan is not protected like that: it may be
  discarded and prepared again between any two reads. But nobody takes an earlier
  recipe or touches a finished plan of the present one (`Forward`); so either the
  plan in the receipt is the one that was matched, or the pack has a later recipe
  than the one to be locked (`Pins`), and then the verification of what was
  written undoes it. This gives `LockPinsWhatWasImplemented` and the
  refinement `SolutionImplementsLedger`: a recording is one step of
  `InstalledLedger`, everything else a stutter. `StuckInv` says that what a
  command has yet to verify covers whatever has been broken since it began;
  hence it cannot come to a write or to a favourable answer past it
  (`DriftBlocksLaterSteps`, `AnswersHold`).
- `BehaviorProofProofs`. `WatchInv`: until something a test is about changes,
  what it has verified still verifies and what it has hashed is still there, for
  a challenge, a run and a verification alike, although each looks at one file
  after another. `TrustedProofsStandForTestedBytes` and `RefusalsHaveReasons`
  are the two directions of "a proof is trusted when nothing changed".
- `NumberLemmas` holds the facts about least and greatest numbers that these
  modules need for the latest sequence and for the first constituent in order.

Only model-checked: the liveness properties `RefusalsEnd` and `AdviceCompletes`,
because liveness under fairness is out of the prover's reach. Neither checked nor
proved: installs that race with upgrades of the same capability, and what an
operation is worth whose files are edited while it is finalized, beyond the
violated run and `NobodyCountsTwice`.

## Not modelled

- Rendering, argument parsing, schemas, loaders, discovery, inspection and
  authoring only read, validate or print.
- Cryptography and the byte layout of bundles are taken as given: what verifies is
  what was signed. Signed solutions repeat the registry client's load, compare and
  write of a checkpoint, which `RegistryClient` has.
- Blueprints and the planner are functions from documents to reports; nothing runs
  beside them and they keep no state.
- The reference services under `fixtures/` show capabilities implemented; they are
  not part of the program.
- `PROJECT.json` lists under `hazards` what remains without a property, each with
  the reason.
