------------------------------- MODULE Governance -------------------------------
(***************************************************************************)
(* Finalizing one upgrade, or one installation, of a capability under a    *)
(* team policy (packages/core/src/governance.ts, with the checks of        *)
(* finalizeUpgrade and finalizeCapability that surround requireGovernance).*)
(*                                                                         *)
(* The policy, the plan, the evidence and the approvals are files that     *)
(* people and the Agent go on editing, also while a command runs; an       *)
(* approval names the policy, the plan and the evidence it was signed for. *)
(* The command that signs and the one that finalizes read each of them in  *)
(* a step of its own, the policy in two: its terms, then its digest.       *)
(***************************************************************************)
EXTENDS Naturals, FiniteSets

CONSTANTS
    Operation,  \* "install" or "upgrade"
    Approvers,  \* identifiers of people
    Keys,       \* identifiers of signing keys; a person may have several
    Agents,     \* whom a command may name as the implementing Agent
    Policies,   \* the policies the project may adopt
    Bytes,      \* contents of the evidence file
    Baseline,   \* its content when the version to upgrade was installed
    MaxTime,    \* bound on the clock
    Skew,       \* how far ahead of its own clock a command tolerates approvals
    MaxEdits,   \* bound on the edits of the policy, the plan and the evidence
    MaxSigned,  \* bound on the approvals that are signed
    None

PolicyRecords == [trusted : SUBSET (Approvers \X Keys), votes : Nat \ {0},
                  conflictVotes : Nat \ {0}, ttl : Nat \ {0}, noSelf : BOOLEAN]

Plans == [actual : Bytes, action : {"none", "adapt", "preserve"}]

\* Policies, plans and evidence are bound by digest: here, by content.
Approvals == [approver : Approvers, key : Keys, policy : Policies, plan : Plans,
              evidence : Bytes, created : Nat, expires : Nat]

ASSUME GovernanceAssumption ==
    /\ Operation \in {"install", "upgrade"}
    /\ Policies \subseteq PolicyRecords
    /\ \A p \in Policies : p.votes <= p.conflictVotes
    /\ Baseline \in Bytes
    /\ Skew \in Nat /\ MaxTime \in Nat /\ MaxEdits \in Nat /\ MaxSigned \in Nat
    /\ None \notin Policies /\ None \notin Approvals

VARIABLES
    policy,     \* governance-policy.json, or None
    plan,       \* the plan: evidence bytes it was prepared for, and a resolution
    evidence,   \* the evidence file
    approvals,  \* approvals/<capability>/<operation>/<approver>-<key>.json, or None
    draft,      \* the approval that is being prepared, or None
    clock,
    edits,      \* edits so far
    signed,     \* approvals signed so far
    pc,         \* the next step of the finalization
    agent,      \* whom it names as the implementing Agent
    now,        \* its time, taken once
    terms,      \* the policy as it parsed it
    pinned,     \* what it pins: [policy, plan, evidence]
    context,    \* the operation it evaluates: [plan, evidence]
    pending,    \* approval files it has listed and not read yet
    votes,      \* approvals it has accepted, as it hashed them
    receipt,    \* the receipt of the finalized operation, or None
    overtaken   \* history: a file was edited, or an approval replaced, while
                \* this finalization ran

files == <<policy, plan, evidence, approvals>>
people == <<draft, clock, edits, signed>>
reading == <<agent, now, terms, pinned, context, pending, votes>>
vars == <<files, people, pc, reading, receipt, overtaken>>

-----------------------------------------------------------------------------
\* conflictFor: a shared or generated file that differs from its baseline.
Conflict(bytes) == Operation = "upgrade" /\ bytes # Baseline

\* operationContext counts the conflicts the plan recorded when it was prepared.
Conflicts(p) == Conflict(p.actual)

\* requiredApprovals
RequiredApprovals(t, p) == IF Conflicts(p) THEN t.conflictVotes ELSE t.votes

\* Mutant: any resolution will do.
ResolvedAnyhow(p, bytes) == Conflict(bytes) => p.action # "none"

\* finalizeUpgrade: a file in conflict now has a resolution, and a preserved one
\* is what it was when the plan was prepared.
Resolved(p, bytes) ==
    Conflict(bytes) => \/ p.action = "adapt"
                       \/ p.action = "preserve" /\ p.actual = bytes

\* Mutant: the digests of the evidence are not compared.
BindsPlanOnly(a, digest, c) == a.policy = digest /\ a.plan = c.plan

Binds(a, digest, c) ==
    /\ a.policy = digest /\ a.plan = c.plan /\ a.evidence = c.evidence

\* Mutant: the lifetime of an approval is not compared with the policy.
TimelyAnyLifetime(a, t, time) ==
    /\ a.created <= time + Skew
    /\ time < a.expires

Timely(a, t, time) ==
    /\ a.created <= time + Skew
    /\ time < a.expires
    /\ a.expires <= a.created + t.ttl

\* What evaluateGovernance asks of an approval before it counts it.
Valid(a) ==
    /\ <<a.approver, a.key>> \in terms.trusted
    /\ Binds(a, pinned.policy, context)
    /\ Timely(a, terms, now)
    /\ terms.noSelf => a.approver # agent

Running == pc # "idle"

-----------------------------------------------------------------------------
NoContext == [plan |-> None, evidence |-> None]
NoPins == [policy |-> None, plan |-> None, evidence |-> None]

\* The plan has just been prepared, for the evidence as it then was.
Init ==
    /\ policy \in Policies \cup {None}
    /\ evidence \in Bytes
    /\ plan = [actual |-> evidence, action |-> "none"]
    /\ approvals = [ak \in Approvers \X Keys |-> None]
    /\ draft = None
    /\ clock = 0 /\ edits = 0 /\ signed = 0
    /\ pc = "idle"
    /\ agent = None
    /\ now = 0
    /\ terms = None
    /\ pinned = NoPins
    /\ context = NoContext
    /\ pending = {}
    /\ votes = {}
    /\ receipt = None
    /\ overtaken = FALSE

\* A file is edited, at any time until the operation is finalized.
Edited ==
    /\ receipt = None
    /\ edits < MaxEdits
    /\ edits' = edits + 1
    /\ overtaken' = Running
    /\ UNCHANGED <<approvals, draft, clock, signed, pc, reading, receipt>>

\* The policy is reviewed project code: it is created, replaced or removed.
EditPolicy(p) ==
    /\ Edited
    /\ policy # p
    /\ policy' = p
    /\ UNCHANGED <<plan, evidence>>

\* The Agent records a resolution in the plan.
EditPlan(action) ==
    /\ Edited
    /\ plan.action # action
    /\ plan' = [plan EXCEPT !.action = action]
    /\ UNCHANGED <<policy, evidence>>

EditEvidence(b) ==
    /\ Edited
    /\ evidence # b
    /\ evidence' = b
    /\ UNCHANGED <<policy, plan>>

-----------------------------------------------------------------------------
\* createCapabilityApproval, one at a time: it parses the policy, which must
\* trust the signer, and hashes it; then it reads the plan and the evidence.
Drafting(d) ==
    /\ draft' = d
    /\ UNCHANGED <<files, clock, edits, signed, pc, reading, receipt, overtaken>>

ParsePolicy(a, k) ==
    /\ receipt = None
    /\ draft = None /\ signed < MaxSigned
    /\ policy # None
    /\ <<a, k>> \in policy.trusted
    /\ Drafting([approver |-> a, key |-> k, terms |-> policy, policy |-> None,
                 plan |-> None, evidence |-> None])

DigestPolicy ==
    /\ draft # None /\ draft.policy = None
    /\ policy # None
    /\ Drafting([draft EXCEPT !.policy = policy])

\* What is parsed of the plan, the drift it records, no edit changes.
BindPlan ==
    /\ draft # None /\ draft.policy # None /\ draft.plan = None
    /\ Drafting([draft EXCEPT !.plan = plan])

BindEvidence ==
    /\ draft # None /\ draft.plan # None /\ draft.evidence = None
    /\ Drafting([draft EXCEPT !.evidence = evidence])

\* The approval lives as long as the parsed policy says, and replaces, by
\* rename, what the same key signed before.
Approve ==
    /\ receipt = None
    /\ draft # None /\ draft.evidence # None
    /\ approvals' = [approvals EXCEPT ![<<draft.approver, draft.key>>] =
           [approver |-> draft.approver, key |-> draft.key, policy |-> draft.policy,
            plan |-> draft.plan, evidence |-> draft.evidence,
            created |-> clock, expires |-> clock + draft.terms.ttl]]
    /\ draft' = None
    /\ signed' = signed + 1
    /\ overtaken' = \/ overtaken
                    \/ Running /\ approvals[<<draft.approver, draft.key>>] # None
    /\ UNCHANGED <<policy, plan, evidence, clock, edits, pc, reading, receipt>>

\* It finds a file gone, or ends for another reason.
GiveUp == draft # None /\ Drafting(None)

Sign ==
    \/ \E a \in Approvers, k \in Keys : ParsePolicy(a, k)
    \/ DigestPolicy \/ BindPlan \/ BindEvidence \/ Approve \/ GiveUp

Tick ==
    /\ receipt = None
    /\ clock < MaxTime
    /\ clock' = clock + 1
    /\ UNCHANGED <<files, draft, edits, signed, pc, reading, receipt, overtaken>>

-----------------------------------------------------------------------------
\* The command has checked its plan against the pack and the drift of the
\* evidence against the plan; it takes the time.
Start(g) ==
    /\ pc = "idle"
    /\ receipt = None
    /\ Resolved(plan, evidence)
    /\ agent' = g
    /\ now' = clock
    /\ pc' = "loadPolicy"
    /\ UNCHANGED <<files, people, terms, pinned, context, pending, votes, receipt, overtaken>>

\* loadPolicy parses the file.  Without a policy nothing is evaluated.
LoadPolicy ==
    /\ pc = "loadPolicy"
    /\ terms' = policy
    /\ pc' = IF policy = None THEN "hashEvidence" ELSE "hashPolicy"
    /\ UNCHANGED <<files, people, agent, now, pinned, context, pending, votes, receipt, overtaken>>

\* Then it hashes the file, and finds it gone if it has been removed.
HashPolicy ==
    /\ pc = "hashPolicy"
    /\ policy # None
    /\ pinned' = [pinned EXCEPT !.policy = policy]
    /\ pc' = "loadPlan"
    /\ UNCHANGED <<files, people, agent, now, terms, context, pending, votes, receipt, overtaken>>

\* operationContext
LoadPlan ==
    /\ pc = "loadPlan"
    /\ context' = [context EXCEPT !.plan = plan]
    /\ pc' = "digestEvidence"
    /\ UNCHANGED <<files, people, agent, now, terms, pinned, pending, votes, receipt, overtaken>>

DigestEvidence ==
    /\ pc = "digestEvidence"
    /\ context' = [context EXCEPT !.evidence = evidence]
    /\ pc' = "listApprovals"
    /\ UNCHANGED <<files, people, agent, now, terms, pinned, pending, votes, receipt, overtaken>>

ListApprovals ==
    /\ pc = "listApprovals"
    /\ pending' = {ak \in Approvers \X Keys : approvals[ak] # None}
    /\ pc' = "readApprovals"
    /\ UNCHANGED <<files, people, agent, now, terms, pinned, context, votes, receipt, overtaken>>

\* The files are read in one order, that of their names.
NextFile(ak) == pending # {} /\ ak = CHOOSE file \in pending : TRUE

\* A file that does not count is passed over.
PassOver(ak) ==
    /\ pending' = pending \ {ak}
    /\ UNCHANGED <<files, people, pc, agent, now, terms, pinned, context, votes, receipt, overtaken>>

ToHash ==
    /\ pc' = "hashApproval"
    /\ UNCHANGED <<files, people, agent, now, terms, pinned, context, pending, votes, receipt, overtaken>>

\* Mutant: every key has a vote.
ReadApprovalPerKey(ak) ==
    /\ pc = "readApprovals"
    /\ NextFile(ak)
    /\ IF Valid(approvals[ak]) THEN ToHash ELSE PassOver(ak)

\* A valid approval counts unless the same person has already been counted.
ReadApproval(ak) ==
    /\ pc = "readApprovals"
    /\ NextFile(ak)
    /\ IF Valid(approvals[ak]) /\ \A v \in votes : v.approver # ak[1]
         THEN ToHash ELSE PassOver(ak)

\* What counts is hashed after it has been read: the receipt pins what the file
\* holds by then.
HashApproval(ak) ==
    /\ pc = "hashApproval"
    /\ NextFile(ak)
    /\ pending' = pending \ {ak}
    /\ votes' = votes \cup {approvals[ak]}
    /\ pc' = "readApprovals"
    /\ UNCHANGED <<files, people, agent, now, terms, pinned, context, receipt, overtaken>>

\* The threshold is met; as many approvals as it asks for are kept.
Decide(kept) ==
    /\ pc = "readApprovals"
    /\ pending = {}
    /\ terms.noSelf => agent # None
    /\ kept \subseteq votes
    /\ Cardinality(kept) = RequiredApprovals(terms, context.plan)
    /\ votes' = kept
    /\ pc' = "hashEvidence"
    /\ UNCHANGED <<files, people, agent, now, terms, pinned, context, pending, receipt, overtaken>>

\* createCapabilityReceipt hashes the evidence, then the plan.
HashEvidence ==
    /\ pc = "hashEvidence"
    /\ pinned' = [pinned EXCEPT !.evidence = evidence]
    /\ pc' = "hashPlan"
    /\ UNCHANGED <<files, people, agent, now, terms, context, pending, votes, receipt, overtaken>>

HashPlan ==
    /\ pc = "hashPlan"
    /\ pinned' = [pinned EXCEPT !.plan = plan]
    /\ pc' = "write"
    /\ UNCHANGED <<files, people, agent, now, terms, context, pending, votes, receipt, overtaken>>

\* verifyCapability compares everything the receipt pins with the files.
Verified ==
    /\ evidence = pinned.evidence
    /\ plan = pinned.plan
    /\ pinned.policy # None => policy = pinned.policy
    /\ \A v \in votes : approvals[<<v.approver, v.key>>] = v

Reset ==
    /\ pc' = "idle"
    /\ agent' = None
    /\ now' = 0
    /\ terms' = None
    /\ pinned' = NoPins
    /\ context' = NoContext
    /\ pending' = {}
    /\ votes' = {}

\* The state is written and verified (see CapabilityState).
Write ==
    /\ pc = "write"
    /\ Verified
    /\ receipt' = [policy |-> pinned.policy, plan |-> pinned.plan,
                   evidence |-> pinned.evidence, votes |-> votes,
                   agent |-> agent, time |-> now]
    /\ Reset
    /\ UNCHANGED <<files, people, overtaken>>

\* The command is denied, finds a file gone, or fails or is undone elsewhere.
Abort ==
    /\ Running
    /\ Reset
    /\ overtaken' = FALSE
    /\ UNCHANGED <<files, people, receipt>>

-----------------------------------------------------------------------------
Finalize ==
    \/ \E g \in Agents : Start(g)
    \/ LoadPolicy \/ HashPolicy \/ LoadPlan \/ DigestEvidence \/ ListApprovals
    \/ \E ak \in Approvers \X Keys : ReadApproval(ak) \/ HashApproval(ak)
    \/ \E kept \in SUBSET votes : Decide(kept)
    \/ HashEvidence \/ HashPlan \/ Write \/ Abort

Edit ==
    \/ \E p \in Policies \cup {None} : EditPolicy(p)
    \/ \E action \in {"none", "adapt", "preserve"} : EditPlan(action)
    \/ \E b \in Bytes : EditEvidence(b)

Next ==
    \/ Finalize
    \/ Edit
    \/ Sign
    \/ Tick

Spec == Init /\ [][Next]_vars

-----------------------------------------------------------------------------
Drafts ==
    {d \in [approver : Approvers, key : Keys, terms : Policies,
            policy : Policies \cup {None}, plan : Plans \cup {None},
            evidence : Bytes \cup {None}] :
       (d.plan # None => d.policy # None) /\ (d.evidence # None => d.plan # None)}
Digests == [policy : Policies \cup {None}, plan : Plans \cup {None},
            evidence : Bytes \cup {None}]
Receipts == [policy : Policies \cup {None}, plan : Plans, evidence : Bytes,
             votes : SUBSET Approvals, agent : Agents \cup {None}, time : Nat]

TypeOK ==
    /\ policy \in Policies \cup {None}
    /\ plan \in Plans
    /\ evidence \in Bytes
    /\ approvals \in [Approvers \X Keys -> Approvals \cup {None}]
    /\ draft \in Drafts \cup {None}
    /\ clock \in Nat /\ edits \in Nat /\ signed \in Nat
    /\ pc \in {"idle", "loadPolicy", "hashPolicy", "loadPlan", "digestEvidence",
               "listApprovals", "readApprovals", "hashApproval", "hashEvidence", "hashPlan", "write"}
    /\ agent \in Agents \cup {None}
    /\ now \in Nat
    /\ terms \in Policies \cup {None}
    /\ pinned \in Digests
    /\ context \in [plan : Plans \cup {None}, evidence : Bytes \cup {None}]
    /\ pending \subseteq {ak \in Approvers \X Keys : approvals[ak] # None}
    /\ votes \subseteq Approvals
    /\ receipt \in Receipts \cup {None}
    /\ overtaken \in BOOLEAN

\* An accepted operation is exactly what its approvers signed: every approval
\* its receipt names was given for the policy, the plan and the evidence bytes
\* the receipt pins (RFC 0008: "Editing the plan, evidence bytes, or policy
\* invalidates prior approvals").
EditsInvalidateApprovals ==
    receipt # None => \A v \in receipt.votes :
        /\ v.policy = receipt.policy
        /\ v.plan = receipt.plan
        /\ v.evidence = receipt.evidence

\* That is so when nobody has edited a file or replaced an approval while the
\* finalization ran, however often the files were edited, approved and edited
\* back before, also while somebody signed (governance.ts 598-610, add.ts 443-525).
ApprovalsBindReceipt == ~overtaken => EditsInvalidateApprovals

\* As many different people as the pinned policy asks for stand behind an
\* accepted operation, each of them trusted by it with the key that signed,
\* and none of them its implementing Agent where that is prohibited; a second
\* key gives nobody a second vote (governance.ts 585-591, 625-630, 648-661).
\* This is when nobody has edited a file or replaced an approval while the
\* finalization ran; the policy may be replaced while somebody signs.
EnoughApprovers ==
    ~overtaken /\ receipt # None /\ receipt.policy # None =>
        /\ Cardinality({v.approver : v \in receipt.votes}) =
               IF Conflicts(receipt.plan) THEN receipt.policy.conflictVotes
                                          ELSE receipt.policy.votes
        /\ \A v \in receipt.votes :
               /\ <<v.approver, v.key>> \in receipt.policy.trusted
               /\ receipt.policy.noSelf => v.approver # receipt.agent

\* No approval outlives the lifetime of the policy it is counted under, also one
\* that was signed with the terms of one policy and the digest of the next
\* (governance.ts 206-214, 611-624), when nobody has edited a file or replaced an
\* approval while the finalization ran.
VotesAreFresh ==
    ~overtaken /\ receipt # None => \A v \in receipt.votes :
        receipt.time < v.created + receipt.policy.ttl

\* An upgrade resolved by "preserve" installs the customization that the plan
\* observed, or the file as the last version installed it, and never a later
\* edit (upgrade.ts 405-431), when nobody has edited a file while the
\* finalization ran.
PreservedOrReverted ==
    ~overtaken /\ Operation = "upgrade" /\ receipt # None
      /\ receipt.plan.action = "preserve" =>
        receipt.evidence \in {receipt.plan.actual, Baseline}

\* An upgrade whose evidence is in conflict with its baseline was approved by
\* as many people as the policy asks for an upgrade with conflicts (RFC 0008:
\* "approval thresholds for install, upgrade, and conflict-bearing upgrade").
ConflictsRaiseTheThreshold ==
    receipt # None /\ receipt.policy # None /\ Conflict(receipt.evidence) =>
        Cardinality({v.approver : v \in receipt.votes}) >= receipt.policy.conflictVotes
=============================================================================
