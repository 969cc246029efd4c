---------------------------- MODULE GovernanceProofs ----------------------------
(***************************************************************************)
(* Theorems of Governance for every set of people, keys, policies and      *)
(* contents: what an accepted operation owes to its approvals when nobody  *)
(* edits the files while it is finalized, although they are edited while   *)
(* approvals are signed, and what it owes to them even so.                 *)
(***************************************************************************)
EXTENDS Governance, FiniteSetTheorems, FunctionTheorems, TLAPS

-----------------------------------------------------------------------------
(***************************************************************************)
(* Types.                                                                  *)
(***************************************************************************)

\* The initial state is well typed.
LEMMA InitType == Init => TypeOK
<1> SUFFICES ASSUME Init PROVE TypeOK
  OBVIOUS
<1>1. plan \in Plans
  BY DEF Init, Plans
<1>2. pinned \in Digests
  BY DEF Init, NoPins, Digests
<1>3. approvals \in [Approvers \X Keys -> Approvals \cup {None}]
  BY DEF Init
<1> QED
  BY <1>1, <1>2, <1>3 DEF Init, TypeOK, NoContext

\* Resetting the command leaves it well typed.
LEMMA ResetType ==
    ASSUME TypeOK, Reset, UNCHANGED <<files, people>>, receipt' \in Receipts \cup {None},
           overtaken' \in BOOLEAN
    PROVE  TypeOK'
BY DEF TypeOK, Reset, files, people, NoPins, NoContext, Digests

\* An edit and a step of a signature leave the rest well typed.
LEMMA EditType ==
    ASSUME TypeOK, Edited, policy' \in Policies \cup {None}, plan' \in Plans, evidence' \in Bytes
    PROVE  TypeOK'
BY GovernanceAssumption DEF TypeOK, Edited, reading, Running

\* A step of a signature changes the draft.
LEMMA DraftType ==
    ASSUME TypeOK, NEW d \in Drafts \cup {None}, Drafting(d)
    PROVE  TypeOK'
BY DEF TypeOK, Drafting, files, reading

\* Signing adds an approval.
LEMMA ApproveType ==
    ASSUME TypeOK, Approve
    PROVE  /\ TypeOK'
           /\ \A ak \in Approvers \X Keys : approvals[ak] # None => approvals'[ak] # None
<1> DEFINE a == <<draft.approver, draft.key>>
           approval == [approver |-> draft.approver, key |-> draft.key,
                        policy |-> draft.policy, plan |-> draft.plan,
                        evidence |-> draft.evidence, created |-> clock,
                        expires |-> clock + draft.terms.ttl]
<1>1. /\ draft \in Drafts /\ draft.evidence # None
      /\ draft.plan # None /\ draft.policy # None
  BY DEF Approve, TypeOK, Drafts
<1>2. draft.terms.ttl \in Nat
  BY <1>1, GovernanceAssumption DEF Drafts, PolicyRecords
<1>3. approval \in Approvals /\ a \in Approvers \X Keys
  BY <1>1, <1>2 DEF Drafts, Approvals, TypeOK
<1>4. approvals' = [approvals EXCEPT ![a] = approval]
  BY DEF Approve
<1>5. approvals' \in [Approvers \X Keys -> Approvals \cup {None}]
  BY <1>3, <1>4 DEF TypeOK
<1>6. \A ak \in Approvers \X Keys : approvals[ak] # None => approvals'[ak] # None
  BY <1>3, <1>4, GovernanceAssumption DEF TypeOK
<1> HIDE DEF a, approval
<1>7. signed' \in Nat
  BY DEF Approve, TypeOK
<1> QED
  BY <1>5, <1>6, <1>7 DEF TypeOK, Approve, reading

\* Every step keeps the types.
LEMMA NextType == TypeOK /\ [Next]_vars => TypeOK'
<1> SUFFICES ASSUME TypeOK, [Next]_vars PROVE TypeOK'
  OBVIOUS
<1>1. CASE UNCHANGED vars
  BY <1>1 DEF TypeOK, vars, files, people, reading
<1>2. ASSUME NEW p \in Policies \cup {None}, EditPolicy(p) PROVE TypeOK'
  BY <1>2, EditType DEF TypeOK, EditPolicy
<1>3. ASSUME NEW action \in {"none", "adapt", "preserve"}, EditPlan(action) PROVE TypeOK'
  <2>1. plan' \in Plans
    BY <1>3 DEF TypeOK, EditPlan, Plans
  <2> QED
    BY <1>3, <2>1, EditType DEF TypeOK, EditPlan
<1>4. ASSUME NEW b \in Bytes, EditEvidence(b) PROVE TypeOK'
  BY <1>4, EditType DEF TypeOK, EditEvidence
<1>5. CASE Sign
  <2>1. ASSUME NEW a \in Approvers, NEW k \in Keys, ParsePolicy(a, k) PROVE TypeOK'
    <3>1. [approver |-> a, key |-> k, terms |-> policy, policy |-> None,
           plan |-> None, evidence |-> None] \in Drafts
      BY <2>1 DEF ParsePolicy, TypeOK, Drafts
    <3> QED
      BY <2>1, <3>1, DraftType DEF ParsePolicy
  <2>2. CASE DigestPolicy
    <3>1. [draft EXCEPT !.policy = policy] \in Drafts
      BY <2>2 DEF DigestPolicy, TypeOK, Drafts
    <3> QED
      BY <2>2, <3>1, DraftType DEF DigestPolicy
  <2>3. CASE BindPlan
    <3>1. [draft EXCEPT !.plan = plan] \in Drafts
      BY <2>3 DEF BindPlan, TypeOK, Drafts
    <3> QED
      BY <2>3, <3>1, DraftType DEF BindPlan
  <2>4. CASE BindEvidence
    <3>1. [draft EXCEPT !.evidence = evidence] \in Drafts
      BY <2>4 DEF BindEvidence, TypeOK, Drafts
    <3> QED
      BY <2>4, <3>1, DraftType DEF BindEvidence
  <2>5. CASE GiveUp
    BY <2>5, DraftType DEF GiveUp
  <2> QED
    BY <1>5, <2>1, <2>2, <2>3, <2>4, <2>5, ApproveType DEF Sign
<1>6. CASE Tick
  BY <1>6 DEF TypeOK, Tick, files, reading
<1>7. ASSUME NEW g \in Agents, Start(g) PROVE TypeOK'
  BY <1>7 DEF TypeOK, Start, files, people
<1>8. CASE LoadPolicy
  BY <1>8 DEF TypeOK, LoadPolicy, files, people
<1>9. CASE HashPolicy
  <2>1. pinned' \in Digests
    BY <1>9 DEF TypeOK, HashPolicy, Digests
  <2> QED
    BY <1>9, <2>1 DEF TypeOK, HashPolicy, files, people
<1>10. CASE LoadPlan
  BY <1>10 DEF TypeOK, LoadPlan, files, people
<1>11. CASE DigestEvidence
  BY <1>11 DEF TypeOK, DigestEvidence, files, people
<1>12. CASE ListApprovals
  BY <1>12 DEF TypeOK, ListApprovals, files, people
<1>13. ASSUME NEW ak \in Approvers \X Keys, ReadApproval(ak) PROVE TypeOK'
  BY <1>13 DEF TypeOK, ReadApproval, ToHash, PassOver, files, people
<1>14. ASSUME NEW ak \in Approvers \X Keys, HashApproval(ak) PROVE TypeOK'
  <2>1. approvals[ak] \in Approvals
    BY <1>14 DEF TypeOK, HashApproval, NextFile
  <2> QED
    BY <1>14, <2>1 DEF TypeOK, HashApproval, files, people
<1>15. ASSUME NEW kept \in SUBSET votes, Decide(kept) PROVE TypeOK'
  BY <1>15 DEF TypeOK, Decide, files, people
<1>16. CASE HashEvidence
  <2>1. pinned' \in Digests
    BY <1>16 DEF TypeOK, HashEvidence, Digests
  <2> QED
    BY <1>16, <2>1 DEF TypeOK, HashEvidence, files, people
<1>17. CASE HashPlan
  <2>1. pinned' \in Digests
    BY <1>17 DEF TypeOK, HashPlan, Digests
  <2> QED
    BY <1>17, <2>1 DEF TypeOK, HashPlan, files, people
<1>18. CASE Write
  <2>1. receipt' \in Receipts
    BY <1>18 DEF TypeOK, Write, Verified, Receipts, Digests
  <2> QED
    BY <1>18, <2>1, ResetType DEF Write, TypeOK
<1>19. CASE Abort
  BY <1>19, ResetType DEF Abort, TypeOK
<1> QED
  BY <1>1, <1>2, <1>3, <1>4, <1>5, <1>6, <1>7, <1>8, <1>9, <1>10, <1>11, <1>12, <1>13,
     <1>14, <1>15, <1>16, <1>17, <1>18, <1>19 DEF Next, Finalize, Edit

\* Governance is well typed.
THEOREM GovernanceTypeCorrect == Spec => []TypeOK
BY InitType, NextType, PTL DEF Spec

-----------------------------------------------------------------------------
(***************************************************************************)
(* The votes.  This holds whatever is edited and signed meanwhile.         *)
(***************************************************************************)

\* The file whose turn it is.
TheNextFile == CHOOSE file \in pending : TRUE

\* An approval is kept under the name of its signer.
Named == \A ak \in Approvers \X Keys :
             approvals[ak] # None => approvals[ak].approver = ak[1]

\* The steps of the finalization come in their order.
Order ==
    /\ Running => receipt = None
    /\ pc \in {"idle", "loadPolicy"} => terms = None
    /\ pc \in {"hashPolicy", "loadPlan", "digestEvidence", "listApprovals",
               "readApprovals", "hashApproval"} => terms # None
    /\ terms = None => votes = {} /\ pinned.policy = None
    /\ votes # {} => pc \in {"readApprovals", "hashApproval", "hashEvidence", "hashPlan",
                             "write"}

\* No two votes are of one person, the one to be hashed next included, and once
\* the command has decided there are as many as the parsed policy asks for.
VotesCounted ==
    /\ IsFiniteSet(votes)
    /\ \A v, w \in votes : v.approver = w.approver => v = w
    /\ pc = "hashApproval" =>
           TheNextFile \in pending /\ \A v \in votes : v.approver # TheNextFile[1]
    /\ pc \in {"hashEvidence", "hashPlan", "write"} /\ terms # None =>
           Cardinality(votes) = RequiredApprovals(terms, context.plan)

\* They hold initially.
LEMMA InitVotes == Init => Named /\ Order /\ VotesCounted
BY FS_EmptySet DEF Init, Named, Order, VotesCounted, NoPins, Running

\* Every approval keeps the name of its signer.
LEMMA NextNamed == ASSUME TypeOK, Named, Next PROVE Named'
<1>1. CASE Approve
  <2> DEFINE a == <<draft.approver, draft.key>>
             approval == [approver |-> draft.approver, key |-> draft.key,
                          policy |-> draft.policy, plan |-> draft.plan,
                          evidence |-> draft.evidence, created |-> clock,
                          expires |-> clock + draft.terms.ttl]
  <2>1. approval.approver = a[1]
    OBVIOUS
  <2>2. approvals' = [approvals EXCEPT ![a] = approval]
    BY <1>1 DEF Approve
  <2> HIDE DEF a, approval
  <2> QED
    BY <2>1, <2>2 DEF Named, TypeOK
<1>2. CASE approvals' = approvals
  BY <1>2 DEF Named
<1>3. Approve \/ approvals' = approvals
  BY DEF Next, Finalize, Edit, EditPolicy, EditPlan, EditEvidence, Edited, Sign, ParsePolicy,
         DigestPolicy, BindPlan, BindEvidence, GiveUp, Drafting, Tick, Start, LoadPolicy,
         HashPolicy, LoadPlan, DigestEvidence, ListApprovals, ReadApproval, ToHash, PassOver,
         HashApproval, Decide, HashEvidence, HashPlan, Write, Abort, files
<1> QED
  BY <1>1, <1>2, <1>3

\* Edits, signatures and the clock change nothing the command has read.
LEMMA PeopleLeaveTheReading ==
    ASSUME Edit \/ Sign \/ Tick
    PROVE  UNCHANGED <<pc, reading, receipt>>
BY DEF Edit, EditPolicy, EditPlan, EditEvidence, Edited, Sign, ParsePolicy, DigestPolicy,
       BindPlan, BindEvidence, GiveUp, Drafting, Approve, Tick, reading

\* The order is kept.
LEMMA NextOrder == ASSUME TypeOK, Order, Next PROVE Order'
<1> USE DEF Order, Running
<1>1. CASE Edit \/ Sign \/ Tick
  BY <1>1, PeopleLeaveTheReading DEF reading
<1>2. ASSUME NEW g \in Agents, Start(g) PROVE Order'
  BY <1>2 DEF Start
<1>3. CASE LoadPolicy
  BY <1>3 DEF LoadPolicy
<1>4. CASE HashPolicy
  BY <1>4 DEF HashPolicy
<1>5. CASE LoadPlan \/ DigestEvidence \/ ListApprovals
  BY <1>5 DEF LoadPlan, DigestEvidence, ListApprovals
<1>6. ASSUME NEW ak \in Approvers \X Keys, ReadApproval(ak) \/ HashApproval(ak) PROVE Order'
  BY <1>6 DEF ReadApproval, HashApproval, ToHash, PassOver
<1>7. ASSUME NEW kept \in SUBSET votes, Decide(kept) PROVE Order'
  BY <1>7 DEF Decide
<1>8. CASE HashEvidence \/ HashPlan
  <2>1. pinned'.policy = pinned.policy
    BY <1>8 DEF HashEvidence, HashPlan, TypeOK, Digests
  <2> QED
    BY <1>8, <2>1 DEF HashEvidence, HashPlan
<1>9. CASE Write \/ Abort
  BY <1>9 DEF Write, Abort, Reset, NoPins
<1> QED
  BY <1>1, <1>2, <1>3, <1>4, <1>5, <1>6, <1>7, <1>8, <1>9 DEF Next, Finalize

\* The votes stay counted.
LEMMA NextVotes == ASSUME TypeOK, Named, Order, VotesCounted, Next PROVE VotesCounted'
<1>1. ASSUME UNCHANGED <<pc, terms, votes, pending, context>> PROVE VotesCounted'
  BY <1>1 DEF VotesCounted, RequiredApprovals, TheNextFile
<1>2. CASE Edit \/ Sign \/ Tick
  BY <1>1, <1>2, PeopleLeaveTheReading DEF reading
<1>3. CASE \/ \E g \in Agents : Start(g)
           \/ LoadPolicy \/ HashPolicy \/ LoadPlan \/ DigestEvidence \/ ListApprovals
  <2>1. votes = {} /\ votes' = {}
    BY <1>3 DEF Start, LoadPolicy, HashPolicy, LoadPlan, DigestEvidence, ListApprovals, Order
  <2>2. /\ pc' # "hashApproval"
        /\ pc' \in {"hashEvidence", "hashPlan", "write"} => terms' = None
    BY <1>3 DEF Start, LoadPolicy, HashPolicy, LoadPlan, DigestEvidence, ListApprovals
  <2> QED
    BY <2>1, <2>2 DEF VotesCounted
<1>4. ASSUME NEW ak \in Approvers \X Keys, ReadApproval(ak) PROVE VotesCounted'
  <2>1. /\ UNCHANGED <<terms, votes, context>>
        /\ pc' = "readApprovals" \/ (/\ pc' = "hashApproval" /\ pending' = pending
                                     /\ ak \in pending
                                     /\ \A v \in votes : v.approver # ak[1])
    BY <1>4 DEF ReadApproval, ToHash, PassOver, NextFile
  <2>2. ak = TheNextFile
    BY <1>4 DEF ReadApproval, NextFile, TheNextFile
  <2>3. pc' = "hashApproval" =>
            TheNextFile' \in pending' /\ \A v \in votes' : v.approver # TheNextFile'[1]
    BY <2>1, <2>2 DEF TheNextFile
  <2> QED
    BY <2>1, <2>3 DEF VotesCounted
<1>5. ASSUME NEW ak \in Approvers \X Keys, HashApproval(ak) PROVE VotesCounted'
  <2>1. /\ votes' = votes \cup {approvals[ak]}
        /\ pc' = "readApprovals"
        /\ ak = TheNextFile /\ ak \in pending
        /\ pc = "hashApproval"
    BY <1>5 DEF HashApproval, NextFile, TheNextFile
  <2>2. approvals[ak].approver = ak[1]
    BY <2>1 DEF Named, TypeOK
  <2>3. \A v \in votes : v.approver # approvals[ak].approver
    BY <2>1, <2>2 DEF VotesCounted
  <2>4. IsFiniteSet(votes')
    BY <2>1, FS_AddElement DEF VotesCounted
  <2> QED
    BY <2>1, <2>3, <2>4 DEF VotesCounted
<1>6. ASSUME NEW kept \in SUBSET votes, Decide(kept) PROVE VotesCounted'
  <2>1. /\ UNCHANGED <<terms, context>>
        /\ votes' = kept /\ pc' = "hashEvidence"
        /\ Cardinality(kept) = RequiredApprovals(terms, context.plan)
    BY <1>6 DEF Decide
  <2>2. IsFiniteSet(kept)
    BY FS_Subset DEF VotesCounted
  <2>3. RequiredApprovals(terms, context.plan)' = RequiredApprovals(terms, context.plan)
    BY <2>1 DEF RequiredApprovals
  <2> QED
    BY <2>1, <2>2, <2>3 DEF VotesCounted
<1>7. CASE HashEvidence \/ HashPlan
  <2>1. /\ UNCHANGED <<terms, votes, context>>
        /\ pc' \in {"hashPlan", "write"} /\ pc \in {"hashEvidence", "hashPlan"}
    BY <1>7 DEF HashEvidence, HashPlan
  <2>2. RequiredApprovals(terms, context.plan)' = RequiredApprovals(terms, context.plan)
    BY <2>1 DEF RequiredApprovals
  <2> QED
    BY <2>1, <2>2 DEF VotesCounted
<1>8. CASE Write \/ Abort
  BY <1>8, FS_EmptySet DEF Write, Abort, Reset, VotesCounted
<1> QED
  BY <1>2, <1>3, <1>4, <1>5, <1>6, <1>7, <1>8 DEF Next, Finalize

-----------------------------------------------------------------------------
(***************************************************************************)
(* As long as nobody has overtaken the finalization, what it has read is   *)
(* what the files say, and what it has counted is valid for it.            *)
(***************************************************************************)

\* Everything the finalization has read so far is current.
ReadsAreCurrent ==
    /\ Running => Resolved(plan, evidence)
    /\ Running /\ terms # None =>
        /\ terms = policy
        /\ pc # "hashPolicy" => pinned.policy = policy
        /\ pc \notin {"hashPolicy", "loadPlan"} => context.plan = plan
        /\ pc \notin {"hashPolicy", "loadPlan", "digestEvidence"} =>
               context.evidence = evidence

\* So is every vote, and the approval that is to be hashed next.
VotesValid ==
    /\ \A v \in votes : Valid(v)
    /\ pc = "hashApproval" => Valid(approvals[TheNextFile])

Current == ~overtaken => ReadsAreCurrent /\ VotesValid

GovernanceInv == TypeOK /\ Named /\ Order /\ VotesCounted /\ Current

\* An edit overtakes the finalization, unless none is running.
LEMMA EditOvertakes ==
    ASSUME Order, Edit
    PROVE  overtaken' \/ (~Running)'
BY DEF Edit, EditPolicy, EditPlan, EditEvidence, Edited, Running

\* Without a finalization there is nothing that could be stale.
LEMMA IdleIsCurrent == ASSUME Order, ~Running PROVE ReadsAreCurrent /\ VotesValid
BY DEF Order, Running, ReadsAreCurrent, VotesValid

\* What is signed meanwhile is another file than those that count.
LEMMA SignKeepsCurrent ==
    ASSUME TypeOK, Order, VotesCounted, Current, Sign \/ Tick
    PROVE  Current'
<1> SUFFICES ASSUME ~overtaken' PROVE ReadsAreCurrent' /\ VotesValid'
  BY DEF Current
<1>1. UNCHANGED <<policy, plan, evidence, pc, reading>> /\ ~overtaken
  <2>1. CASE Approve
    <3>1. ~(overtaken \/ (Running /\ approvals[<<draft.approver, draft.key>>] # None))
      BY <2>1, Zenon DEF Approve
    <3> QED
      BY <2>1, <3>1 DEF Approve, reading
  <2>2. CASE ~Approve
    <3>1. UNCHANGED <<policy, plan, evidence, pc, reading, overtaken>>
      BY <2>2 DEF Sign, ParsePolicy, DigestPolicy, BindPlan, BindEvidence, GiveUp, Drafting,
                  Tick, files
    <3> QED
      BY <3>1
  <2> QED
    BY <2>1, <2>2
<1>2. ReadsAreCurrent'
  BY <1>1 DEF Current, ReadsAreCurrent, Running, Resolved, reading
<1>3. \A v : Valid(v)' <=> Valid(v)
  BY <1>1 DEF Valid, Binds, Timely, reading
<1>4. pc = "hashApproval" => approvals'[TheNextFile] = approvals[TheNextFile]
  <2>1. CASE Approve
    <3> SUFFICES ASSUME pc = "hashApproval"
                 PROVE  approvals'[TheNextFile] = approvals[TheNextFile]
      OBVIOUS
    <3> DEFINE a == <<draft.approver, draft.key>>
    <3>1. \E approval : approvals' = [approvals EXCEPT ![a] = approval]
      BY <2>1 DEF Approve
    <3>2. approvals[a] = None
      BY <2>1, <1>1 DEF Approve, Running
    <3>3. CASE a # TheNextFile
      BY <3>1, <3>3 DEF TypeOK
    <3>4. CASE a = TheNextFile
      BY <3>2, <3>4 DEF VotesCounted, TypeOK
    <3> QED
      BY <3>3, <3>4
  <2>2. CASE ~Approve
    BY <2>2 DEF Sign, ParsePolicy, DigestPolicy, BindPlan, BindEvidence, GiveUp, Drafting,
                Tick, files
  <2> QED
    BY <2>1, <2>2
<1>5. VotesValid'
  BY <1>1, <1>3, <1>4 DEF Current, VotesValid, TheNextFile, reading
<1> QED
  BY <1>2, <1>5

\* The steps of the finalization keep what they have read.
LEMMA ReadsStayCurrent ==
    ASSUME TypeOK, Order, ReadsAreCurrent, Finalize
    PROVE  ReadsAreCurrent'
<1> USE DEF Running
<1>1. ASSUME NEW g \in Agents, Start(g) PROVE ReadsAreCurrent'
  BY <1>1 DEF Start, files, ReadsAreCurrent, Resolved, Order
<1>2. CASE LoadPolicy
  BY <1>2 DEF LoadPolicy, files, ReadsAreCurrent, Resolved
<1>3. CASE HashPolicy
  BY <1>3 DEF HashPolicy, files, ReadsAreCurrent, Resolved, TypeOK, Digests
<1>4. CASE LoadPlan
  <2>1. context'.plan = plan /\ context'.evidence = context.evidence
    BY <1>4 DEF LoadPlan, TypeOK
  <2> QED
    BY <1>4, <2>1 DEF LoadPlan, files, ReadsAreCurrent, Resolved
<1>5. CASE DigestEvidence
  <2>1. context'.plan = context.plan /\ context'.evidence = evidence
    BY <1>5 DEF DigestEvidence, TypeOK
  <2> QED
    BY <1>5, <2>1 DEF DigestEvidence, files, ReadsAreCurrent, Resolved
<1>6. CASE ListApprovals
  BY <1>6 DEF ListApprovals, files, ReadsAreCurrent, Resolved
<1>7. ASSUME NEW ak \in Approvers \X Keys, ReadApproval(ak) \/ HashApproval(ak)
      PROVE  ReadsAreCurrent'
  BY <1>7 DEF ReadApproval, HashApproval, ToHash, PassOver, files, ReadsAreCurrent, Resolved
<1>8. ASSUME NEW kept \in SUBSET votes, Decide(kept) PROVE ReadsAreCurrent'
  BY <1>8 DEF Decide, files, ReadsAreCurrent, Resolved
<1>9. CASE HashEvidence
  BY <1>9 DEF HashEvidence, files, ReadsAreCurrent, Resolved, TypeOK, Digests
<1>10. CASE HashPlan
  BY <1>10 DEF HashPlan, files, ReadsAreCurrent, Resolved, TypeOK, Digests
<1>11. CASE Write \/ Abort
  BY <1>11 DEF Write, Abort, Reset, ReadsAreCurrent
<1> QED
  BY <1>1, <1>2, <1>3, <1>4, <1>5, <1>6, <1>7, <1>8, <1>9, <1>10, <1>11 DEF Finalize

\* They count only what is valid.
LEMMA VotesStayValid ==
    ASSUME TypeOK, Order, VotesValid, Finalize
    PROVE  VotesValid'
<1>1. CASE \/ \E g \in Agents : Start(g)
           \/ LoadPolicy \/ HashPolicy \/ LoadPlan \/ DigestEvidence \/ ListApprovals
  <2>1. votes' = {} /\ pc' # "hashApproval"
    BY <1>1 DEF Start, LoadPolicy, HashPolicy, LoadPlan, DigestEvidence, ListApprovals, Order
  <2> QED
    BY <2>1 DEF VotesValid
<1>2. ASSUME NEW ak \in Approvers \X Keys, ReadApproval(ak) \/ HashApproval(ak)
      PROVE  VotesValid'
  <2>1. UNCHANGED <<terms, pinned, context, now, agent, approvals>> /\ ak = TheNextFile
    BY <1>2 DEF ReadApproval, HashApproval, ToHash, PassOver, NextFile, TheNextFile, files
  <2>2. \A v : Valid(v)' <=> Valid(v)
    BY <2>1 DEF Valid, Binds, Timely
  <2>3. CASE ReadApproval(ak)
    <3>1. /\ votes' = votes
          /\ \/ pc' # "hashApproval"
             \/ Valid(approvals[ak]) /\ pending' = pending
      BY <2>3 DEF ReadApproval, ToHash, PassOver
    <3>2. pc' = "hashApproval" => approvals'[TheNextFile'] = approvals[ak] /\ Valid(approvals[ak])
      BY <2>1, <3>1 DEF TheNextFile
    <3> QED
      BY <2>2, <3>1, <3>2 DEF VotesValid
  <2>4. CASE HashApproval(ak)
    <3>1. votes' = votes \cup {approvals[ak]} /\ pc' = "readApprovals" /\ pc = "hashApproval"
      BY <2>4 DEF HashApproval
    <3> QED
      BY <2>1, <2>2, <3>1 DEF VotesValid
  <2> QED
    BY <1>2, <2>3, <2>4
<1>3. ASSUME NEW kept \in SUBSET votes, Decide(kept) PROVE VotesValid'
  <2>1. UNCHANGED <<terms, pinned, context, now, agent>> /\ votes' = kept /\ pc' = "hashEvidence"
    BY <1>3 DEF Decide
  <2>2. \A v : Valid(v)' <=> Valid(v)
    BY <2>1 DEF Valid, Binds, Timely
  <2> QED
    BY <2>1, <2>2 DEF VotesValid
<1>4. CASE HashEvidence \/ HashPlan
  <2>1. UNCHANGED <<terms, votes, context, now, agent>> /\ pc' \in {"hashPlan", "write"}
    BY <1>4 DEF HashEvidence, HashPlan
  <2>2. pinned'.policy = pinned.policy
    BY <1>4 DEF HashEvidence, HashPlan, TypeOK, Digests
  <2>3. \A v : Valid(v)' <=> Valid(v)
    BY <2>1, <2>2 DEF Valid, Binds, Timely
  <2> QED
    BY <2>1, <2>3 DEF VotesValid
<1>5. CASE Write \/ Abort
  BY <1>5 DEF Write, Abort, Reset, VotesValid
<1> QED
  BY <1>1, <1>2, <1>3, <1>4, <1>5 DEF Finalize

\* What is current stays so until somebody overtakes the finalization.
LEMMA NextCurrent ==
    ASSUME TypeOK, Order, VotesCounted, Current, Next, Order'
    PROVE  Current'
<1>1. CASE Edit
  <2>1. (~Running)' => (ReadsAreCurrent /\ VotesValid)'
    BY DEF Order, Running, ReadsAreCurrent, VotesValid
  <2> QED
    BY <1>1, <2>1, EditOvertakes DEF Current
<1>2. CASE Sign \/ Tick
  BY <1>2, SignKeepsCurrent
<1>3. CASE Abort
  BY <1>3 DEF Abort, Reset, Current, ReadsAreCurrent, VotesValid, Running
<1>4. CASE Finalize /\ ~Abort
  <2>1. overtaken' = overtaken
    BY <1>4 DEF Finalize, Start, LoadPolicy, HashPolicy, LoadPlan, DigestEvidence,
                ListApprovals, ReadApproval, HashApproval, ToHash, PassOver, Decide,
                HashEvidence, HashPlan, Write
  <2> QED
    BY <1>4, <2>1, ReadsStayCurrent, VotesStayValid DEF Current
<1> QED
  BY <1>1, <1>2, <1>3, <1>4 DEF Next

\* The invariant of the finalization.
LEMMA GovernanceInvariant == Spec => []GovernanceInv
<1>1. Init => GovernanceInv
  <2> SUFFICES ASSUME Init PROVE GovernanceInv
    OBVIOUS
  <2>1. TypeOK /\ Named /\ Order /\ VotesCounted
    BY InitType, InitVotes
  <2>2. ~Running
    BY DEF Init, Running
  <2> QED
    BY <2>1, <2>2, IdleIsCurrent DEF GovernanceInv, Current
<1>2. GovernanceInv /\ [Next]_vars => GovernanceInv'
  <2> SUFFICES ASSUME GovernanceInv, [Next]_vars PROVE GovernanceInv'
    OBVIOUS
  <2>1. CASE Next
    BY <2>1, NextType, NextNamed, NextOrder, NextVotes, NextCurrent DEF GovernanceInv
  <2>2. CASE UNCHANGED vars
    <3>1. TypeOK'
      BY NextType DEF GovernanceInv
    <3>2. (Named /\ Order /\ VotesCounted)'
      BY <2>2 DEF GovernanceInv, vars, files, reading, Named, Order, Running, VotesCounted,
                  RequiredApprovals, TheNextFile
    <3>3. Current'
      BY <2>2 DEF GovernanceInv, vars, files, reading, Current, ReadsAreCurrent, Running,
                  Resolved, VotesValid, Valid, Binds, Timely, TheNextFile
    <3> QED
      BY <3>1, <3>2, <3>3 DEF GovernanceInv
  <2> QED
    BY <2>1, <2>2
<1> QED
  BY <1>1, <1>2, PTL DEF Spec

-----------------------------------------------------------------------------
(***************************************************************************)
(* What the receipt of an accepted operation says.                         *)
(***************************************************************************)

\* Only writing the state gives the project a receipt; a receipt stays, and
\* nothing overtakes the operation any more.
LEMMA ReceiptIsWritten ==
    ASSUME Order, [Next]_vars
    PROVE  \/ receipt' = receipt /\ (receipt # None => overtaken' = overtaken)
           \/ Write
BY DEF Order, Next, Finalize, Edit, EditPolicy, EditPlan, EditEvidence, Edited, Sign,
       ParsePolicy, DigestPolicy, BindPlan, BindEvidence, GiveUp, Drafting, Approve, Tick,
       Start, LoadPolicy, HashPolicy, LoadPlan, DigestEvidence, ListApprovals, ReadApproval,
       HashApproval, ToHash, PassOver, Decide, HashEvidence, HashPlan, Abort, vars

\* What the command wrote is what the files said throughout.
LEMMA WrittenReceipt ==
    ASSUME GovernanceInv, Write, ~overtaken'
    PROVE  /\ receipt' = [policy |-> pinned.policy, plan |-> plan, evidence |-> evidence,
                          votes |-> votes, agent |-> agent, time |-> now]
           /\ Resolved(plan, evidence)
           /\ \A v \in votes : Valid(v)
           /\ terms # None => /\ pinned.policy = terms
                              /\ context.plan = plan
                              /\ context.evidence = evidence
BY DEF GovernanceInv, Current, ReadsAreCurrent, VotesValid, Write, Verified, Running

\* An accepted operation is exactly what its approvers signed, when nobody edited
\* a file or replaced an approval while it was finalized; files may be edited while
\* approvals are signed, which read them one after the other.
THEOREM ApprovalsBindWhatIsInstalled == Spec => []ApprovalsBindReceipt
<1>1. Init => ApprovalsBindReceipt
  BY DEF Init, ApprovalsBindReceipt, EditsInvalidateApprovals
<1>2. GovernanceInv /\ ApprovalsBindReceipt /\ [Next]_vars => ApprovalsBindReceipt'
  <2> SUFFICES ASSUME GovernanceInv, ApprovalsBindReceipt, [Next]_vars
               PROVE  ApprovalsBindReceipt'
    OBVIOUS
  <2>1. CASE receipt' = receipt /\ (receipt # None => overtaken' = overtaken)
    BY <2>1 DEF ApprovalsBindReceipt, EditsInvalidateApprovals
  <2>2. CASE Write
    <3> SUFFICES ASSUME ~overtaken' PROVE EditsInvalidateApprovals'
      BY DEF ApprovalsBindReceipt
    <3>1. ASSUME NEW v \in votes
          PROVE  v.policy = pinned.policy /\ v.plan = plan /\ v.evidence = evidence
      <4>1. terms # None
        BY <3>1 DEF GovernanceInv, Order
      <4>2. Binds(v, pinned.policy, context)
        BY <2>2, <3>1, WrittenReceipt DEF Valid
      <4> QED
        BY <2>2, <4>1, <4>2, WrittenReceipt DEF Binds
    <3> QED
      BY <2>2, <3>1, WrittenReceipt DEF EditsInvalidateApprovals
  <2> QED
    BY <2>1, <2>2, ReceiptIsWritten DEF GovernanceInv
<1> QED
  BY <1>1, <1>2, GovernanceInvariant, PTL DEF Spec

\* As many people as there are votes, when no two votes are of one person.
LEMMA OneVotePerPerson ==
    ASSUME NEW V, IsFiniteSet(V), \A v, w \in V : v.approver = w.approver => v = w
    PROVE  Cardinality({v.approver : v \in V}) = Cardinality(V)
<1> DEFINE voters == {v.approver : v \in V}
           person == [v \in V |-> v.approver]
<1>1. person \in Bijection(V, voters)
  <2>1. person \in [V -> voters]
    OBVIOUS
  <2>2. \A v, w \in V : person[v] = person[w] => v = w
    OBVIOUS
  <2>3. \A p \in voters : \E v \in V : person[v] = p
    OBVIOUS
  <2> QED
    BY <2>1, <2>2, <2>3, Fun_IsBij
<1>2. ExistsBijection(V, voters)
  BY <1>1, Fun_ExistsBij
<1> QED
  BY <1>2, FS_Bijection

\* As many different trusted people as the policy asks for stand behind an
\* accepted operation, and not its implementing Agent where that is prohibited,
\* when nobody edited a file or replaced an approval while it was finalized.
THEOREM EnoughPeopleApprove == Spec => []EnoughApprovers
<1>1. Init => EnoughApprovers
  BY DEF Init, EnoughApprovers
<1>2. GovernanceInv /\ EnoughApprovers /\ [Next]_vars => EnoughApprovers'
  <2> SUFFICES ASSUME GovernanceInv, EnoughApprovers, [Next]_vars PROVE EnoughApprovers'
    OBVIOUS
  <2>1. CASE receipt' = receipt /\ (receipt # None => overtaken' = overtaken)
    BY <2>1 DEF EnoughApprovers, Conflicts, Conflict
  <2>2. CASE Write /\ overtaken'
    BY <2>2 DEF EnoughApprovers
  <2>3. CASE Write /\ ~overtaken'
    <3>1. CASE terms = None
      BY <2>3, <3>1, WrittenReceipt DEF EnoughApprovers, GovernanceInv, Order
    <3>2. CASE terms # None
      <4>1. Cardinality({v.approver : v \in votes}) = RequiredApprovals(terms, plan)
        BY <2>3, <3>2, OneVotePerPerson, WrittenReceipt DEF GovernanceInv, VotesCounted, Write
      <4>2. \A v \in votes : /\ <<v.approver, v.key>> \in terms.trusted
                             /\ terms.noSelf => v.approver # agent
        BY <2>3, WrittenReceipt DEF Valid
      <4>3. /\ receipt'.policy = terms /\ receipt'.plan = plan
            /\ receipt'.votes = votes /\ receipt'.agent = agent
        BY <2>3, <3>2, WrittenReceipt
      <4> QED
        BY <4>1, <4>2, <4>3 DEF EnoughApprovers, RequiredApprovals, Conflicts, Conflict
    <3> QED
      BY <3>1, <3>2
  <2> QED
    BY <2>1, <2>2, <2>3, ReceiptIsWritten DEF GovernanceInv
<1> QED
  BY <1>1, <1>2, GovernanceInvariant, PTL DEF Spec

\* No approval outlives the lifetime of the policy it is counted under, also one
\* that was signed with the terms of one policy and the digest of the next, when
\* nobody edited a file or replaced an approval during the finalization.
THEOREM CountedVotesAreFresh == Spec => []VotesAreFresh
<1>1. Init => VotesAreFresh
  BY DEF Init, VotesAreFresh
<1>2. GovernanceInv /\ VotesAreFresh /\ [Next]_vars => VotesAreFresh'
  <2> SUFFICES ASSUME GovernanceInv, VotesAreFresh, [Next]_vars PROVE VotesAreFresh'
    OBVIOUS
  <2>1. CASE receipt' = receipt /\ (receipt # None => overtaken' = overtaken)
    BY <2>1 DEF VotesAreFresh
  <2>2. CASE Write
    <3> SUFFICES ASSUME ~overtaken', NEW v \in votes
                 PROVE  now < v.created + pinned.policy.ttl
      BY <2>2, WrittenReceipt DEF VotesAreFresh
    <3>1. terms # None /\ terms \in Policies
      BY DEF GovernanceInv, Order, TypeOK
    <3>2. Timely(v, terms, now) /\ pinned.policy = terms
      BY <2>2, <3>1, WrittenReceipt DEF Valid
    <3>3. v.created \in Nat /\ v.expires \in Nat /\ terms.ttl \in Nat /\ now \in Nat
      BY <3>1, GovernanceAssumption DEF GovernanceInv, TypeOK, Approvals, PolicyRecords
    <3> QED
      BY <3>2, <3>3 DEF Timely
  <2> QED
    BY <2>1, <2>2, ReceiptIsWritten DEF GovernanceInv
<1> QED
  BY <1>1, <1>2, GovernanceInvariant, PTL DEF Spec

\* A preserved file is what the plan observed or the file as last installed, when
\* nobody edited a file while the operation was finalized.
THEOREM PreservedFilesAreThoseObserved == Spec => []PreservedOrReverted
<1>1. Init => PreservedOrReverted
  BY DEF Init, PreservedOrReverted
<1>2. GovernanceInv /\ PreservedOrReverted /\ [Next]_vars => PreservedOrReverted'
  <2> SUFFICES ASSUME GovernanceInv, PreservedOrReverted, [Next]_vars
               PROVE  PreservedOrReverted'
    OBVIOUS
  <2>1. CASE receipt' = receipt /\ (receipt # None => overtaken' = overtaken)
    BY <2>1 DEF PreservedOrReverted
  <2>2. CASE Write
    BY <2>2, WrittenReceipt DEF PreservedOrReverted, Resolved, Conflict
  <2> QED
    BY <2>1, <2>2, ReceiptIsWritten DEF GovernanceInv
<1> QED
  BY <1>1, <1>2, GovernanceInvariant, PTL DEF Spec

-----------------------------------------------------------------------------
(***************************************************************************)
(* What holds even when files are edited while the operation is finalized. *)
(***************************************************************************)

\* The approvals of a receipt are of pairwise different people, and an operation
\* under a policy has at least one (governance.ts 648-671).
VotesAreOfDifferentPeople ==
    receipt # None =>
        /\ Cardinality({v.approver : v \in receipt.votes}) = Cardinality(receipt.votes)
        /\ receipt.policy # None => receipt.votes # {}

\* Whatever is edited, signed or replaced during a finalization, nobody counts
\* twice, and no operation is accepted under a policy without an approval.
THEOREM NobodyCountsTwice == Spec => []VotesAreOfDifferentPeople
<1>1. Init => VotesAreOfDifferentPeople
  BY DEF Init, VotesAreOfDifferentPeople
<1>2. GovernanceInv /\ VotesAreOfDifferentPeople /\ [Next]_vars => VotesAreOfDifferentPeople'
  <2> SUFFICES ASSUME GovernanceInv, VotesAreOfDifferentPeople, [Next]_vars
               PROVE  VotesAreOfDifferentPeople'
    OBVIOUS
  <2>1. CASE receipt' = receipt
    BY <2>1 DEF VotesAreOfDifferentPeople
  <2>2. CASE Write
    <3>1. receipt'.votes = votes /\ receipt'.policy = pinned.policy
      BY <2>2 DEF Write
    <3>2. Cardinality({v.approver : v \in votes}) = Cardinality(votes)
      BY OneVotePerPerson DEF GovernanceInv, VotesCounted
    <3>3. ASSUME pinned.policy # None PROVE votes # {}
      <4>1. terms # None /\ terms \in PolicyRecords
        BY <3>3, GovernanceAssumption DEF GovernanceInv, Order, TypeOK
      <4>2. Cardinality(votes) = RequiredApprovals(terms, context.plan)
        BY <2>2, <4>1 DEF GovernanceInv, VotesCounted, Write
      <4>3. RequiredApprovals(terms, context.plan) # 0
        BY <4>1 DEF PolicyRecords, RequiredApprovals
      <4> QED
        BY <4>2, <4>3, FS_EmptySet
    <3> QED
      BY <3>1, <3>2, <3>3 DEF VotesAreOfDifferentPeople
  <2> QED
    BY <2>1, <2>2, ReceiptIsWritten DEF GovernanceInv
<1> QED
  BY <1>1, <1>2, GovernanceInvariant, PTL DEF Spec
=============================================================================
