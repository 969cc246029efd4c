----------------------------- MODULE BehaviorProof -----------------------------
(***************************************************************************)
(* "aiba test", "aiba attest" and "aiba verify-behavior"                   *)
(* (packages/core/src/behavior.ts) while the solution is worked on.        *)
(*                                                                         *)
(* A challenge hashes the manifest, the lock and the files of its subject  *)
(* (a constituent or the whole solution) one by one; a runner outside of   *)
(* AIBA tests what is there at some later moment; the proof is verified by *)
(* hashing everything again.  The runner is honest: it attests a run that  *)
(* passed.  A signature, a command or a summary is what it was, and the    *)
(* documents under .aiba/behavior are not tampered with.                   *)
(***************************************************************************)
EXTENDS SolutionInstall

CONSTANTS
    Tests,      \* the runs of "aiba test", each with a challenge of its own
    Subject,    \* [Tests -> the constituents it is about]
    Lifetime    \* --ttl of a challenge

ASSUME TestAssumption ==
    /\ Subject \in [Tests -> (SUBSET Caps) \ {{}}]
    /\ Lifetime \in Nat \ {0}
    /\ \A s \in Sites : s.tests \subseteq Tests /\ s.lasts \in Nat

VARIABLES
    now,         \* the clock
    revoked,     \* revokedAt of the runner in the trust policy, or None
    challenges,  \* [Tests -> the snapshot and the expiry, or None]
    runs,        \* [Tests -> what the runner tested and when, or None]
    proofs,      \* [Tests -> BOOLEAN], attested
    phase,       \* the next step of the command about a test
    work,        \* what that command holds in memory
    verdict,     \* the last verification
    disturbed    \* history: tests whose files or packs changed since their
                 \* challenge was begun

proofVars == <<now, revoked, challenges, runs, proofs, phase, work, verdict, disturbed>>
allVars == <<vars, proofVars>>

\* A site has tests, and a bound on the clock, which starts with the first one.
Times == 0..site.lasts

\* trackedReceiptPaths, and what else decides if the subject verifies.
Tracked(t) ==
    <<installed, [c \in Subject[t] |-> <<receipt[c], plan[c], evidence[c], recipe[c]>>]>>

ProofInit ==
    /\ Init
    /\ now = 0 /\ revoked = None
    /\ challenges = [t \in Tests |-> None]
    /\ runs = [t \in Tests |-> None]
    /\ proofs = [t \in Tests |-> FALSE]
    /\ phase = [t \in Tests |-> "idle"]
    /\ work = [t \in Tests |-> None]
    /\ verdict = [t \in Tests |-> "none"]
    /\ disturbed = {}

Open(t) == challenges[t] # None \/ phase[t] # "idle"

Proceed(t, label, w) ==
    phase' = [phase EXCEPT ![t] = label] /\ work' = [work EXCEPT ![t] = w]
Done(t) == Proceed(t, "idle", None)
Conclude(t, v) == verdict' = [verdict EXCEPT ![t] = v]

-----------------------------------------------------------------------------
\* prepareBehaviorChallenge takes the time first.
TestBegin(t) ==
    /\ phase[t] = "idle" /\ challenges[t] = None
    /\ Subject[t] \subseteq Declared
    /\ Proceed(t, "subject", [since |-> now, todo |-> Subject[t], seen |-> None, files |-> None])
    /\ UNCHANGED <<challenges, runs, proofs, verdict>>

\* verifyBehaviorProof: the challenge has not expired.
VerifyBegin(t) ==
    /\ phase[t] = "idle" /\ proofs[t]
    /\ IF now > challenges[t].expires
         THEN Conclude(t, "refused") /\ UNCHANGED <<phase, work>>
         ELSE /\ Conclude(t, "none")
              /\ Proceed(t, "subject", [since |-> now, todo |-> Subject[t],
                                        seen |-> None, files |-> None])
    /\ UNCHANGED <<challenges, runs, proofs>>

\* A command that fails ends; for a verification that is a refusal.
Fail(t) == Done(t) /\ Conclude(t, IF proofs[t] THEN "refused" ELSE "none")

\* subjectVersionAndCapabilities: the constituents are verified one by one.
VerifySubject(t) ==
    /\ phase[t] = "subject" /\ work[t].todo # {}
    /\ LET c == First(work[t].todo) IN
         IF Verifies(c)
           THEN Proceed(t, "subject", [work[t] EXCEPT !.todo = @ \ {c}]) /\ UNCHANGED verdict
           ELSE Fail(t)
    /\ UNCHANGED <<challenges, runs, proofs>>

\* The paths are sorted: the files under .aiba come first.
Seen(S) == [installed |-> installed,
            receipts |-> [c \in S |-> receipt[c]], plans |-> [c \in S |-> plan[c]]]

\* Mutant: every plan there is belongs to the snapshot.
HashAllPlans(t) ==
    /\ phase[t] = "subject" /\ work[t].todo = {}
    /\ Proceed(t, "files", [work[t] EXCEPT !.todo = Subject[t], !.seen = Seen(Caps),
                                           !.files = [c \in Subject[t] |-> None]])
    /\ UNCHANGED <<challenges, runs, proofs, verdict>>

\* computeBehaviorSnapshot
HashState(t) ==
    /\ phase[t] = "subject" /\ work[t].todo = {}
    /\ Proceed(t, "files", [work[t] EXCEPT !.todo = Subject[t], !.seen = Seen(Subject[t]),
                                           !.files = [c \in Subject[t] |-> None]])
    /\ UNCHANGED <<challenges, runs, proofs, verdict>>

HashFile(t) ==
    /\ phase[t] = "files" /\ work[t].todo # {}
    /\ LET c == First(work[t].todo) IN
         Proceed(t, "files", [work[t] EXCEPT !.todo = @ \ {c}, !.files[c] = evidence[c]])
    /\ UNCHANGED <<challenges, runs, proofs, verdict>>

Snapshot(t) == [seen |-> work[t].seen, files |-> work[t].files]
Hashed(t) == phase[t] = "files" /\ work[t].todo = {}

WriteChallenge(t) ==
    /\ Hashed(t) /\ challenges[t] = None
    /\ challenges' = [challenges EXCEPT ![t] =
                        [snapshot |-> Snapshot(t), expires |-> work[t].since + Lifetime]]
    /\ Done(t)
    /\ UNCHANGED <<runs, proofs, verdict>>

\* The runner tests what it finds.
Run(t) ==
    /\ challenges[t] # None /\ runs[t] = None
    /\ runs' = [runs EXCEPT ![t] = [tested |-> [c \in Subject[t] |-> evidence[c]],
                                    completed |-> now, quiet |-> t \notin disturbed]]
    /\ UNCHANGED <<challenges, proofs, phase, work, verdict>>

\* createBehaviorProof: within the window of the challenge, and once.
Attest(t) ==
    /\ phase[t] = "idle" /\ runs[t] # None /\ ~proofs[t]
    /\ now <= challenges[t].expires /\ runs[t].completed <= challenges[t].expires
    /\ proofs' = [proofs EXCEPT ![t] = TRUE]
    /\ UNCHANGED <<challenges, runs, phase, work, verdict>>

Revoked(t) == revoked # None /\ revoked <= runs[t].completed

\* Mutant: a proof stands for the installation, whatever its files hold.
TrustInstallation(t) ==
    /\ Hashed(t) /\ proofs[t]
    /\ Conclude(t, IF Snapshot(t).seen = challenges[t].snapshot.seen /\ ~Revoked(t)
                     THEN "trusted" ELSE "refused")
    /\ Done(t)
    /\ UNCHANGED <<challenges, runs, proofs>>

\* The snapshot is the one of the proof, the runner was not revoked by then.
Trust(t) ==
    /\ Hashed(t) /\ proofs[t]
    /\ Conclude(t, IF Snapshot(t) = challenges[t].snapshot /\ ~Revoked(t)
                     THEN "trusted" ELSE "refused")
    /\ Done(t)
    /\ UNCHANGED <<challenges, runs, proofs>>

Tick ==
    /\ now < site.lasts /\ \E t \in Tests : Open(t)
    /\ now' = now + 1
    /\ UNCHANGED <<revoked, challenges, runs, proofs, phase, work, verdict>>

\* The operator revokes the runner's key, from now or from an earlier time on.
Revoke(time) ==
    /\ revoked = None /\ time <= now /\ \E t \in Tests : Open(t)
    /\ revoked' = time
    /\ UNCHANGED <<now, challenges, runs, proofs, phase, work, verdict>>

ProofCommand(t) ==
    /\ \/ TestBegin(t) \/ VerifyBegin(t) \/ VerifySubject(t) \/ HashState(t) \/ HashFile(t)
       \/ WriteChallenge(t) \/ Run(t) \/ Attest(t) \/ Trust(t)
    /\ UNCHANGED <<now, revoked>>

\* The history of the step.
RememberProofs ==
    disturbed' = {t \in Tests : /\ Open(t)'
                                /\ Open(t)
                                /\ t \in disturbed \/ Tracked(t)' # Tracked(t)}

ProofNext ==
    /\ \/ Next /\ UNCHANGED <<now, revoked, challenges, runs, proofs, phase, work, verdict>>
       \/ UNCHANGED vars /\ \/ \E t \in site.tests : ProofCommand(t)
                            \/ Tick
                            \/ \E time \in Times : Revoke(time)
    /\ RememberProofs

ProofSpec == ProofInit /\ [][ProofNext]_allVars
FairProofSpec == ProofSpec /\ Fairness

-----------------------------------------------------------------------------
Sights(S) == [installed : [Caps -> Recipes \cup {None}],
              receipts : [S -> Receipts \cup {None}], plans : [S -> Plans \cup {None}]]
Contents(S) == [S -> Bytes \cup {None}]
WorkOf(t) == [since : Times, todo : SUBSET Subject[t], seen : Sights(Subject[t]) \cup {None},
              files : Contents(Subject[t]) \cup {None}]

\* The type invariant.
ProofTypeOK ==
    /\ TypeOK
    /\ now \in Times /\ revoked \in Times \cup {None}
    /\ proofs \in [Tests -> BOOLEAN] /\ disturbed \subseteq Tests
    /\ phase \in [Tests -> {"idle", "subject", "files"}]
    /\ verdict \in [Tests -> {"none", "trusted", "refused"}]
    /\ \A t \in Tests :
         /\ work[t] \in WorkOf(t) \cup {None}
         /\ runs[t] \in [tested : Contents(Subject[t]), completed : Times, quiet : BOOLEAN]
                          \cup {None}
         /\ challenges[t] \in [snapshot : [seen : Sights(Subject[t]),
                                           files : Contents(Subject[t])],
                               expires : Nat] \cup {None}

\* A proof that is accepted stands for the bytes that are there: they are the
\* ones the runner tested, if nothing changed from the challenge to the run
\* (docs/rfcs/0017-trusted-behavior-proofs.md:38-39 has it for "exact bytes").
TrustedBytesWereTested ==
    [][\A t \in Tests :
         verdict[t] # "trusted" /\ verdict'[t] = "trusted" /\ runs[t].quiet
           => work[t].files = runs[t].tested]_allVars

\* A proof is refused for a reason only: what it is about or its pack has
\* changed since, it has expired or its runner is revoked.  Work on other
\* constituents that are not installed yet leaves it valid.
UndisturbedProofsAreTrusted ==
    [][\A t \in Tests : verdict[t] # "refused" /\ verdict'[t] = "refused" =>
         t \in disturbed \/ now > challenges[t].expires \/ Revoked(t)]_allVars
=============================================================================
