--------------------------- MODULE BehaviorProofProofs ---------------------------
(***************************************************************************)
(* Theorems of BehaviorProof for every solution, every set of tests and    *)
(* every lifetime of a challenge, while the solution is worked on.         *)
(***************************************************************************)
EXTENDS BehaviorProof, SolutionInstallProofs

-----------------------------------------------------------------------------
(***************************************************************************)
(* Types.  A verification presupposes a proof, a proof a run, and a run a  *)
(* challenge.                                                              *)
(***************************************************************************)
Runs(t) == [tested : Contents(Subject[t]), completed : Times, quiet : BOOLEAN]
Challenges(t) == [snapshot : [seen : Sights(Subject[t]), files : Contents(Subject[t])],
                  expires : Nat]

TestOK(t) ==
    /\ work[t] \in WorkOf(t) \cup {None}
    /\ runs[t] \in Runs(t) \cup {None} /\ challenges[t] \in Challenges(t) \cup {None}
    /\ phase[t] # "idle" => work[t] \in WorkOf(t)
    /\ phase[t] = "files" => work[t].seen \in Sights(Subject[t]) /\ work[t].files \in Contents(Subject[t])
    /\ proofs[t] => runs[t] # None
    /\ runs[t] # None => challenges[t] # None

Tables ==
    /\ work = [t \in Tests |-> work[t]]
    /\ runs = [t \in Tests |-> runs[t]]
    /\ challenges = [t \in Tests |-> challenges[t]]
    /\ proofs \in [Tests -> BOOLEAN] /\ disturbed \subseteq Tests
    /\ phase \in [Tests -> {"idle", "subject", "files"}]
    /\ verdict \in [Tests -> {"none", "trusted", "refused"}]

Clock == now \in Times /\ revoked \in Times \cup {None}

TestTypeInv == Clock /\ Tables /\ \A t \in Tests : TestOK(t)

\* What a step leaves of the test t.
Same(t) ==
    /\ phase'[t] = phase[t] /\ work'[t] = work[t] /\ challenges'[t] = challenges[t]
    /\ runs'[t] = runs[t] /\ proofs'[t] = proofs[t] /\ verdict'[t] = verdict[t]

\* Initially nothing is tested.
LEMMA InitTestType == ProofInit => TestTypeInv
<1> SUFFICES ASSUME ProofInit PROVE TestTypeInv
  OBVIOUS
<1>1. Clock
  <2>1. site.lasts \in Nat
    BY TestAssumption DEF ProofInit, Init
  <2> QED
    BY <2>1 DEF ProofInit, Clock, Times
<1>2. Tables
  BY DEF ProofInit, Tables
<1>3. ASSUME NEW t \in Tests PROVE TestOK(t)
  BY DEF ProofInit, TestOK
<1> QED
  BY <1>1, <1>2, <1>3 DEF TestTypeInv

\* A test is left alone by the commands about others.
LEMMA OthersWait ==
    ASSUME Tables, NEW t \in Tests, ProofCommand(t), NEW u \in Tests, u # t
    PROVE  Same(u)
BY DEF Tables, ProofCommand, TestBegin, VerifyBegin, VerifySubject, HashState, HashFile,
       WriteChallenge, Run, Attest, Trust, Proceed, Done, Conclude, Fail, Same

\* The commands about a test keep the tables.
LEMMA CommandTables ==
    ASSUME Tables, NEW t \in Tests, ProofCommand(t), disturbed' \subseteq Tests
    PROVE  Tables'
<1> DEFINE W == /\ work' = [u \in Tests |-> work'[u]]
                /\ phase' \in [Tests -> {"idle", "subject", "files"}]
           V == verdict' \in [Tests -> {"none", "trusted", "refused"}]
<1>1. \A w : Proceed(t, "subject", w) => W
  BY DEF Tables, Proceed
<1>2. \A w : Proceed(t, "files", w) => W
  BY DEF Tables, Proceed
<1>3. Done(t) => W
  BY DEF Tables, Done, Proceed
<1>4. UNCHANGED <<phase, work>> => W
  BY DEF Tables
<1>5. Conclude(t, "none") \/ Conclude(t, "trusted") \/ Conclude(t, "refused") => V
  BY DEF Tables, Conclude
<1>6. UNCHANGED verdict => V
  BY DEF Tables
<1>7. W /\ V
  <2>1. CASE TestBegin(t) \/ VerifyBegin(t)
    BY <1>1, <1>4, <1>5, <1>6, <2>1 DEF TestBegin, VerifyBegin
  <2>2. CASE VerifySubject(t)
    BY <1>1, <1>3, <1>5, <1>6, <2>2 DEF VerifySubject, Fail
  <2>3. CASE HashState(t) \/ HashFile(t)
    BY <1>2, <1>6, <2>3 DEF HashState, HashFile
  <2>4. CASE WriteChallenge(t) \/ Trust(t)
    BY <1>3, <1>5, <1>6, <2>4 DEF WriteChallenge, Trust
  <2>5. CASE Run(t) \/ Attest(t)
    BY <1>4, <1>6, <2>5 DEF Run, Attest
  <2> QED
    BY <2>1, <2>2, <2>3, <2>4, <2>5 DEF ProofCommand
<1>8. runs' = [u \in Tests |-> runs'[u]]
  BY DEF Tables, ProofCommand, TestBegin, VerifyBegin, VerifySubject, HashState, HashFile,
         WriteChallenge, Run, Attest, Trust
<1>9. challenges' = [u \in Tests |-> challenges'[u]]
  BY DEF Tables, ProofCommand, TestBegin, VerifyBegin, VerifySubject, HashState, HashFile,
         WriteChallenge, Run, Attest, Trust
<1>10. proofs' \in [Tests -> BOOLEAN]
  BY DEF Tables, ProofCommand, TestBegin, VerifyBegin, VerifySubject, HashState, HashFile,
         WriteChallenge, Run, Attest, Trust
<1> QED
  BY <1>7, <1>8, <1>9, <1>10 DEF Tables

\* Whether the tables hold records of the right kind does not depend on the
\* project.
LEMMA KindsStay ==
    ASSUME site' = site, NEW t \in Tests
    PROVE  Times' = Times /\ WorkOf(t)' = WorkOf(t) /\ Runs(t)' = Runs(t) /\ Challenges(t)' = Challenges(t)
BY DEF Times, WorkOf, Runs, Challenges

\* The commands about a test keep the types of what they hold and write.
LEMMA CommandTest ==
    ASSUME SolutionInv, TestTypeInv, site' = site, NEW t \in Tests, ProofCommand(t)
    PROVE  TestOK(t)'
<1>0. /\ Tables /\ TestOK(t) /\ now \in Times /\ Subject[t] \in SUBSET Caps
      /\ Times \in SUBSET Nat /\ Lifetime \in Nat
  BY TestAssumption DEF TestTypeInv, Clock, Times
<1>1. Times' = Times /\ WorkOf(t)' = WorkOf(t) /\ Runs(t)' = Runs(t) /\ Challenges(t)' = Challenges(t)
  BY KindsStay
<1>2. /\ installed \in [Caps -> Recipes \cup {None}] /\ receipt \in [Caps -> Receipts \cup {None}]
      /\ plan \in [Caps -> Plans \cup {None}] /\ evidence \in [Caps -> Bytes \cup {None}]
  BY DEF SolutionInv, TypeOK
<1> DEFINE First0 == [since |-> now, todo |-> Subject[t], seen |-> None, files |-> None]
<1>3. First0 \in WorkOf(t)
  BY <1>0 DEF WorkOf
<1> HIDE DEF First0
<1>4. ASSUME NEW label \in {"subject", "files"}, NEW w \in WorkOf(t), Proceed(t, label, w),
             label = "files" => w.seen \in Sights(Subject[t]) /\ w.files \in Contents(Subject[t]),
             UNCHANGED <<challenges, runs, proofs>>
      PROVE  TestOK(t)'
  <2>1. phase'[t] = label /\ work'[t] = w
    BY <1>0, <1>4 DEF Proceed, Tables
  <2> QED
    BY <1>0, <1>1, <1>4, <2>1 DEF TestOK
<1>5. ASSUME Done(t), runs'[t] = runs[t], proofs'[t] = proofs[t],
             challenges'[t] \in Challenges(t) \cup {None},
             runs[t] # None => challenges'[t] # None
      PROVE  TestOK(t)'
  <2>1. phase'[t] = "idle" /\ work'[t] = None
    BY <1>0, <1>5 DEF Done, Proceed, Tables
  <2> QED
    BY <1>0, <1>1, <1>5, <2>1 DEF TestOK
<1>6. Done(t) /\ UNCHANGED <<challenges, runs, proofs>> => TestOK(t)'
  BY <1>0, <1>5 DEF TestOK
<1>a. CASE TestBegin(t)
  BY <1>3, <1>4, <1>a DEF TestBegin, First0
<1>b. CASE VerifyBegin(t)
  <2>1. CASE UNCHANGED <<phase, work>>
    BY <1>0, <1>1, <1>b, <2>1 DEF VerifyBegin, TestOK
  <2>2. CASE Proceed(t, "subject", First0)
    BY <1>3, <1>4, <1>b, <2>2 DEF VerifyBegin
  <2> QED
    BY <1>b, <2>1, <2>2 DEF VerifyBegin, First0
<1>c. CASE VerifySubject(t)
  <2> DEFINE w == [work[t] EXCEPT !.todo = work[t].todo \ {First(work[t].todo)}]
  <2>1. work[t] \in WorkOf(t) /\ UNCHANGED <<challenges, runs, proofs>>
    BY <1>0, <1>c DEF VerifySubject, TestOK
  <2>2. w \in WorkOf(t)
    BY <2>1 DEF WorkOf
  <2>3. Proceed(t, "subject", w) \/ Done(t)
    BY <1>c, <2>1 DEF VerifySubject, Fail, WorkOf
  <2> QED
    BY <1>4, <1>6, <2>1, <2>2, <2>3
<1>d. CASE HashState(t)
  <2> DEFINE files == [c \in Subject[t] |-> None]
             w == [work[t] EXCEPT !.todo = Subject[t], !.seen = Seen(Subject[t]), !.files = files]
  <2>1. work[t] \in WorkOf(t) /\ UNCHANGED <<challenges, runs, proofs>>
    BY <1>0, <1>d DEF HashState, TestOK
  <2>2. Seen(Subject[t]) \in Sights(Subject[t]) /\ files \in Contents(Subject[t])
    BY <1>0, <1>2 DEF Seen, Sights, Contents
  <2> HIDE DEF files
  <2>3. w \in WorkOf(t) /\ w.seen = Seen(Subject[t]) /\ w.files = files
    BY <2>1, <2>2 DEF WorkOf
  <2>4. Proceed(t, "files", w)
    BY <1>d DEF HashState, files
  <2> QED
    BY <1>4, <2>1, <2>2, <2>3, <2>4
<1>e. CASE HashFile(t)
  <2>1. /\ work[t] \in WorkOf(t) /\ UNCHANGED <<challenges, runs, proofs>> /\ work[t].todo # {}
        /\ work[t].seen \in Sights(Subject[t]) /\ work[t].files \in Contents(Subject[t])
    BY <1>0, <1>e DEF HashFile, TestOK
  <2>2. work[t].todo \in SUBSET Subject[t]
    BY <2>1 DEF WorkOf
  <2>3. PICK c \in Subject[t] : c = First(work[t].todo)
    BY <1>0, <2>1, <2>2, FirstIsMember
  <2> DEFINE files == [work[t].files EXCEPT ![c] = evidence[c]]
             w == [work[t] EXCEPT !.todo = work[t].todo \ {c}, !.files = files]
  <2>4. files \in Contents(Subject[t])
    BY <1>0, <1>2, <2>1 DEF Contents
  <2>5. Proceed(t, "files", w)
    BY <1>e, <2>1, <2>3 DEF HashFile, WorkOf
  <2> HIDE DEF files
  <2>6. w \in WorkOf(t) /\ w.seen = work[t].seen /\ w.files = files
    BY <2>1, <2>4 DEF WorkOf
  <2> QED
    BY <1>4, <2>1, <2>4, <2>5, <2>6
<1>f. CASE WriteChallenge(t)
  <2> DEFINE ch == [snapshot |-> Snapshot(t), expires |-> work[t].since + Lifetime]
  <2>1. /\ work[t] \in WorkOf(t) /\ UNCHANGED <<runs, proofs>> /\ challenges[t] = None
        /\ work[t].seen \in Sights(Subject[t]) /\ work[t].files \in Contents(Subject[t])
        /\ Done(t) /\ challenges' = [challenges EXCEPT ![t] = ch]
    BY <1>0, <1>f DEF WriteChallenge, Hashed, TestOK
  <2>2. ch \in Challenges(t)
    <3>1. work[t].since + Lifetime \in Nat
      <4>1. work[t].since \in Times
        BY <2>1 DEF WorkOf
      <4>2. PICK n \in Nat : n = work[t].since
        BY <1>0, <4>1
      <4>3. n + Lifetime \in Nat
        BY <1>0
      <4> QED
        BY <4>2, <4>3
    <3> QED
      BY <2>1, <3>1 DEF Challenges, Snapshot
  <2> HIDE DEF ch
  <2>3. challenges'[t] = ch /\ runs[t] = None
    BY <1>0, <2>1 DEF Tables, TestOK
  <2> QED
    BY <1>5, <2>1, <2>2, <2>3
<1>g. CASE Run(t)
  <2> DEFINE r == [tested |-> [c \in Subject[t] |-> evidence[c]],
                   completed |-> now, quiet |-> t \notin disturbed]
  <2>1. /\ challenges[t] # None /\ runs' = [runs EXCEPT ![t] = r]
        /\ UNCHANGED <<challenges, proofs, phase, work>> /\ runs[t] = None
    BY <1>g DEF Run
  <2>2. r \in Runs(t)
    BY <1>0, <1>2 DEF Runs, Contents
  <2> HIDE DEF r
  <2>3. runs'[t] = r /\ ~proofs[t]
    BY <1>0, <2>1 DEF Tables, TestOK
  <2> QED
    BY <1>0, <1>1, <2>1, <2>2, <2>3 DEF TestOK
<1>h. CASE Attest(t)
  BY <1>0, <1>1, <1>h DEF Attest, TestOK
<1>i. CASE Trust(t)
  BY <1>6, <1>i DEF Trust
<1> QED
  BY <1>a, <1>b, <1>c, <1>d, <1>e, <1>f, <1>g, <1>h, <1>i DEF ProofCommand

\* Every step keeps the types.
LEMMA NextTestType == SolutionInv /\ TestTypeInv /\ [ProofNext]_allVars => TestTypeInv'
<1> SUFFICES ASSUME SolutionInv, TestTypeInv, [ProofNext]_allVars PROVE TestTypeInv'
  OBVIOUS
<1>1. site' = site
  BY DEF ProofNext, allVars, vars, Next
<1>2. disturbed' \subseteq Tests
  BY DEF ProofNext, RememberProofs, allVars, proofVars, TestTypeInv, Tables
<1>3. ASSUME UNCHANGED <<challenges, runs, proofs, phase, work, verdict>>
      PROVE  Tables' /\ \A t \in Tests : TestOK(t)'
  <2>1. Tables'
    BY <1>2, <1>3 DEF TestTypeInv, Tables
  <2>2. ASSUME NEW t \in Tests PROVE TestOK(t)'
    BY <1>1, <1>3, KindsStay DEF TestTypeInv, TestOK
  <2> QED
    BY <2>1, <2>2
<1>4. CASE UNCHANGED <<now, revoked, challenges, runs, proofs, phase, work, verdict>>
  <2>1. Clock'
    BY <1>1, <1>4 DEF TestTypeInv, Clock, Times
  <2> QED
    BY <1>3, <1>4, <2>1 DEF TestTypeInv
<1>5. CASE Tick
  <2>1. site.lasts \in Nat
    BY TestAssumption DEF SolutionInv, TypeOK
  <2>2. Clock'
    BY <1>1, <1>5, <2>1 DEF Tick, TestTypeInv, Clock, Times
  <2> QED
    BY <1>3, <1>5, <2>2 DEF Tick, TestTypeInv
<1>6. ASSUME NEW time \in Times, Revoke(time) PROVE TestTypeInv'
  <2>1. Clock'
    BY <1>1, <1>6 DEF Revoke, TestTypeInv, Clock, Times
  <2> QED
    BY <1>3, <1>6, <2>1 DEF Revoke, TestTypeInv
<1>7. ASSUME NEW t \in site.tests, ProofCommand(t) PROVE TestTypeInv'
  <2>1. t \in Tests
    BY TestAssumption DEF SolutionInv, TypeOK
  <2>2. Clock'
    BY <1>1, <1>7 DEF ProofCommand, TestTypeInv, Clock, Times
  <2>3. Tables'
    BY <1>2, <1>7, <2>1, CommandTables DEF TestTypeInv
  <2>4. ASSUME NEW u \in Tests PROVE TestOK(u)'
    <3>1. CASE u = t
      BY <1>1, <1>7, <2>1, <3>1, CommandTest
    <3>2. CASE u # t
      <4>1. Same(u)
        BY <1>7, <2>1, <3>2, OthersWait DEF TestTypeInv
      <4> QED
        BY <1>1, <4>1, KindsStay DEF TestTypeInv, TestOK, Same
    <3> QED
      BY <3>1, <3>2
  <2> QED
    BY <2>2, <2>3, <2>4 DEF TestTypeInv
<1> QED
  BY <1>4, <1>5, <1>6, <1>7 DEF ProofNext, allVars, proofVars

\* Type correctness of the tests and the project.
THEOREM ProofTypeCorrect == ProofSpec => []ProofTypeOK
<1>1. ProofInit => SolutionInv /\ TestTypeInv
  BY InitSolutionInv, InitTestType DEF ProofInit
<1>2. [ProofNext]_allVars => [Next]_vars
  BY DEF ProofNext, allVars
<1>3. SolutionInv /\ TestTypeInv /\ [ProofNext]_allVars => SolutionInv' /\ TestTypeInv'
  BY <1>2, NextSolutionInv, NextTestType
<1>4. SolutionInv /\ TestTypeInv => ProofTypeOK
  BY DEF SolutionInv, TestTypeInv, Clock, Tables, TestOK, ProofTypeOK, Runs, Challenges
<1> QED
  BY <1>1, <1>3, <1>4, PTL DEF ProofSpec

-----------------------------------------------------------------------------
(***************************************************************************)
(* Until something it is about changes, a test has seen the project as it  *)
(* is, although it looks at one file after another.                        *)
(***************************************************************************)
Current(t) == [seen |-> Seen(Subject[t]), files |-> [c \in Subject[t] |-> evidence[c]]]

Watched(t) ==
    /\ phase[t] = "subject" => \A c \in Subject[t] \ work[t].todo : Verifies(c)
    /\ phase[t] = "files" => /\ \A c \in Subject[t] : Verifies(c)
                             /\ work[t].seen = Seen(Subject[t])
                             /\ \A c \in Subject[t] \ work[t].todo : work[t].files[c] = evidence[c]
    /\ challenges[t] # None => /\ \A c \in Subject[t] : Verifies(c)
                               /\ challenges[t].snapshot = Current(t)

\* A run without changes since the challenge has tested what the challenge hashed.
Compared(t) == runs[t] # None /\ runs[t].quiet => challenges[t].snapshot.files = runs[t].tested

WatchInv == \A t \in Tests : (t \notin disturbed => Watched(t)) /\ Compared(t)

\* What is tracked decides what is seen and what verifies.
LEMMA TrackedDecides ==
    ASSUME NEW t \in Tests, Tracked(t)' = Tracked(t)
    PROVE  /\ Seen(Subject[t])' = Seen(Subject[t]) /\ Current(t)' = Current(t)
           /\ \A c \in Subject[t] : evidence'[c] = evidence[c] /\ (Verifies(c)' <=> Verifies(c))
<1>1. installed' = installed
  BY DEF Tracked
<1>2. ASSUME NEW c \in Subject[t]
      PROVE  /\ receipt'[c] = receipt[c] /\ plan'[c] = plan[c] /\ evidence'[c] = evidence[c]
             /\ recipe'[c] = recipe[c]
  <2>1. [d \in Subject[t] |-> <<receipt[d], plan[d], evidence[d], recipe[d]>>]' =
          [d \in Subject[t] |-> <<receipt[d], plan[d], evidence[d], recipe[d]>>]
    BY DEF Tracked
  <2>2. <<receipt'[c], plan'[c], evidence'[c], recipe'[c]>> =
          <<receipt[c], plan[c], evidence[c], recipe[c]>>
    BY <2>1
  <2> QED
    BY <2>2
<1>3. Declared' = Declared
  BY <1>1 DEF Declared
<1>4. Seen(Subject[t])' = Seen(Subject[t])
  BY <1>1, <1>2 DEF Seen
<1>5. Current(t)' = Current(t)
  BY <1>2, <1>4 DEF Current
<1>6. \A c \in Subject[t] : Verifies(c)' <=> Verifies(c)
  BY <1>1, <1>2, <1>3 DEF Verifies, Holds, EvidenceHolds
<1> QED
  BY <1>2, <1>4, <1>5, <1>6

\* What has been hashed without a change is what is there.
LEMMA HashedCurrent ==
    ASSUME TestTypeInv, NEW t \in Tests, Hashed(t), Watched(t)
    PROVE  Snapshot(t) = Current(t)
<1>1. work[t].files \in [Subject[t] -> Bytes \cup {None}]
  BY DEF TestTypeInv, TestOK, Hashed, Contents
<1>2. \A c \in Subject[t] : work[t].files[c] = evidence[c]
  BY DEF Watched, Hashed
<1>3. work[t].files = [c \in Subject[t] |-> evidence[c]]
  BY <1>1, <1>2
<1> QED
  BY <1>3 DEF Snapshot, Current, Watched, Hashed

\* The commands about a test keep what it has seen.
LEMMA CommandWatched ==
    ASSUME SolutionInv, TestTypeInv, UNCHANGED vars, NEW t \in Tests, ProofCommand(t), Watched(t)
    PROVE  Watched(t)'
<1>0. Tables /\ TestOK(t) /\ Subject[t] \in SUBSET Caps
  BY TestAssumption DEF TestTypeInv
<1>1. /\ Seen(Subject[t])' = Seen(Subject[t]) /\ Current(t)' = Current(t)
      /\ \A c \in Subject[t] : evidence'[c] = evidence[c] /\ (Verifies(c)' <=> Verifies(c))
  <2>1. Tracked(t)' = Tracked(t)
    BY DEF Tracked, vars, projectVars
  <2> QED
    BY <2>1, TrackedDecides
<1>2. ASSUME NEW w, Proceed(t, "subject", w), UNCHANGED challenges,
             \A c \in Subject[t] \ w.todo : Verifies(c)
      PROVE  Watched(t)'
  <2>1. phase'[t] = "subject" /\ work'[t] = w
    BY <1>0, <1>2 DEF Proceed, Tables
  <2> QED
    BY <1>1, <1>2, <2>1 DEF Watched
<1>3. ASSUME NEW w, Proceed(t, "files", w), UNCHANGED challenges,
             w.seen = Seen(Subject[t]), \A c \in Subject[t] : Verifies(c),
             \A c \in Subject[t] \ w.todo : w.files[c] = evidence[c]
      PROVE  Watched(t)'
  <2>1. phase'[t] = "files" /\ work'[t] = w
    BY <1>0, <1>3 DEF Proceed, Tables
  <2> QED
    BY <1>1, <1>3, <2>1 DEF Watched
<1>4. ASSUME Done(t), challenges'[t] = challenges[t] \/ challenges'[t].snapshot = Current(t),
             challenges'[t] # None => \A c \in Subject[t] : Verifies(c)
      PROVE  Watched(t)'
  <2>1. phase'[t] = "idle"
    BY <1>0, <1>4 DEF Done, Proceed, Tables
  <2> QED
    BY <1>1, <1>4, <2>1 DEF Watched
<1>5. Done(t) /\ UNCHANGED challenges => Watched(t)'
  BY <1>4 DEF Watched
<1>6. UNCHANGED <<challenges, phase, work>> => Watched(t)'
  BY <1>1 DEF Watched
<1>a. CASE TestBegin(t) \/ VerifyBegin(t)
  <2> DEFINE w == [since |-> now, todo |-> Subject[t], seen |-> None, files |-> None]
  <2>1. /\ UNCHANGED challenges
        /\ UNCHANGED <<phase, work>> \/ Proceed(t, "subject", w)
    BY <1>a DEF TestBegin, VerifyBegin
  <2>2. w.todo = Subject[t]
    OBVIOUS
  <2> HIDE DEF w
  <2> QED
    BY <1>2, <1>6, <2>1, <2>2
<1>b. CASE VerifySubject(t)
  <2>1. phase[t] = "subject" /\ work[t].todo # {} /\ work[t] \in WorkOf(t) /\ UNCHANGED challenges
    BY <1>0, <1>b DEF VerifySubject, TestOK
  <2>2. work[t].todo \in SUBSET Subject[t]
    BY <2>1 DEF WorkOf
  <2>3. PICK c \in Subject[t] : c = First(work[t].todo)
    BY <1>0, <2>1, <2>2, FirstIsMember
  <2> DEFINE w == [work[t] EXCEPT !.todo = work[t].todo \ {c}]
  <2>4. (Verifies(c) /\ Proceed(t, "subject", w)) \/ Done(t)
    BY <1>b, <2>1, <2>3 DEF VerifySubject, Fail, WorkOf
  <2>5. w.todo = work[t].todo \ {c}
    BY <2>1 DEF WorkOf
  <2> HIDE DEF w
  <2>6. Verifies(c) => \A d \in Subject[t] \ w.todo : Verifies(d)
    BY <2>1, <2>5 DEF Watched
  <2> QED
    BY <1>2, <1>5, <2>1, <2>4, <2>6
<1>c. CASE HashState(t)
  <2> DEFINE w == [work[t] EXCEPT !.todo = Subject[t], !.seen = Seen(Subject[t]),
                                  !.files = [c \in Subject[t] |-> None]]
  <2>1. /\ phase[t] = "subject" /\ work[t].todo = {} /\ work[t] \in WorkOf(t)
        /\ UNCHANGED challenges /\ Proceed(t, "files", w)
    BY <1>0, <1>c DEF HashState, TestOK
  <2>2. w.todo = Subject[t] /\ w.seen = Seen(Subject[t])
    BY <2>1 DEF WorkOf
  <2> HIDE DEF w
  <2>3. \A c \in Subject[t] : Verifies(c)
    BY <2>1 DEF Watched
  <2> QED
    BY <1>3, <2>1, <2>2, <2>3
<1>d. CASE HashFile(t)
  <2>1. /\ phase[t] = "files" /\ work[t].todo # {} /\ work[t] \in WorkOf(t) /\ UNCHANGED challenges
        /\ work[t].files \in [Subject[t] -> Bytes \cup {None}]
    BY <1>0, <1>d DEF HashFile, TestOK, Contents
  <2>2. work[t].todo \in SUBSET Subject[t]
    BY <2>1 DEF WorkOf
  <2>3. PICK c \in Subject[t] : c = First(work[t].todo)
    BY <1>0, <2>1, <2>2, FirstIsMember
  <2> DEFINE files == [work[t].files EXCEPT ![c] = evidence[c]]
             w == [work[t] EXCEPT !.todo = work[t].todo \ {c}, !.files = files]
  <2>4. Proceed(t, "files", w)
    BY <1>d, <2>1, <2>3 DEF HashFile, WorkOf
  <2>5. \A d \in Subject[t] \ (work[t].todo \ {c}) : files[d] = evidence[d]
    BY <2>1, <2>3 DEF Watched
  <2> HIDE DEF files
  <2>6. w.todo = work[t].todo \ {c} /\ w.seen = work[t].seen /\ w.files = files
    BY <2>1 DEF WorkOf
  <2> HIDE DEF w
  <2>7. w.seen = Seen(Subject[t]) /\ \A d \in Subject[t] : Verifies(d)
    BY <2>1, <2>6 DEF Watched
  <2> QED
    BY <1>3, <2>1, <2>4, <2>5, <2>6, <2>7
<1>e. CASE WriteChallenge(t)
  <2>1. /\ Hashed(t) /\ Done(t)
        /\ challenges' = [challenges EXCEPT ![t] =
                            [snapshot |-> Snapshot(t), expires |-> work[t].since + Lifetime]]
    BY <1>e DEF WriteChallenge
  <2>2. challenges'[t].snapshot = Current(t)
    BY <1>0, <2>1, HashedCurrent DEF Tables
  <2>3. \A c \in Subject[t] : Verifies(c)
    BY <2>1 DEF Hashed, Watched
  <2> QED
    BY <1>4, <2>1, <2>2, <2>3
<1>f. CASE Run(t) \/ Attest(t)
  BY <1>6, <1>f DEF Run, Attest
<1>g. CASE Trust(t)
  BY <1>5, <1>g DEF Trust
<1> QED
  BY <1>a, <1>b, <1>c, <1>d, <1>e, <1>f, <1>g DEF ProofCommand

\* A run compares what is there with what was hashed.
LEMMA CommandCompared ==
    ASSUME TestTypeInv, UNCHANGED vars, NEW t \in Tests, ProofCommand(t),
           t \notin disturbed => Watched(t), Compared(t)
    PROVE  Compared(t)'
<1>0. Tables /\ TestOK(t)
  BY DEF TestTypeInv
<1>1. UNCHANGED <<challenges, runs>> => Compared(t)'
  BY DEF Compared
<1>2. CASE WriteChallenge(t)
  BY <1>0, <1>2 DEF WriteChallenge, TestOK, Compared
<1>3. CASE Run(t)
  <2>1. /\ challenges[t] # None /\ UNCHANGED challenges
        /\ runs'[t] = [tested |-> [c \in Subject[t] |-> evidence[c]],
                       completed |-> now, quiet |-> t \notin disturbed]
    BY <1>0, <1>3 DEF Run, Tables
  <2>2. t \notin disturbed => challenges[t].snapshot.files = [c \in Subject[t] |-> evidence[c]]
    BY <2>1 DEF Watched, Current
  <2>3. /\ runs'[t].tested = [c \in Subject[t] |-> evidence[c]]
        /\ runs'[t].quiet = (t \notin disturbed)
    BY <2>1
  <2>4. runs'[t].quiet => t \notin disturbed
    BY <2>3
  <2>5. runs'[t].quiet => challenges'[t].snapshot.files = runs'[t].tested
    BY <2>1, <2>2, <2>3, <2>4
  <2> QED
    BY <2>5 DEF Compared
<1>4. CASE TestBegin(t) \/ VerifyBegin(t) \/ VerifySubject(t) \/ HashState(t) \/ HashFile(t)
             \/ Attest(t) \/ Trust(t)
  BY <1>1, <1>4 DEF TestBegin, VerifyBegin, VerifySubject, HashState, HashFile, Attest, Trust
<1> QED
  BY <1>2, <1>3, <1>4 DEF ProofCommand

\* Initially no test has seen anything.
LEMMA InitWatchInv == ProofInit => WatchInv
BY DEF ProofInit, WatchInv, Watched, Compared

\* Every step keeps what the tests have seen, or is remembered.
LEMMA NextWatchInv == SolutionInv /\ TestTypeInv /\ WatchInv /\ [ProofNext]_allVars => WatchInv'
<1> SUFFICES ASSUME SolutionInv, TestTypeInv, WatchInv, [ProofNext]_allVars, NEW t \in Tests
             PROVE  (t \notin disturbed' => Watched(t)') /\ Compared(t)'
  BY DEF WatchInv
<1>0. (t \notin disturbed => Watched(t)) /\ Compared(t)
  BY DEF WatchInv
<1>1. CASE UNCHANGED allVars
  <2>1. Tracked(t)' = Tracked(t) /\ Same(t)
    BY <1>1 DEF allVars, vars, projectVars, proofVars, Tracked, Same
  <2> QED
    BY <1>0, <1>1, <2>1, TrackedDecides DEF allVars, proofVars, Watched, Compared, Same
<1>2. ASSUME ProofNext, NEW u \in site.tests, ProofCommand(u), u = t, UNCHANGED vars
      PROVE  (t \notin disturbed' => Watched(t)') /\ Compared(t)'
  <2>1. Compared(t)'
    BY <1>0, <1>2, CommandCompared
  <2>2. CASE Watched(t)
    BY <1>2, <2>1, <2>2, CommandWatched
  <2>3. CASE ~Watched(t)
    <3>1. t \in disturbed /\ Open(t)
      BY <1>0, <2>3 DEF Watched, Open
    <3>2. Open(t)' => t \in disturbed'
      BY <1>2, <3>1 DEF ProofNext, RememberProofs
    <3>3. ~Open(t)' => Watched(t)'
      BY DEF Open, Watched
    <3> QED
      BY <2>1, <3>2, <3>3
  <2> QED
    BY <2>2, <2>3
<1>3. ASSUME ProofNext, Same(t)
      PROVE  (t \notin disturbed' => Watched(t)') /\ Compared(t)'
  <2>1. Compared(t)'
    BY <1>0, <1>3 DEF Compared, Same
  <2>2. CASE ~Open(t)'
    BY <2>1, <2>2 DEF Open, Watched
  <2>3. CASE Open(t)' /\ t \notin disturbed'
    <3>1. Open(t)
      BY <1>3, <2>3 DEF Open, Same
    <3>2. t \notin disturbed /\ Tracked(t)' = Tracked(t)
      BY <1>3, <2>3, <3>1 DEF ProofNext, RememberProofs
    <3> QED
      BY <1>0, <1>3, <2>1, <3>2, TrackedDecides DEF Watched, Same
  <2> QED
    BY <2>1, <2>2, <2>3
<1>4. CASE ProofNext
  <2>1. CASE UNCHANGED <<challenges, runs, proofs, phase, work, verdict>>
    BY <1>3, <1>4, <2>1 DEF Same
  <2>2. CASE ~(UNCHANGED <<challenges, runs, proofs, phase, work, verdict>>)
    <3>1. PICK u \in site.tests : UNCHANGED vars /\ ProofCommand(u)
      BY <1>4, <2>2 DEF ProofNext, Tick, Revoke
    <3>2. CASE u = t
      BY <1>2, <1>4, <3>1, <3>2
    <3>3. CASE u # t
      <4>1. u \in Tests
        BY TestAssumption DEF SolutionInv, TypeOK
      <4>2. Same(t)
        BY <3>1, <3>3, <4>1, OthersWait DEF TestTypeInv
      <4> QED
        BY <1>3, <1>4, <4>2
    <3> QED
      BY <3>2, <3>3
  <2> QED
    BY <2>1, <2>2
<1> QED
  BY <1>1, <1>4

\* What every step of the tests keeps.
ProofInv == SolutionInv /\ TestTypeInv /\ WatchInv

\* The conjuncts are kept together.
LEMMA ProofInvariance == ProofSpec => []ProofInv
<1>1. ProofInit => ProofInv
  BY InitSolutionInv, InitTestType, InitWatchInv DEF ProofInit, ProofInv
<1>2. [ProofNext]_allVars => [Next]_vars
  BY DEF ProofNext, allVars
<1>3. ProofInv /\ [ProofNext]_allVars => ProofInv'
  BY <1>2, NextSolutionInv, NextTestType, NextWatchInv DEF ProofInv
<1> QED
  BY <1>1, <1>3, PTL DEF ProofSpec

-----------------------------------------------------------------------------
\* The steps that conclude a verification.
LEMMA Concluding ==
    ASSUME TestTypeInv, ProofNext, NEW t \in Tests, verdict'[t] # verdict[t]
    PROVE  UNCHANGED vars /\ ProofCommand(t) /\ (VerifyBegin(t) \/ VerifySubject(t) \/ Trust(t))
<1>1. ~(UNCHANGED verdict)
  OBVIOUS
<1>2. PICK u \in site.tests : UNCHANGED vars /\ ProofCommand(u)
  BY <1>1 DEF ProofNext, Tick, Revoke
<1>3. VerifyBegin(u) \/ VerifySubject(u) \/ Trust(u)
  BY <1>1, <1>2 DEF ProofCommand, TestBegin, HashState, HashFile, WriteChallenge, Run, Attest
<1>4. \A v : Conclude(u, v) => verdict' = [verdict EXCEPT ![u] = v]
  BY DEF Conclude
<1>5. \E v : verdict' = [verdict EXCEPT ![u] = v]
  BY <1>1, <1>3, <1>4 DEF VerifyBegin, VerifySubject, Fail, Trust
<1>6. u = t
  BY <1>5 DEF TestTypeInv, Tables
<1> QED
  BY <1>2, <1>3, <1>6

\* A proof that is accepted, and whose run saw no change since the challenge,
\* stands for the bytes its runner tested (createBehaviorProof and
\* verifyBehaviorProof of behavior.ts).
THEOREM TrustedProofsStandForTestedBytes == ProofSpec => TrustedBytesWereTested
<1>1. ProofInv /\ [ProofNext]_allVars =>
        [\A t \in Tests :
           verdict[t] # "trusted" /\ verdict'[t] = "trusted" /\ runs[t].quiet
             => work[t].files = runs[t].tested]_allVars
  <2> SUFFICES ASSUME ProofInv, ProofNext, NEW t \in Tests, verdict[t] # "trusted",
                      verdict'[t] = "trusted", runs[t].quiet
               PROVE  work[t].files = runs[t].tested
    OBVIOUS
  <2>1. /\ TestTypeInv /\ TestOK(t) /\ verdict \in [Tests -> {"none", "trusted", "refused"}]
        /\ Compared(t)
    BY DEF ProofInv, TestTypeInv, Tables, WatchInv
  <2>2. VerifyBegin(t) \/ VerifySubject(t) \/ Trust(t)
    BY <2>1, Concluding
  <2>3. \A v : Conclude(t, v) => verdict'[t] = v
    BY <2>1 DEF Conclude
  <2>4. Trust(t)
    BY <2>2, <2>3 DEF VerifyBegin, VerifySubject, Fail
  <2>5. proofs[t] /\ Snapshot(t) = challenges[t].snapshot
    BY <2>3, <2>4 DEF Trust
  <2>6. challenges[t].snapshot.files = runs[t].tested
    BY <2>1, <2>5 DEF TestOK, Compared
  <2> QED
    BY <2>5, <2>6 DEF Snapshot
<1> QED
  BY <1>1, ProofInvariance, PTL DEF ProofSpec, TrustedBytesWereTested

\* A proof is refused for a reason only: work on the rest of the solution
\* leaves it valid.
THEOREM RefusalsHaveReasons == ProofSpec => UndisturbedProofsAreTrusted
<1>1. ProofInv /\ [ProofNext]_allVars =>
        [\A t \in Tests : verdict[t] # "refused" /\ verdict'[t] = "refused" =>
           t \in disturbed \/ now > challenges[t].expires \/ Revoked(t)]_allVars
  <2> SUFFICES ASSUME ProofInv, ProofNext, NEW t \in Tests, verdict[t] # "refused",
                      verdict'[t] = "refused", t \notin disturbed, ~(now > challenges[t].expires)
               PROVE  Revoked(t)
    OBVIOUS
  <2>1. /\ TestTypeInv /\ TestOK(t) /\ verdict \in [Tests -> {"none", "trusted", "refused"}]
        /\ Watched(t) /\ Subject[t] \in SUBSET Caps
    BY TestAssumption DEF ProofInv, TestTypeInv, Tables, WatchInv
  <2>2. VerifyBegin(t) \/ VerifySubject(t) \/ Trust(t)
    BY <2>1, Concluding
  <2>3. \A v : Conclude(t, v) => verdict'[t] = v
    BY <2>1 DEF Conclude
  <2>4. ~VerifyBegin(t)
    BY <2>3 DEF VerifyBegin
  <2>5. proofs[t] => \A c \in Subject[t] : Verifies(c)
    BY <2>1 DEF TestOK, Watched
  <2>6. CASE VerifySubject(t)
    <3>1. phase[t] = "subject" /\ work[t].todo # {} /\ work[t].todo \in SUBSET Subject[t]
      BY <2>1, <2>6 DEF VerifySubject, TestOK, WorkOf
    <3>2. First(work[t].todo) \in Subject[t]
      BY <2>1, <3>1, FirstIsMember
    <3>3. proofs[t] /\ ~Verifies(First(work[t].todo))
      BY <2>3, <2>6 DEF VerifySubject, Fail
    <3> QED
      BY <2>5, <3>2, <3>3
  <2>7. CASE Trust(t)
    <3>1. Hashed(t) /\ proofs[t] /\ (Snapshot(t) # challenges[t].snapshot \/ Revoked(t))
      BY <2>3, <2>7 DEF Trust
    <3>2. challenges[t].snapshot = Current(t)
      BY <2>1, <3>1 DEF TestOK, Watched
    <3> QED
      BY <2>1, <3>1, <3>2, HashedCurrent
  <2> QED
    BY <2>2, <2>4, <2>6, <2>7
<1> QED
  BY <1>1, ProofInvariance, PTL DEF ProofSpec, UndisturbedProofsAreTrusted

=============================================================================
