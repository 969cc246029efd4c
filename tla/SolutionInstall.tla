---------------------------- MODULE SolutionInstall ----------------------------
(***************************************************************************)
(* "aiba status", "aiba continue [--finalize]", "aiba doctor" and "aiba    *)
(* add" over one project (packages/core/src/solution-install.ts,           *)
(* solution.ts, workflow.ts).  The commands keep no state of their own:    *)
(* each derives where the solution stands from the manifest it loads, and  *)
(* verifies the constituents one after another while an agent, an editor   *)
(* and other commands go on.                                               *)
(*                                                                         *)
(* The manifest and the lock are one value here, and finalizeCapability    *)
(* writes them in one step: CapabilityState models the files, and what     *)
(* becomes of finalizations that overlap, so at most one terminal          *)
(* finalizes.  Capability manifests stay as the solution pins them,        *)
(* recipes do not: the solution does not pin them.                         *)
(***************************************************************************)
EXTENDS Naturals, FiniteSets, Sequences

CONSTANTS
    Commands,   \* terminals, each of which runs one command after another
    Order,      \* the constituents, in the order of the solution
    Needs,      \* [constituent -> the constituents it depends on]
    Bytes,      \* what the evidence files of a constituent can hold
    Written,    \* what the agent first writes to them
    MaxRecipe,  \* recipes of a pack are numbered 1..MaxRecipe
    Sites,      \* what each terminal does, which of them follow the advice of
                \* status, how many edits there are, whose recipes are updated
    None

Caps == {Order[i] : i \in DOMAIN Order}
Recipes == 1..MaxRecipe
Advancing == {"status", "continue", "finalize"}
Adding == {"add", "add-finalize"}
Modes == Advancing \cup Adding \cup {"doctor"}
Finalizing == {"finalize", "add-finalize"}

\* resolveSolution: every constituent once, after those it depends on.
InDependencyOrder ==
    /\ Cardinality(Caps) = Len(Order)
    /\ \A i \in DOMAIN Order : Needs[Order[i]] \subseteq {Order[j] : j \in 1..(i - 1)}

ASSUME SolutionAssumption ==
    /\ Order \in Seq(Caps) /\ InDependencyOrder
    /\ MaxRecipe \in Nat \ {0} /\ Written \subseteq Bytes /\ None \notin Recipes \cup Bytes
    /\ \A s \in Sites :
         /\ s.does \in [Commands -> SUBSET Modes] /\ s.guided \subseteq Commands
         /\ s.edits \in Nat /\ s.updates \subseteq Caps
         /\ \A p, q \in Commands :
              s.does[p] \cap Finalizing # {} /\ s.does[q] \cap Finalizing # {} => p = q

VARIABLES
    site,       \* who works on the project, never changed
    installed,  \* manifest and lock: [Caps -> the recipe locked, or None]
    receipt,    \* [Caps -> the bytes and the plan it was accepted with, or None]
    plan,       \* [Caps -> the operation plan, or None]
    evidence,   \* [Caps -> the bytes of its evidence files, or None]
    recipe,     \* [Caps -> the recipe its pack holds]
    pc,         \* the next step of each terminal's command
    job,        \* what that command holds in memory
    answer,     \* what each terminal's last command answered
    stuck,      \* history: the constituents declared and never whole since a
                \* terminal's command began or, if that is later, recorded
    edits       \* edits so far

projectVars == <<installed, receipt, plan, evidence, recipe>>
vars == <<site, projectVars, pc, job, answer, stuck, edits>>

Plans == [recipe : Recipes, filled : BOOLEAN]
Receipts == [bytes : Bytes, plan : Plans]
Declared == {c \in Caps : installed[c] # None}

\* Mutant: the last one.
Last(S) == Order[CHOOSE i \in DOMAIN Order :
                   Order[i] \in S /\ \A j \in i + 1..Len(Order) : Order[j] \notin S]

\* The first constituent of S.
First(S) == Order[CHOOSE i \in DOMAIN Order :
                    Order[i] \in S /\ \A j \in 1..(i - 1) : Order[j] \notin S]

\* verifyReceiptEvidence: what the receipt hashed is still there.
EvidenceHolds(c, r) == evidence[c] = r.bytes

\* verifyCapability: the recipe is the locked one, the dependencies are
\* declared, plan and evidence are what the receipt hashed.
Holds(c, declared, locked, r) ==
    /\ recipe[c] = locked
    /\ Needs[c] \subseteq declared
    /\ plan[c] = r.plan
    /\ EvidenceHolds(c, r)
Verifies(c) == c \in Declared /\ Holds(c, Declared, installed[c], receipt[c])

\* assertPlanMatchesSources
PlanMatches(c) == plan[c] # None /\ plan[c].recipe = recipe[c]

Init ==
    /\ site \in Sites
    /\ installed = [c \in Caps |-> None]
    /\ receipt = [c \in Caps |-> None]
    /\ plan = [c \in Caps |-> None]
    /\ evidence = [c \in Caps |-> None]
    /\ recipe = [c \in Caps |-> 1]
    /\ pc = [p \in Commands |-> "idle"]
    /\ job = [p \in Commands |-> None]
    /\ answer = [p \in Commands |-> "none"]
    /\ stuck = [p \in Commands |-> {}]
    /\ edits = 0

Goto(p, label, j) ==
    /\ pc' = [pc EXCEPT ![p] = label]
    /\ job' = [job EXCEPT ![p] = j]
    /\ UNCHANGED answer
Ends(p, status) ==
    /\ pc' = [pc EXCEPT ![p] = "idle"]
    /\ job' = [job EXCEPT ![p] = None]
    /\ answer' = [answer EXCEPT ![p] = status]
Stops(p) == Ends(p, "stopped")

Task(mode, todo) ==
    [mode |-> mode, loaded |-> Declared, todo |-> todo, current |-> None, held |-> None]

-----------------------------------------------------------------------------
\* nextAction of the last status.
Advice(status) ==
    CASE status = "ready-to-prepare" -> "continue"
      [] status = "awaiting-agent" -> "finalize"
      [] status = "complete" -> "none"
      [] OTHER -> "status"

Starts(p, mode, label, j) ==
    /\ pc[p] = "idle" /\ mode \in site.does[p]
    /\ p \in site.guided => mode = Advice(answer[p])
    /\ pc' = [pc EXCEPT ![p] = label]
    /\ job' = [job EXCEPT ![p] = j]
    /\ answer' = [answer EXCEPT ![p] = "none"]
    /\ UNCHANGED projectVars

\* solutionStatus and advanceSolutionInstallation load the manifest once.
Begin(p, mode) ==
    mode \in Advancing /\ Starts(p, mode, "verify", Task(mode, Declared))

\* "aiba add" goes to its constituent straight away.
Add(p, c, mode) ==
    /\ mode \in Adding
    /\ Starts(p, mode, IF mode = "add" THEN "prepare" ELSE "finalize",
              [Task(mode, {}) EXCEPT !.current = c])

\* doctorProject: verifyProject for everything the manifest declares.
DoctorBegin(p) == Starts(p, "doctor", "doctor", Task("doctor", Declared))

\* Mutant: one constituent that depends on the others is verified for all.
VerifyLatest(p) ==
    /\ pc[p] = "verify" /\ job[p].todo # {}
    /\ IF Verifies(Last(job[p].todo)) THEN Goto(p, "verify", [job[p] EXCEPT !.todo = {}])
         ELSE Stops(p)
    /\ UNCHANGED projectVars

\* SOLUTION_INSTALLED_CAPABILITY_INVALID at the first that does not verify.
VerifyInstalled(p) ==
    /\ pc[p] = "verify" /\ job[p].todo # {}
    /\ LET c == First(job[p].todo) IN
         IF Verifies(c) THEN Goto(p, "verify", [job[p] EXCEPT !.todo = @ \ {c}]) ELSE Stops(p)
    /\ UNCHANGED projectVars

\* The first constituent missing from the manifest that was loaded is the
\* current one; the rest of the command depends on its mode.
Chosen(p) == First(Caps \ job[p].loaded)
Chooses(p, modes) ==
    pc[p] = "verify" /\ job[p].todo = {} /\ job[p].loaded # Caps /\ job[p].mode \in modes
GoOn(p, label) == Goto(p, label, [job[p] EXCEPT !.current = Chosen(p)])

\* A pending plan is validated; without one status only says so.
LookForPlan(p) ==
    /\ Chooses(p, {"status", "continue"})
    /\ \/ plan[Chosen(p)] # None /\ GoOn(p, "validate")
       \/ plan[Chosen(p)] = None /\ job[p].mode = "continue" /\ GoOn(p, "prepare")
       \/ plan[Chosen(p)] = None /\ job[p].mode = "status" /\ Ends(p, "ready-to-prepare")
    /\ UNCHANGED projectVars

ChooseFinalize(p) == Chooses(p, {"finalize"}) /\ GoOn(p, "finalize") /\ UNCHANGED projectVars

\* Every constituent is there: checkSolution.
AllInstalled(p) ==
    /\ pc[p] = "verify" /\ job[p].todo = {} /\ job[p].loaded = Caps
    /\ Goto(p, "check-load", job[p])
    /\ UNCHANGED projectVars

-----------------------------------------------------------------------------
\* Mutant: a capability that is installed is accepted again.
EligibleAgain(c) == Needs[c] \subseteq Declared

\* assertNotInstalled and assertDependenciesInstalled, on a manifest loaded now.
Eligible(c) == c \notin Declared /\ Needs[c] \subseteq Declared

\* validateCapabilityPlan
Validate(p) ==
    /\ pc[p] = "validate"
    /\ IF Eligible(job[p].current) /\ PlanMatches(job[p].current)
         THEN Ends(p, IF job[p].mode = "status" THEN "awaiting-agent"
                        ELSE "awaiting-finalization")
         ELSE Stops(p)
    /\ UNCHANGED projectVars

\* prepareCapability, up to the plan it is going to write.
Prepare(p) ==
    /\ pc[p] = "prepare"
    /\ LET c == job[p].current IN
         IF Eligible(c)
           THEN Goto(p, "create", [job[p] EXCEPT !.held = [recipe |-> recipe[c], filled |-> FALSE]])
           ELSE Stops(p)
    /\ UNCHANGED projectVars

\* Mutant: a plan written in the meantime is replaced.
CreateReplacing(p) ==
    /\ pc[p] = "create"
    /\ plan' = [plan EXCEPT ![job[p].current] = job[p].held]
    /\ Ends(p, "prepared")
    /\ UNCHANGED <<installed, receipt, evidence, recipe>>

\* OPERATION_PLAN_EXISTS when there is a plan by now.
Create(p) ==
    /\ pc[p] = "create"
    /\ IF plan[job[p].current] = None
         THEN /\ plan' = [plan EXCEPT ![job[p].current] = job[p].held]
              /\ Ends(p, "prepared")
         ELSE Stops(p) /\ UNCHANGED plan
    /\ UNCHANGED <<installed, receipt, evidence, recipe>>

\* finalizeCapability loads the manifest with the lock, and the plan.
Finalize(p) ==
    /\ pc[p] = "finalize"
    /\ LET c == job[p].current IN
         IF Eligible(c) /\ plan[c] # None
           THEN Goto(p, "match", [job[p] EXCEPT !.held =
                                    [installed |-> installed, plan |-> plan[c]]])
           ELSE Stops(p)
    /\ UNCHANGED projectVars

\* The recipe that was matched is the one that will be locked.
Locks(p) ==
    LET c == job[p].current IN
      Goto(p, "hash", [job[p] EXCEPT !.held.installed[c] = recipe[c]])

\* Mutant: the plan may be of another recipe.
MatchAnyPlan(p) == pc[p] = "match" /\ Locks(p) /\ UNCHANGED projectVars

\* assertPlanMatchesSources: the plan that was loaded against the recipe as it
\* is now.
MatchPlan(p) ==
    /\ pc[p] = "match"
    /\ IF job[p].held.plan.recipe = recipe[job[p].current] THEN Locks(p) ELSE Stops(p)
    /\ UNCHANGED projectVars

\* What the receipt will hold: the evidence, and the plan, hashed again.
Hashes(p) ==
    LET c == job[p].current IN
      Goto(p, "record", [job[p] EXCEPT !.held =
                           [installed |-> job[p].held.installed,
                            receipt |-> [bytes |-> evidence[c], plan |-> plan[c]]]])

\* Mutant: a plan without evidence will do.
HashUnfinished(p) == pc[p] = "hash" /\ Hashes(p) /\ UNCHANGED projectVars

\* createCapabilityReceipt: the plan that was loaded lists the evidence, and the
\* plan file is still there.
HashReceipt(p) ==
    /\ pc[p] = "hash"
    /\ IF job[p].held.plan.filled /\ plan[job[p].current] # None THEN Hashes(p) ELSE Stops(p)
    /\ UNCHANGED projectVars

\* remainingCapabilities, from the manifest loaded first.
Recorded(p) ==
    IF job[p].mode = "finalize" /\ job[p].loaded \cup {job[p].current} = Caps
      THEN Goto(p, "check-load", [job[p] EXCEPT !.held = None])
      ELSE Ends(p, IF job[p].mode = "finalize" THEN "finalized" ELSE "added")

\* writeCapabilityState: what does not verify after it was written is rolled back.
Record(p) ==
    /\ pc[p] = "record"
    /\ LET c == job[p].current  h == job[p].held
           declared == {d \in Caps : h.installed[d] # None}
       IN IF Holds(c, declared, h.installed[c], h.receipt)
            THEN /\ installed' = h.installed
                 /\ receipt' = [receipt EXCEPT ![c] = h.receipt]
                 /\ Recorded(p)
            ELSE Stops(p) /\ UNCHANGED <<installed, receipt>>
    /\ UNCHANGED <<plan, evidence, recipe>>

-----------------------------------------------------------------------------
\* Mutant: what the command verified first is not verified again.
CheckInstalled(p) ==
    /\ pc[p] = "check-load"
    /\ IF Declared = Caps THEN Goto(p, "check", [job[p] EXCEPT !.todo = {}]) ELSE Stops(p)
    /\ UNCHANGED projectVars

\* checkSolution loads the manifest again.
CheckLoad(p) ==
    /\ pc[p] = "check-load"
    /\ IF Declared = Caps THEN Goto(p, "check", [job[p] EXCEPT !.todo = Caps]) ELSE Stops(p)
    /\ UNCHANGED projectVars

\* The constituents are verified one after another.
Check(p) ==
    /\ pc[p] = "check"
    /\ LET c == First(job[p].todo) IN
       \/ /\ job[p].todo # {} /\ Verifies(c)
          /\ Goto(p, "check", [job[p] EXCEPT !.todo = @ \ {c}])
       \/ job[p].todo # {} /\ ~Verifies(c) /\ Stops(p)
       \/ /\ job[p].todo = {}
          /\ Ends(p, IF job[p].mode = "status" THEN "complete" ELSE "evidence-verified")
    /\ UNCHANGED projectVars

DoctorVerify(p) ==
    /\ pc[p] = "doctor"
    /\ LET c == First(job[p].todo) IN
       \/ /\ job[p].todo # {} /\ Verifies(c)
          /\ Goto(p, "doctor", [job[p] EXCEPT !.todo = @ \ {c}])
       \/ job[p].todo # {} /\ ~Verifies(c) /\ Ends(p, "unhealthy")
       \/ job[p].todo = {} /\ Ends(p, "healthy")
    /\ UNCHANGED projectVars

GoesOn(p) ==
    \/ VerifyInstalled(p) \/ LookForPlan(p) \/ ChooseFinalize(p) \/ AllInstalled(p)
    \/ Validate(p) \/ Prepare(p) \/ Create(p)
    \/ Finalize(p) \/ MatchPlan(p) \/ HashReceipt(p) \/ Record(p)
    \/ CheckLoad(p) \/ Check(p) \/ DoctorVerify(p)

Command(p) ==
    \/ \E mode \in Advancing : Begin(p, mode)
    \/ \E c \in Caps, mode \in Adding : Add(p, c, mode)
    \/ DoctorBegin(p)
    \/ GoesOn(p)

-----------------------------------------------------------------------------
\* The agent follows a plan: it writes the code and lists it as evidence.
Implement(c, b) ==
    /\ plan[c] # None /\ ~plan[c].filled
    /\ evidence' = [evidence EXCEPT ![c] = b]
    /\ plan' = [plan EXCEPT ![c].filled = TRUE]
    /\ UNCHANGED <<installed, receipt, recipe, edits>>

\* Somebody changes the code a constituent has as evidence.
Edit(c, b) ==
    /\ evidence[c] \notin {None, b} /\ edits < site.edits
    /\ evidence' = [evidence EXCEPT ![c] = b]
    /\ edits' = edits + 1
    /\ UNCHANGED <<installed, receipt, plan, recipe>>

\* Drift that was reported is repaired.
Repair(c) ==
    /\ c \in Declared /\ evidence[c] # receipt[c].bytes
    /\ evidence' = [evidence EXCEPT ![c] = receipt[c].bytes]
    /\ UNCHANGED <<installed, receipt, plan, recipe, edits>>

\* The operator takes another version of a pack's recipe.
UpdateRecipe(c) ==
    /\ c \in site.updates /\ recipe[c] < MaxRecipe
    /\ recipe' = [recipe EXCEPT ![c] = @ + 1]
    /\ UNCHANGED <<installed, receipt, plan, evidence, edits>>

\* A plan that was reported as stale is removed.
Discard(c) ==
    /\ plan[c] # None /\ ~PlanMatches(c) /\ c \notin Declared
    /\ plan' = [plan EXCEPT ![c] = None]
    /\ UNCHANGED <<installed, receipt, evidence, recipe, edits>>

Surroundings ==
    /\ \E c \in Caps : \/ \E b \in Written : Implement(c, b)
                      \/ \E b \in Bytes : Edit(c, b)
                      \/ Repair(c) \/ UpdateRecipe(c) \/ Discard(c)
    /\ UNCHANGED <<pc, job, answer>>

\* The history of the step.
Begins(p) == job[p] = None /\ job'[p] # None
Leaves(p, label) == pc[p] = label /\ pc'[p] # label
Remember ==
    stuck' = [p \in Commands |->
                IF job'[p] = None THEN {}
                  ELSE {c \in Caps : /\ c \in Declared' /\ ~Verifies(c)'
                                     /\ Begins(p) \/ Leaves(p, "record") \/ c \in stuck[p]}]

Next ==
    /\ \/ \E p \in Commands : Command(p) /\ UNCHANGED edits
       \/ Surroundings
    /\ Remember
    /\ UNCHANGED site

Spec == Init /\ [][Next]_vars

-----------------------------------------------------------------------------
By(A) == A /\ Remember /\ UNCHANGED site

\* Somebody does what status advises and lets the commands end, implements the
\* plans, repairs drift and removes stale plans.  Nothing is assumed of the
\* other terminals, of edits or of updates.
Around(A) == By(A /\ UNCHANGED <<pc, job, answer>>)
Fairness ==
    /\ \A p \in Commands : WF_vars(By(p \in site.guided /\ Command(p) /\ UNCHANGED edits))
    /\ WF_vars(Around(\E c \in Caps, b \in Written : Implement(c, b)))
    /\ WF_vars(Around(\E c \in Caps : Repair(c)))
    /\ WF_vars(Around(\E c \in Caps : Discard(c)))

FairSpec == Spec /\ Fairness

-----------------------------------------------------------------------------
Labels == {"idle", "verify", "validate", "prepare", "create", "finalize", "match", "hash",
           "record", "check-load", "check", "doctor"}
Answers == {"none", "stopped", "ready-to-prepare", "awaiting-agent", "complete",
            "prepared", "awaiting-finalization", "finalized", "evidence-verified",
            "added", "healthy", "unhealthy"}
Locked == [Caps -> Recipes \cup {None}]
Held == Plans \cup [installed : Locked, plan : Plans] \cup [installed : Locked, receipt : Receipts]
Tasks == [mode : Modes, loaded : SUBSET Caps, todo : SUBSET Caps,
          current : Caps \cup {None}, held : Held \cup {None}]

ASSUME NoneAssumption == None \notin Tasks /\ None \notin [version : {1}, bytes : Bytes]

\* The type invariant.
TypeOK ==
    /\ site \in Sites
    /\ installed \in [Caps -> Recipes \cup {None}]
    /\ receipt \in [Caps -> Receipts \cup {None}]
    /\ plan \in [Caps -> Plans \cup {None}]
    /\ evidence \in [Caps -> Bytes \cup {None}]
    /\ recipe \in [Caps -> Recipes]
    /\ pc \in [Commands -> Labels]
    /\ job \in [Commands -> Tasks \cup {None}]
    /\ answer \in [Commands -> Answers]
    /\ stuck \in [Commands -> SUBSET Caps]
    /\ edits \in 0..site.edits

\* What a constituent is entered with.
Entered == [c \in Caps |-> IF installed[c] = None THEN None
                             ELSE [version |-> 1, bytes |-> receipt[c].bytes]]

\* The project under its commands is a ledger of capabilities: each enters once,
\* in one step, after everything it depends on, in whatever order "continue" and
\* "add" are mixed and however often a finalization is rolled back.
Ledger == INSTANCE InstalledLedger WITH
    MaxVersion <- 1,
    Requires <- UNION {{[cap |-> c, dep |-> d, versions |-> {1}] : d \in Needs[c]} : c \in Caps},
    installed <- Entered,
    sound <- TRUE
ImplementsLedger == Ledger!LedgerSpec

\* Installed evidence drift blocks preparation and finalization of later steps
\* (docs/rfcs/0015-guided-solution-installation.md:40): a command of the solution
\* changes nothing while some constituent has been broken since it began.
DriftBlocks ==
    [][\A p \in Commands :
         job[p] # None /\ job[p].mode \in Advancing /\ pc'[p] # pc[p] /\ stuck[p] # {}
           => UNCHANGED <<installed, plan>>]_vars

\* An answer other than an error holds of a state the command went through, not
\* of a mixture: no constituent was broken all along, and a solution is complete
\* only if every constituent was whole since the last one was recorded.
Favourable == {"ready-to-prepare", "awaiting-agent", "complete", "prepared",
               "awaiting-finalization", "finalized", "evidence-verified", "healthy"}
AnswersAreTrue ==
    [][\A p \in Commands : job[p] # None /\ answer'[p] \in Favourable
                             /\ job[p].mode \in Advancing \cup {"doctor"} =>
         /\ stuck[p] = {}
         /\ answer'[p] \in {"complete", "evidence-verified"} => Declared = Caps]_vars

\* Repeated commands are safe (docs/rfcs/0018-resumable-solution-workflows.md:19-20):
\* what the agent works from is never replaced, whichever commands overlap.
PlansAreKept ==
    [][\A c \in Caps : plan[c] # None /\ plan'[c] # plan[c] =>
         \/ plan'[c] = [plan[c] EXCEPT !.filled = TRUE]
         \/ plan'[c] = None /\ ~PlanMatches(c)]_vars

\* What is installed was implemented along the recipe that the lock pins, though
\* packs are updated and stale plans replaced between any two steps of a command:
\* finalizeCapability reads the plan, the recipe and the plan again (add.ts:712, 714,
\* 511), and what changed in between is found when the result is verified.
InstalledAsPlanned ==
    \A c \in Declared : receipt[c].plan = [recipe |-> installed[c], filled |-> TRUE]

\* Who only does what status advises completes the solution, whatever the other
\* terminals run, as long as the pack of an installed constituent stays the same.
AdviceCompletes ==
    [](\A c \in Declared : recipe[c] = installed[c]) =>
        \A p \in Commands : p \in site.guided ~> answer[p] = "complete"
=============================================================================
