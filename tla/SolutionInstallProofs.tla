-------------------------- MODULE SolutionInstallProofs --------------------------
(***************************************************************************)
(* Theorems of SolutionInstall for every solution, every number of         *)
(* terminals, and whatever an agent, an editor and an operator do between  *)
(* the steps of their commands.                                            *)
(***************************************************************************)
EXTENDS SolutionInstall, NumberLemmas, TLAPS

\* The first constituent of a set is one of its members.
LEMMA FirstIsMember ==
    ASSUME NEW S \in SUBSET Caps, S # {}
    PROVE  First(S) \in S
<1> DEFINE P == {i \in DOMAIN Order : Order[i] \in S}
<1>1. DOMAIN Order = 1..Len(Order) /\ Len(Order) \in Nat
  BY SolutionAssumption
<1>2. P \in SUBSET Nat /\ P # {}
  BY <1>1 DEF Caps
<1>3. PICK i \in P : \A j \in P : i <= j
  BY <1>2, NatLeast
<1>4. \A j \in 1..(i - 1) : Order[j] \notin S
  BY <1>1, <1>3
<1>5. \E k \in DOMAIN Order : Order[k] \in S /\ \A j \in 1..(k - 1) : Order[j] \notin S
  BY <1>3, <1>4
<1> QED
  BY <1>5 DEF First

-----------------------------------------------------------------------------
(***************************************************************************)
(* Types.  What a command holds in memory depends on its next step, and    *)
(* what it is going to record was decided while the ledger was as it is:   *)
(* only one terminal finalizes.                                            *)
(***************************************************************************)
Loads == [installed : Locked, plan : Plans]
Records == [installed : Locked, receipt : Receipts]
Deciding == {"match", "hash", "record"}

Fits(p, label, j) ==
    /\ label \in Labels
    /\ label = "idle" => j = None
    /\ label # "idle" => j \in Tasks /\ j.mode \in site.does[p]
    /\ label \in {"validate", "prepare", "create", "finalize"} \cup Deciding => j.current \in Caps
    /\ label = "create" => j.held \in Plans /\ ~j.held.filled
    /\ label \in {"finalize"} \cup Deciding => j.mode \in Finalizing
    /\ label \in {"match", "hash"} => j.held \in Loads
    /\ label = "record" => j.held \in Records

Fitting ==
    /\ pc \in [Commands -> Labels] /\ job \in [Commands -> Tasks \cup {None}]
    /\ \A p \in Commands : Fits(p, pc[p], job[p])

\* A plan is filled in with the evidence, and a receipt goes with the lock.
Backed ==
    /\ \A c \in Caps : plan[c] # None /\ plan[c].filled => evidence[c] \in Bytes
    /\ \A c \in Declared : receipt[c] \in Receipts

\* No plan is of a later recipe than its pack has.
Aged ==
    /\ \A c \in Caps : plan[c] # None => plan[c].recipe <= recipe[c]
    /\ \A p \in Commands : pc[p] = "create" => job[p].held.recipe <= recipe[job[p].current]

\* A plan that was loaded and finished is still there, unless the pack has a later
\* recipe by now; its evidence is there in any case.
Stays(c, p) ==
    /\ p # None /\ p.recipe <= recipe[c]
    /\ recipe[c] = p.recipe /\ p.filled => plan[c] = p
    /\ p.filled => evidence[c] \in Bytes

\* The plan in a receipt is that of the recipe to lock, unless the pack has a
\* later one by now.
Pins(c, r, p) ==
    /\ r \in Recipes /\ r <= recipe[c]
    /\ recipe[c] = r => p = [recipe |-> r, filled |-> TRUE]

\* What a finalization has decided still stands: nobody else changes the ledger.
Stands(label, c, h) ==
    /\ Eligible(c)
    /\ label = "match" => h.installed = installed /\ Stays(c, h.plan)
    /\ label = "hash" => /\ h.installed = [installed EXCEPT ![c] = h.plan.recipe]
                         /\ Stays(c, h.plan)
    /\ label = "record" => /\ h.installed = [installed EXCEPT ![c] = h.installed[c]]
                           /\ Pins(c, h.installed[c], h.receipt.plan)
Holding == \A p \in Commands : pc[p] \in Deciding => Stands(pc[p], job[p].current, job[p].held)

SolutionInv == TypeOK /\ Fitting /\ Backed /\ Aged /\ Holding /\ InstalledAsPlanned

\* Initially no command runs and nothing is installed.
LEMMA InitSolutionInv == Init => SolutionInv
<1> SUFFICES ASSUME Init PROVE SolutionInv
  OBVIOUS
<1>1. /\ pc = [p \in Commands |-> "idle"] /\ job = [p \in Commands |-> None]
      /\ installed = [c \in Caps |-> None] /\ plan = [c \in Caps |-> None]
      /\ site \in Sites
  BY DEF Init
<1>2. Declared = {}
  BY <1>1 DEF Declared
<1>3. 1 \in Recipes /\ 0 \in 0..site.edits
  BY <1>1, SolutionAssumption DEF Recipes
<1>4. TypeOK
  BY <1>3 DEF Init, TypeOK, Labels, Answers
<1>5. Fitting
  BY <1>1 DEF Fitting, Fits, Labels, Deciding
<1>6. Backed /\ Aged /\ Holding /\ InstalledAsPlanned
  BY <1>1, <1>2 DEF Backed, Aged, Holding, Deciding, InstalledAsPlanned
<1> QED
  BY <1>4, <1>5, <1>6 DEF SolutionInv

\* A command that goes on keeps what is typed.
LEMMA GotoFits ==
    ASSUME Fitting, site' = site, NEW p \in Commands, NEW label, NEW j, Fits(p, label, j),
           pc' = [pc EXCEPT ![p] = label], job' = [job EXCEPT ![p] = j]
    PROVE  Fitting'
<1>1. label \in Labels /\ j \in Tasks \cup {None}
  BY DEF Fits
<1>2. pc' \in [Commands -> Labels] /\ job' \in [Commands -> Tasks \cup {None}]
  BY <1>1 DEF Fitting
<1>3. ASSUME NEW q \in Commands PROVE Fits(q, pc'[q], job'[q])
  <2>1. CASE q = p
    BY <2>1 DEF Fitting
  <2>2. CASE q # p
    BY <2>2 DEF Fitting
  <2> QED
    BY <2>1, <2>2
<1> QED
  BY <1>2, <1>3 DEF Fitting, Fits

\* What fits once it starts.
LEMMA TaskFits ==
    ASSUME TypeOK, NEW p \in Commands, NEW mode \in Modes, mode \in site.does[p]
    PROVE  /\ \A S \in SUBSET Caps : Task(mode, S) \in Tasks
           /\ \A c \in Caps : [Task(mode, {}) EXCEPT !.current = c] \in Tasks
<1>1. Declared \in SUBSET Caps
  BY DEF Declared
<1>2. \A S \in SUBSET Caps : Task(mode, S) \in Tasks
  BY <1>1 DEF Task, Tasks
<1>3. ASSUME NEW c \in Caps PROVE [Task(mode, {}) EXCEPT !.current = c] \in Tasks
  BY <1>1, <1>3 DEF Task, Tasks
<1> QED
  BY <1>2, <1>3

\* The commands that start.
LEMMA StartType ==
    ASSUME SolutionInv, site' = site, NEW p \in Commands,
           \/ \E mode \in Advancing : Begin(p, mode)
           \/ \E c \in Caps, mode \in Adding : Add(p, c, mode)
           \/ DoctorBegin(p)
    PROVE  Fitting' /\ answer' \in [Commands -> Answers] /\ UNCHANGED projectVars
<1>0. TypeOK /\ Fitting /\ Declared \in SUBSET Caps
  BY DEF SolutionInv, Declared
<1>1. ASSUME NEW mode, NEW label, NEW j, Starts(p, mode, label, j), Fits(p, label, j)
      PROVE  Fitting' /\ answer' \in [Commands -> Answers] /\ UNCHANGED projectVars
  BY <1>0, <1>1, GotoFits DEF Starts, TypeOK, Answers
<1>2. ASSUME NEW mode \in Advancing, Begin(p, mode)
      PROVE  Fitting' /\ answer' \in [Commands -> Answers] /\ UNCHANGED projectVars
  <2>1. mode \in Modes /\ mode \in site.does[p] /\ Task(mode, Declared).mode = mode
    BY <1>2 DEF Begin, Starts, Modes, Task
  <2>2. Fits(p, "verify", Task(mode, Declared))
    BY <1>0, <2>1, TaskFits DEF Fits, Labels, Deciding
  <2> QED
    BY <1>1, <1>2, <2>2 DEF Begin
<1>3. ASSUME NEW c \in Caps, NEW mode \in Adding, Add(p, c, mode)
      PROVE  Fitting' /\ answer' \in [Commands -> Answers] /\ UNCHANGED projectVars
  <2> DEFINE j == [Task(mode, {}) EXCEPT !.current = c]
             label == IF mode = "add" THEN "prepare" ELSE "finalize"
  <2>1. mode \in Modes /\ mode \in site.does[p] /\ j.mode = mode /\ j.current = c
    BY <1>3 DEF Add, Starts, Modes, Task
  <2>2. label # "prepare" => mode \in Finalizing
    BY DEF Adding, Finalizing
  <2>3. Fits(p, label, j)
    BY <1>0, <2>1, <2>2, TaskFits DEF Fits, Labels, Deciding
  <2> QED
    BY <1>1, <1>3, <2>3 DEF Add
<1>4. ASSUME DoctorBegin(p)
      PROVE  Fitting' /\ answer' \in [Commands -> Answers] /\ UNCHANGED projectVars
  <2>1. "doctor" \in Modes /\ "doctor" \in site.does[p] /\ Task("doctor", Declared).mode = "doctor"
    BY <1>4 DEF DoctorBegin, Starts, Modes, Task
  <2>2. Fits(p, "doctor", Task("doctor", Declared))
    BY <1>0, <2>1, TaskFits DEF Fits, Labels, Deciding
  <2> QED
    BY <1>1, <1>4, <2>2 DEF DoctorBegin
<1> QED
  BY <1>2, <1>3, <1>4

\* What a task in memory becomes.
LEMMA TaskChanges ==
    ASSUME NEW j \in Tasks
    PROVE  /\ \A S \in SUBSET Caps : [j EXCEPT !.todo = S] \in Tasks
           /\ \A c \in Caps : [j EXCEPT !.current = c] \in Tasks
           /\ \A h \in Held \cup {None} : [j EXCEPT !.held = h] \in Tasks
BY DEF Tasks

\* The commands that go on.
LEMMA GoesOnType ==
    ASSUME SolutionInv, site' = site, NEW p \in Commands, GoesOn(p)
    PROVE  Fitting' /\ answer' \in [Commands -> Answers]
<1> DEFINE Q == Fitting' /\ answer' \in [Commands -> Answers]
<1>0. /\ TypeOK /\ Fitting /\ Fits(p, pc[p], job[p]) /\ Declared \in SUBSET Caps
      /\ answer \in [Commands -> Answers] /\ recipe \in [Caps -> Recipes]
  BY DEF SolutionInv, Declared, Fitting, TypeOK
<1>1. ASSUME NEW label, NEW j, Goto(p, label, j), Fits(p, label, j) PROVE Q
  BY <1>0, <1>1, GotoFits DEF Goto
<1>2. ASSUME NEW status \in Answers, Ends(p, status) PROVE Q
  <2>1. Fits(p, "idle", None)
    BY DEF Fits, Labels, Deciding
  <2>2. Fitting'
    BY <1>0, <1>2, <2>1, GotoFits DEF Ends
  <2> QED
    BY <1>0, <1>2, <2>2 DEF Ends
<1>3. Stops(p) => Q
  BY <1>2 DEF Stops, Answers
<1>4. pc[p] # "idle" => /\ job[p] \in Tasks /\ job[p].mode \in site.does[p]
                        /\ job[p].todo \in SUBSET Caps /\ job[p].loaded \in SUBSET Caps
  <2>1. pc[p] # "idle" => job[p] \in Tasks /\ job[p].mode \in site.does[p]
    BY <1>0 DEF Fits
  <2> QED
    BY <2>1 DEF Tasks
<1>5. ASSUME NEW modes, NEW label, Chooses(p, modes), GoOn(p, label),
             label \in {"validate", "prepare", "finalize"},
             label = "finalize" => job[p].mode \in Finalizing
      PROVE  Q
  <2>1. Chosen(p) \in Caps
    <3>1. Caps \ job[p].loaded \in SUBSET Caps /\ Caps \ job[p].loaded # {}
      BY <1>4, <1>5 DEF Chooses
    <3>2. First(Caps \ job[p].loaded) \in Caps \ job[p].loaded
      BY <3>1, FirstIsMember
    <3> QED
      BY <3>2 DEF Chosen
  <2> DEFINE j == [job[p] EXCEPT !.current = Chosen(p)]
  <2>2. j \in Tasks /\ j.mode = job[p].mode /\ j.current = Chosen(p)
    BY <1>4, <1>5, <2>1, TaskChanges DEF Chooses, Tasks
  <2>3. Fits(p, label, j)
    BY <1>4, <1>5, <2>1, <2>2 DEF Fits, Labels, Deciding, Chooses
  <2> QED
    BY <1>1, <1>5, <2>3 DEF GoOn
<1>6. ASSUME NEW label, label \in {"verify", "check", "doctor", "check-load"}, pc[p] # "idle",
             NEW S \in SUBSET Caps, Goto(p, label, [job[p] EXCEPT !.todo = S])
      PROVE  Q
  <2>1. [job[p] EXCEPT !.todo = S] \in Tasks /\ [job[p] EXCEPT !.todo = S].mode = job[p].mode
    BY <1>4, <1>6, TaskChanges DEF Tasks
  <2>2. Fits(p, label, [job[p] EXCEPT !.todo = S])
    BY <1>4, <1>6, <2>1 DEF Fits, Labels, Deciding
  <2> QED
    BY <1>1, <1>6, <2>2
<1>a. CASE VerifyInstalled(p)
  <2>1. pc[p] # "idle" /\ job[p].todo \ {First(job[p].todo)} \in SUBSET Caps
    BY <1>4, <1>a DEF VerifyInstalled
  <2>2. \/ Goto(p, "verify", [job[p] EXCEPT !.todo = job[p].todo \ {First(job[p].todo)}])
        \/ Stops(p)
    BY <1>a, <1>4 DEF VerifyInstalled, Tasks
  <2> QED
    BY <1>3, <1>6, <2>1, <2>2
<1>b. CASE LookForPlan(p)
  <2>1. Ends(p, "ready-to-prepare") => Q
    BY <1>2 DEF Answers
  <2> QED
    BY <1>5, <1>b, <2>1 DEF LookForPlan
<1>c. CASE ChooseFinalize(p)
  BY <1>5, <1>c DEF ChooseFinalize, Chooses, Finalizing
<1>d. CASE AllInstalled(p)
  <2>1. Fits(p, "check-load", job[p])
    BY <1>4, <1>d DEF AllInstalled, Fits, Labels, Deciding
  <2> QED
    BY <1>1, <1>d, <2>1 DEF AllInstalled
<1>e. CASE Validate(p)
  <2>1. Ends(p, "awaiting-agent") \/ Ends(p, "awaiting-finalization") \/ Stops(p)
    BY <1>e DEF Validate
  <2> QED
    BY <1>2, <1>3, <2>1 DEF Answers
<1>f. CASE Prepare(p)
  <2> DEFINE h == [recipe |-> recipe[job[p].current], filled |-> FALSE]
             j == [job[p] EXCEPT !.held = h]
  <2>1. pc[p] = "prepare" /\ job[p].current \in Caps /\ job[p] \in Tasks
        /\ (Goto(p, "create", j) \/ Stops(p))
    BY <1>0, <1>4, <1>f DEF Prepare, Fits
  <2>2. h \in Plans /\ ~h.filled
    BY <1>0, <2>1 DEF Plans
  <2>3. h \in Held \cup {None}
    BY <2>2 DEF Held
  <2>4. j \in Tasks /\ j.mode = job[p].mode /\ j.current = job[p].current /\ j.held = h
    BY <2>1, <2>3, TaskChanges DEF Tasks
  <2>5. Fits(p, "create", j)
    BY <1>4, <2>1, <2>2, <2>4 DEF Fits, Labels, Deciding
  <2> QED
    BY <1>1, <1>3, <2>1, <2>5
<1>g. CASE Create(p)
  <2>1. Ends(p, "prepared") \/ Stops(p)
    BY <1>g DEF Create
  <2> QED
    BY <1>2, <1>3, <2>1 DEF Answers
<1>h. CASE Finalize(p)
  <2> DEFINE c == job[p].current
             h == [installed |-> installed, plan |-> plan[c]]
             j == [job[p] EXCEPT !.held = h]
  <2>1. pc[p] = "finalize" /\ c \in Caps /\ job[p] \in Tasks
    BY <1>0, <1>4, <1>h DEF Finalize, Fits
  <2>2. (Goto(p, "match", j) /\ plan[c] # None) \/ Stops(p)
    BY <1>h DEF Finalize
  <2>3. plan[c] # None => h \in Loads
    BY <1>0, <2>1 DEF TypeOK, Loads, Locked
  <2>4. h \in Loads => h \in Held \cup {None}
    BY DEF Loads, Held
  <2> HIDE DEF h
  <2>5. h \in Loads => /\ j \in Tasks /\ j.mode = job[p].mode
                       /\ j.current = job[p].current /\ j.held = h
    BY <2>1, <2>4, TaskChanges DEF Tasks
  <2>6. h \in Loads => Fits(p, "match", j)
    BY <1>0, <1>4, <2>1, <2>5 DEF Fits, Labels, Deciding
  <2> QED
    BY <1>1, <1>3, <2>2, <2>3, <2>6
<1>m. CASE MatchPlan(p)
  <2> DEFINE c == job[p].current
             h == [job[p].held EXCEPT !.installed[c] = recipe[c]]
             j == [job[p] EXCEPT !.held = h]
  <2>1. pc[p] = "match" /\ c \in Caps /\ job[p] \in Tasks /\ job[p].held \in Loads
    BY <1>0, <1>4, <1>m DEF MatchPlan, Fits, Deciding
  <2>2. Goto(p, "hash", j) \/ Stops(p)
    BY <1>m, <2>1 DEF MatchPlan, Locks, Tasks
  <2>3. h \in Loads
    BY <1>0, <2>1 DEF Loads, Locked
  <2>4. h \in Held \cup {None}
    BY <2>3 DEF Loads, Held
  <2> HIDE DEF h
  <2>5. j \in Tasks /\ j.mode = job[p].mode /\ j.current = job[p].current /\ j.held = h
    BY <2>1, <2>4, TaskChanges DEF Tasks
  <2>6. Fits(p, "hash", j)
    BY <1>0, <1>4, <2>1, <2>3, <2>5 DEF Fits, Labels, Deciding
  <2> QED
    BY <1>1, <1>3, <2>2, <2>6
<1>n. CASE HashReceipt(p)
  <2> DEFINE c == job[p].current
             h == [installed |-> job[p].held.installed,
                   receipt |-> [bytes |-> evidence[c], plan |-> plan[c]]]
             j == [job[p] EXCEPT !.held = h]
  <2>1. pc[p] = "hash" /\ c \in Caps /\ job[p] \in Tasks /\ job[p].held \in Loads
    BY <1>0, <1>4, <1>n DEF HashReceipt, Fits, Deciding
  <2>2. \/ Goto(p, "record", j) /\ job[p].held.plan.filled /\ plan[c] # None
        \/ Stops(p)
    BY <1>n DEF HashReceipt, Hashes
  <2>3. job[p].held.plan.filled => evidence[c] \in Bytes
    BY <2>1 DEF SolutionInv, Holding, Stands, Stays, Deciding
  <2>4. job[p].held.plan.filled /\ plan[c] # None => h \in Records
    BY <1>0, <2>1, <2>3 DEF TypeOK, Loads, Records, Receipts
  <2>5. h \in Records => h \in Held \cup {None}
    BY DEF Records, Held
  <2> HIDE DEF h
  <2>6. h \in Records => /\ j \in Tasks /\ j.mode = job[p].mode
                         /\ j.current = job[p].current /\ j.held = h
    BY <2>1, <2>5, TaskChanges DEF Tasks
  <2>7. h \in Records => Fits(p, "record", j)
    BY <1>0, <1>4, <2>1, <2>6 DEF Fits, Labels, Deciding
  <2> QED
    BY <1>1, <1>3, <2>2, <2>4, <2>7
<1>i. CASE Record(p)
  <2> DEFINE j == [job[p] EXCEPT !.held = None]
  <2>1. pc[p] = "record" /\ (Recorded(p) \/ Stops(p))
    BY <1>i DEF Record
  <2>2. j \in Tasks /\ j.mode = job[p].mode
    BY <1>4, <2>1, TaskChanges DEF Tasks
  <2>3. Fits(p, "check-load", j)
    BY <1>4, <2>1, <2>2 DEF Fits, Labels, Deciding
  <2>4. Goto(p, "check-load", j) \/ Ends(p, "finalized") \/ Ends(p, "added") \/ Stops(p)
    BY <2>1 DEF Recorded
  <2> QED
    BY <1>1, <1>2, <1>3, <2>3, <2>4 DEF Answers
<1>j. CASE CheckLoad(p)
  <2>1. pc[p] # "idle"
    BY <1>j DEF CheckLoad
  <2>2. Goto(p, "check", [job[p] EXCEPT !.todo = Caps]) \/ Stops(p)
    BY <1>j DEF CheckLoad
  <2> QED
    BY <1>3, <1>6, <2>1, <2>2
<1>k. CASE Check(p)
  <2>1. pc[p] # "idle" /\ job[p].todo \ {First(job[p].todo)} \in SUBSET Caps
    BY <1>4, <1>k DEF Check
  <2>2. \/ Goto(p, "check", [job[p] EXCEPT !.todo = job[p].todo \ {First(job[p].todo)}])
        \/ Stops(p) \/ Ends(p, "complete") \/ Ends(p, "evidence-verified")
    BY <1>k, <1>4 DEF Check, Tasks
  <2> QED
    BY <1>2, <1>3, <1>6, <2>1, <2>2 DEF Answers
<1>l. CASE DoctorVerify(p)
  <2>1. pc[p] # "idle" /\ job[p].todo \ {First(job[p].todo)} \in SUBSET Caps
    BY <1>4, <1>l DEF DoctorVerify
  <2>2. \/ Goto(p, "doctor", [job[p] EXCEPT !.todo = job[p].todo \ {First(job[p].todo)}])
        \/ Ends(p, "unhealthy") \/ Ends(p, "healthy")
    BY <1>l, <1>4 DEF DoctorVerify, Tasks
  <2> QED
    BY <1>2, <1>6, <2>1, <2>2 DEF Answers
<1> QED
  BY <1>a, <1>b, <1>c, <1>d, <1>e, <1>f, <1>g, <1>h, <1>i, <1>j, <1>k, <1>l, <1>m, <1>n
  DEF GoesOn

\* What a command does to the project.
LEMMA ProjectSteps ==
    ASSUME NEW p \in Commands, GoesOn(p)
    PROVE  /\ evidence' = evidence /\ recipe' = recipe
           /\ \/ UNCHANGED <<installed, receipt, plan>>
              \/ /\ pc[p] = "create" /\ UNCHANGED <<installed, receipt>>
                 /\ plan[job[p].current] = None
                 /\ plan' = [plan EXCEPT ![job[p].current] = job[p].held]
              \/ /\ pc[p] = "record" /\ UNCHANGED plan
                 /\ recipe[job[p].current] = job[p].held.installed[job[p].current]
                 /\ installed' = job[p].held.installed
                 /\ receipt' = [receipt EXCEPT ![job[p].current] = job[p].held.receipt]
<1>1. CASE Record(p)
  BY <1>1 DEF Record, Holds
<1>2. CASE ~Record(p)
  BY <1>2 DEF GoesOn, VerifyInstalled, LookForPlan, ChooseFinalize, AllInstalled, Validate,
     Prepare, Create, Finalize, MatchPlan, Locks, HashReceipt, Hashes, CheckLoad, Check,
     DoctorVerify, projectVars
<1> QED
  BY <1>1, <1>2

\* A command leaves the others where they are.
LEMMA OthersStay ==
    ASSUME TypeOK, Fitting, NEW p \in Commands, Command(p), NEW q \in Commands, q # p
    PROVE  pc'[q] = pc[q] /\ job'[q] = job[q] /\ answer'[q] = answer[q]
<1> DEFINE Q == pc'[q] = pc[q] /\ job'[q] = job[q] /\ answer'[q] = answer[q]
<1>1. \A mode, label, j : Starts(p, mode, label, j) => Q
  BY DEF TypeOK, Fitting, Starts
<1>2. \A label, j : Goto(p, label, j) => Q
  BY DEF TypeOK, Fitting, Goto
<1>3. \A status : Ends(p, status) => Q
  BY DEF TypeOK, Fitting, Ends
<1>4. CASE DoctorBegin(p) \/ (\E mode \in Advancing : Begin(p, mode))
            \/ (\E c \in Caps, mode \in Adding : Add(p, c, mode))
  BY <1>1, <1>4 DEF DoctorBegin, Begin, Add
<1>5. CASE GoesOn(p)
  BY <1>2, <1>3, <1>5
  DEF GoesOn, VerifyInstalled, LookForPlan, GoOn, ChooseFinalize, AllInstalled, Validate, Prepare,
      Create, Finalize, MatchPlan, Locks, HashReceipt, Hashes, Record, Recorded, CheckLoad, Check,
      DoctorVerify, Stops
<1> QED
  BY <1>4, <1>5 DEF Command

\* What a step of a finalization has decided stands.
LEMMA Decided ==
    ASSUME SolutionInv, NEW p \in Commands, Command(p), pc'[p] \in Deciding
    PROVE  UNCHANGED projectVars /\ Stands(pc'[p], job'[p].current, job'[p].held)
<1>0. /\ pc \in [Commands -> Labels] /\ job \in [Commands -> Tasks \cup {None}]
      /\ Fits(p, pc[p], job[p])
      /\ installed \in Locked /\ recipe \in [Caps -> Recipes]
      /\ plan \in [Caps -> Plans \cup {None}]
  BY DEF SolutionInv, Fitting, TypeOK, Locked
<1>1. \A label, j : Goto(p, label, j) => pc'[p] = label /\ job'[p] = j
  BY <1>0 DEF Goto
<1>2. \A status : Ends(p, status) => pc'[p] = "idle"
  BY <1>0 DEF Ends
<1>3. \A mode, label, j : Starts(p, mode, label, j) => pc'[p] = label
  BY <1>0 DEF Starts
<1>4. ~(DoctorBegin(p) \/ (\E mode \in Advancing : Begin(p, mode))
            \/ (\E c \in Caps, mode \in Adding : Add(p, c, mode)))
  BY <1>3 DEF DoctorBegin, Begin, Add, Deciding
<1>5. GoesOn(p)
  BY <1>4 DEF Command
<1>6. Finalize(p) \/ MatchPlan(p) \/ HashReceipt(p)
  BY <1>1, <1>2, <1>5
  DEF GoesOn, VerifyInstalled, LookForPlan, GoOn, ChooseFinalize, AllInstalled, Validate, Prepare,
      Create, Record, Recorded, CheckLoad, Check, DoctorVerify, Stops, Deciding
<1>7. UNCHANGED projectVars /\ ~Stops(p)
  BY <1>2, <1>6 DEF Finalize, MatchPlan, HashReceipt, Stops, Deciding
<1> DEFINE c == job[p].current
           held == job[p].held
<1>8. job[p] \in Tasks /\ c \in Caps
  <2>1. pc[p] \in {"finalize", "match", "hash"}
    BY <1>6 DEF Finalize, MatchPlan, HashReceipt
  <2> QED
    BY <1>0, <2>1 DEF Fits, Deciding
<1>9. ASSUME NEW label, NEW h, Goto(p, label, [job[p] EXCEPT !.held = h])
      PROVE  pc'[p] = label /\ job'[p].held = h /\ job'[p].current = c
  BY <1>1, <1>8, <1>9 DEF Tasks
<1>a. CASE Finalize(p)
  <2> DEFINE h == [installed |-> installed, plan |-> plan[c]]
  <2>1. Eligible(c) /\ plan[c] # None /\ Goto(p, "match", [job[p] EXCEPT !.held = h])
    BY <1>7, <1>a DEF Finalize
  <2>2. pc'[p] = "match" /\ job'[p].held = h /\ job'[p].current = c
    BY <1>9, <2>1
  <2>3. Stays(c, plan[c])
    BY <1>8, <2>1 DEF Stays, SolutionInv, Aged, Backed
  <2> QED
    BY <1>7, <2>1, <2>2, <2>3 DEF Stands
<1>b. CASE MatchPlan(p)
  <2> DEFINE h == [held EXCEPT !.installed[c] = recipe[c]]
  <2>1. pc[p] = "match" /\ held.plan.recipe = recipe[c]
        /\ Goto(p, "hash", [job[p] EXCEPT !.held = h])
    BY <1>7, <1>8, <1>b DEF MatchPlan, Locks, Tasks
  <2>2. pc'[p] = "hash" /\ job'[p].held = h /\ job'[p].current = c
    BY <1>9, <2>1
  <2>3. held \in Loads /\ Eligible(c) /\ held.installed = installed /\ Stays(c, held.plan)
    BY <1>0, <2>1 DEF Fits, SolutionInv, Holding, Deciding, Stands
  <2>4. h.plan = held.plan /\ h.installed = [installed EXCEPT ![c] = held.plan.recipe]
    BY <2>1, <2>3 DEF Loads
  <2> QED
    BY <1>7, <2>2, <2>3, <2>4 DEF Stands
<1>c. CASE HashReceipt(p)
  <2> DEFINE h == [installed |-> held.installed,
                   receipt |-> [bytes |-> evidence[c], plan |-> plan[c]]]
  <2>1. pc[p] = "hash" /\ held.plan.filled /\ Goto(p, "record", [job[p] EXCEPT !.held = h])
    BY <1>7, <1>c DEF HashReceipt, Hashes
  <2>2. pc'[p] = "record" /\ job'[p].held = h /\ job'[p].current = c
    BY <1>9, <2>1
  <2>3. held \in Loads /\ Eligible(c) /\ Stays(c, held.plan)
        /\ held.installed = [installed EXCEPT ![c] = held.plan.recipe]
    BY <1>0, <2>1 DEF Fits, SolutionInv, Holding, Deciding, Stands
  <2>4. h.installed[c] = held.plan.recipe
    BY <1>0, <1>8, <2>3 DEF Locked
  <2>5. held.plan \in Plans
    BY <2>3 DEF Loads
  <2>6. held.plan = [recipe |-> held.plan.recipe, filled |-> TRUE]
    BY <2>1, <2>5, Zenon DEF Plans
  <2>7. Pins(c, h.installed[c], plan[c])
    BY <2>1, <2>3, <2>4, <2>5, <2>6 DEF Pins, Stays, Plans
  <2>8. h.installed = [installed EXCEPT ![c] = h.installed[c]] /\ h.receipt.plan = plan[c]
    BY <2>3, <2>4
  <2>9. Eligible(c) /\ Pins(c, h.installed[c], h.receipt.plan)
    BY <2>3, <2>7, <2>8
  <2> HIDE DEF c, h
  <2>10. Stands("record", c, h)
    BY <2>8, <2>9 DEF Stands
  <2> QED
    BY <1>7, <2>2, <2>10
<1> QED
  BY <1>6, <1>a, <1>b, <1>c

\* One terminal finalizes at a time.
LEMMA OneFinalizes ==
    ASSUME TypeOK, Fitting,
           NEW p \in Commands, pc[p] \in Deciding, NEW q \in Commands, pc[q] \in Deciding
    PROVE  p = q
<1>1. \A r \in Commands : pc[r] \in Deciding => site.does[r] \cap Finalizing # {}
  BY DEF Fitting, Fits, Deciding
<1> QED
  BY <1>1, SolutionAssumption DEF TypeOK

\* What recording does to the ledger.
LEMMA Recording ==
    ASSUME SolutionInv, NEW p \in Commands, GoesOn(p), pc[p] = "record",
           ~(UNCHANGED <<installed, receipt, plan>>)
    PROVE  LET c == job[p].current  r == job[p].held.receipt IN
           /\ c \in Caps /\ r \in Receipts /\ Eligible(c)
           /\ installed' = [installed EXCEPT ![c] = r.plan.recipe] /\ r.plan.filled
           /\ r.plan.recipe \in Recipes
           /\ receipt' = [receipt EXCEPT ![c] = r] /\ UNCHANGED plan
           /\ Declared' = Declared \cup {c}
<1> DEFINE c == job[p].current
           r == job[p].held.receipt
<1>1. c \in Caps /\ job[p].held \in Records
  BY DEF SolutionInv, Fitting, Fits, Deciding
<1>2. r \in Receipts /\ r.plan.recipe \in Recipes
  BY <1>1 DEF Records, Receipts, Plans
<1>3. /\ UNCHANGED plan /\ receipt' = [receipt EXCEPT ![c] = r]
      /\ installed' = job[p].held.installed /\ recipe[c] = job[p].held.installed[c]
  BY ProjectSteps
<1>4. Eligible(c) /\ r.plan.filled /\ installed' = [installed EXCEPT ![c] = r.plan.recipe]
  <2>1. Stands("record", c, job[p].held)
    BY DEF SolutionInv, Holding, Deciding
  <2>2. /\ Eligible(c) /\ Pins(c, job[p].held.installed[c], r.plan)
        /\ job[p].held.installed = [installed EXCEPT ![c] = job[p].held.installed[c]]
    BY <2>1 DEF Stands
  <2>3. r.plan = [recipe |-> job[p].held.installed[c], filled |-> TRUE]
    BY <1>3, <2>2 DEF Pins
  <2>4. r.plan.recipe = job[p].held.installed[c] /\ r.plan.filled
    BY <2>3
  <2> QED
    BY <1>3, <2>2, <2>4
<1> HIDE DEF c, r
<1>5. Declared' = Declared \cup {c}
  BY <1>1, <1>2, <1>4, SolutionAssumption DEF SolutionInv, TypeOK, Declared
<1> QED
  BY <1>1, <1>2, <1>3, <1>4, <1>5 DEF c, r

\* The commands keep the project typed and its plans backed.
LEMMA CommandProject ==
    ASSUME SolutionInv, NEW p \in Commands, Command(p)
    PROVE  /\ installed' \in [Caps -> Recipes \cup {None}]
           /\ receipt' \in [Caps -> Receipts \cup {None}]
           /\ plan' \in [Caps -> Plans \cup {None}]
           /\ evidence' \in [Caps -> Bytes \cup {None}]
           /\ recipe' \in [Caps -> Recipes]
           /\ Backed' /\ InstalledAsPlanned'
<1>0. /\ installed \in [Caps -> Recipes \cup {None}]
      /\ receipt \in [Caps -> Receipts \cup {None}]
      /\ plan \in [Caps -> Plans \cup {None}]
      /\ evidence \in [Caps -> Bytes \cup {None}]
      /\ recipe \in [Caps -> Recipes]
      /\ Backed /\ InstalledAsPlanned /\ Fits(p, pc[p], job[p])
  BY DEF SolutionInv, TypeOK, Fitting
<1>1. CASE UNCHANGED projectVars
  <2>1. Declared' = Declared
    BY <1>1 DEF projectVars, Declared
  <2> QED
    BY <1>0, <1>1, <2>1 DEF projectVars, Backed, InstalledAsPlanned
<1>2. ASSUME GoesOn(p), pc[p] = "create", UNCHANGED <<installed, receipt, evidence, recipe>>,
             plan' = [plan EXCEPT ![job[p].current] = job[p].held]
      PROVE  /\ plan' \in [Caps -> Plans \cup {None}] /\ Backed' /\ InstalledAsPlanned'
  <2>1. job[p].current \in Caps /\ job[p].held \in Plans /\ ~job[p].held.filled
    BY <1>0, <1>2 DEF Fits
  <2>2. Declared' = Declared
    BY <1>2 DEF Declared
  <2>3. ASSUME NEW c \in Caps, plan'[c] # None, plan'[c].filled PROVE evidence'[c] \in Bytes
    BY <1>0, <1>2, <2>1, <2>3 DEF Backed
  <2> QED
    BY <1>0, <1>2, <2>1, <2>2, <2>3 DEF Backed, InstalledAsPlanned
<1>3. ASSUME GoesOn(p), pc[p] = "record", ~(UNCHANGED <<installed, receipt, plan>>)
      PROVE  /\ installed' \in [Caps -> Recipes \cup {None}]
             /\ receipt' \in [Caps -> Receipts \cup {None}] /\ UNCHANGED plan
             /\ Backed' /\ InstalledAsPlanned'
  <2> DEFINE c == job[p].current
             r == job[p].held.receipt
  <2>1. PICK cap \in Caps : cap = c
    BY <1>3, Recording
  <2>2. PICK rec \in Receipts : rec = r
    BY <1>3, Recording
  <2>3. /\ installed' = [installed EXCEPT ![cap] = rec.plan.recipe] /\ rec.plan.filled
        /\ rec.plan.recipe \in Recipes
        /\ receipt' = [receipt EXCEPT ![cap] = rec] /\ UNCHANGED plan
        /\ Declared' = Declared \cup {cap}
    BY <1>3, <2>1, <2>2, Recording
  <2>4. rec.plan = [recipe |-> rec.plan.recipe, filled |-> TRUE]
    <3>1. rec.plan \in Plans
      BY DEF Receipts
    <3> QED
      BY <2>3, <3>1 DEF Plans
  <2>5. UNCHANGED evidence
    BY <1>3, ProjectSteps
  <2>6. \A d \in Declared' : receipt'[d] \in Receipts
    BY <1>0, <2>3 DEF Backed
  <2>7. \A d \in Declared' : receipt'[d].plan = [recipe |-> installed'[d], filled |-> TRUE]
    <3> SUFFICES ASSUME NEW d \in Declared'
                 PROVE  receipt'[d].plan = [recipe |-> installed'[d], filled |-> TRUE]
      OBVIOUS
    <3>1. d \in Caps
      BY DEF Declared
    <3>2. CASE d = cap
      BY <1>0, <2>3, <2>4, <3>2
    <3>3. CASE d # cap
      BY <1>0, <2>3, <3>1, <3>3 DEF InstalledAsPlanned
    <3> QED
      BY <3>2, <3>3
  <2> QED
    BY <1>0, <2>3, <2>5, <2>6, <2>7 DEF Backed, InstalledAsPlanned
<1>4. CASE ~GoesOn(p)
  <2>1. UNCHANGED projectVars
    BY <1>4 DEF Command, DoctorBegin, Begin, Add, Starts
  <2> QED
    BY <1>1, <2>1
<1> QED
  BY <1>0, <1>1, <1>2, <1>3, <1>4, ProjectSteps DEF projectVars

\* So do the agent, the editor and the operator.
LEMMA SurroundingsProject ==
    ASSUME SolutionInv, Surroundings
    PROVE  /\ UNCHANGED <<installed, receipt, pc, job, answer>>
           /\ plan' \in [Caps -> Plans \cup {None}]
           /\ evidence' \in [Caps -> Bytes \cup {None}]
           /\ recipe' \in [Caps -> Recipes]
           /\ Backed' /\ edits' \in 0..site.edits
<1>0. /\ installed \in [Caps -> Recipes \cup {None}]
      /\ plan \in [Caps -> Plans \cup {None}]
      /\ evidence \in [Caps -> Bytes \cup {None}]
      /\ recipe \in [Caps -> Recipes]
      /\ Backed /\ edits \in 0..site.edits /\ site.edits \in Nat
      /\ Written \subseteq Bytes /\ MaxRecipe \in Nat
  BY SolutionAssumption DEF SolutionInv, TypeOK
<1>1. UNCHANGED <<installed, receipt, pc, job, answer>>
  BY DEF Surroundings, Implement, Edit, Repair, UpdateRecipe, Discard
<1>2. Declared' = Declared
  BY <1>1 DEF Declared
<1> DEFINE Q == /\ plan' \in [Caps -> Plans \cup {None}]
                /\ evidence' \in [Caps -> Bytes \cup {None}]
                /\ recipe' \in [Caps -> Recipes]
                /\ \A c \in Caps : plan'[c] # None /\ plan'[c].filled => evidence'[c] \in Bytes
                /\ edits' \in 0..site.edits
<1>3. ASSUME NEW c \in Caps, NEW b \in Written, Implement(c, b) PROVE Q
  <2>1. plan[c] \in Plans
    BY <1>0, <1>3 DEF Implement
  <2>2. [plan[c] EXCEPT !.filled = TRUE] \in Plans
    BY <2>1 DEF Plans
  <2>3. /\ plan' = [plan EXCEPT ![c] = [plan[c] EXCEPT !.filled = TRUE]]
        /\ evidence' = [evidence EXCEPT ![c] = b] /\ UNCHANGED <<recipe, edits>> /\ b \in Bytes
    BY <1>0, <1>3 DEF Implement
  <2>4. \A d \in Caps : plan'[d] # None /\ plan'[d].filled => evidence'[d] \in Bytes
    <3> SUFFICES ASSUME NEW d \in Caps, plan'[d] # None, plan'[d].filled
                 PROVE  evidence'[d] \in Bytes
      OBVIOUS
    <3>1. CASE d = c
      BY <1>0, <2>3, <3>1
    <3>2. CASE d # c
      BY <1>0, <2>3, <3>2 DEF Backed
    <3> QED
      BY <3>1, <3>2
  <2> QED
    BY <1>0, <2>2, <2>3, <2>4
<1>4. ASSUME NEW c \in Caps, NEW b \in Bytes, Edit(c, b) PROVE Q
  BY <1>0, <1>4 DEF Edit, Backed
<1>5. ASSUME NEW c \in Caps, Repair(c) PROVE Q
  <2>1. receipt[c].bytes \in Bytes
    BY <1>0, <1>5 DEF Repair, Backed, Receipts
  <2> QED
    BY <1>0, <1>5, <2>1 DEF Repair, Backed
<1>6. ASSUME NEW c \in Caps, UpdateRecipe(c) PROVE Q
  BY <1>0, <1>6 DEF UpdateRecipe, Backed, Recipes
<1>7. ASSUME NEW c \in Caps, Discard(c) PROVE Q
  BY <1>0, <1>7 DEF Discard, Backed
<1>8. Q
  BY <1>3, <1>4, <1>5, <1>6, <1>7 DEF Surroundings
<1> QED
  BY <1>0, <1>1, <1>2, <1>8 DEF Backed

\* What nobody does to a project: take an earlier recipe, lose the evidence, or
\* touch a plan that is finished and of the present recipe.
Forward ==
    /\ \A c \in Caps : recipe[c] <= recipe'[c]
    /\ \A c \in Caps : evidence[c] \in Bytes => evidence'[c] \in Bytes
    /\ \A c \in Caps : PlanMatches(c) /\ plan[c].filled => plan'[c] = plan[c]

\* The agent, the editor and the operator move forward, and their plans do not
\* outrun the recipes.
LEMMA SurroundingsForward == ASSUME SolutionInv, Surroundings PROVE Forward /\ Aged'
<1>0. /\ plan \in [Caps -> Plans \cup {None}] /\ evidence \in [Caps -> Bytes \cup {None}]
      /\ recipe \in [Caps -> Recipes] /\ Written \subseteq Bytes /\ Recipes \subseteq Nat
      /\ Aged /\ UNCHANGED <<pc, job>>
  BY SolutionAssumption DEF SolutionInv, TypeOK, Surroundings, Recipes
<1>nat. \A c \in Caps : recipe[c] \in Nat /\ recipe[c] <= recipe[c]
  <2>1. \A c \in Caps : recipe[c] \in Recipes
    BY <1>0
  <2> QED
    BY <2>1, SolutionAssumption DEF Recipes
<1>1. ASSUME NEW p \in Commands, pc[p] = "create"
      PROVE  job[p].current \in Caps /\ job[p].held.recipe \in Nat
  <2>1. job[p].current \in Caps /\ job[p].held \in Plans
    BY <1>1 DEF SolutionInv, Fitting, Fits
  <2> QED
    BY <1>0, <2>1 DEF Plans
<1>2. ASSUME \A c \in Caps : recipe[c] <= recipe'[c],
             \A c \in Caps : evidence[c] \in Bytes => evidence'[c] \in Bytes,
             \A c \in Caps : \/ plan'[c] = plan[c]
                             \/ /\ ~(PlanMatches(c) /\ plan[c].filled)
                                /\ plan'[c] # None =>
                                     plan[c] # None /\ plan'[c].recipe = plan[c].recipe,
             recipe' \in [Caps -> Recipes]
      PROVE  Forward /\ Aged'
  <2>1. Forward
    BY <1>2, Zenon DEF Forward
  <2>2. ASSUME NEW c \in Caps, plan'[c] # None PROVE plan'[c].recipe <= recipe'[c]
    <3>1. plan[c] # None /\ plan'[c].recipe = plan[c].recipe
      BY <1>2, <2>2
    <3>2. plan[c].recipe \in Nat /\ recipe[c] \in Nat /\ recipe'[c] \in Nat
      BY <1>0, <1>2, <3>1 DEF Plans
    <3> QED
      BY <1>0, <1>2, <3>1, <3>2 DEF Aged
  <2>3. ASSUME NEW p \in Commands, pc'[p] = "create"
        PROVE  job'[p].held.recipe <= recipe'[job'[p].current]
    <3>1. pc[p] = "create" /\ job'[p] = job[p]
      BY <1>0, <2>3
    <3>2. recipe[job[p].current] \in Nat /\ recipe'[job[p].current] \in Nat
      BY <1>0, <1>1, <1>2, <3>1
    <3> QED
      BY <1>0, <1>1, <1>2, <3>1, <3>2 DEF Aged
  <2> QED
    BY <2>1, <2>2, <2>3 DEF Aged
<1>3. ASSUME NEW c \in Caps, NEW b \in Written, Implement(c, b) PROVE Forward /\ Aged'
  <2>1. plan[c] \in Plans
    BY <1>0, <1>3 DEF Implement
  <2>2. [plan[c] EXCEPT !.filled = TRUE].recipe = plan[c].recipe
    BY <2>1 DEF Plans
  <2> QED
    BY <1>0, <1>2, <1>3, <1>nat, <2>2 DEF Implement
<1>4. ASSUME NEW c \in Caps, NEW b \in Bytes, Edit(c, b) PROVE Forward /\ Aged'
  BY <1>0, <1>2, <1>4, <1>nat DEF Edit
<1>5. ASSUME NEW c \in Caps, Repair(c) PROVE Forward /\ Aged'
  <2>1. receipt[c].bytes \in Bytes
    BY <1>5 DEF Repair, SolutionInv, Backed, Receipts
  <2> QED
    BY <1>0, <1>2, <1>5, <1>nat, <2>1 DEF Repair
<1>6. ASSUME NEW c \in Caps, UpdateRecipe(c) PROVE Forward /\ Aged'
  <2>1. recipe' \in [Caps -> Recipes]
    BY <1>6, SurroundingsProject DEF Surroundings
  <2>2. UNCHANGED <<plan, evidence>> /\ \A d \in Caps : recipe[d] <= recipe'[d]
    BY <1>0, <1>6, <1>nat DEF UpdateRecipe
  <2> QED
    BY <1>2, <2>1, <2>2
<1>7. ASSUME NEW c \in Caps, Discard(c) PROVE Forward /\ Aged'
  BY <1>0, <1>2, <1>7, <1>nat DEF Discard
<1> QED
  BY <1>3, <1>4, <1>5, <1>6, <1>7 DEF Surroundings

\* So do the commands.
LEMMA CommandForward == ASSUME SolutionInv, NEW p \in Commands, Command(p) PROVE Forward /\ Aged'
<1>0. /\ plan \in [Caps -> Plans \cup {None}] /\ recipe \in [Caps -> Recipes]
      /\ Recipes \subseteq Nat /\ Aged /\ Fits(p, pc[p], job[p])
      /\ pc \in [Commands -> Labels] /\ job \in [Commands -> Tasks \cup {None}]
  BY DEF SolutionInv, TypeOK, Fitting, Recipes
<1>1. /\ UNCHANGED <<evidence, recipe>>
      /\ \/ UNCHANGED plan
         \/ /\ pc[p] = "create" /\ plan[job[p].current] = None
            /\ plan' = [plan EXCEPT ![job[p].current] = job[p].held]
  <2>1. CASE GoesOn(p)
    BY <2>1, ProjectSteps
  <2>2. CASE ~GoesOn(p)
    BY <2>2 DEF Command, DoctorBegin, Begin, Add, Starts, projectVars
  <2> QED
    BY <2>1, <2>2
<1>nat. \A c \in Caps : recipe[c] \in Nat /\ recipe[c] <= recipe[c]
  <2>1. \A c \in Caps : recipe[c] \in Recipes
    BY <1>0
  <2> QED
    BY <2>1, SolutionAssumption DEF Recipes
<1>2. Forward
  BY <1>0, <1>1, <1>nat DEF Forward, PlanMatches
<1>3. ASSUME NEW c \in Caps, plan'[c] # None PROVE plan'[c].recipe <= recipe'[c]
  BY <1>0, <1>1, <1>3 DEF Aged
<1>4. ASSUME NEW q \in Commands, pc'[q] = "create"
      PROVE  job'[q].held.recipe <= recipe'[job'[q].current]
  <2>1. CASE q # p
    BY <1>0, <1>1, <1>4, <2>1, OthersStay DEF SolutionInv, Aged
  <2>2. CASE q = p
    <3>1. \A label, j : Goto(p, label, j) => pc'[p] = label /\ job'[p] = j
      BY <1>0 DEF Goto
    <3>2. \A status : Ends(p, status) => pc'[p] = "idle"
      BY <1>0 DEF Ends
    <3>3. \A mode, label, j : Starts(p, mode, label, j) => pc'[p] = label
      BY <1>0 DEF Starts
    <3>0. GoesOn(p)
      BY <1>4, <2>2, <3>3 DEF Command, DoctorBegin, Begin, Add
    <3>4. Prepare(p)
      BY <1>4, <2>2, <3>1, <3>2, <3>0
      DEF GoesOn, VerifyInstalled, LookForPlan, GoOn, ChooseFinalize, AllInstalled, Validate,
          Create, Finalize, MatchPlan, Locks, HashReceipt, Hashes, Record, Recorded, CheckLoad,
          Check, DoctorVerify, Stops
    <3> DEFINE h == [recipe |-> recipe[job[p].current], filled |-> FALSE]
    <3>5. pc[p] = "prepare" /\ job'[p] = [job[p] EXCEPT !.held = h]
      BY <1>4, <2>2, <3>1, <3>2, <3>4 DEF Prepare, Stops
    <3>6. job[p] \in Tasks /\ job[p].current \in Caps
      BY <1>0, <3>5 DEF Fits
    <3>7. job'[p].held.recipe = recipe[job'[p].current] /\ job'[p].current \in Caps
      BY <3>5, <3>6 DEF Tasks
    <3> QED
      BY <1>1, <1>nat, <2>2, <3>7
  <2> QED
    BY <2>1, <2>2
<1> QED
  BY <1>2, <1>3, <1>4 DEF Aged

\* What a finalization has decided stands while the ledger stays the same.
LEMMA StandsOn ==
    ASSUME SolutionInv, Forward, installed' = installed, recipe' \in [Caps -> Recipes],
           NEW p \in Commands, pc[p] \in Deciding, pc'[p] = pc[p], job'[p] = job[p]
    PROVE  Stands(pc[p], job[p].current, job[p].held)'
<1>0. /\ Fits(p, pc[p], job[p]) /\ Stands(pc[p], job[p].current, job[p].held)
      /\ recipe \in [Caps -> Recipes]
  BY DEF SolutionInv, Fitting, Holding, TypeOK
<1>1. job[p].current \in Caps
  BY <1>0 DEF Fits
<1>2. PICK label, c, h : label = pc[p] /\ c = job[p].current /\ h = job[p].held
  OBVIOUS
<1>3. Declared' = Declared
  BY DEF Declared
<1>4. c \in Caps /\ recipe[c] \in Nat /\ recipe'[c] \in Nat /\ recipe[c] <= recipe'[c]
  BY <1>0, <1>1, <1>2 DEF Forward, Recipes
<1>5. ASSUME NEW q \in Plans, Stays(c, q) PROVE Stays(c, q)'
  <2>1. q.recipe \in Nat
    BY DEF Plans, Recipes
  <2>2. ASSUME recipe'[c] = q.recipe, q.filled PROVE plan'[c] = q
    <3>1. recipe[c] = q.recipe
      BY <1>4, <1>5, <2>1, <2>2 DEF Stays
    <3>2. plan[c] = q /\ q # None
      BY <1>5, <2>2, <3>1 DEF Stays
    <3> QED
      BY <1>4, <2>2, <3>1, <3>2 DEF Forward, PlanMatches
  <2>3. q.filled => evidence'[c] \in Bytes
    BY <1>4, <1>5 DEF Stays, Forward
  <2> QED
    BY <1>4, <1>5, <2>1, <2>2, <2>3 DEF Stays
<1>6. ASSUME NEW r, NEW q, Pins(c, r, q) PROVE Pins(c, r, q)'
  BY <1>4, <1>6 DEF Pins, Recipes
<1>7. label \in {"match", "hash"} => h.plan \in Plans
  BY <1>0, <1>2 DEF Fits, Loads
<1>8. Stands(label, c, h)
  BY <1>0, <1>2
<1>9. Stands(label, c, h)'
  <2>1. Eligible(c)'
    BY <1>3, <1>8 DEF Stands, Eligible
  <2>2. CASE label = "match"
    BY <1>5, <1>7, <1>8, <2>1, <2>2 DEF Stands
  <2>3. CASE label = "hash"
    BY <1>5, <1>7, <1>8, <2>1, <2>3 DEF Stands
  <2>4. CASE label = "record"
    BY <1>6, <1>8, <2>1, <2>4 DEF Stands
  <2> QED
    BY <1>2, <2>2, <2>3, <2>4 DEF Deciding
<1> QED
  BY <1>2, <1>9

\* Every step keeps types, plans and ledger in agreement.
LEMMA NextSolutionInv == SolutionInv /\ [Next]_vars => SolutionInv'
<1> SUFFICES ASSUME SolutionInv, [Next]_vars PROVE SolutionInv'
  OBVIOUS
<1>1. CASE UNCHANGED vars
  <2>1. Declared' = Declared
    BY <1>1 DEF vars, projectVars, Declared
  <2>2. TypeOK' /\ Fitting'
    BY <1>1 DEF vars, projectVars, SolutionInv, TypeOK, Fitting, Fits
  <2>3. Backed' /\ Aged' /\ InstalledAsPlanned'
    BY <1>1, <2>1 DEF vars, projectVars, SolutionInv, Backed, Aged, InstalledAsPlanned
  <2>4. Holding'
    BY <1>1, <2>1 DEF vars, projectVars, SolutionInv, Holding, Stands, Stays, Pins, Eligible
  <2> QED
    BY <2>2, <2>3, <2>4 DEF SolutionInv
<1>2. CASE Next
  <2>1. site' = site /\ stuck' \in [Commands -> SUBSET Caps]
    BY <1>2 DEF Next, Remember
  <2>2. CASE Surroundings
    <3>1. Fitting'
      BY <2>1, <2>2, SurroundingsProject DEF SolutionInv, Fitting, Fits
    <3>2. Declared' = Declared
      BY <2>2, SurroundingsProject DEF Declared
    <3>3. InstalledAsPlanned'
      BY <2>2, <3>2, SurroundingsProject DEF SolutionInv, InstalledAsPlanned
    <3>4. TypeOK'
      BY <2>1, <2>2, SurroundingsProject DEF SolutionInv, TypeOK
    <3>5. Holding'
      <4> SUFFICES ASSUME NEW q \in Commands, pc'[q] \in Deciding
                   PROVE  Stands(pc[q], job[q].current, job[q].held)'
        BY DEF Holding
      <4> QED
        BY <2>2, SurroundingsProject, SurroundingsForward, StandsOn
    <3> QED
      BY <2>2, <3>1, <3>3, <3>4, <3>5, SurroundingsProject, SurroundingsForward DEF SolutionInv
  <2>3. ASSUME NEW p \in Commands, Command(p), UNCHANGED edits PROVE SolutionInv'
    <3>1. Fitting' /\ answer' \in [Commands -> Answers]
      BY <2>1, <2>3, StartType, GoesOnType DEF Command
    <3>2. TypeOK' /\ Backed' /\ InstalledAsPlanned'
      BY <2>1, <2>3, <3>1, CommandProject DEF SolutionInv, TypeOK, Fitting
    <3>3. Forward /\ Aged' /\ recipe' \in [Caps -> Recipes]
      BY <2>3, CommandForward, CommandProject
    <3>4. ASSUME NEW q \in Commands, pc'[q] \in Deciding
          PROVE  Stands(pc[q], job[q].current, job[q].held)'
      <4>1. CASE q = p
        <5>1. UNCHANGED projectVars /\ Stands(pc'[p], job'[p].current, job'[p].held)
          BY <2>3, <3>4, <4>1, Decided
        <5>2. Declared' = Declared
          BY <5>1 DEF projectVars, Declared
        <5> QED
          BY <4>1, <5>1, <5>2 DEF projectVars, Stands, Stays, Pins, Eligible
      <4>2. CASE q # p
        <5>1. pc[q] \in Deciding /\ job'[q] = job[q] /\ pc'[q] = pc[q]
          BY <2>3, <3>4, <4>2, OthersStay DEF SolutionInv
        <5>2. pc[p] # "record"
          BY <4>2, <5>1, OneFinalizes DEF SolutionInv, Deciding
        <5>3. installed' = installed
          <6>1. CASE GoesOn(p)
            BY <5>2, <6>1, ProjectSteps
          <6>2. CASE ~GoesOn(p)
            BY <2>3, <6>2 DEF Command, DoctorBegin, Begin, Add, Starts, projectVars
          <6> QED
            BY <6>1, <6>2
        <5> QED
          BY <3>3, <5>1, <5>3, StandsOn
      <4> QED
        BY <4>1, <4>2
    <3> QED
      BY <3>1, <3>2, <3>3, <3>4 DEF SolutionInv, Holding
  <2> QED
    BY <1>2, <2>2, <2>3 DEF Next
<1> QED
  BY <1>1, <1>2

-----------------------------------------------------------------------------
\* Type correctness.
THEOREM SolutionTypeCorrect == Spec => []TypeOK
<1>1. SolutionInv => TypeOK
  BY DEF SolutionInv
<1> QED
  BY <1>1, InitSolutionInv, NextSolutionInv, PTL DEF Spec

\* The lock pins the recipe that was implemented, though packs are updated and
\* plans are removed while a command goes on.
THEOREM LockPinsWhatWasImplemented == Spec => []InstalledAsPlanned
<1>1. SolutionInv => InstalledAsPlanned
  BY DEF SolutionInv
<1> QED
  BY <1>1, InitSolutionInv, NextSolutionInv, PTL DEF Spec

\* What the agent works from is kept by every command and by everybody else.
THEOREM PlansStay == Spec => PlansAreKept
<1>1. SolutionInv /\ [Next]_vars =>
        [\A c \in Caps : plan[c] # None /\ plan'[c] # plan[c] =>
           \/ plan'[c] = [plan[c] EXCEPT !.filled = TRUE]
           \/ plan'[c] = None /\ ~PlanMatches(c)]_vars
  <2> SUFFICES ASSUME SolutionInv, Next, NEW c \in Caps, plan[c] # None, plan'[c] # plan[c]
               PROVE  \/ plan'[c] = [plan[c] EXCEPT !.filled = TRUE]
                      \/ plan'[c] = None /\ ~PlanMatches(c)
    OBVIOUS
  <2>0. plan \in [Caps -> Plans \cup {None}]
    BY DEF SolutionInv, TypeOK
  <2>1. ASSUME NEW p \in Commands, Command(p) PROVE FALSE
    <3>1. GoesOn(p)
      BY <2>1 DEF Command, DoctorBegin, Begin, Add, Starts, projectVars
    <3> QED
      BY <2>0, <3>1, ProjectSteps
  <2>2. CASE Surroundings
    BY <2>0, <2>2 DEF Surroundings, Implement, Edit, Repair, UpdateRecipe, Discard
  <2> QED
    BY <2>1, <2>2 DEF Next
<1> QED
  BY <1>1, InitSolutionInv, NextSolutionInv, PTL DEF Spec, PlansAreKept

\* The project is a ledger: a command that records enters one constituent after
\* everything it depends on, and nothing else in the project counts.
THEOREM SolutionImplementsLedger == Spec => ImplementsLedger
<1>1. Init => Ledger!LedgerInit
  BY DEF Init, Ledger!LedgerInit, Entered
<1>2. SolutionInv /\ [Next]_vars => [Ledger!LedgerNext]_<<Entered, TRUE>>
  <2> SUFFICES ASSUME SolutionInv, [Next]_vars, Entered' # Entered PROVE Ledger!LedgerNext
    OBVIOUS
  <2>1. ~(UNCHANGED <<installed, receipt>>)
    BY DEF Entered
  <2>2. ~Surroundings /\ Next
    BY <2>1, SurroundingsProject DEF vars, projectVars
  <2>3. PICK p \in Commands : Command(p)
    BY <2>2 DEF Next
  <2>4. GoesOn(p)
    BY <2>1, <2>3 DEF Command, DoctorBegin, Begin, Add, Starts, projectVars
  <2>5. pc[p] = "record"
    BY <2>1, <2>4, ProjectSteps
  <2>6. PICK c \in Caps, r \in Receipts :
          /\ Eligible(c) /\ installed' = [installed EXCEPT ![c] = r.plan.recipe]
          /\ r.plan.recipe \in Recipes /\ receipt' = [receipt EXCEPT ![c] = r]
    BY <2>1, <2>4, <2>5, Recording
  <2>7. /\ installed \in [Caps -> Recipes \cup {None}] /\ receipt \in [Caps -> Receipts \cup {None}]
        /\ None \notin Recipes /\ r.bytes \in Bytes
        /\ None \notin [version : {1}, bytes : Bytes]
        /\ \A d \in Declared : receipt[d].bytes \in Bytes
    BY SolutionAssumption, NoneAssumption DEF SolutionInv, TypeOK, Receipts, Backed
  <2>8. Entered' = [Entered EXCEPT ![c] = [version |-> 1, bytes |-> r.bytes]]
    BY <2>6, <2>7 DEF Entered
  <2>9. Entered[c] = None
    BY <2>6 DEF Entered, Eligible, Declared
  <2>10. ASSUME NEW d \in Needs[c] PROVE Entered[d] # None /\ Entered[d].version \in {1}
    <3>1. d \in Declared /\ d \in Caps /\ installed[d] # None
      BY <2>6 DEF Eligible, Declared
    <3>2. Entered[d] = [version |-> 1, bytes |-> receipt[d].bytes]
      BY <3>1 DEF Entered
    <3>3. Entered[d] \in [version : {1}, bytes : Bytes]
      BY <2>7, <3>1, <3>2
    <3> QED
      BY <2>7, <3>2, <3>3
  <2>11. Ledger!Supported(c)
    BY <2>10 DEF Ledger!Supported
  <2>12. Ledger!Install(c, 1, r.bytes)
    BY <2>8, <2>9, <2>11 DEF Ledger!Install, Ledger!Accept
  <2> QED
    BY <2>7, <2>12 DEF Ledger!LedgerNext
<1> QED
  BY <1>1, <1>2, InitSolutionInv, NextSolutionInv, PTL
  DEF Spec, ImplementsLedger, Ledger!LedgerSpec, Ledger!ledgerVars

-----------------------------------------------------------------------------
(***************************************************************************)
(* Drift.  What a command has yet to verify covers every constituent that  *)
(* has been broken since it began; it decides nothing before it has        *)
(* verified them all.                                                      *)
(***************************************************************************)
Solving == Advancing \cup {"doctor"}
Looking == {"verify", "check", "doctor"}
Deeds == {"validate", "prepare", "create", "finalize", "match", "hash", "record"}

StuckFits(p) ==
    /\ pc[p] \in Looking => stuck[p] \subseteq job[p].todo
    /\ pc[p] \in Deeds /\ job[p].mode \in Solving => stuck[p] = {}
    /\ pc[p] = "check" => Declared = Caps
    /\ pc[p] # "idle" => answer[p] = "none"
StuckInv == \A p \in Commands : StuckFits(p)

\* A constituent that has been whole since a command began is not recorded as
\* broken for it, unless the command has recorded one itself.
LEMMA StuckShrinks ==
    ASSUME SolutionInv, Remember, NEW p \in Commands,
           job[p] # None \/ job'[p] = None, pc[p] # "record" \/ pc'[p] = "record"
    PROVE  /\ stuck'[p] \subseteq stuck[p]
           /\ \A c \in stuck'[p] : ~Verifies(c)'
BY DEF Remember, Begins, Leaves

\* What verifies does so until the project changes.
LEMMA VerifiesStays ==
    ASSUME UNCHANGED projectVars
    PROVE  Declared' = Declared /\ \A c \in Caps : Verifies(c)' <=> Verifies(c)
BY DEF projectVars, Declared, Verifies, Holds, EvidenceHolds

\* The ledger only grows.
LEMMA DeclaredGrows == SolutionInv /\ [Next]_vars => Declared \subseteq Declared'
<1> SUFFICES ASSUME SolutionInv, [Next]_vars PROVE Declared \subseteq Declared'
  OBVIOUS
<1>1. CASE installed' = installed
  BY <1>1 DEF Declared
<1>2. CASE installed' # installed
  <2>1. ~Surroundings /\ Next
    BY <1>2, SurroundingsProject DEF vars, projectVars
  <2>2. PICK p \in Commands : Command(p)
    BY <2>1 DEF Next
  <2>3. GoesOn(p)
    BY <1>2, <2>2 DEF Command, DoctorBegin, Begin, Add, Starts, projectVars
  <2> QED
    BY <1>2, <2>3, ProjectSteps, Recording
<1> QED
  BY <1>1, <1>2

\* Initially nothing is broken.
LEMMA InitStuckInv == Init => StuckInv
BY DEF Init, StuckInv, StuckFits, Looking, Deeds

\* A command that starts has everything declared to verify.
LEMMA StartStuck ==
    ASSUME SolutionInv, Remember, NEW p \in Commands,
           \/ \E mode \in Advancing : Begin(p, mode)
           \/ \E c \in Caps, mode \in Adding : Add(p, c, mode)
           \/ DoctorBegin(p)
    PROVE  StuckFits(p)'
<1>0. /\ pc \in [Commands -> Labels] /\ job \in [Commands -> Tasks \cup {None}]
      /\ answer \in [Commands -> Answers]
  BY DEF SolutionInv, Fitting, TypeOK
<1>1. ASSUME NEW mode, NEW label, NEW j, Starts(p, mode, label, j)
      PROVE  /\ pc'[p] = label /\ job'[p] = j /\ answer'[p] = "none" /\ Declared' = Declared
             /\ stuck'[p] \subseteq Declared
  <2>1. Declared' = Declared
    BY <1>1, VerifiesStays DEF Starts
  <2>2. stuck'[p] \subseteq Declared'
    BY DEF Remember
  <2> QED
    BY <1>0, <1>1, <2>1, <2>2 DEF Starts
<1>2. ASSUME NEW mode \in Advancing, Begin(p, mode) PROVE StuckFits(p)'
  <2>1. Starts(p, mode, "verify", Task(mode, Declared)) /\ Task(mode, Declared).todo = Declared
    BY <1>2 DEF Begin, Task
  <2> QED
    BY <1>1, <2>1 DEF StuckFits, Looking, Deeds
<1>3. ASSUME NEW c \in Caps, NEW mode \in Adding, Add(p, c, mode) PROVE StuckFits(p)'
  <2> DEFINE j == [Task(mode, {}) EXCEPT !.current = c]
             label == IF mode = "add" THEN "prepare" ELSE "finalize"
  <2>1. Starts(p, mode, label, j) /\ j.mode = mode
    BY <1>3 DEF Add, Task
  <2>2. pc'[p] = label /\ job'[p] = j /\ answer'[p] = "none"
    BY <1>1, <2>1
  <2>3. mode \notin Solving
    BY DEF Adding, Solving, Advancing
  <2> QED
    BY <2>1, <2>2, <2>3 DEF StuckFits, Looking, Deeds
<1>4. ASSUME DoctorBegin(p) PROVE StuckFits(p)'
  <2>1. /\ Starts(p, "doctor", "doctor", Task("doctor", Declared))
        /\ Task("doctor", Declared).todo = Declared
    BY <1>4 DEF DoctorBegin, Task
  <2> QED
    BY <1>1, <2>1 DEF StuckFits, Looking, Deeds
<1> QED
  BY <1>2, <1>3, <1>4

\* A command that goes on has looked at what it takes off its list.
LEMMA GoesOnStuck ==
    ASSUME SolutionInv, StuckInv, Remember, [Next]_vars, NEW p \in Commands, GoesOn(p)
    PROVE  StuckFits(p)'
<1>0. /\ pc \in [Commands -> Labels] /\ job \in [Commands -> Tasks \cup {None}]
      /\ answer \in [Commands -> Answers] /\ Fits(p, pc[p], job[p]) /\ StuckFits(p)
  BY DEF SolutionInv, Fitting, TypeOK, StuckInv
<1>1. /\ job[p] \in Tasks /\ job[p] # None /\ answer[p] = "none" /\ pc[p] # "idle"
      /\ job[p].todo \in SUBSET Caps
  <2>1. pc[p] # "idle"
    BY DEF GoesOn, VerifyInstalled, LookForPlan, ChooseFinalize, AllInstalled, Chooses, Validate,
           Prepare, Create, Finalize, MatchPlan, HashReceipt, Record, CheckLoad, Check,
           DoctorVerify
  <2>2. job[p] \in Tasks
    BY <1>0, <2>1 DEF Fits
  <2> QED
    BY <1>0, <2>1, <2>2, NoneAssumption DEF StuckFits, Tasks
<1>2. ASSUME NEW label, NEW j, Goto(p, label, j)
      PROVE  pc'[p] = label /\ job'[p] = j /\ answer'[p] = "none"
  BY <1>0, <1>1, <1>2 DEF Goto
<1>3. ASSUME NEW status, Ends(p, status) PROVE StuckFits(p)'
  <2>1. pc'[p] = "idle"
    BY <1>0, <1>3 DEF Ends
  <2> QED
    BY <2>1 DEF StuckFits, Looking, Deeds
<1>4. Stops(p) => StuckFits(p)'
  BY <1>3 DEF Stops
<1>5. ASSUME NEW label,
             label \in {"check-load", "validate", "prepare", "finalize", "create"} \cup Deciding,
             NEW j, Goto(p, label, j), stuck[p] = {} \/ j.mode \notin Solving \/ label = "check-load",
             pc[p] # "record" \/ label = "check-load"
      PROVE  StuckFits(p)'
  <2>1. CASE label = "check-load"
    BY <1>2, <1>5, <2>1 DEF StuckFits, Looking, Deeds
  <2>2. CASE label # "check-load"
    <3>1. stuck'[p] \subseteq stuck[p]
      BY <1>1, <1>5, <2>2, StuckShrinks
    <3> QED
      BY <1>2, <1>5, <2>2, <3>1 DEF StuckFits, Looking, Deeds, Deciding
  <2> QED
    BY <2>1, <2>2
<1>6. ASSUME pc[p] \in Looking, job[p].todo # {}, Verifies(First(job[p].todo)),
             UNCHANGED projectVars,
             Goto(p, pc[p], [job[p] EXCEPT !.todo = job[p].todo \ {First(job[p].todo)}])
      PROVE  StuckFits(p)'
  <2>1. PICK c \in Caps : c = First(job[p].todo)
    BY <1>1, <1>6, FirstIsMember
  <2>2. Verifies(c)' /\ Declared' = Declared
    BY <1>6, <2>1, VerifiesStays
  <2>3. stuck'[p] \subseteq stuck[p] /\ c \notin stuck'[p]
    BY <1>1, <1>6, <2>2, StuckShrinks DEF Looking
  <2>4. pc'[p] = pc[p] /\ job'[p].todo = job[p].todo \ {c} /\ answer'[p] = "none"
    BY <1>1, <1>2, <1>6, <2>1 DEF Tasks
  <2>5. stuck[p] \subseteq job[p].todo /\ (pc[p] = "check" => Declared = Caps)
    BY <1>0, <1>6 DEF StuckFits
  <2> QED
    BY <1>6, <2>2, <2>3, <2>4, <2>5 DEF StuckFits, Looking, Deeds
<1>7. pc[p] = "verify" /\ job[p].todo = {} => stuck[p] = {}
  BY <1>0 DEF StuckFits, Looking
<1>a. CASE VerifyInstalled(p)
  <2>1. \/ Stops(p)
        \/ /\ Verifies(First(job[p].todo))
           /\ Goto(p, pc[p], [job[p] EXCEPT !.todo = job[p].todo \ {First(job[p].todo)}])
    BY <1>1, <1>a DEF VerifyInstalled, Tasks
  <2> QED
    BY <1>4, <1>6, <1>a, <2>1 DEF VerifyInstalled, Looking
<1>b. CASE LookForPlan(p)
  <2>1. GoOn(p, "validate") \/ GoOn(p, "prepare") \/ Ends(p, "ready-to-prepare")
    BY <1>b DEF LookForPlan
  <2>2. stuck[p] = {} /\ pc[p] = "verify"
    BY <1>7, <1>b DEF LookForPlan, Chooses
  <2> QED
    BY <1>3, <1>5, <2>1, <2>2 DEF GoOn
<1>c. CASE ChooseFinalize(p)
  <2>1. GoOn(p, "finalize") /\ stuck[p] = {} /\ pc[p] = "verify"
    BY <1>7, <1>c DEF ChooseFinalize, Chooses
  <2> QED
    BY <1>5, <2>1 DEF GoOn
<1>d. CASE AllInstalled(p)
  BY <1>5, <1>d DEF AllInstalled
<1>e. CASE Validate(p)
  BY <1>3, <1>4, <1>e DEF Validate
<1>f. CASE Prepare(p)
  <2> DEFINE j == [job[p] EXCEPT !.held = [recipe |-> recipe[job[p].current], filled |-> FALSE]]
  <2>1. (Goto(p, "create", j) \/ Stops(p)) /\ pc[p] = "prepare"
    BY <1>f DEF Prepare
  <2>2. j.mode = job[p].mode
    BY <1>1 DEF Tasks
  <2>3. stuck[p] = {} \/ j.mode \notin Solving
    BY <1>0, <2>1, <2>2 DEF StuckFits, Deeds
  <2> QED
    BY <1>4, <1>5, <2>1, <2>3
<1>g. CASE Create(p)
  BY <1>3, <1>4, <1>g DEF Create
<1>8. ASSUME NEW label \in Deciding, NEW h, pc[p] \in {"finalize", "match", "hash"},
             Goto(p, label, [job[p] EXCEPT !.held = h])
      PROVE  StuckFits(p)'
  <2> DEFINE j == [job[p] EXCEPT !.held = h]
  <2>1. j.mode = job[p].mode
    BY <1>1 DEF Tasks
  <2>2. stuck[p] = {} \/ j.mode \notin Solving
    BY <1>0, <1>8, <2>1 DEF StuckFits, Deeds
  <2> QED
    BY <1>5, <1>8, <2>2 DEF Deciding
<1>h. CASE Finalize(p)
  <2>1. pc[p] = "finalize"
        /\ (Stops(p) \/ \E h : Goto(p, "match", [job[p] EXCEPT !.held = h]))
    BY <1>h DEF Finalize
  <2>2. ASSUME NEW h, Goto(p, "match", [job[p] EXCEPT !.held = h]) PROVE StuckFits(p)'
    <3>1. "match" \in Deciding
      BY DEF Deciding
    <3> QED
      BY <1>8, <2>1, <2>2, <3>1
  <2> QED
    BY <1>4, <2>1, <2>2
<1>m. CASE MatchPlan(p)
  <2>1. pc[p] = "match"
        /\ (Stops(p) \/ \E h : Goto(p, "hash", [job[p] EXCEPT !.held = h]))
    BY <1>1, <1>m DEF MatchPlan, Locks, Tasks
  <2>2. ASSUME NEW h, Goto(p, "hash", [job[p] EXCEPT !.held = h]) PROVE StuckFits(p)'
    <3>1. "hash" \in Deciding
      BY DEF Deciding
    <3> QED
      BY <1>8, <2>1, <2>2, <3>1
  <2> QED
    BY <1>4, <2>1, <2>2
<1>n. CASE HashReceipt(p)
  <2>1. pc[p] = "hash"
        /\ (Stops(p) \/ \E h : Goto(p, "record", [job[p] EXCEPT !.held = h]))
    BY <1>n DEF HashReceipt, Hashes
  <2>2. ASSUME NEW h, Goto(p, "record", [job[p] EXCEPT !.held = h]) PROVE StuckFits(p)'
    <3>1. "record" \in Deciding
      BY DEF Deciding
    <3> QED
      BY <1>8, <2>1, <2>2, <3>1
  <2> QED
    BY <1>4, <2>1, <2>2
<1>i. CASE Record(p)
  <2>1. \/ Goto(p, "check-load", [job[p] EXCEPT !.held = None])
        \/ Ends(p, "finalized") \/ Ends(p, "added") \/ Stops(p)
    BY <1>i DEF Record, Recorded
  <2> QED
    BY <1>3, <1>4, <1>5, <2>1
<1>j. CASE CheckLoad(p)
  <2>1. \/ Stops(p)
        \/ Declared = Caps /\ Goto(p, "check", [job[p] EXCEPT !.todo = Caps])
    BY <1>j DEF CheckLoad
  <2>2. Declared' = Declared
    BY <1>j, VerifiesStays DEF CheckLoad
  <2>3. stuck'[p] \subseteq Caps
    BY DEF Remember
  <2>4. ASSUME Declared = Caps, Goto(p, "check", [job[p] EXCEPT !.todo = Caps])
        PROVE  StuckFits(p)'
    <3>1. pc'[p] = "check" /\ job'[p].todo = Caps /\ answer'[p] = "none"
      BY <1>1, <1>2, <2>4 DEF Tasks
    <3> QED
      BY <2>2, <2>3, <2>4, <3>1 DEF StuckFits, Looking, Deeds
  <2> QED
    BY <1>4, <2>1, <2>4
<1>k. CASE Check(p)
  <2>1. \/ Stops(p) \/ Ends(p, "complete") \/ Ends(p, "evidence-verified")
        \/ /\ job[p].todo # {} /\ Verifies(First(job[p].todo))
           /\ Goto(p, pc[p], [job[p] EXCEPT !.todo = job[p].todo \ {First(job[p].todo)}])
    BY <1>1, <1>k DEF Check, Tasks
  <2> QED
    BY <1>3, <1>4, <1>6, <1>k, <2>1 DEF Check, Looking
<1>l. CASE DoctorVerify(p)
  <2>1. \/ Ends(p, "unhealthy") \/ Ends(p, "healthy")
        \/ /\ job[p].todo # {} /\ Verifies(First(job[p].todo))
           /\ Goto(p, pc[p], [job[p] EXCEPT !.todo = job[p].todo \ {First(job[p].todo)}])
    BY <1>1, <1>l DEF DoctorVerify, Tasks
  <2> QED
    BY <1>3, <1>6, <1>l, <2>1 DEF DoctorVerify, Looking
<1> QED
  BY <1>a, <1>b, <1>c, <1>d, <1>e, <1>f, <1>g, <1>h, <1>i, <1>j, <1>k, <1>l, <1>m, <1>n
  DEF GoesOn

\* Whoever steps, a command that waits has no more constituents to look at.
LEMMA NextStuckInv == SolutionInv /\ StuckInv /\ [Next]_vars => StuckInv'
<1> SUFFICES ASSUME SolutionInv, StuckInv, [Next]_vars PROVE StuckInv'
  OBVIOUS
<1>1. CASE UNCHANGED vars
  BY <1>1 DEF vars, projectVars, StuckInv, StuckFits, Declared
<1>2. ASSUME Next, NEW p \in Commands, UNCHANGED <<pc[p], job[p], answer[p]>> PROVE StuckFits(p)'
  <2>1. stuck'[p] \subseteq stuck[p]
    <3>1. Remember
      BY <1>2 DEF Next
    <3>2. job[p] # None \/ job'[p] = None
      BY <1>2
    <3>3. pc[p] # "record" \/ pc'[p] = "record"
      BY <1>2
    <3> QED
      BY <3>1, <3>2, <3>3, StuckShrinks
  <2>2. Declared \subseteq Declared' /\ Declared' \subseteq Caps
    BY DeclaredGrows DEF Declared
  <2> QED
    BY <1>2, <2>1, <2>2 DEF StuckInv, StuckFits
<1>3. CASE Next /\ Surroundings
  BY <1>2, <1>3, SurroundingsProject DEF StuckInv
<1>4. ASSUME Next, NEW p \in Commands, Command(p) PROVE StuckInv'
  <2>1. StuckFits(p)'
    BY <1>4, StartStuck, GoesOnStuck DEF Command, Next
  <2>2. ASSUME NEW q \in Commands, q # p PROVE StuckFits(q)'
    BY <1>2, <1>4, <2>2, OthersStay DEF SolutionInv
  <2> QED
    BY <2>1, <2>2 DEF StuckInv
<1> QED
  BY <1>1, <1>3, <1>4 DEF Next

\* A command that records or plans has found nothing broken since it began, and
\* what is broken when the others are verified keeps it from both.
THEOREM DriftBlocksLaterSteps == Spec => DriftBlocks
<1>1. SolutionInv /\ StuckInv /\ [Next]_vars =>
        [\A p \in Commands :
           job[p] # None /\ job[p].mode \in Advancing /\ pc'[p] # pc[p] /\ stuck[p] # {}
             => UNCHANGED <<installed, plan>>]_vars
  <2> SUFFICES ASSUME SolutionInv, StuckInv, Next, NEW p \in Commands, job[p] # None,
                      job[p].mode \in Advancing, pc'[p] # pc[p], stuck[p] # {}
               PROVE  UNCHANGED <<installed, plan>>
    OBVIOUS
  <2>1. ~Surroundings
    BY SurroundingsProject
  <2>2. Command(p)
    BY <2>1, OthersStay DEF Next, SolutionInv
  <2>3. pc[p] \notin Deeds
    BY DEF StuckInv, StuckFits, Solving
  <2>4. CASE GoesOn(p)
    BY <2>3, <2>4, ProjectSteps DEF Deeds
  <2>5. CASE ~GoesOn(p)
    BY <2>2, <2>5 DEF Command, DoctorBegin, Begin, Add, Starts, projectVars
  <2> QED
    BY <2>4, <2>5
<1> QED
  BY <1>1, InitSolutionInv, NextSolutionInv, InitStuckInv, NextStuckInv, PTL DEF Spec, DriftBlocks

\* What a command answers, and that it has then nothing left to look at.
LEMMA Answering ==
    ASSUME SolutionInv, StuckInv, NEW p \in Commands, GoesOn(p), job[p].mode \in Solving,
           answer'[p] \in Favourable
    PROVE  /\ stuck[p] = {}
           /\ answer'[p] \in {"complete", "evidence-verified"} => Declared = Caps
<1>0. answer \in [Commands -> Answers] /\ StuckFits(p) /\ Fits(p, pc[p], job[p])
  BY DEF SolutionInv, TypeOK, StuckInv, Fitting
<1>1. answer[p] \notin Favourable
  <2>1. pc[p] # "idle"
    BY DEF GoesOn, VerifyInstalled, LookForPlan, ChooseFinalize, AllInstalled, Chooses, Validate,
           Prepare, Create, Finalize, MatchPlan, HashReceipt, Record, CheckLoad, Check,
           DoctorVerify
  <2> QED
    BY <1>0, <2>1 DEF StuckFits, Favourable
<1>2. \A label, j : ~Goto(p, label, j)
  BY <1>1 DEF Goto
<1>3. ~Stops(p)
  <2>1. Stops(p) => answer'[p] = "stopped"
    BY <1>0 DEF Stops, Ends
  <2> QED
    BY <2>1 DEF Favourable
<1>4. \A status : Ends(p, status) => answer'[p] = status
  BY <1>0 DEF Ends
<1>5. pc[p] \in Looking /\ job[p].todo = {} => stuck[p] = {}
  BY <1>0 DEF StuckFits
<1>6. pc[p] \in Deeds => stuck[p] = {}
  BY <1>0 DEF StuckFits
<1>7. ~VerifyInstalled(p) /\ ~ChooseFinalize(p) /\ ~AllInstalled(p) /\ ~CheckLoad(p)
  BY <1>2, <1>3 DEF VerifyInstalled, ChooseFinalize, GoOn, AllInstalled, CheckLoad
<1>8. CASE LookForPlan(p)
  <2>1. Ends(p, "ready-to-prepare") /\ pc[p] = "verify" /\ job[p].todo = {}
    BY <1>2, <1>8 DEF LookForPlan, GoOn, Chooses
  <2> QED
    BY <1>4, <1>5, <2>1 DEF Looking
<1>9. CASE \/ Validate(p) \/ Prepare(p) \/ Create(p)
           \/ Finalize(p) \/ MatchPlan(p) \/ HashReceipt(p) \/ Record(p)
  <2>1. pc[p] \in Deeds
    BY <1>9 DEF Validate, Prepare, Create, Finalize, MatchPlan, HashReceipt, Record, Deeds
  <2>2. Validate(p) => answer'[p] \in {"awaiting-agent", "awaiting-finalization"}
    BY <1>3, <1>4 DEF Validate
  <2>3. Create(p) => answer'[p] = "prepared"
    BY <1>3, <1>4 DEF Create
  <2>4. ~Prepare(p) /\ ~Finalize(p) /\ ~MatchPlan(p) /\ ~HashReceipt(p)
    BY <1>2, <1>3 DEF Prepare, Finalize, MatchPlan, Locks, HashReceipt, Hashes
  <2>5. Record(p) => answer'[p] \in {"finalized", "added"}
    BY <1>2, <1>3, <1>4 DEF Record, Recorded
  <2> QED
    BY <1>6, <1>9, <2>1, <2>2, <2>3, <2>4, <2>5
<1>10. CASE Check(p)
  <2>1. pc[p] = "check" /\ job[p].todo = {}
    BY <1>2, <1>3, <1>10 DEF Check
  <2> QED
    BY <1>0, <1>5, <2>1 DEF StuckFits, Looking
<1>11. CASE DoctorVerify(p)
  <2>1. pc[p] = "doctor" /\ job[p].todo = {} /\ Ends(p, "healthy")
    <3>1. ~Ends(p, "unhealthy")
      BY <1>4 DEF Favourable
    <3> QED
      BY <1>2, <1>11, <3>1 DEF DoctorVerify
  <2> QED
    BY <1>4, <1>5, <2>1 DEF Looking
<1> QED
  BY <1>7, <1>8, <1>9, <1>10, <1>11 DEF GoesOn

\* An answer other than an error holds of a state the command went through,
\* though everything it has verified may change while it goes on.
THEOREM AnswersHold == Spec => AnswersAreTrue
<1>1. SolutionInv /\ StuckInv /\ [Next]_vars =>
        [\A p \in Commands : job[p] # None /\ answer'[p] \in Favourable
                               /\ job[p].mode \in Advancing \cup {"doctor"} =>
           /\ stuck[p] = {}
           /\ answer'[p] \in {"complete", "evidence-verified"} => Declared = Caps]_vars
  <2> SUFFICES ASSUME SolutionInv, StuckInv, Next, NEW p \in Commands, job[p] # None,
                      answer'[p] \in Favourable, job[p].mode \in Solving
               PROVE  /\ stuck[p] = {}
                      /\ answer'[p] \in {"complete", "evidence-verified"} => Declared = Caps
    BY DEF Solving
  <2>1. pc[p] # "idle"
    BY DEF SolutionInv, Fitting, Fits
  <2>2. answer'[p] # answer[p]
    BY <2>1 DEF StuckInv, StuckFits, Favourable
  <2>3. ~Surroundings
    BY <2>2, SurroundingsProject
  <2>4. Command(p)
    BY <2>2, <2>3, OthersStay DEF Next, SolutionInv
  <2>5. GoesOn(p)
    BY <2>1, <2>4 DEF Command, DoctorBegin, Begin, Add, Starts
  <2> QED
    BY <2>5, Answering
<1> QED
  BY <1>1, InitSolutionInv, NextSolutionInv, InitStuckInv, NextStuckInv, PTL DEF Spec, AnswersAreTrue

=============================================================================
