------------------------- MODULE CapabilityStateProofs -------------------------
(***************************************************************************)
(* Theorems of CapabilityState for every set of commands, capabilities and *)
(* versions.                                                               *)
(***************************************************************************)
EXTENDS CapabilityState, TLAPS

-----------------------------------------------------------------------------
(***************************************************************************)
(* Type correctness.  TypeOK is not inductive: what a command writes is    *)
(* typed only because the steps before have filled its local variables.    *)
(***************************************************************************)
Hashed == {"check", "saveManifest", "saveLock"} \cup Writing \cup Restoring
Saved == {"saveManifest", "saveLock"} \cup Writing \cup Restoring

LocalsFilled ==
    \A p \in Commands :
        /\ pc[p] # "idle" => op[p] \in Operation
        /\ pc[p] \in Hashed => hashed[p] \in Bytes
        /\ pc[p] \in Saved => original[p] \in Original

TypeInv == TypeOK /\ LocalsFilled

Labels == Reading \cup Writing \cup Restoring \cup Ended

\* The initial state is well typed.
LEMMA InitTypeInv == Init => TypeInv
BY ConstantsAssumption
DEF Init, TypeInv, TypeOK, LocalsFilled, Listing, Twice, Versions, Hashed, Saved,
    Reading, Writing, Restoring, Ended

\* A move of one command keeps the labels and, when it does not enter a later
\* phase, what is known of its locals.
LEMMA GotoType ==
    ASSUME TypeInv, NEW p \in Commands, pc[p] # "idle", NEW l \in Labels, Goto(p, l),
           l \in Hashed => pc[p] \in Hashed, l \in Saved => pc[p] \in Saved,
           UNCHANGED <<op, hashed, original>>
    PROVE  /\ pc' \in [Commands -> {"idle"} \cup Reading \cup Writing \cup Restoring \cup Ended]
           /\ LocalsFilled'
BY DEF TypeInv, TypeOK, LocalsFilled, Goto, Labels

\* Every step of the system keeps the types.
LEMMA NextTypeInv == TypeInv /\ [Next]_vars => TypeInv'
<1> SUFFICES ASSUME TypeInv, [Next]_vars PROVE TypeInv'
  OBVIOUS
<1> USE ConstantsAssumption
<1>1. CASE UNCHANGED vars
  BY <1>1 DEF TypeInv, TypeOK, LocalsFilled, vars, files
<1>2. ASSUME NEW p \in Commands, NEW k \in Kinds, NEW c \in Caps, NEW v \in Versions,
             Begin(p, k, c, v)
      PROVE TypeInv'
  <2>1. op' \in [Commands -> Operation \cup {None}] /\ op'[p] \in Operation
    BY <1>2 DEF TypeInv, TypeOK, Begin, Operation
  <2>2. project' \in [Commands -> Listing]
    BY <1>2 DEF TypeInv, TypeOK, Begin
  <2>3. pc' = [pc EXCEPT ![p] = "loadLock"]
    BY <1>2 DEF Begin, Goto
  <2>4. pc' \in [Commands -> {"idle"} \cup Reading \cup Writing \cup Restoring \cup Ended]
    BY <2>3 DEF TypeInv, TypeOK, Reading
  <2>5. LocalsFilled'
    BY <1>2, <2>1, <2>3 DEF TypeInv, TypeOK, LocalsFilled, Begin, Hashed, Saved, Writing, Restoring
  <2> QED
    BY <1>2, <2>1, <2>2, <2>4, <2>5 DEF TypeInv, TypeOK, Begin, files
<1>3. ASSUME NEW p \in Commands, LoadLock(p) PROVE TypeInv'
  <2>1. locked' \in [Commands -> Listing]
    BY <1>3 DEF TypeInv, TypeOK, LoadLock
  <2>2. /\ pc' \in [Commands -> {"idle"} \cup Reading \cup Writing \cup Restoring \cup Ended]
        /\ LocalsFilled'
    BY <1>3, GotoType
    DEF LoadLock, Labels, Reading, Writing, Restoring, Hashed, Saved
  <2> QED
    BY <1>3, <2>1, <2>2 DEF TypeInv, TypeOK, LoadLock, files
<1>4. ASSUME NEW p \in Commands, HashEvidence(p) PROVE TypeInv'
  <2>1. op[p] \in Operation
    BY <1>4 DEF TypeInv, LocalsFilled, HashEvidence
  <2>2. evidence[Cap(p)] \in Bytes
    BY <2>1 DEF TypeInv, TypeOK, Cap, Operation
  <2>3. hashed' \in [Commands -> Bytes \cup {None}] /\ hashed'[p] \in Bytes
    BY <1>4, <2>2 DEF TypeInv, TypeOK, HashEvidence
  <2>4. pc' = [pc EXCEPT ![p] = "check"]
    BY <1>4 DEF HashEvidence, Goto
  <2>5. pc' \in [Commands -> {"idle"} \cup Reading \cup Writing \cup Restoring \cup Ended]
    BY <2>4 DEF TypeInv, TypeOK, Reading
  <2>6. LocalsFilled'
    BY <1>4, <2>1, <2>3, <2>4
    DEF TypeInv, TypeOK, LocalsFilled, HashEvidence, Hashed, Saved, Writing, Restoring
  <2> QED
    BY <1>4, <2>3, <2>5, <2>6 DEF TypeInv, TypeOK, HashEvidence, files
<1>5. ASSUME NEW p \in Commands, CheckTargets(p) PROVE TypeInv'
  <2>1. op[p] \in Operation /\ hashed[p] \in Bytes
    BY <1>5 DEF TypeInv, LocalsFilled, CheckTargets, Hashed
  <2>2. [manifest |-> manifest, lock |-> lock,
         receipt |-> receipt[Cap(p)], ancestry |-> ancestry[Cap(p)]] \in Original
    BY <2>1 DEF TypeInv, TypeOK, Cap, Operation, Original
  <2>3. original' \in [Commands -> Original \cup {None}] /\ original'[p] \in Original
    BY <1>5, <2>2 DEF TypeInv, TypeOK, CheckTargets
  <2>4. pc' = [pc EXCEPT ![p] = "saveManifest"]
    BY <1>5 DEF CheckTargets, Goto
  <2>5. pc' \in [Commands -> {"idle"} \cup Reading \cup Writing \cup Restoring \cup Ended]
    BY <2>4 DEF TypeInv, TypeOK, Reading
  <2>6. LocalsFilled'
    BY <1>5, <2>1, <2>3, <2>4
    DEF TypeInv, TypeOK, LocalsFilled, CheckTargets
  <2> QED
    BY <1>5, <2>3, <2>5, <2>6 DEF TypeInv, TypeOK, CheckTargets, files
<1>6. ASSUME NEW p \in Commands, SaveManifest(p) PROVE TypeInv'
  <2>1. original[p] \in Original /\ op[p] \in Operation /\ hashed[p] \in Bytes
    BY <1>6 DEF TypeInv, LocalsFilled, SaveManifest, Saved, Hashed
  <2>2. [original[p] EXCEPT !.manifest = manifest] \in Original
    BY <2>1 DEF TypeInv, TypeOK, Original
  <2>3. original' \in [Commands -> Original \cup {None}] /\ original'[p] \in Original
    BY <1>6, <2>2 DEF TypeInv, TypeOK, SaveManifest
  <2>4. pc' = [pc EXCEPT ![p] = "saveLock"]
    BY <1>6 DEF SaveManifest, Goto
  <2>5. pc' \in [Commands -> {"idle"} \cup Reading \cup Writing \cup Restoring \cup Ended]
    BY <2>4 DEF TypeInv, TypeOK, Reading
  <2>6. LocalsFilled'
    BY <1>6, <2>1, <2>3, <2>4 DEF TypeInv, TypeOK, LocalsFilled, SaveManifest
  <2> QED
    BY <1>6, <2>3, <2>5, <2>6 DEF TypeInv, TypeOK, SaveManifest, files
<1>7. ASSUME NEW p \in Commands, SaveLock(p) PROVE TypeInv'
  <2>1. original[p] \in Original /\ op[p] \in Operation /\ hashed[p] \in Bytes
    BY <1>7 DEF TypeInv, LocalsFilled, SaveLock, Saved, Hashed
  <2>2. [original[p] EXCEPT !.lock = lock] \in Original
    BY <2>1 DEF TypeInv, TypeOK, Original
  <2>3. original' \in [Commands -> Original \cup {None}] /\ original'[p] \in Original
    BY <1>7, <2>2 DEF TypeInv, TypeOK, SaveLock
  <2>4. pc' = [pc EXCEPT ![p] = "linkAncestry"]
    BY <1>7 DEF SaveLock, Goto
  <2>5. pc' \in [Commands -> {"idle"} \cup Reading \cup Writing \cup Restoring \cup Ended]
    BY <2>4 DEF TypeInv, TypeOK, Writing
  <2>6. LocalsFilled'
    BY <1>7, <2>1, <2>3, <2>4 DEF TypeInv, TypeOK, LocalsFilled, SaveLock
  <2> QED
    BY <1>7, <2>3, <2>5, <2>6 DEF TypeInv, TypeOK, SaveLock, files
<1>8. ASSUME NEW p \in Commands, Refuse(p) PROVE TypeInv'
  <2>1. /\ pc' \in [Commands -> {"idle"} \cup Reading \cup Writing \cup Restoring \cup Ended]
        /\ LocalsFilled'
    BY <1>8, GotoType DEF Refuse, Labels, Reading, Writing, Restoring, Ended, Hashed, Saved
  <2> QED
    BY <1>8, <2>1 DEF TypeInv, TypeOK, Refuse, files
<1>9. ASSUME NEW p \in Commands, pc[p] \in Writing \cup Restoring
      PROVE  /\ DocumentOf(p) \in Document
             /\ Cap(p) \in Caps
             /\ op[p].version \in Versions
             /\ original[p] \in Original
  BY <1>9 DEF TypeInv, LocalsFilled, DocumentOf, Document, Cap, Operation, Hashed, Saved,
              Writing, Restoring
<1>10. ASSUME NEW p \in Commands, LinkAncestry(p) PROVE TypeInv'
  <2>1. /\ pc' \in [Commands -> {"idle"} \cup Reading \cup Writing \cup Restoring \cup Ended]
        /\ LocalsFilled'
    BY <1>10, GotoType DEF LinkAncestry, Labels, Writing, Hashed, Saved
  <2>2. /\ ancestry' \in [Caps -> Document \cup {None}]
        /\ linked' \in [Commands -> SUBSET {"ancestry", "receipt"}]
    BY <1>9, <1>10 DEF TypeInv, TypeOK, LinkAncestry, Writing
  <2> QED
    BY <1>10, <2>1, <2>2 DEF TypeInv, TypeOK, LinkAncestry
<1>11. ASSUME NEW p \in Commands, LinkReceipt(p) PROVE TypeInv'
  <2>1. /\ pc' \in [Commands -> {"idle"} \cup Reading \cup Writing \cup Restoring \cup Ended]
        /\ LocalsFilled'
    BY <1>11, GotoType DEF LinkReceipt, Labels, Writing, Hashed, Saved
  <2>2. /\ receipt' \in [Caps -> Document \cup {None}]
        /\ linked' \in [Commands -> SUBSET {"ancestry", "receipt"}]
    BY <1>9, <1>11 DEF TypeInv, TypeOK, LinkReceipt, Writing
  <2> QED
    BY <1>11, <2>1, <2>2 DEF TypeInv, TypeOK, LinkReceipt
<1>12. ASSUME NEW p \in Commands, RenameManifest(p) PROVE TypeInv'
  <2>1. /\ pc' \in [Commands -> {"idle"} \cup Reading \cup Writing \cup Restoring \cup Ended]
        /\ LocalsFilled'
    BY <1>12, GotoType DEF RenameManifest, Labels, Writing, Hashed, Saved
  <2>2. manifest' \in Listing
    BY <1>9, <1>12
    DEF TypeInv, TypeOK, RenameManifest, NextManifest, Listing, Twice, Versions, Writing
  <2> QED
    BY <1>12, <2>1, <2>2 DEF TypeInv, TypeOK, RenameManifest
<1>13. ASSUME NEW p \in Commands, RenameLock(p) PROVE TypeInv'
  <2>1. /\ pc' \in [Commands -> {"idle"} \cup Reading \cup Writing \cup Restoring \cup Ended]
        /\ LocalsFilled'
    BY <1>13, GotoType DEF RenameLock, Labels, Writing, Hashed, Saved
  <2>2. op[p] \in Operation
    BY <1>13 DEF TypeInv, LocalsFilled, RenameLock
  <2>3. op[p].kind \in {"install", "upgrade"} /\ op[p].version \in Versions /\ Cap(p) \in Caps
    BY <2>2 DEF Operation, Cap
  <2>4. lock' \in Listing
    BY <1>13, <2>3 DEF TypeInv, TypeOK, RenameLock, NextLock, Listing, Twice, Versions
  <2> QED
    BY <1>13, <2>1, <2>4 DEF TypeInv, TypeOK, RenameLock
<1>14. ASSUME NEW p \in Commands, Verify(p) PROVE TypeInv'
  <2>1. /\ pc' \in [Commands -> {"idle"} \cup Reading \cup Writing \cup Restoring \cup Ended]
        /\ LocalsFilled'
    BY <1>14, GotoType DEF Verify, Labels, Writing, Restoring, Ended, Hashed, Saved
  <2> QED
    BY <1>14, <2>1 DEF TypeInv, TypeOK, Verify, files
<1>15. ASSUME NEW p \in Commands, Catch(p) PROVE TypeInv'
  <2>1. pc[p] \in Writing
    BY <1>15 DEF Catch, FailedWrite, Writing
  <2>2. /\ pc' \in [Commands -> {"idle"} \cup Reading \cup Writing \cup Restoring \cup Ended]
        /\ LocalsFilled'
    BY <1>15, <2>1, GotoType DEF Catch, Labels, Writing, Restoring, Hashed, Saved
  <2> QED
    BY <1>15, <2>2 DEF TypeInv, TypeOK, Catch, files
<1>16. ASSUME NEW p \in Commands, RestoreManifest(p) PROVE TypeInv'
  <2>1. /\ pc' \in [Commands -> {"idle"} \cup Reading \cup Writing \cup Restoring \cup Ended]
        /\ LocalsFilled'
    BY <1>16, GotoType DEF RestoreManifest, Labels, Restoring, Hashed, Saved
  <2>2. manifest' \in Listing
    BY <1>9, <1>16 DEF RestoreManifest, Original, Restoring
  <2> QED
    BY <1>16, <2>1, <2>2 DEF TypeInv, TypeOK, RestoreManifest
<1>17. ASSUME NEW p \in Commands, RestoreLock(p) PROVE TypeInv'
  <2>1. /\ pc' \in [Commands -> {"idle"} \cup Reading \cup Writing \cup Restoring \cup Ended]
        /\ LocalsFilled'
    BY <1>17, GotoType DEF RestoreLock, Labels, Restoring, Hashed, Saved
  <2>2. lock' \in Listing
    BY <1>9, <1>17 DEF RestoreLock, Original, Restoring
  <2> QED
    BY <1>17, <2>1, <2>2 DEF TypeInv, TypeOK, RestoreLock
<1>18. ASSUME NEW p \in Commands, RestoreReceipt(p) PROVE TypeInv'
  <2>1. /\ pc' \in [Commands -> {"idle"} \cup Reading \cup Writing \cup Restoring \cup Ended]
        /\ LocalsFilled'
    BY <1>18, GotoType DEF RestoreReceipt, Labels, Restoring, Hashed, Saved
  <2>2. receipt' \in [Caps -> Document \cup {None}]
    BY <1>9, <1>18 DEF TypeInv, TypeOK, RestoreReceipt, Original, Restoring
  <2> QED
    BY <1>18, <2>1, <2>2 DEF TypeInv, TypeOK, RestoreReceipt
<1>19. ASSUME NEW p \in Commands, RestoreAncestry(p) PROVE TypeInv'
  <2>1. /\ pc' \in [Commands -> {"idle"} \cup Reading \cup Writing \cup Restoring \cup Ended]
        /\ LocalsFilled'
    BY <1>19, GotoType DEF RestoreAncestry, Labels, Writing, Restoring, Ended, Hashed, Saved
  <2>2. ancestry' \in [Caps -> Document \cup {None}]
    BY <1>9, <1>19 DEF TypeInv, TypeOK, RestoreAncestry, Original, Restoring
  <2> QED
    BY <1>19, <2>1, <2>2 DEF TypeInv, TypeOK, RestoreAncestry
<1>20. ASSUME NEW p \in Commands, Crash(p) PROVE TypeInv'
  <2>1. /\ pc' \in [Commands -> {"idle"} \cup Reading \cup Writing \cup Restoring \cup Ended]
        /\ LocalsFilled'
    BY <1>20, GotoType
    DEF Crash, Running, Replacing, Labels, Reading, Writing, Restoring, Ended, Hashed, Saved
  <2> QED
    BY <1>20, <2>1 DEF TypeInv, TypeOK, Crash, files
<1>21. ASSUME NEW c \in Caps, NEW v \in Versions, PrepareInstall(c, v) PROVE TypeInv'
  <2>1. plan' \in [Caps -> 0..MaxVersion]
    BY <1>21 DEF TypeInv, TypeOK, PrepareInstall, Versions
  <2> QED
    BY <1>21, <2>1 DEF TypeInv, TypeOK, LocalsFilled, PrepareInstall, files
<1>22. ASSUME NEW c \in Caps, NEW v \in Versions, PrepareUpgrade(c, v) PROVE TypeInv'
  <2>1. manifest[c] \in Versions
    BY <1>22 DEF TypeInv, TypeOK, PrepareUpgrade, DiffOk, Document
  <2>2. upgradePlan' \in [Caps -> [from : Versions, to : Versions] \cup {None}]
    BY <1>22, <2>1 DEF TypeInv, TypeOK, PrepareUpgrade
  <2> QED
    BY <1>22, <2>2 DEF TypeInv, TypeOK, LocalsFilled, PrepareUpgrade, files
<1>23. ASSUME NEW c \in Caps, NEW b \in Bytes, EditEvidence(c, b) PROVE TypeInv'
  BY <1>23 DEF TypeInv, TypeOK, LocalsFilled, EditEvidence, files
<1> QED
  BY <1>1, <1>2, <1>3, <1>4, <1>5, <1>6, <1>7, <1>8, <1>10, <1>11, <1>12, <1>13, <1>14,
     <1>15, <1>16, <1>17, <1>18, <1>19, <1>20, <1>21, <1>22, <1>23
  DEF Next, Step, Environment

\* Type correctness of the project state and of every command, at all times.
THEOREM TypeCorrect == Spec => []TypeOK
<1>1. Spec => []TypeInv
  BY InitTypeInv, NextTypeInv, PTL DEF Spec
<1>2. TypeInv => TypeOK
  BY DEF TypeInv
<1> QED
  BY <1>1, <1>2, PTL

-----------------------------------------------------------------------------
(***************************************************************************)
(* Racing installs.  Whatever the number of commands, their overlaps,      *)
(* failed writes and crashes, a receipt stands only beside its own         *)
(* ancestry.  The strengthening says who owns what: link() gives a command *)
(* the ancestry of its capability until it removes it, and only that       *)
(* command has ever linked a receipt there.                                *)
(***************************************************************************)
AncestryOwned(p) ==
    /\ "ancestry" \in linked[p] /\ pc[p] \in Writing \cup Restoring
         => ancestry[Cap(p)] = DocumentOf(p)
    /\ pc[p] \in {"linkReceipt", "renameManifest", "renameLock", "verify"}
         => "ancestry" \in linked[p]
    /\ pc[p] \in {"idle", "linkAncestry"} \cup Reading => linked[p] = {}
    /\ "receipt" \in linked[p] => "ancestry" \in linked[p]

NothingSaved(p) ==
    pc[p] \in Saved => original[p].receipt = None /\ original[p].ancestry = None

ReceiptOwned(p) ==
    \A c \in Caps : receipt[c] # None /\ receipt[c].by = p =>
        /\ "receipt" \in linked[p]
        /\ c = Cap(p)
        /\ pc[p] \notin {"restoreAncestry", "failed"}

LinkInv ==
    /\ TypeInv
    /\ ReceiptHasItsAncestry
    /\ \A p \in Commands : AncestryOwned(p) /\ NothingSaved(p) /\ ReceiptOwned(p)

\* Initially no document exists and no command has linked one.
LEMMA InitLinkInv == Init => LinkInv
BY InitTypeInv
DEF Init, LinkInv, ReceiptHasItsAncestry, AncestryOwned, NothingSaved, ReceiptOwned,
    Reading, Writing, Restoring, Saved

\* A step that moves one command and touches no document keeps ownership.
LEMMA MoveLinkInv ==
    ASSUME LinkInv, TypeInv', NEW p \in Commands, NEW l \in Labels, Goto(p, l), pc[p] # "idle",
           UNCHANGED <<receipt, ancestry, linked, op, hashed>>,
           l \in Saved => original'[p].receipt = None /\ original'[p].ancestry = None,
           \A q \in Commands \ {p} : original'[q] = original[q],
           l \in Writing \cup Restoring => pc[p] \in Writing \cup Restoring \/ linked[p] = {},
           l \in {"linkReceipt", "renameManifest", "renameLock", "verify"} => "ancestry" \in linked[p],
           l \in {"idle", "linkAncestry"} \cup Reading => linked[p] = {},
           l \in {"restoreAncestry", "failed"} => "receipt" \notin linked[p] \/ pc[p] = "restoreAncestry"
    PROVE  LinkInv'
<1>1. pc' = [pc EXCEPT ![p] = l]
  BY DEF Goto
<1>2. ReceiptHasItsAncestry'
  BY DEF LinkInv, ReceiptHasItsAncestry
<1>3. ASSUME NEW q \in Commands PROVE AncestryOwned(q)'
  BY <1>1 DEF LinkInv, TypeInv, TypeOK, AncestryOwned, Cap, DocumentOf
<1>4. ASSUME NEW q \in Commands PROVE NothingSaved(q)'
  BY <1>1 DEF LinkInv, TypeInv, TypeOK, NothingSaved
<1>5. ASSUME NEW q \in Commands PROVE ReceiptOwned(q)'
  BY <1>1 DEF LinkInv, TypeInv, TypeOK, ReceiptOwned, Cap
<1> QED
  BY <1>2, <1>3, <1>4, <1>5 DEF LinkInv

\* Every step of racing installs keeps the ownership of documents.
LEMMA NextLinkInv ==
    ASSUME Kinds = {"install"}
    PROVE  LinkInv /\ [Next]_vars => LinkInv'
<1> SUFFICES ASSUME LinkInv, [Next]_vars PROVE LinkInv'
  OBVIOUS
<1> USE ConstantsAssumption
<1>t. TypeInv /\ TypeInv'
  BY NextTypeInv DEF LinkInv
<1>i. ASSUME NEW p \in Commands, pc[p] # "idle"
      PROVE  op[p].kind = "install" /\ Cap(p) \in Caps
  BY <1>t, <1>i DEF TypeInv, LocalsFilled, Operation, Cap
<1>d. ASSUME NEW p \in Commands, pc[p] \in Writing \cup Restoring
      PROVE  DocumentOf(p) \in Document /\ DocumentOf(p) # None /\ DocumentOf(p).by = p
  BY <1>t, <1>d
  DEF TypeInv, LocalsFilled, DocumentOf, Document, Operation, Hashed, Writing, Restoring, Versions
<1>1. CASE UNCHANGED vars
  BY <1>1, <1>t
  DEF LinkInv, ReceiptHasItsAncestry, AncestryOwned, NothingSaved, ReceiptOwned,
      Cap, DocumentOf, vars, files
<1>2. ASSUME NEW p \in Commands, NEW k \in Kinds, NEW c \in Caps, NEW v \in Versions,
             Begin(p, k, c, v)
      PROVE LinkInv'
  <2>1. /\ pc' = [pc EXCEPT ![p] = "loadLock"] /\ pc[p] = "idle"
        /\ \A q \in Commands \ {p} : op'[q] = op[q]
        /\ UNCHANGED <<receipt, ancestry, linked, hashed, original>>
    BY <1>2, <1>t DEF Begin, Goto, files, TypeInv, TypeOK
  <2>2. linked[p] = {}
    BY <2>1 DEF LinkInv, AncestryOwned
  <2>3. ReceiptHasItsAncestry'
    BY <2>1 DEF LinkInv, ReceiptHasItsAncestry
  <2>4. ASSUME NEW q \in Commands PROVE AncestryOwned(q)'
    BY <1>t, <2>1, <2>2
    DEF LinkInv, TypeInv, TypeOK, AncestryOwned, Cap, DocumentOf, Writing, Restoring
  <2>5. ASSUME NEW q \in Commands PROVE NothingSaved(q)'
    BY <1>t, <2>1 DEF LinkInv, TypeInv, TypeOK, NothingSaved, Saved, Writing, Restoring
  <2>6. ASSUME NEW q \in Commands PROVE ReceiptOwned(q)'
    BY <1>t, <2>1, <2>2 DEF LinkInv, TypeInv, TypeOK, ReceiptOwned, Cap
  <2> QED
    BY <1>t, <2>3, <2>4, <2>5, <2>6 DEF LinkInv
<1>3. ASSUME NEW p \in Commands,
             LoadLock(p) \/ HashEvidence(p) \/ SaveManifest(p) \/ SaveLock(p)
               \/ CheckTargets(p) \/ Refuse(p)
      PROVE LinkInv'
  <2>1. /\ pc[p] \in Reading /\ pc[p] # "idle" /\ linked[p] = {}
        /\ UNCHANGED <<receipt, ancestry, linked, op>>
        /\ \A q \in Commands \ {p} : original'[q] = original[q] /\ hashed'[q] = hashed[q]
    BY <1>3, <1>t
    DEF LoadLock, HashEvidence, SaveManifest, SaveLock, CheckTargets, Refuse, files, Reading,
        LinkInv, AncestryOwned, TypeInv, TypeOK
  <2>2. PICK l \in Reading \cup {"linkAncestry", "failed"} : pc' = [pc EXCEPT ![p] = l]
    BY <1>3 DEF LoadLock, HashEvidence, SaveManifest, SaveLock, CheckTargets, Refuse, Goto, Reading
  <2>3. l \in Saved => original'[p].receipt = None /\ original'[p].ancestry = None
    <3>1. CASE CheckTargets(p)
      BY <1>i, <1>t, <2>1, <3>1 DEF CheckTargets, TypeInv, TypeOK
    <3>2. CASE SaveManifest(p) \/ SaveLock(p)
      BY <1>t, <2>1, <3>2
      DEF SaveManifest, SaveLock, LinkInv, NothingSaved, Saved, TypeInv, TypeOK, LocalsFilled, Original
    <3>3. CASE LoadLock(p) \/ HashEvidence(p) \/ Refuse(p)
      BY <1>t, <2>2, <3>3
      DEF LoadLock, HashEvidence, Refuse, Goto, Saved, Writing, Restoring, TypeInv, TypeOK
    <3> QED
      BY <1>3, <3>1, <3>2, <3>3
  <2>4. ReceiptHasItsAncestry'
    BY <2>1 DEF LinkInv, ReceiptHasItsAncestry
  <2>5. ASSUME NEW q \in Commands PROVE AncestryOwned(q)'
    BY <1>t, <2>1, <2>2 DEF LinkInv, TypeInv, TypeOK, AncestryOwned, Cap, DocumentOf, Reading
  <2>6. ASSUME NEW q \in Commands PROVE NothingSaved(q)'
    BY <1>t, <2>1, <2>2, <2>3 DEF LinkInv, TypeInv, TypeOK, NothingSaved
  <2>7. ASSUME NEW q \in Commands PROVE ReceiptOwned(q)'
    BY <1>t, <2>1, <2>2 DEF LinkInv, TypeInv, TypeOK, ReceiptOwned, Cap
  <2> QED
    BY <1>t, <2>4, <2>5, <2>6, <2>7 DEF LinkInv
<1>4. ASSUME NEW p \in Commands, LinkAncestry(p) PROVE LinkInv'
  <2>1. /\ pc[p] = "linkAncestry" /\ linked[p] = {} /\ Cap(p) \in Caps
        /\ ancestry[Cap(p)] = None /\ receipt[Cap(p)] = None
        /\ DocumentOf(p) \in Document /\ DocumentOf(p) # None
    BY <1>4, <1>i, <1>d DEF LinkAncestry, LinkInv, AncestryOwned, ReceiptHasItsAncestry, Writing
  <2>2. /\ ancestry' = [ancestry EXCEPT ![Cap(p)] = DocumentOf(p)]
        /\ linked' = [linked EXCEPT ![p] = linked[p] \cup {"ancestry"}]
        /\ pc' = [pc EXCEPT ![p] = "linkReceipt"]
        /\ UNCHANGED <<receipt, op, hashed, original>>
    BY <1>4 DEF LinkAncestry, Goto
  <2>3. ReceiptHasItsAncestry'
    BY <1>t, <2>1, <2>2 DEF LinkInv, ReceiptHasItsAncestry, TypeInv, TypeOK
  <2>4. ASSUME NEW q \in Commands PROVE AncestryOwned(q)'
    <3>1. CASE q = p
      BY <1>t, <2>1, <2>2, <3>1 DEF AncestryOwned, TypeInv, TypeOK, Cap, DocumentOf, Reading
    <3>2. CASE q # p
      <4>1. "ancestry" \in linked[q] /\ pc[q] \in Writing \cup Restoring => Cap(q) # Cap(p)
        BY <1>d, <2>1 DEF LinkInv, AncestryOwned
      <4> QED
        BY <1>t, <2>1, <2>2, <3>2, <4>1 DEF LinkInv, AncestryOwned, TypeInv, TypeOK, Cap, DocumentOf
    <3> QED
      BY <3>1, <3>2
  <2>5. ASSUME NEW q \in Commands PROVE NothingSaved(q)'
    BY <1>t, <2>1, <2>2 DEF LinkInv, NothingSaved, TypeInv, TypeOK, Saved, Writing
  <2>6. ASSUME NEW q \in Commands PROVE ReceiptOwned(q)'
    BY <1>t, <2>1, <2>2 DEF LinkInv, ReceiptOwned, TypeInv, TypeOK, Cap
  <2> QED
    BY <1>t, <2>3, <2>4, <2>5, <2>6 DEF LinkInv
<1>5. ASSUME NEW p \in Commands, LinkReceipt(p) PROVE LinkInv'
  <2>1. /\ pc[p] = "linkReceipt" /\ "ancestry" \in linked[p] /\ Cap(p) \in Caps
        /\ ancestry[Cap(p)] = DocumentOf(p) /\ receipt[Cap(p)] = None
        /\ DocumentOf(p) # None /\ DocumentOf(p).by = p
    BY <1>5, <1>i, <1>d DEF LinkReceipt, LinkInv, AncestryOwned, Writing
  <2>2. /\ receipt' = [receipt EXCEPT ![Cap(p)] = DocumentOf(p)]
        /\ linked' = [linked EXCEPT ![p] = linked[p] \cup {"receipt"}]
        /\ pc' = [pc EXCEPT ![p] = "renameManifest"]
        /\ UNCHANGED <<ancestry, op, hashed, original>>
    BY <1>5 DEF LinkReceipt, Goto
  <2>3. ReceiptHasItsAncestry'
    BY <1>t, <2>1, <2>2 DEF LinkInv, ReceiptHasItsAncestry, TypeInv, TypeOK
  <2>4. ASSUME NEW q \in Commands PROVE AncestryOwned(q)'
    BY <1>t, <2>1, <2>2 DEF LinkInv, AncestryOwned, TypeInv, TypeOK, Cap, DocumentOf, Writing, Reading
  <2>5. ASSUME NEW q \in Commands PROVE NothingSaved(q)'
    BY <1>t, <2>1, <2>2 DEF LinkInv, NothingSaved, TypeInv, TypeOK, Saved, Writing
  <2>6. ASSUME NEW q \in Commands PROVE ReceiptOwned(q)'
    BY <1>t, <2>1, <2>2 DEF LinkInv, ReceiptOwned, TypeInv, TypeOK, Cap
  <2> QED
    BY <1>t, <2>3, <2>4, <2>5, <2>6 DEF LinkInv
<1>6. ASSUME NEW p \in Commands,
             RenameManifest(p) \/ RenameLock(p) \/ Verify(p) \/ Catch(p)
               \/ RestoreManifest(p) \/ RestoreLock(p) \/ Crash(p)
      PROVE LinkInv'
  <2>1. /\ UNCHANGED <<receipt, ancestry, linked, op, hashed, original>>
        /\ pc[p] \in Reading \cup Writing \cup Restoring
        /\ pc[p] # "linkAncestry" \/ Catch(p) \/ Crash(p)
    BY <1>6
    DEF RenameManifest, RenameLock, Verify, Catch, FailedWrite, RestoreManifest, RestoreLock,
        Crash, Running, Replacing, files, Writing, Restoring
  <2>2. PICK l \in {"renameLock", "verify", "done", "restoreManifest", "restoreLock",
                    "restoreReceipt", "crashed"} :
          /\ Goto(p, l)
          /\ l # "crashed" => pc[p] \in Writing \cup Restoring
          /\ l \in {"renameLock", "verify"} =>
               pc[p] \in {"linkReceipt", "renameManifest", "renameLock", "verify"}
    BY <1>6
    DEF RenameManifest, RenameLock, Verify, Catch, FailedWrite, RestoreManifest, RestoreLock,
        Crash, Writing, Restoring
  <2>3. l \in Labels /\ pc[p] # "idle"
    BY <2>1 DEF Labels, Writing, Restoring, Ended, Reading
  <2>4. l \in Saved => original'[p].receipt = None /\ original'[p].ancestry = None
    BY <2>1, <2>2 DEF LinkInv, NothingSaved, Saved, Writing, Restoring
  <2>5. l \in {"linkReceipt", "renameManifest", "renameLock", "verify"} => "ancestry" \in linked[p]
    BY <2>2 DEF LinkInv, AncestryOwned
  <2>6. l \notin {"idle", "linkAncestry"} \cup Reading /\ l \notin {"restoreAncestry", "failed"}
    BY DEF Reading
  <2> QED
    BY <1>t, <2>1, <2>2, <2>3, <2>4, <2>5, <2>6, MoveLinkInv DEF Writing, Restoring
<1>7. ASSUME NEW p \in Commands, RestoreReceipt(p) PROVE LinkInv'
  <2>1. /\ pc[p] = "restoreReceipt" /\ Cap(p) \in Caps /\ original[p].receipt = None
        /\ pc' = [pc EXCEPT ![p] = "restoreAncestry"]
        /\ UNCHANGED <<ancestry, op, hashed, original, linked>>
    BY <1>7, <1>i DEF RestoreReceipt, Goto, LinkInv, NothingSaved, Saved, Restoring
  <2>2. receipt' = IF "receipt" \in linked[p]
                   THEN [receipt EXCEPT ![Cap(p)] = None] ELSE receipt
    BY <1>7, <2>1 DEF RestoreReceipt
  <2>3. ReceiptHasItsAncestry'
    BY <1>t, <2>1, <2>2 DEF LinkInv, ReceiptHasItsAncestry, TypeInv, TypeOK
  <2>4. ASSUME NEW q \in Commands PROVE AncestryOwned(q)'
    BY <1>t, <2>1 DEF LinkInv, AncestryOwned, TypeInv, TypeOK, Cap, DocumentOf, Restoring, Reading
  <2>5. ASSUME NEW q \in Commands PROVE NothingSaved(q)'
    BY <1>t, <2>1 DEF LinkInv, NothingSaved, TypeInv, TypeOK, Saved, Restoring
  <2>6. ASSUME NEW q \in Commands PROVE ReceiptOwned(q)'
    BY <1>t, <2>1, <2>2 DEF LinkInv, ReceiptOwned, TypeInv, TypeOK, Cap
  <2> QED
    BY <1>t, <2>3, <2>4, <2>5, <2>6 DEF LinkInv
<1>8. ASSUME NEW p \in Commands, RestoreAncestry(p) PROVE LinkInv'
  <2>1. /\ pc[p] = "restoreAncestry" /\ Cap(p) \in Caps /\ original[p].ancestry = None
        /\ pc' = [pc EXCEPT ![p] = "failed"]
        /\ UNCHANGED <<receipt, op, hashed, original, linked>>
    BY <1>8, <1>i DEF RestoreAncestry, Goto, LinkInv, NothingSaved, Saved, Restoring
  <2>2. ancestry' = IF "ancestry" \in linked[p]
                    THEN [ancestry EXCEPT ![Cap(p)] = None] ELSE ancestry
    BY <1>8, <2>1 DEF RestoreAncestry
  <2>3. \A c \in Caps : receipt[c] # None => receipt[c].by # p
    BY <2>1 DEF LinkInv, ReceiptOwned
  <2>4. "ancestry" \in linked[p] =>
          ancestry[Cap(p)] = DocumentOf(p) /\ DocumentOf(p).by = p /\ receipt[Cap(p)] = None
    BY <1>d, <2>1, <2>3 DEF LinkInv, AncestryOwned, ReceiptHasItsAncestry, Restoring
  <2>5. ReceiptHasItsAncestry'
    BY <1>t, <2>1, <2>2, <2>4 DEF LinkInv, ReceiptHasItsAncestry, TypeInv, TypeOK
  <2>6. ASSUME NEW q \in Commands PROVE AncestryOwned(q)'
    <3>1. CASE q = p
      BY <1>t, <2>1, <3>1
      DEF LinkInv, AncestryOwned, TypeInv, TypeOK, Cap, DocumentOf, Writing, Restoring, Reading
    <3>2. CASE q # p
      <4>1. /\ "ancestry" \in linked[p]
            /\ "ancestry" \in linked[q]
            /\ pc[q] \in Writing \cup Restoring
            => Cap(q) # Cap(p)
        BY <1>d, <2>4, <3>2 DEF LinkInv, AncestryOwned
      <4> QED
        BY <1>t, <2>1, <2>2, <3>2, <4>1 DEF LinkInv, AncestryOwned, TypeInv, TypeOK, Cap, DocumentOf
    <3> QED
      BY <3>1, <3>2
  <2>7. ASSUME NEW q \in Commands PROVE NothingSaved(q)'
    BY <1>t, <2>1 DEF LinkInv, NothingSaved, TypeInv, TypeOK, Saved, Writing, Restoring
  <2>8. ASSUME NEW q \in Commands PROVE ReceiptOwned(q)'
    BY <1>t, <2>1, <2>3 DEF LinkInv, ReceiptOwned, TypeInv, TypeOK, Cap
  <2> QED
    BY <1>t, <2>5, <2>6, <2>7, <2>8 DEF LinkInv
<1>9. CASE Environment
  <2>1. UNCHANGED <<receipt, ancestry, pc, op, hashed, original, linked>>
    BY <1>9 DEF Environment, PrepareInstall, PrepareUpgrade, EditEvidence, files
  <2> QED
    BY <1>t, <2>1
    DEF LinkInv, ReceiptHasItsAncestry, AncestryOwned, NothingSaved, ReceiptOwned, Cap, DocumentOf
<1> QED
  BY <1>1, <1>2, <1>3, <1>4, <1>5, <1>6, <1>7, <1>8, <1>9 DEF Next, Step

\* Racing, failing and crashing installs never leave a receipt beside the
\* ancestry of another command or without one (link() and the linked flags of
\* writeCapabilityState).
THEOREM InstallsKeepReceiptWithAncestry ==
    ASSUME Kinds = {"install"}
    PROVE  Spec => []ReceiptHasItsAncestry
<1>1. LinkInv /\ [Next]_vars => LinkInv'
  BY NextLinkInv
<1>2. Spec => []LinkInv
  BY <1>1, InitLinkInv, PTL DEF Spec
<1>3. LinkInv => ReceiptHasItsAncestry
  BY DEF LinkInv
<1> QED
  BY <1>2, <1>3, PTL

-----------------------------------------------------------------------------
(***************************************************************************)
(* When commands do not overlap, no crash and no failed write leaves a     *)
(* declared capability without its documents.  The strengthening says what *)
(* the one command that runs still knows of the files at each of its       *)
(* steps: its copies are current until it starts to write, and what it     *)
(* would restore declares only capabilities whose documents are there.     *)
(***************************************************************************)
SoleRunner == \A p, q \in Commands : Running(p) /\ Running(q) => p = q

Declares(listing) ==
    \A c \in Caps : listing[c] # 0 => receipt[c] # None /\ ancestry[c] # None

\* The copies the command works from are those on disk.
CopiesCurrent(p) ==
    /\ pc[p] \in Reading \cup {"linkAncestry", "linkReceipt", "renameManifest"} =>
         project[p] = manifest
    /\ pc[p] \in {"saveLock", "linkAncestry", "linkReceipt", "renameManifest"} =>
         original[p].manifest = manifest
    /\ pc[p] \in {"saveManifest", "saveLock", "linkAncestry"} =>
         original[p].receipt = receipt[Cap(p)] /\ original[p].ancestry = ancestry[Cap(p)]

\* What the command would restore is a state that has its documents.
SavedDeclares(p) ==
    pc[p] \in {"saveLock"} \cup Writing \cup Restoring =>
        /\ Declares(original[p].manifest)
        /\ original[p].manifest[Cap(p)] # 0 =>
             original[p].receipt # None /\ original[p].ancestry # None

\* How far the command has come.
Progress(p) ==
    /\ pc[p] \in {"linkReceipt", "renameManifest"} => ancestry[Cap(p)] # None
    /\ pc[p] = "renameManifest" => receipt[Cap(p)] # None
    /\ pc[p] \in {"restoreLock", "restoreReceipt", "restoreAncestry"} =>
         manifest = original[p].manifest

RunnerInv(p) == CopiesCurrent(p) /\ SavedDeclares(p) /\ Progress(p)

SerialInv == SoleRunner /\ DeclaredHasDocuments /\ \A p \in Commands : RunnerInv(p)

\* Initially nothing is declared and no command runs.
LEMMA InitSerialInv == Init => SerialInv
BY DEF Init, SerialInv, SoleRunner, DeclaredHasDocuments, RunnerInv, CopiesCurrent,
       SavedDeclares, Progress, Running, Reading, Writing, Restoring

\* A step of the one command that runs keeps what is known of the others.
LEMMA SerialStep ==
    ASSUME TypeInv, SerialInv, NEW p \in Commands, Running(p), NEW l, Goto(p, l),
           DeclaredHasDocuments', RunnerInv(p)'
    PROVE  SerialInv'
<1>1. pc' = [pc EXCEPT ![p] = l] /\ pc \in [Commands -> {"idle"} \cup Reading \cup Writing \cup Restoring \cup Ended]
  BY DEF Goto, TypeInv, TypeOK
<1>2. ASSUME NEW q \in Commands, q # p PROVE ~Running(q) /\ pc'[q] = pc[q]
  BY <1>1, <1>2 DEF SerialInv, SoleRunner
<1>3. ASSUME NEW q \in Commands, q # p PROVE ~Running(q)'
  BY <1>2, <1>3 DEF Running
<1>4. SoleRunner'
  BY <1>3 DEF SoleRunner
<1>5. ASSUME NEW q \in Commands, q # p PROVE RunnerInv(q)'
  BY <1>3, <1>5
  DEF RunnerInv, CopiesCurrent, SavedDeclares, Progress, Running, Reading, Writing, Restoring
<1> QED
  BY <1>4, <1>5 DEF SerialInv

\* Every step keeps the strengthening when commands do not overlap.
LEMMA NextSerialInv ==
    ASSUME ~Overlap
    PROVE  TypeInv /\ SerialInv /\ [Next]_vars => SerialInv'
<1> SUFFICES ASSUME TypeInv, SerialInv, [Next]_vars PROVE SerialInv'
  OBVIOUS
<1>t. TypeOK /\ LocalsFilled
  BY DEF TypeInv
<1>n. None \notin Document
  BY ConstantsAssumption DEF Document, Versions
<1>c. ASSUME NEW p \in Commands, Running(p)
      PROVE  op[p] \in Operation /\ Cap(p) \in Caps /\ op[p].version \in Versions
  BY <1>t, <1>c DEF LocalsFilled, Running, Reading, Writing, Restoring, Cap, Operation
<1>d. ASSUME NEW p \in Commands, pc[p] \in Writing \cup Restoring PROVE DocumentOf(p) # None
  BY <1>t, <1>n, <1>d DEF LocalsFilled, DocumentOf, Document, Operation, Hashed, Writing, Restoring
<1>1. CASE UNCHANGED vars
  BY <1>1
  DEF SerialInv, SoleRunner, Running, DeclaredHasDocuments, RunnerInv, CopiesCurrent,
      SavedDeclares, Declares, Progress, Cap, vars, files
<1>2. ASSUME NEW p \in Commands, NEW k \in Kinds, NEW c \in Caps, NEW v \in Versions,
             Begin(p, k, c, v)
      PROVE SerialInv'
  <2>1. /\ pc' = [pc EXCEPT ![p] = "loadLock"] /\ project'[p] = manifest
        /\ \A q \in Commands : ~Running(q)
        /\ UNCHANGED files
    BY <1>2, <1>t DEF Begin, Goto, TypeOK
  <2>2. \A q \in Commands \ {p} : ~Running(q)'
    BY <1>t, <2>1 DEF Running, TypeOK
  <2>3. SoleRunner'
    BY <2>2 DEF SoleRunner
  <2>4. ASSUME NEW q \in Commands PROVE RunnerInv(q)'
    BY <1>t, <2>1, <2>2
    DEF RunnerInv, CopiesCurrent, SavedDeclares, Progress, Running, Reading, Writing,
        Restoring, files, TypeOK
  <2> QED
    BY <2>1, <2>3, <2>4 DEF SerialInv, DeclaredHasDocuments, files
<1>3. ASSUME NEW p \in Commands, LoadLock(p) \/ HashEvidence(p) \/ Refuse(p) PROVE SerialInv'
  <2>1. /\ Running(p) /\ pc[p] \in Reading
        /\ UNCHANGED <<files, project, op, original>>
    BY <1>3 DEF LoadLock, HashEvidence, Refuse, Running, Reading
  <2>2. PICK l \in {"hash", "check", "failed"} : Goto(p, l)
    BY <1>3 DEF LoadLock, HashEvidence, Refuse
  <2>3. RunnerInv(p)'
    BY <1>t, <2>1, <2>2
    DEF SerialInv, RunnerInv, CopiesCurrent, SavedDeclares, Progress, Goto, Reading, Writing,
        Restoring, files, TypeOK
  <2> QED
    BY <2>1, <2>2, <2>3, SerialStep DEF SerialInv, DeclaredHasDocuments, files
<1>4. ASSUME NEW p \in Commands, CheckTargets(p) PROVE SerialInv'
  <2>1. /\ Running(p) /\ pc[p] = "check" /\ Goto(p, "saveManifest")
        /\ original'[p].receipt = receipt[Cap(p)] /\ original'[p].ancestry = ancestry[Cap(p)]
        /\ UNCHANGED <<files, project, op>>
    BY <1>4, <1>t DEF CheckTargets, Running, Reading, TypeOK
  <2>2. RunnerInv(p)'
    BY <1>t, <2>1
    DEF SerialInv, RunnerInv, CopiesCurrent, SavedDeclares, Progress, Goto, Reading, Writing,
        Restoring, files, Cap, TypeOK
  <2> QED
    BY <2>1, <2>2, SerialStep DEF SerialInv, DeclaredHasDocuments, files
<1>5. ASSUME NEW p \in Commands, SaveManifest(p) PROVE SerialInv'
  <2>1. /\ Running(p) /\ pc[p] = "saveManifest" /\ Goto(p, "saveLock")
        /\ UNCHANGED <<files, project, op>>
    BY <1>5 DEF SaveManifest, Running, Reading
  <2>2. /\ original'[p].manifest = manifest
        /\ original'[p].receipt = receipt[Cap(p)] /\ original'[p].ancestry = ancestry[Cap(p)]
    BY <1>5, <1>t, <2>1
    DEF SaveManifest, SerialInv, RunnerInv, CopiesCurrent, TypeOK, LocalsFilled, Saved, Original
  <2>3. Cap(p) \in Caps
    BY <1>c, <2>1
  <2>4. RunnerInv(p)'
    BY <1>t, <2>1, <2>2, <2>3
    DEF SerialInv, DeclaredHasDocuments, RunnerInv, CopiesCurrent, SavedDeclares, Declares,
        Progress, Goto, Reading, Writing, Restoring, files, Cap, TypeOK
  <2> QED
    BY <2>1, <2>4, SerialStep DEF SerialInv, DeclaredHasDocuments, files
<1>6. ASSUME NEW p \in Commands, SaveLock(p) PROVE SerialInv'
  <2>1. /\ Running(p) /\ pc[p] = "saveLock" /\ Goto(p, "linkAncestry")
        /\ UNCHANGED <<files, project, op>>
    BY <1>6 DEF SaveLock, Running, Reading
  <2>2. /\ original'[p].manifest = original[p].manifest
        /\ original'[p].receipt = original[p].receipt
        /\ original'[p].ancestry = original[p].ancestry
    BY <1>6, <1>t, <2>1 DEF SaveLock, TypeOK, LocalsFilled, Saved, Original
  <2>3. RunnerInv(p)'
    BY <1>t, <2>1, <2>2
    DEF SerialInv, RunnerInv, CopiesCurrent, SavedDeclares, Declares,
        Progress, Goto, Reading, Writing, Restoring, files, Cap, TypeOK
  <2> QED
    BY <2>1, <2>3, SerialStep DEF SerialInv, DeclaredHasDocuments, files
<1>7. ASSUME NEW p \in Commands, LinkAncestry(p) PROVE SerialInv'
  <2>1. /\ Running(p) /\ pc[p] = "linkAncestry" /\ Goto(p, "linkReceipt") /\ Cap(p) \in Caps
        /\ DocumentOf(p) # None /\ ancestry' = [ancestry EXCEPT ![Cap(p)] = DocumentOf(p)]
        /\ UNCHANGED <<manifest, receipt, project, op, original>>
    BY <1>7, <1>c, <1>d DEF LinkAncestry, Running, Writing
  <2>2. \A c \in Caps : ancestry[c] # None => ancestry'[c] # None
    BY <1>t, <2>1 DEF TypeOK
  <2>3. RunnerInv(p)'
    BY <1>t, <2>1, <2>2
    DEF SerialInv, RunnerInv, CopiesCurrent, SavedDeclares, Declares,
        Progress, Goto, Reading, Writing, Restoring, Cap, TypeOK
  <2>4. DeclaredHasDocuments'
    BY <2>1, <2>2 DEF SerialInv, DeclaredHasDocuments
  <2> QED
    BY <2>1, <2>3, <2>4, SerialStep
<1>8. ASSUME NEW p \in Commands, LinkReceipt(p) PROVE SerialInv'
  <2>1. /\ Running(p) /\ pc[p] = "linkReceipt" /\ Goto(p, "renameManifest") /\ Cap(p) \in Caps
        /\ DocumentOf(p) # None /\ receipt' = [receipt EXCEPT ![Cap(p)] = DocumentOf(p)]
        /\ UNCHANGED <<manifest, ancestry, project, op, original>>
    BY <1>8, <1>c, <1>d DEF LinkReceipt, Running, Writing
  <2>2. \A c \in Caps : receipt[c] # None => receipt'[c] # None
    BY <1>t, <2>1 DEF TypeOK
  <2>3. RunnerInv(p)'
    BY <1>t, <2>1, <2>2
    DEF SerialInv, RunnerInv, CopiesCurrent, SavedDeclares, Declares,
        Progress, Goto, Reading, Writing, Restoring, Cap, TypeOK
  <2>4. DeclaredHasDocuments'
    BY <2>1, <2>2 DEF SerialInv, DeclaredHasDocuments
  <2> QED
    BY <2>1, <2>3, <2>4, SerialStep
<1>9. ASSUME NEW p \in Commands, RenameManifest(p) PROVE SerialInv'
  <2>1. /\ Running(p) /\ pc[p] = "renameManifest" /\ Goto(p, "renameLock") /\ Cap(p) \in Caps
        /\ project[p] = manifest /\ receipt[Cap(p)] # None /\ ancestry[Cap(p)] # None
        /\ manifest' = [manifest EXCEPT ![Cap(p)] = op[p].version]
        /\ UNCHANGED <<receipt, ancestry, project, op, original>>
    BY <1>9, <1>c
    DEF RenameManifest, NextManifest, Running, Writing, SerialInv, RunnerInv, CopiesCurrent, Progress
  <2>2. DeclaredHasDocuments'
    BY <1>t, <2>1 DEF SerialInv, DeclaredHasDocuments, TypeOK, Listing
  <2>3. RunnerInv(p)'
    BY <1>t, <2>1
    DEF SerialInv, RunnerInv, CopiesCurrent, SavedDeclares, Declares,
        Progress, Goto, Reading, Writing, Restoring, Cap, TypeOK
  <2> QED
    BY <2>1, <2>2, <2>3, SerialStep
<1>10. ASSUME NEW p \in Commands,
              RenameLock(p) \/ Verify(p) \/ Catch(p) \/ RestoreLock(p) \/ Crash(p)
       PROVE SerialInv'
  <2>1. /\ Running(p)
        /\ UNCHANGED <<manifest, receipt, ancestry, project, op, original>>
    BY <1>10
    DEF RenameLock, Verify, Catch, FailedWrite, RestoreLock, Crash, Running, Writing,
        Restoring, files
  <2>2. PICK l \in {"verify", "done", "restoreManifest", "restoreReceipt", "crashed"} :
          /\ Goto(p, l)
          /\ l \in {"verify", "restoreManifest"} => pc[p] \in Writing
          /\ l = "restoreReceipt" => pc[p] = "restoreLock"
    BY <1>10 DEF RenameLock, Verify, Catch, FailedWrite, RestoreLock, Crash, Writing
  <2>3. RunnerInv(p)'
    BY <1>t, <2>1, <2>2
    DEF SerialInv, RunnerInv, CopiesCurrent, SavedDeclares, Declares,
        Progress, Goto, Reading, Writing, Restoring, Cap, TypeOK
  <2> QED
    BY <2>1, <2>2, <2>3, SerialStep DEF SerialInv, DeclaredHasDocuments
<1>11. ASSUME NEW p \in Commands, RestoreManifest(p) PROVE SerialInv'
  <2>1. /\ Running(p) /\ pc[p] = "restoreManifest" /\ Goto(p, "restoreLock")
        /\ manifest' = original[p].manifest /\ Declares(original[p].manifest)
        /\ UNCHANGED <<receipt, ancestry, project, op, original>>
    BY <1>11 DEF RestoreManifest, Running, Restoring, SerialInv, RunnerInv, SavedDeclares
  <2>2. DeclaredHasDocuments'
    BY <2>1 DEF DeclaredHasDocuments, Declares
  <2>3. RunnerInv(p)'
    BY <1>t, <2>1
    DEF SerialInv, RunnerInv, CopiesCurrent, SavedDeclares, Declares,
        Progress, Goto, Reading, Writing, Restoring, Cap, TypeOK
  <2> QED
    BY <2>1, <2>2, <2>3, SerialStep
<1>12. ASSUME NEW p \in Commands, RestoreReceipt(p) PROVE SerialInv'
  <2>1. /\ Running(p) /\ pc[p] = "restoreReceipt" /\ Goto(p, "restoreAncestry") /\ Cap(p) \in Caps
        /\ receipt' = IF "receipt" \in linked[p]
                      THEN [receipt EXCEPT ![Cap(p)] = original[p].receipt] ELSE receipt
        /\ UNCHANGED <<manifest, ancestry, project, op, original>>
    BY <1>12, <1>c DEF RestoreReceipt, Running, Restoring
  <2>2. /\ manifest = original[p].manifest
        /\ manifest[Cap(p)] # 0 => original[p].receipt # None
    BY <2>1 DEF SerialInv, RunnerInv, SavedDeclares, Progress, Restoring
  <2>3. \A c \in Caps : manifest[c] # 0 => receipt'[c] # None
    BY <1>t, <2>1, <2>2 DEF SerialInv, DeclaredHasDocuments, TypeOK
  <2>4. DeclaredHasDocuments'
    BY <2>1, <2>3 DEF SerialInv, DeclaredHasDocuments
  <2>5. RunnerInv(p)'
    BY <1>t, <2>1, <2>2, <2>3
    DEF SerialInv, RunnerInv, CopiesCurrent, SavedDeclares, Declares,
        Progress, Goto, Reading, Writing, Restoring, Cap, TypeOK
  <2> QED
    BY <2>1, <2>4, <2>5, SerialStep
<1>13. ASSUME NEW p \in Commands, RestoreAncestry(p) PROVE SerialInv'
  <2>1. /\ Running(p) /\ pc[p] = "restoreAncestry" /\ Goto(p, "failed") /\ Cap(p) \in Caps
        /\ ancestry' = IF "ancestry" \in linked[p]
                       THEN [ancestry EXCEPT ![Cap(p)] = original[p].ancestry] ELSE ancestry
        /\ UNCHANGED <<manifest, receipt, project, op, original>>
    BY <1>13, <1>c DEF RestoreAncestry, Running, Restoring
  <2>2. /\ manifest = original[p].manifest
        /\ manifest[Cap(p)] # 0 => original[p].ancestry # None
    BY <2>1 DEF SerialInv, RunnerInv, SavedDeclares, Progress, Restoring
  <2>3. \A c \in Caps : manifest[c] # 0 => ancestry'[c] # None
    BY <1>t, <2>1, <2>2 DEF SerialInv, DeclaredHasDocuments, TypeOK
  <2>4. DeclaredHasDocuments'
    BY <2>1, <2>3 DEF SerialInv, DeclaredHasDocuments
  <2>5. RunnerInv(p)'
    BY <1>t, <2>1
    DEF RunnerInv, CopiesCurrent, SavedDeclares, Progress, Goto, Reading, Writing, Restoring, TypeOK
  <2> QED
    BY <2>1, <2>4, <2>5, SerialStep
<1>14. CASE Environment
  <2>1. UNCHANGED <<manifest, receipt, ancestry, pc, op, project, original>>
    BY <1>14 DEF Environment, PrepareInstall, PrepareUpgrade, EditEvidence, files
  <2> QED
    BY <2>1
    DEF SerialInv, SoleRunner, Running, DeclaredHasDocuments, RunnerInv, CopiesCurrent,
        SavedDeclares, Declares, Progress, Cap
<1> QED
  BY <1>1, <1>2, <1>3, <1>4, <1>5, <1>6, <1>7, <1>8, <1>9, <1>10, <1>11, <1>12, <1>13, <1>14
  DEF Next, Step

\* Without overlapping commands a capability the manifest declares has its
\* receipt and its ancestry, at every step of every finalization and after
\* any crash or failed write (the write order of writeCapabilityState).
THEOREM DeclaredCapabilitiesHaveDocuments ==
    ASSUME ~Overlap
    PROVE  Spec => []DeclaredHasDocuments
<1>1. Init => TypeInv /\ SerialInv
  BY InitTypeInv, InitSerialInv
<1>2. (TypeInv /\ SerialInv) /\ [Next]_vars => (TypeInv /\ SerialInv)'
  BY NextTypeInv, NextSerialInv
<1>3. TypeInv /\ SerialInv => DeclaredHasDocuments
  BY DEF SerialInv
<1> QED
  BY <1>1, <1>2, <1>3, PTL DEF Spec
=============================================================================
