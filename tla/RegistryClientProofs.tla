-------------------------- MODULE RegistryClientProofs --------------------------
(***************************************************************************)
(* Theorems of RegistryClient for every set of commands, capabilities and  *)
(* signed indexes.                                                         *)
(***************************************************************************)
EXTENDS RegistryClient, TLAPS

-----------------------------------------------------------------------------
(***************************************************************************)
(* Types.  A command holds an index from the step that verified it on.     *)
(***************************************************************************)
Holding == {"publishBundle", "publishIndex", "loadState", "openBundle", "writeState", "done"}
Labels == {"idle", "done", "failed"} \cup Fetching \cup Resolving

IndexHeld == \A p \in Commands : pc[p] \in Holding => index[p] \in Signed

ClientTypeInv == TypeOK /\ IndexHeld

\* What the assumption on the constants says of one signed index.
LEMMA SignedIndex ==
    ASSUME NEW s \in Signed
    PROVE  /\ s.sequence \in Nat /\ s.sequence \in Sequences /\ s # None
           /\ \A e \in s.entries : e \in Entries /\ e.cap \in Caps /\ e.version \in Versions
                                   /\ e.bundle \in Bundles
BY RegistryAssumption DEF Indexes, Sequences, Entries

\* The initial state is well typed.
LEMMA InitClientType == Init => ClientTypeInv
BY DEF Init, ClientTypeInv, TypeOK, IndexHeld, Holding

\* Every step keeps the types.
LEMMA NextClientType == ClientTypeInv /\ [Next]_vars => ClientTypeInv'
<1> SUFFICES ASSUME ClientTypeInv, [Next]_vars PROVE ClientTypeInv'
  OBVIOUS
<1>t. TypeOK /\ IndexHeld
  BY DEF ClientTypeInv
<1>1. CASE UNCHANGED vars
  BY <1>t, <1>1 DEF ClientTypeInv, TypeOK, IndexHeld, vars, cache, history
<1>2. ASSUME NEW p \in Commands, NEW r \in Requests, Begin(p, r) PROVE ClientTypeInv'
  BY <1>t, <1>2
  DEF ClientTypeInv, TypeOK, IndexHeld, Begin, Goto, cache, Fetching, Resolving, Holding
<1>3. ASSUME NEW p \in Commands, NEW n \in Sequences, GetLatest(p, n) PROVE ClientTypeInv'
  BY <1>t, <1>3
  DEF ClientTypeInv, TypeOK, IndexHeld, GetLatest, Goto, cache, history, Fetching, Holding
<1>4. ASSUME NEW p \in Commands, NEW s \in Signed, GetIndex(p, s) PROVE ClientTypeInv'
  BY <1>t, <1>4
  DEF ClientTypeInv, TypeOK, IndexHeld, GetIndex, Goto, cache, history, Fetching, Holding
<1>5. ASSUME NEW p \in Commands, NEW s \in Signed, OpenIndex(p, s) PROVE ClientTypeInv'
  BY <1>t, <1>5
  DEF ClientTypeInv, TypeOK, IndexHeld, OpenIndex, Goto, cache, history, Resolving, Holding
<1>6. ASSUME NEW p \in Commands, NEW e \in Entries, PublishBundle(p, e) PROVE ClientTypeInv'
  <2>1. e.cap \in Caps /\ e.version \in Versions /\ e.bundle \in Bundles
    BY DEF Entries
  <2>2. cachedBundle' \in [Caps -> [Versions -> Bundles \cup {None}]]
    BY <1>t, <1>6, <2>1 DEF TypeOK, PublishBundle
  <2> QED
    BY <1>t, <1>6, <2>2
    DEF ClientTypeInv, TypeOK, IndexHeld, PublishBundle, Goto, history, Fetching, Holding
<1>7. ASSUME NEW p \in Commands, NEW e \in Entries, OpenBundle(p, e) PROVE ClientTypeInv'
  BY <1>t, <1>7
  DEF ClientTypeInv, TypeOK, IndexHeld, OpenBundle, Goto, cache, history, Resolving, Holding
<1>8. ASSUME NEW p \in Commands, PublishIndex(p) PROVE ClientTypeInv'
  <2>1. index[p] \in Signed /\ index[p].sequence \in Sequences
    BY <1>t, <1>8, SignedIndex DEF IndexHeld, PublishIndex, Holding
  <2>2. cachedIndex' \in [Sequences -> Signed \cup {None}]
    BY <1>t, <1>8, <2>1 DEF TypeOK, PublishIndex
  <2> QED
    BY <1>t, <1>8, <2>2
    DEF ClientTypeInv, TypeOK, IndexHeld, PublishIndex, Goto, history, Resolving, Holding
<1>9. ASSUME NEW p \in Commands, LoadState(p) PROVE ClientTypeInv'
  BY <1>t, <1>9
  DEF ClientTypeInv, TypeOK, IndexHeld, LoadState, Goto, cache, history, Resolving, Holding
<1>10. ASSUME NEW p \in Commands, WriteState(p) PROVE ClientTypeInv'
  <2>1. index[p] \in Signed
    BY <1>t, <1>10 DEF IndexHeld, WriteState, Holding
  <2>2. checkpoint' \in Signed \cup {None} /\ accepted' \subseteq Signed
    BY <1>t, <1>10, <2>1 DEF TypeOK, WriteState
  <2> QED
    BY <1>t, <1>10, <2>1, <2>2
    DEF ClientTypeInv, TypeOK, IndexHeld, WriteState, Goto, cache, history, Holding
<1>11. ASSUME NEW p \in Commands, Stop(p) PROVE ClientTypeInv'
  BY <1>t, <1>11 DEF ClientTypeInv, TypeOK, IndexHeld, Stop, Goto, cache, history, Holding
<1>12. CASE ClearCache
  BY <1>t, <1>12 DEF ClientTypeInv, TypeOK, IndexHeld, ClearCache
<1> QED
  BY <1>1, <1>2, <1>3, <1>4, <1>5, <1>6, <1>7, <1>8, <1>9, <1>10, <1>11, <1>12 DEF Next, Step

\* RegistryClient is well typed.
THEOREM ClientTypeCorrect == Spec => []TypeOK
<1>1. ClientTypeInv => TypeOK
  BY DEF ClientTypeInv
<1> QED
  BY <1>1, InitClientType, NextClientType, PTL DEF Spec

-----------------------------------------------------------------------------
(***************************************************************************)
(* The cache, for commands that overlap in any way.  A fetch publishes its *)
(* bundle before its index, and nothing cached is ever replaced.           *)
(***************************************************************************)
Usable(s) == \E e \in s.entries : cachedBundle[e.cap][e.version] = e.bundle

CacheInv ==
    /\ CachedIndexIsUsable
    /\ \A p \in Commands : pc[p] = "publishIndex" => Usable(index[p])

\* Initially the cache is empty.
LEMMA InitCacheInv == Init => CacheInv
BY DEF Init, CacheInv, CachedIndexIsUsable

\* Every step keeps the cache usable.
LEMMA NextCacheInv == ClientTypeInv /\ CacheInv /\ [Next]_vars => CacheInv'
<1> SUFFICES ASSUME ClientTypeInv, CacheInv, [Next]_vars PROVE CacheInv'
  OBVIOUS
<1>t. TypeOK /\ IndexHeld
  BY DEF ClientTypeInv
<1>1. CASE UNCHANGED vars
  BY <1>1 DEF CacheInv, CachedIndexIsUsable, Usable, vars, cache
<1>2. ASSUME NEW p \in Commands,
             \/ \E r \in Requests : Begin(p, r)
             \/ \E n \in Sequences : GetLatest(p, n)
             \/ \E s \in Signed : GetIndex(p, s) \/ OpenIndex(p, s)
             \/ \E e \in Entries : OpenBundle(p, e)
             \/ LoadState(p) \/ WriteState(p) \/ Stop(p)
      PROVE CacheInv'
  <2>1. UNCHANGED cache
    BY <1>2 DEF Begin, GetLatest, GetIndex, OpenIndex, OpenBundle, LoadState, WriteState, Stop, cache
  <2>2. pc'[p] # "publishIndex" /\ \A q \in Commands \ {p} : pc'[q] = pc[q] /\ index'[q] = index[q]
    BY <1>t, <1>2
    DEF TypeOK, Begin, GetLatest, GetIndex, OpenIndex, OpenBundle, LoadState, WriteState, Stop, Goto
  <2> QED
    BY <2>1, <2>2 DEF CacheInv, CachedIndexIsUsable, Usable, cache
<1>3. ASSUME NEW p \in Commands, NEW e \in Entries, PublishBundle(p, e) PROVE CacheInv'
  <2>1. /\ e.cap \in Caps /\ e.version \in Versions /\ e \in index[p].entries
        /\ cachedBundle[e.cap][e.version] \in {None, e.bundle}
        /\ cachedBundle' = [cachedBundle EXCEPT ![e.cap][e.version] = e.bundle]
        /\ UNCHANGED <<cachedIndex, index>>
        /\ \A q \in Commands \ {p} : pc'[q] = pc[q]
    BY <1>t, <1>3 DEF TypeOK, PublishBundle, Goto, Entries, Selects, Candidates
  <2>2. ASSUME NEW s \in Signed, Usable(s) PROVE Usable(s)'
    <3>1. PICK f \in s.entries : cachedBundle[f.cap][f.version] = f.bundle
      BY <2>2 DEF Usable
    <3>2. f.cap \in Caps /\ f.version \in Versions /\ f.bundle # None
      BY SignedIndex, RegistryAssumption
    <3>3. cachedBundle'[f.cap][f.version] = f.bundle
      BY <1>t, <2>1, <3>1, <3>2 DEF TypeOK
    <3> QED
      BY <3>1, <3>3 DEF Usable
  <2>3. cachedBundle'[e.cap][e.version] = e.bundle
    BY <1>t, <2>1 DEF TypeOK
  <2>4. CachedIndexIsUsable'
    BY <1>t, <2>1, <2>2 DEF TypeOK, CacheInv, CachedIndexIsUsable, Usable
  <2>5. ASSUME NEW q \in Commands, pc'[q] = "publishIndex" PROVE Usable(index[q])'
    <3>1. CASE q = p
      BY <2>1, <2>3, <3>1 DEF Usable
    <3>2. CASE q # p
      <4>1. index[q] \in Signed /\ Usable(index[q])
        BY <1>t, <2>1, <2>5, <3>2 DEF IndexHeld, Holding, CacheInv
      <4> QED
        BY <2>1, <2>2, <4>1 DEF Usable
    <3> QED
      BY <3>1, <3>2
  <2> QED
    BY <2>4, <2>5 DEF CacheInv
<1>4. ASSUME NEW p \in Commands, PublishIndex(p) PROVE CacheInv'
  <2>1. /\ Usable(index[p])
        /\ cachedIndex' = [cachedIndex EXCEPT ![index[p].sequence] = index[p]]
        /\ pc'[p] = "openIndex" /\ \A q \in Commands \ {p} : pc'[q] = pc[q]
        /\ UNCHANGED <<cachedBundle, index>>
    BY <1>t, <1>4 DEF TypeOK, PublishIndex, Goto, CacheInv
  <2>2. CachedIndexIsUsable'
    BY <1>t, <2>1 DEF TypeOK, CacheInv, CachedIndexIsUsable, Usable
  <2> QED
    BY <2>1, <2>2 DEF CacheInv, Usable
<1>5. CASE ClearCache
  BY <1>5 DEF CacheInv, CachedIndexIsUsable, ClearCache, Quiescent, Running, Fetching
<1> QED
  BY <1>1, <1>2, <1>3, <1>4, <1>5 DEF Next, Step

\* However fetches race and wherever they stop, an index in the cache comes
\* with a bundle that can be resolved from it (the order of the two
\* publishDirectory calls in fetchRegistryCapability).
THEOREM CachedIndexesAreUsable == Spec => []CachedIndexIsUsable
<1>1. Init => ClientTypeInv /\ CacheInv
  BY InitClientType, InitCacheInv
<1>2. (ClientTypeInv /\ CacheInv) /\ [Next]_vars => (ClientTypeInv /\ CacheInv)'
  BY NextClientType, NextCacheInv
<1>3. ClientTypeInv /\ CacheInv => CachedIndexIsUsable
  BY DEF CacheInv
<1> QED
  BY <1>1, <1>2, <1>3, PTL DEF Spec

-----------------------------------------------------------------------------
(***************************************************************************)
(* As long as the cache is not cleared, it alone decides between           *)
(* equivocating indexes and between bundles of one version, however        *)
(* commands overlap.                                                       *)
(***************************************************************************)
BundleCached(p) ==
    \A e \in Candidates(index[p], request[p]) :
        Selects(index[p], request[p], e) => cachedBundle[e.cap][e.version] = e.bundle

AcceptedAreCached ==
    /\ \A s \in accepted : cachedIndex[s.sequence] = s
    /\ \A p \in Commands :
         /\ pc[p] \in {"loadState", "openBundle", "writeState"} =>
              cachedIndex[index[p].sequence] = index[p]
         /\ pc[p] \in {"writeState", "done"} => BundleCached(p)

KeptCacheInv == ~cleared => AcceptedAreCached

\* Initially nothing is accepted.
LEMMA InitAcceptedAreCached == Init => KeptCacheInv
BY DEF Init, KeptCacheInv, AcceptedAreCached

\* That the cache was cleared is not forgotten, nor that commands overlapped.
LEMMA ClearedStays == ASSUME [Next]_vars
                      PROVE  (cleared => cleared') /\ (overlapped => overlapped')
<1>1. CASE \E p \in Commands, r \in Requests : Begin(p, r)
  <2>1. cleared' = cleared /\ overlapped' = (overlapped \/ ~Quiescent)
    BY <1>1, Zenon DEF Begin
  <2> QED
    BY <2>1, Zenon
<1>2. CASE ClearCache
  <2>1. cleared' = TRUE /\ overlapped' = overlapped
    BY <1>2 DEF ClearCache
  <2> QED
    BY <2>1
<1>3. CASE \E p \in Commands : Step(p)
  <2>1. UNCHANGED history
    BY <1>3
    DEF Step, GetLatest, GetIndex, OpenIndex, PublishBundle, OpenBundle, PublishIndex,
        LoadState, WriteState, Stop
  <2> QED
    BY <2>1 DEF history
<1>4. CASE UNCHANGED vars
  BY <1>4 DEF vars, history
<1> QED
  BY <1>1, <1>2, <1>3, <1>4 DEF Next

\* Nothing in the cache is replaced while it is not cleared.
LEMMA CacheOnlyGrows ==
    ASSUME ~cleared', ClientTypeInv, [Next]_vars
    PROVE  /\ \A n \in Sequences : cachedIndex[n] # None => cachedIndex'[n] = cachedIndex[n]
           /\ \A c \in Caps, v \in Versions :
                cachedBundle[c][v] # None => cachedBundle'[c][v] = cachedBundle[c][v]
<1>1. ASSUME NEW p \in Commands, NEW e \in Entries, PublishBundle(p, e)
      PROVE  \A c \in Caps, v \in Versions :
                cachedBundle[c][v] # None => cachedBundle'[c][v] = cachedBundle[c][v]
  BY <1>1 DEF PublishBundle, ClientTypeInv, TypeOK, Entries
<1>2. ASSUME NEW p \in Commands, PublishIndex(p)
      PROVE  \A n \in Sequences : cachedIndex[n] # None => cachedIndex'[n] = cachedIndex[n]
  BY <1>2 DEF PublishIndex, ClientTypeInv, TypeOK
<1>3. CASE UNCHANGED cache
  BY <1>3 DEF cache
<1>4. CASE ~UNCHANGED cache
  <2>1. \E p \in Commands : PublishIndex(p) \/ \E e \in Entries : PublishBundle(p, e)
    BY <1>4
    DEF Next, Step, vars, cache, Begin, GetLatest, GetIndex, OpenIndex, OpenBundle, LoadState,
        WriteState, Stop, ClearCache
  <2> QED
    BY <1>1, <1>2, <2>1 DEF PublishIndex, PublishBundle
<1> QED
  BY <1>3, <1>4

\* Every step keeps what was accepted in the cache.
LEMMA NextAcceptedAreCached == ClientTypeInv /\ KeptCacheInv /\ [Next]_vars => KeptCacheInv'
<1> SUFFICES ASSUME ClientTypeInv, KeptCacheInv, [Next]_vars, ~cleared'
             PROVE  AcceptedAreCached'
  BY DEF KeptCacheInv
<1>k. AcceptedAreCached
  BY ClearedStays DEF KeptCacheInv
<1>t. TypeOK /\ IndexHeld
  BY DEF ClientTypeInv
<1>g. /\ \A n \in Sequences : cachedIndex[n] # None => cachedIndex'[n] = cachedIndex[n]
      /\ \A c \in Caps, v \in Versions :
           cachedBundle[c][v] # None => cachedBundle'[c][v] = cachedBundle[c][v]
  BY CacheOnlyGrows
<1>1. ASSUME NEW s \in Signed, cachedIndex[s.sequence] = s PROVE cachedIndex'[s.sequence] = s
  BY <1>1, <1>g, SignedIndex
<1>2. ASSUME NEW p \in Commands, index[p] \in Signed, BundleCached(p),
             UNCHANGED <<index[p], request[p]>>
      PROVE BundleCached(p)'
  <2> SUFFICES ASSUME NEW e, e \in Candidates(index[p], request[p]),
                      Selects(index[p], request[p], e)
               PROVE  cachedBundle'[e.cap][e.version] = e.bundle
    BY <1>2 DEF BundleCached, Candidates, Selects
  <2>1. /\ e.cap \in Caps /\ e.version \in Versions /\ e.bundle # None
        /\ cachedBundle[e.cap][e.version] = e.bundle
    BY <1>2, SignedIndex, RegistryAssumption DEF Candidates, BundleCached
  <2> QED
    BY <1>g, <2>1
<1>3. ASSUME NEW p \in Commands,
             /\ \A q \in Commands \ {p} : UNCHANGED <<pc[q], index[q], request[q]>>
             /\ pc'[p] \in {"loadState", "openBundle", "writeState"} =>
                  cachedIndex'[index'[p].sequence] = index'[p]
             /\ pc'[p] \in {"writeState", "done"} => BundleCached(p)'
             /\ accepted' \subseteq accepted \cup {index[p]}
             /\ accepted' # accepted => pc[p] = "writeState"
      PROVE AcceptedAreCached'
  <2>1. ASSUME NEW s \in accepted' PROVE cachedIndex'[s.sequence] = s
    <3>1. CASE s \in accepted
      BY <1>t, <1>k, <1>1, <3>1 DEF TypeOK, AcceptedAreCached
    <3>2. CASE s \notin accepted
      BY <1>t, <1>k, <1>1, <1>3, <2>1, <3>2 DEF AcceptedAreCached, IndexHeld, Holding
    <3> QED
      BY <3>1, <3>2
  <2>2. ASSUME NEW q \in Commands, q # p
        PROVE  /\ pc'[q] \in {"loadState", "openBundle", "writeState"} =>
                    cachedIndex'[index'[q].sequence] = index'[q]
               /\ pc'[q] \in {"writeState", "done"} => BundleCached(q)'
    <3>1. UNCHANGED <<pc[q], index[q], request[q]>>
      BY <1>3, <2>2
    <3> QED
      BY <1>t, <1>k, <1>1, <1>2, <3>1 DEF AcceptedAreCached, IndexHeld, Holding
  <2> QED
    BY <1>3, <2>1, <2>2 DEF AcceptedAreCached
<1>4. CASE UNCHANGED vars
  BY <1>4, <1>k DEF AcceptedAreCached, BundleCached, vars, cache
<1>5. ASSUME NEW p \in Commands, NEW r \in Requests, Begin(p, r) PROVE AcceptedAreCached'
  BY <1>t, <1>3, <1>5, <1>k DEF TypeOK, Begin, Goto
<1>6. ASSUME NEW p \in Commands,
             \/ \E n \in Sequences : GetLatest(p, n)
             \/ \E s \in Signed : GetIndex(p, s)
             \/ \E e \in Entries : PublishBundle(p, e)
             \/ PublishIndex(p) \/ Stop(p)
      PROVE AcceptedAreCached'
  BY <1>t, <1>3, <1>6, <1>k DEF TypeOK, GetLatest, GetIndex, PublishBundle, PublishIndex, Stop, Goto
<1>7. ASSUME NEW p \in Commands, NEW s \in Signed, OpenIndex(p, s) PROVE AcceptedAreCached'
  BY <1>t, <1>k, <1>1, <1>3, <1>7 DEF TypeOK, OpenIndex, Goto
<1>8. ASSUME NEW p \in Commands, LoadState(p) PROVE AcceptedAreCached'
  BY <1>t, <1>k, <1>1, <1>3, <1>8 DEF TypeOK, IndexHeld, Holding, AcceptedAreCached, LoadState, Goto
<1>9. ASSUME NEW p \in Commands, NEW e \in Entries, OpenBundle(p, e) PROVE AcceptedAreCached'
  <2>1. /\ index[p] \in Signed /\ cachedIndex[index[p].sequence] = index[p]
        /\ UNCHANGED <<index, request, accepted, cache>>
        /\ pc' = [pc EXCEPT ![p] = "writeState"]
    BY <1>t, <1>k, <1>9 DEF IndexHeld, Holding, AcceptedAreCached, OpenBundle, Goto
  <2>2. ASSUME NEW f \in Candidates(index[p], request[p]), Selects(index[p], request[p], f)
        PROVE  f = e
    <3>1. f.version <= e.version /\ e.version <= f.version
      BY <1>9, <2>2 DEF OpenBundle, Selects
    <3>2. f \in index[p].entries /\ e \in index[p].entries /\ f.cap = e.cap
      BY <1>9, <2>2 DEF OpenBundle, Selects, Candidates
    <3>3. f.version \in Nat /\ e.version \in Nat
      BY <2>1, <3>2, SignedIndex, RegistryAssumption
    <3> QED
      BY <2>1, <3>1, <3>2, <3>3, RegistryAssumption
  <2>3. BundleCached(p)'
    BY <1>9, <2>1, <2>2 DEF BundleCached, OpenBundle, cache
  <2> QED
    BY <1>t, <1>1, <1>3, <2>1, <2>3 DEF TypeOK
<1>10. ASSUME NEW p \in Commands, WriteState(p) PROVE AcceptedAreCached'
  <2>1. index[p] \in Signed /\ BundleCached(p)
    BY <1>t, <1>k, <1>10 DEF IndexHeld, Holding, AcceptedAreCached, WriteState
  <2>2. BundleCached(p)'
    BY <1>2, <1>10, <2>1 DEF WriteState
  <2> QED
    BY <1>t, <1>3, <1>10, <2>2 DEF TypeOK, WriteState, Goto
<1>11. ~ClearCache
  BY DEF ClearCache
<1> QED
  BY <1>4, <1>5, <1>6, <1>7, <1>8, <1>9, <1>10, <1>11 DEF Next, Step

\* The bundle a command returned stays the one its signed index names, whatever
\* other commands fetch, as long as the cache is kept (validateExistingBundle).
THEOREM ReturnedBundlesAreListed == Spec => []ReturnedBundleIsListed
<1>1. Init => ClientTypeInv /\ KeptCacheInv
  BY InitClientType, InitAcceptedAreCached
<1>2. (ClientTypeInv /\ KeptCacheInv) /\ [Next]_vars => (ClientTypeInv /\ KeptCacheInv)'
  BY NextClientType, NextAcceptedAreCached
<1>3. ClientTypeInv /\ KeptCacheInv => ReturnedBundleIsListed
  BY DEF KeptCacheInv, AcceptedAreCached, BundleCached, ReturnedBundleIsListed
<1> QED
  BY <1>1, <1>2, <1>3, PTL DEF Spec

-----------------------------------------------------------------------------
(***************************************************************************)
(* As long as commands have not overlapped the checkpoint only advances,   *)
(* also over cleared caches.                                               *)
(***************************************************************************)
SoleCommand == \A p, q \in Commands : Running(p) /\ Running(q) => p = q

OneIndexPerSequence == \A s, t \in accepted : s.sequence = t.sequence => s = t

NothingOlder ==
    \A p \in Commands : pc[p] = "done" => \A s \in known[p] : Follows(index[p], s)

CheckpointInv ==
    /\ SoleCommand
    /\ HighestAcceptedRecorded
    /\ OneIndexPerSequence
    /\ NothingOlder
    /\ \A p \in Commands :
         /\ known[p] \subseteq accepted
         /\ pc[p] \in {"openBundle", "writeState"} =>
              trusted[p] = checkpoint /\ NoRollback(checkpoint, index[p])

SerialInv == ~overlapped => CheckpointInv

\* Initially nothing is recorded.
LEMMA InitCheckpointInv == Init => SerialInv
BY DEF Init, SerialInv, CheckpointInv, SoleCommand, Running, Fetching, Resolving,
       HighestAcceptedRecorded, OneIndexPerSequence, NothingOlder

\* What follows an index that follows another follows the other.
LEMMA FollowsTransitive ==
    ASSUME NEW s \in Signed, NEW t \in Signed, NEW u \in Signed, Follows(s, t), Follows(t, u)
    PROVE  Follows(s, u)
<1>1. s.sequence \in Nat /\ t.sequence \in Nat /\ u.sequence \in Nat
  BY SignedIndex
<1> QED
  BY <1>1 DEF Follows

\* A step of a command that runs alone and does not finish.
LEMMA MoveCheckpointInv ==
    ASSUME ClientTypeInv, CheckpointInv, NEW p \in Commands, Running(p),
           NEW l \in Labels \ {"done"}, Goto(p, l),
           UNCHANGED <<checkpoint, accepted, known>>,
           \A q \in Commands \ {p} : UNCHANGED <<index[q], trusted[q]>>,
           l \in {"openBundle", "writeState"} =>
               trusted'[p] = checkpoint /\ NoRollback(checkpoint, index'[p])
    PROVE  CheckpointInv'
<1>1. pc' = [pc EXCEPT ![p] = l] /\ pc \in [Commands -> Labels]
  BY DEF Goto, ClientTypeInv, TypeOK, Labels
<1>2. \A q \in Commands : q # p => ~Running(q) /\ pc'[q] = pc[q]
  BY <1>1 DEF CheckpointInv, SoleCommand
<1>3. SoleCommand'
  BY <1>2 DEF SoleCommand, Running
<1>4. HighestAcceptedRecorded'
  BY DEF CheckpointInv, HighestAcceptedRecorded
<1>5. NothingOlder' /\ OneIndexPerSequence'
  BY <1>1, <1>2 DEF CheckpointInv, NothingOlder, OneIndexPerSequence
<1> QED
  BY <1>1, <1>2, <1>3, <1>4, <1>5 DEF CheckpointInv, NoRollback

\* Every step keeps the invariant until commands overlap.
LEMMA NextCheckpointInv == ClientTypeInv /\ SerialInv /\ [Next]_vars => SerialInv'
<1> SUFFICES ASSUME ClientTypeInv, SerialInv, [Next]_vars, ~overlapped' PROVE CheckpointInv'
  BY DEF SerialInv
<1>c. CheckpointInv
  BY ClearedStays DEF SerialInv
<1>t. TypeOK /\ IndexHeld
  BY DEF ClientTypeInv
<1>1. CASE UNCHANGED vars
  BY <1>1, <1>c
  DEF CheckpointInv, SoleCommand, Running, HighestAcceptedRecorded, OneIndexPerSequence,
      NothingOlder, vars
<1>2. ASSUME NEW p \in Commands, NEW r \in Requests, Begin(p, r) PROVE CheckpointInv'
  <2>1. /\ pc[p] = "idle" /\ \A q \in Commands : ~Running(q)
        /\ \E l \in {"latest", "openIndex"} : pc' = [pc EXCEPT ![p] = l]
        /\ known' = [known EXCEPT ![p] = accepted]
        /\ UNCHANGED <<checkpoint, accepted, index, trusted>>
    BY <1>2, <1>t DEF Begin, Goto, Quiescent, TypeOK
  <2>2. \A q \in Commands : q # p => ~Running(q)'
    BY <1>t, <2>1 DEF Running, TypeOK
  <2>3. SoleCommand'
    BY <2>2 DEF SoleCommand
  <2>4. HighestAcceptedRecorded' /\ OneIndexPerSequence'
    BY <1>c, <2>1 DEF CheckpointInv, HighestAcceptedRecorded, OneIndexPerSequence
  <2>5. NothingOlder'
    BY <1>t, <1>c, <2>1 DEF CheckpointInv, NothingOlder, TypeOK
  <2> QED
    BY <1>t, <1>c, <2>1, <2>3, <2>4, <2>5 DEF CheckpointInv, TypeOK
<1>3. ASSUME NEW p \in Commands,
             \/ \E n \in Sequences : GetLatest(p, n)
             \/ \E s \in Signed : GetIndex(p, s) \/ OpenIndex(p, s)
             \/ \E e \in Entries : PublishBundle(p, e)
             \/ PublishIndex(p) \/ Stop(p)
      PROVE CheckpointInv'
  <2>1. /\ Running(p) /\ UNCHANGED <<checkpoint, accepted, known>>
        /\ \E l \in {"index", "publishBundle", "publishIndex", "openIndex", "loadState", "failed"} :
             Goto(p, l)
        /\ \A q \in Commands \ {p} : UNCHANGED <<index[q], trusted[q]>>
    BY <1>t, <1>3
    DEF TypeOK, GetLatest, GetIndex, OpenIndex, PublishBundle, PublishIndex, Stop, Running,
        Fetching, Resolving
  <2> QED
    BY <1>c, <2>1, MoveCheckpointInv DEF Labels, Fetching, Resolving
<1>4. ASSUME NEW p \in Commands, LoadState(p) PROVE CheckpointInv'
  <2>1. /\ Running(p) /\ UNCHANGED <<checkpoint, accepted, known, index>> /\ Goto(p, "openBundle")
        /\ trusted'[p] = checkpoint /\ NoRollback(checkpoint, index[p])
        /\ \A q \in Commands \ {p} : UNCHANGED trusted[q]
    BY <1>t, <1>4 DEF TypeOK, LoadState, Running, Resolving
  <2> QED
    BY <1>c, <2>1, MoveCheckpointInv DEF Labels, Resolving
<1>5. ASSUME NEW p \in Commands, NEW e \in Entries, OpenBundle(p, e) PROVE CheckpointInv'
  <2>1. /\ Running(p) /\ UNCHANGED <<checkpoint, accepted, known, index, trusted>>
        /\ Goto(p, "writeState")
        /\ trusted[p] = checkpoint /\ NoRollback(checkpoint, index[p])
    BY <1>5, <1>c DEF OpenBundle, Running, Resolving, CheckpointInv
  <2> QED
    BY <1>c, <2>1, MoveCheckpointInv DEF Labels, Resolving
<1>6. ASSUME NEW p \in Commands, WriteState(p) PROVE CheckpointInv'
  <2>1. /\ Running(p) /\ index[p] \in Signed /\ NoRollback(checkpoint, index[p])
        /\ checkpoint' = IF checkpoint = None \/ index[p].sequence > checkpoint.sequence
                         THEN index[p] ELSE checkpoint
        /\ accepted' = accepted \cup {index[p]} /\ UNCHANGED <<index, trusted, known>>
        /\ pc' = [pc EXCEPT ![p] = "done"]
    BY <1>t, <1>6, <1>c DEF WriteState, Goto, Running, Resolving, CheckpointInv, IndexHeld, Holding
  <2>2. checkpoint' = index[p]
    BY <1>t, <2>1 DEF NoRollback, Follows, TypeOK
  <2>3. \A q \in Commands : q # p => ~Running(q) /\ pc'[q] = pc[q]
    BY <1>t, <1>c, <2>1 DEF CheckpointInv, SoleCommand, TypeOK
  <2>4. SoleCommand'
    BY <2>3 DEF SoleCommand, Running
  <2>5. ASSUME NEW s \in accepted PROVE Follows(index[p], s)
    <3>1. s \in Signed /\ checkpoint \in Signed /\ Follows(checkpoint, s)
      BY <1>t, <1>c, <2>5 DEF TypeOK, CheckpointInv, HighestAcceptedRecorded
    <3>2. Follows(index[p], checkpoint)
      BY <2>1, <3>1, SignedIndex DEF NoRollback
    <3> QED
      BY <2>1, <3>1, <3>2, FollowsTransitive
  <2>6. HighestAcceptedRecorded'
    BY <2>1, <2>2, <2>5, SignedIndex DEF HighestAcceptedRecorded, Follows
  <2>7. NothingOlder'
    BY <1>t, <1>c, <2>1, <2>5 DEF CheckpointInv, NothingOlder, TypeOK
  <2>9. OneIndexPerSequence'
    <3>1. ASSUME NEW s \in accepted, s.sequence = index[p].sequence PROVE s = index[p]
      BY <1>t, <2>1, <2>5, <3>1, SignedIndex DEF Follows
    <3> QED
      BY <1>c, <2>1, <3>1 DEF CheckpointInv, OneIndexPerSequence
  <2>8. \A q \in Commands : pc'[q] \notin {"openBundle", "writeState"}
    BY <1>t, <2>1, <2>3 DEF TypeOK, Running, Resolving
  <2> QED
    BY <1>c, <2>1, <2>4, <2>6, <2>7, <2>8, <2>9 DEF CheckpointInv
<1>7. CASE ClearCache
  BY <1>7, <1>c
  DEF ClearCache, CheckpointInv, SoleCommand, Running, HighestAcceptedRecorded,
      OneIndexPerSequence, NothingOlder
<1> QED
  BY <1>1, <1>2, <1>3, <1>4, <1>5, <1>6, <1>7 DEF Next, Step

\* As long as commands have not overlapped the state file covers every index a
\* command has returned (assertNoRollback and the guard of writeRegistryState).
THEOREM CheckpointCoversAccepted == Spec => []SerialCommandsAreRecorded
<1>1. Init => ClientTypeInv /\ SerialInv
  BY InitClientType, InitCheckpointInv
<1>2. (ClientTypeInv /\ SerialInv) /\ [Next]_vars => (ClientTypeInv /\ SerialInv)'
  BY NextClientType, NextCheckpointInv
<1>3. SerialInv => SerialCommandsAreRecorded
  BY DEF SerialInv, CheckpointInv, SerialCommandsAreRecorded
<1> QED
  BY <1>1, <1>2, <1>3, PTL DEF Spec

\* Commands never accept two indexes of one sequence: because of the state file
\* when they have not overlapped, and otherwise because of the cache, as long as
\* it is kept (publishDirectory and assertExistingSnapshot).
THEOREM RacingCommandsAgree == Spec => []NoEquivocation
<1>1. Init => ClientTypeInv /\ SerialInv /\ KeptCacheInv
  BY InitClientType, InitCheckpointInv, InitAcceptedAreCached
<1>2. ClientTypeInv /\ SerialInv /\ KeptCacheInv /\ [Next]_vars
        => ClientTypeInv' /\ SerialInv' /\ KeptCacheInv'
  BY NextClientType, NextCheckpointInv, NextAcceptedAreCached
<1>3. ClientTypeInv /\ SerialInv /\ KeptCacheInv => NoEquivocation
  BY DEF SerialInv, CheckpointInv, OneIndexPerSequence, KeptCacheInv, AcceptedAreCached,
         NoEquivocation
<1> QED
  BY <1>1, <1>2, <1>3, PTL DEF Spec

\* With a cache that is kept, the index a command has opened follows all that was
\* accepted before the command started: these are in the cache, and the highest
\* is opened.
OpensLatest ==
    \A p \in Commands :
      /\ known[p] \subseteq accepted
      /\ pc[p] \in {"loadState", "openBundle", "writeState", "done"} =>
           \A s \in known[p] : Follows(index[p], s)

KeptOpensLatest == ~cleared => OpensLatest

\* Initially nothing is known.
LEMMA InitOpensLatest == Init => KeptOpensLatest
BY DEF Init, KeptOpensLatest, OpensLatest

\* Every step keeps this, also when commands overlap.
LEMMA NextOpensLatest ==
    ClientTypeInv /\ KeptCacheInv /\ KeptOpensLatest /\ [Next]_vars => KeptOpensLatest'
<1> SUFFICES ASSUME ClientTypeInv, AcceptedAreCached, OpensLatest, [Next]_vars
             PROVE  OpensLatest'
  BY ClearedStays DEF KeptCacheInv, KeptOpensLatest
<1>t. TypeOK /\ IndexHeld
  BY DEF ClientTypeInv
<1>1. CASE UNCHANGED vars
  BY <1>1 DEF OpensLatest, vars
<1>2. ASSUME NEW p \in Commands, NEW r \in Requests, Begin(p, r) PROVE OpensLatest'
  BY <1>t, <1>2 DEF TypeOK, Begin, Goto, OpensLatest
<1>3. ASSUME NEW p \in Commands,
             \/ \E n \in Sequences : GetLatest(p, n)
             \/ \E s \in Signed : GetIndex(p, s)
             \/ \E e \in Entries : PublishBundle(p, e)
             \/ PublishIndex(p) \/ Stop(p)
      PROVE OpensLatest'
  BY <1>t, <1>3
  DEF TypeOK, GetLatest, GetIndex, PublishBundle, PublishIndex, Stop, Goto, OpensLatest
<1>4. ASSUME NEW p \in Commands, NEW s \in Signed, OpenIndex(p, s) PROVE OpensLatest'
  <2>1. ASSUME NEW k \in known[p] PROVE Follows(s, k)
    <3>1. k \in Signed /\ cachedIndex[k.sequence] = k
      BY <1>t, <2>1 DEF TypeOK, OpensLatest, AcceptedAreCached
    <3>2. k.sequence <= s.sequence /\ cachedIndex[s.sequence] = s
      BY <1>4, <3>1, SignedIndex DEF OpenIndex
    <3> QED
      BY <3>1, <3>2, SignedIndex DEF Follows
  <2> QED
    BY <1>t, <1>4, <2>1 DEF TypeOK, OpenIndex, Goto, OpensLatest
<1>5. ASSUME NEW p \in Commands,
             LoadState(p) \/ WriteState(p) \/ \E e \in Entries : OpenBundle(p, e)
      PROVE OpensLatest'
  BY <1>t, <1>5 DEF TypeOK, LoadState, OpenBundle, WriteState, Goto, OpensLatest
<1>6. CASE ClearCache
  BY <1>6 DEF ClearCache, OpensLatest
<1> QED
  BY <1>1, <1>2, <1>3, <1>4, <1>5, <1>6 DEF Next, Step

\* No mirror can make a command return an index older than, or equivocating with,
\* one returned before: as long as commands have not overlapped because of the state
\* file, even if the cache was cleared in between; as long as the cache is kept
\* because of the cache, however the commands overlap.  Only both together send a
\* client back.
THEOREM CommandsNeverRollBack == Spec => []NoRollbackAcrossCommands
<1>1. Init => ClientTypeInv /\ SerialInv /\ KeptCacheInv /\ KeptOpensLatest
  BY InitClientType, InitCheckpointInv, InitAcceptedAreCached, InitOpensLatest
<1>2. ClientTypeInv /\ SerialInv /\ KeptCacheInv /\ KeptOpensLatest /\ [Next]_vars
        => ClientTypeInv' /\ SerialInv' /\ KeptCacheInv' /\ KeptOpensLatest'
  BY NextClientType, NextCheckpointInv, NextAcceptedAreCached, NextOpensLatest
<1>3. SerialInv /\ KeptOpensLatest => NoRollbackAcrossCommands
  BY DEF SerialInv, CheckpointInv, NothingOlder, KeptOpensLatest, OpensLatest,
         NoRollbackAcrossCommands
<1> QED
  BY <1>1, <1>2, <1>3, PTL DEF Spec
=============================================================================
