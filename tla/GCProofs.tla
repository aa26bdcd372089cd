------------------------------ MODULE GCProofs ------------------------------
(***************************************************************************)
(* Proofs about the lock, and the lemmas about the graph, the pinner and   *)
(* the collectors that the modules built on GC share: for every graph, any *)
(* sets of pinners and threads and any finite set of collectors.           *)
(***************************************************************************)
EXTENDS GC, FiniteSetTheorems, TLAPS

-----------------------------------------------------------------------------
(* The lock.                                                               *)

Waiting == {g \in Collectors : gcAt[g] \in InGCLock}

Owners == {"announced", "acquired", "locked"}

\* What GCLock and PinLock maintain together: the inner mutex is owned by the
\* one collector past Announce, readers wait only behind an owner, nobody reads
\* once the owner has acquired, and the counter counts the unreturned calls.
LockInv ==
  /\ LockTypeOK
  /\ \A g \in Collectors : gcAt[g] \in Owners <=> writer = g
  /\ \A g \in Collectors : Holds(g) => readers = {}
  /\ writer = NoOne => blocked = {}
  /\ gcreq = Cardinality(Waiting)

\* Collectors are finitely many, so the calls that wait can be counted.
LEMMA WaitingFinite ==
  /\ IsFiniteSet(Waiting)
  /\ Cardinality(Waiting) \in Nat
  /\ Cardinality(Waiting) <= Cardinality(Collectors)
  /\ Cardinality(Waiting) = 0 <=> Waiting = {}
  <1>1. Waiting \subseteq Collectors
    BY Zenon DEF Waiting
  <1> QED
    BY <1>1, CollectorsAssumption, FS_Subset, FS_CardinalityType, FS_EmptySet, Zenon

\* The same of the next state.
LEMMA WaitingFinitePrime ==
  /\ IsFiniteSet(Waiting')
  /\ Cardinality(Waiting') \in Nat
  /\ Cardinality(Waiting') <= Cardinality(Collectors)
  <1>1. Waiting' \subseteq Collectors
    BY Zenon DEF Waiting
  <1> QED
    BY <1>1, CollectorsAssumption, FS_Subset, FS_CardinalityType, Zenon

\* Init => LockInv
LEMMA LockInvInit == LockInit => LockInv
  <1> SUFFICES ASSUME LockInit PROVE LockInv
    BY Zenon
  <1>1. Waiting = {}
    BY Zenon DEF LockInit, Waiting, InGCLock
  <1>2. gcreq = Cardinality(Waiting) /\ gcreq \in 0 .. Cardinality(Collectors)
    BY <1>1, WaitingFinite, FS_CardinalityType, CollectorsAssumption DEF LockInit
  <1>3. LockTypeOK
    BY <1>2, Zenon DEF LockInit, LockTypeOK
  <1> QED
    BY <1>2, <1>3, CollectorsAssumption, Zenon DEF LockInit, LockInv, Holds, Owners

\* The counter follows the calls: GCLock adds one waiting call, GCLocked takes
\* one away, and no other step changes which calls wait.
LEMMA CountStep ==
  ASSUME LockInv, [LockNext]_lockVars
  PROVE  gcreq' = Cardinality(Waiting')
  <1> USE DEF LockInv, LockTypeOK
  <1>1. ASSUME NEW g \in Collectors, GCLock(g)
        PROVE  gcreq' = Cardinality(Waiting')
    <2>1. Waiting' = Waiting \cup {g} /\ g \notin Waiting
      BY <1>1, Zenon DEF GCLock, Waiting, InGCLock
    <2>2. Cardinality(Waiting') = Cardinality(Waiting) + 1
      BY <2>1, WaitingFinite, FS_AddElement, Zenon
    <2> QED
      BY <1>1, <2>2, Zenon DEF GCLock
  <1>2. ASSUME NEW g \in Collectors, GCLocked(g)
        PROVE  gcreq' = Cardinality(Waiting')
    <2>1. Waiting' = Waiting \ {g} /\ g \in Waiting
      BY <1>2, Zenon DEF GCLocked, Waiting, InGCLock
    <2>2. Cardinality(Waiting') = Cardinality(Waiting) - 1
      BY <2>1, WaitingFinite, FS_RemoveElement, Zenon
    <2> QED
      BY <1>2, <2>2, Zenon DEF GCLocked
  <1>3. ASSUME NEW g \in Collectors, Announce(g) \/ Acquire(g) \/ GCUnlock(g)
        PROVE  gcreq' = Cardinality(Waiting')
    <2>1. Waiting' = Waiting /\ gcreq' = gcreq
      BY <1>3, Zenon DEF Announce, Acquire, GCUnlock, Waiting, InGCLock
    <2> QED
      BY <2>1, Zenon
  <1>4. ASSUME NEW p \in Pinners, PinLock(p) \/ PinUnlock(p)
        PROVE  gcreq' = Cardinality(Waiting')
    BY <1>4, Zenon DEF PinLock, PinUnlock, Waiting
  <1>5. CASE UNCHANGED lockVars
    BY <1>5, Zenon DEF lockVars, Waiting
  <1> QED
    BY <1>1, <1>2, <1>3, <1>4, <1>5, Zenon DEF LockNext

\* LockInv is inductive.
LEMMA LockInvStep == LockInv /\ [LockNext]_lockVars => LockInv'
  <1> SUFFICES ASSUME LockInv, [LockNext]_lockVars PROVE LockInv'
    BY Zenon
  <1>1. gcreq' = Cardinality(Waiting') /\ gcreq' \in 0 .. Cardinality(Collectors)
    <2>1. Cardinality(Collectors) \in Nat
      BY CollectorsAssumption, FS_CardinalityType, Zenon
    <2> QED
      BY <2>1, CountStep, WaitingFinitePrime
  <1> USE CollectorsAssumption DEF LockInv, LockTypeOK, Holds, Owners
  <1>2. ASSUME NEW g \in Collectors, GCLock(g) PROVE LockInv'
    BY <1>1, <1>2, Zenon DEF GCLock
  <1>3. ASSUME NEW g \in Collectors, Announce(g) PROVE LockInv'
    BY <1>1, <1>3, Zenon DEF Announce
  <1>4. ASSUME NEW g \in Collectors, Acquire(g) PROVE LockInv'
    BY <1>1, <1>4, Zenon DEF Acquire
  <1>5. ASSUME NEW g \in Collectors, GCLocked(g) PROVE LockInv'
    BY <1>1, <1>5, Zenon DEF GCLocked
  <1>6. ASSUME NEW g \in Collectors, GCUnlock(g) PROVE LockInv'
    BY <1>1, <1>6, Zenon DEF GCUnlock
  <1>7. ASSUME NEW p \in Pinners, PinLock(p) PROVE LockInv'
    BY <1>1, <1>7, Zenon DEF PinLock
  <1>8. ASSUME NEW p \in Pinners, PinUnlock(p) PROVE LockInv'
    BY <1>1, <1>8, Zenon DEF PinUnlock
  <1>9. CASE UNCHANGED lockVars
    BY <1>1, <1>9, Zenon DEF lockVars
  <1> QED
    BY <1>2, <1>3, <1>4, <1>5, <1>6, <1>7, <1>8, <1>9, Zenon DEF LockNext

\* LockInv holds in every state GCLock, PinLock and their unlocks reach.
THEOREM LockInvariant == LockSpec => []LockInv
  BY LockInvInit, LockInvStep, PTL DEF LockSpec

\* The type invariant: in particular the counter of GCLock calls never runs
\* below zero or above the number of collectors.
THEOREM LockTypes == LockSpec => []LockTypeOK
  <1>1. LockInv => LockTypeOK
    BY Zenon DEF LockInv
  <1> QED
    BY <1>1, LockInvariant, PTL

\* No pinner and no other collector holds the lock together with a collector.
THEOREM LockExclusion == LockSpec => []Exclusion
  <1>1. LockInv => Exclusion
    BY Zenon DEF LockInv, LockTypeOK, Exclusion, Holds, Owners
  <1> QED
    BY <1>1, LockInvariant, PTL

\* GCRequested reports exactly the GCLock calls that have not returned.
THEOREM LockRequestsCounted == LockSpec => []RequestsCounted
  <1>1. LockInv => RequestsCounted
    <2> SUFFICES ASSUME LockInv PROVE RequestsCounted
      BY Zenon
    <2>1. gcreq > 0 <=> Waiting # {}
      BY WaitingFinite DEF LockInv
    <2> QED
      BY <2>1, Zenon DEF RequestsCounted, GCRequested, Waiting
  <1> QED
    BY <1>1, LockInvariant, PTL

\* A waiting pinner always has an owner of the inner mutex that will let it in.
THEOREM LockBlockedBehindWriter == LockSpec => []BlockedBehindWriter
  <1>1. LockInv => BlockedBehindWriter
    BY Zenon DEF LockInv, LockTypeOK, BlockedBehindWriter, Owners
  <1> QED
    BY <1>1, LockInvariant, PTL

\* A collector that holds the lock has it alone.
LEMMA LockedAlone ==
  ASSUME LockInv, NEW g \in Collectors, gcAt[g] = "locked"
  PROVE  readers = {} /\ \A h \in Collectors : gcAt[h] = "locked" => h = g
  BY Zenon DEF LockInv, LockTypeOK, Holds, Owners

-----------------------------------------------------------------------------
(* The graph.                                                              *)

\* A walk from nodes stays among the nodes.
LEMMA ReachInNodes == ASSUME NEW L, NEW R PROVE Reach(L, R) \subseteq Nodes
  BY Zenon DEF Reach

\* A walk visits its roots and what the links of a visited node name, ...
LEMMA ReachClosed ==
  ASSUME NEW L \in [Nodes -> SUBSET Nodes], NEW R \in SUBSET Nodes
  PROVE  R \subseteq Reach(L, R) /\ ClosedUnder(L, Reach(L, R))
  <1>1. R \subseteq Reach(L, R)
    BY Zenon DEF Reach
  <1>2. ASSUME NEW m \in Reach(L, R), NEW n \in L[m],
               NEW S \in SUBSET Nodes, R \subseteq S, ClosedUnder(L, S)
        PROVE  n \in S
    BY <1>2, Zenon DEF Reach, ClosedUnder
  <1>3. ASSUME NEW m \in Reach(L, R) PROVE L[m] \subseteq Nodes
    BY <1>3, Zenon DEF Reach
  <1>4. ASSUME NEW m \in Reach(L, R), NEW n \in L[m] PROVE n \in Reach(L, R)
    BY <1>2, <1>3, <1>4, Zenon DEF Reach
  <1> QED BY <1>1, <1>4, Zenon DEF ClosedUnder

\* ... and nothing else.
LEMMA ReachLeast ==
  ASSUME NEW L, NEW R, NEW S \in SUBSET Nodes, R \subseteq S, ClosedUnder(L, S)
  PROVE  Reach(L, R) \subseteq S
  BY Zenon DEF Reach

\* The tree below a node contains the node.
LEMMA BelowInNodes == ASSUME NEW c \in Nodes PROVE Below[c] \subseteq Nodes /\ c \in Below[c]
  BY Zenon DEF Below, Reach

\* The trees below nodes are nodes.
LEMMA BelowAllInNodes == ASSUME NEW R \in SUBSET Nodes PROVE BelowAll(R) \subseteq Nodes
  BY BelowInNodes, Zenon DEF BelowAll

\* Fewer pins keep fewer nodes.
LEMMA BelowAllMonotone ==
  ASSUME NEW R, NEW S, R \subseteq S
  PROVE  BelowAll(R) \subseteq BelowAll(S)
  BY Zenon DEF BelowAll

\* The tree below a node contains the children of everything in it.
LEMMA BelowClosed == ASSUME NEW c \in Nodes PROVE ClosedUnder(Links, Below[c])
  <1>1. Below[c] = Reach(Links, {c})
    BY Zenon DEF Below
  <1> QED BY <1>1, ReachClosed, LinksAssumption, Zenon

\* So do the trees of several roots together.
LEMMA BelowAllClosed ==
  ASSUME NEW R \in SUBSET Nodes
  PROVE  R \subseteq BelowAll(R) /\ ClosedUnder(Links, BelowAll(R))
  <1>1. R \subseteq BelowAll(R)
    BY BelowInNodes, Zenon DEF BelowAll
  <1>2. ASSUME NEW m \in BelowAll(R) PROVE Links[m] \subseteq BelowAll(R)
    <2>1. PICK c \in R : m \in Below[c]
      BY <1>2, Zenon DEF BelowAll
    <2>2. Links[m] \subseteq Below[c]
      BY <2>1, BelowClosed, Zenon DEF ClosedUnder
    <2> QED BY <2>2, Zenon DEF BelowAll
  <1> QED BY <1>1, <1>2, Zenon DEF ClosedUnder

\* No smaller set that contains the roots does.
LEMMA BelowAllLeast ==
  ASSUME NEW R \in SUBSET Nodes, NEW S \in SUBSET Nodes, R \subseteq S, ClosedUnder(Links, S)
  PROVE  BelowAll(R) \subseteq S
  <1>1. ASSUME NEW c \in R PROVE Below[c] \subseteq S
    <2>1. Below[c] = Reach(Links, {c})
      BY Zenon DEF Below
    <2> QED BY <2>1, ReachLeast
  <1> QED BY <1>1, Zenon DEF BelowAll

\* The graph below a node is the node and the graphs below its links.
LEMMA BelowUnfold ==
  ASSUME NEW c \in Nodes
  PROVE  Below[c] = {c} \cup BelowAll(Links[c])
  <1>1. Links[c] \in SUBSET Nodes
    BY LinksAssumption, Zenon
  <1>2. BelowAll(Links[c]) \subseteq Below[c]
    <2>1. Links[c] \subseteq Below[c]
      BY BelowInNodes, BelowClosed, Zenon DEF ClosedUnder
    <2> QED BY <1>1, <2>1, BelowInNodes, BelowClosed, BelowAllLeast, Zenon
  <1>3. Below[c] \subseteq {c} \cup BelowAll(Links[c])
    <2> DEFINE S == {c} \cup BelowAll(Links[c])
    <2>1. S \in SUBSET Nodes
      BY <1>1, BelowAllInNodes, Zenon
    <2>2. ClosedUnder(Links, S)
      BY <1>1, BelowAllClosed, Zenon DEF ClosedUnder
    <2>3. {c} \in SUBSET Nodes /\ {c} \subseteq S
      BY Zenon
    <2> HIDE DEF S
    <2>4. Reach(Links, {c}) \subseteq S
      BY <2>1, <2>2, <2>3, ReachLeast, Zenon
    <2> QED BY <2>4, Zenon DEF Below, S
  <1> QED BY <1>2, <1>3, BelowInNodes, Zenon

\* A walk that stops at nodes whose graph is marked already and at nodes that
\* cannot be read leaves nothing of the graphs below its roots unmarked, when
\* all of them can be read.
LEMMA WalkCovers ==
  ASSUME NEW R \in SUBSET Nodes, NEW M \in SUBSET Nodes, ClosedUnder(Links, M),
         NEW present, BelowAll(R) \subseteq present
  PROVE  BelowAll(R) \subseteq M \cup Reach(WalkLinks(present, M), R)
  <1> DEFINE L == WalkLinks(present, M)
             W == Reach(L, R)
             B == BelowAll(R)
             T == (M \cup W) \cap B
  <1>1. L \in [Nodes -> SUBSET Nodes]
    BY LinksAssumption, Zenon DEF WalkLinks
  <1>2. \A m \in Nodes : m \in present /\ m \notin M => L[m] = Links[m]
    BY Zenon DEF WalkLinks
  <1> HIDE DEF L
  <1>3. R \subseteq W /\ ClosedUnder(L, W) /\ W \subseteq Nodes
    BY <1>1, ReachClosed, ReachInNodes, Zenon
  <1>4. R \subseteq B /\ ClosedUnder(Links, B) /\ B \subseteq Nodes
    BY BelowAllClosed, BelowAllInNodes, Zenon
  <1>b. B \subseteq present
    BY Zenon
  <1> HIDE DEF W, B
  <1>5. ClosedUnder(Links, T)
    <2>1. ASSUME NEW m \in T PROVE Links[m] \subseteq T
      <3>1. Links[m] \subseteq B /\ m \in present /\ m \in Nodes
        BY <1>4, <1>b, Zenon DEF ClosedUnder
      <3>2. CASE m \in M
        BY <3>1, <3>2, Zenon DEF ClosedUnder
      <3>3. CASE m \notin M
        BY <1>2, <1>3, <3>1, <3>3, Zenon DEF ClosedUnder
      <3> QED BY <3>2, <3>3, Zenon
    <2> QED BY <2>1, Zenon DEF ClosedUnder
  <1>6. T \in SUBSET Nodes /\ R \subseteq T
    BY <1>3, <1>4, Zenon
  <1> HIDE DEF T
  <1>7. BelowAll(R) \subseteq T
    BY <1>5, <1>6, BelowAllLeast, Zenon
  <1> QED BY <1>7, Zenon DEF T, W, L

-----------------------------------------------------------------------------
(* The pinner's types.                                                     *)

\* A Pin call that fetches has a node to fetch.
CallHasNode == \A t \in Threads : call[t].at \in {"fetching", "fetched"} => call[t].c \in Nodes

PinnerTypes == PinnerTypeOK /\ CallHasNode

\* A call record a step may put in place of a thread's
GoodCall(x) == x \in Calls /\ (x.at \in {"fetching", "fetched"} => x.c \in Nodes)

\* The calls of the pinner that the steps make are calls.
LEMMA GoodCalls ==
  /\ GoodCall(Idle)
  /\ \A b \in BOOLEAN : GoodCall(Returned(b))
  /\ \A c \in Nodes, r, b \in BOOLEAN :
        GoodCall(CallAt("fetching", c, r, b)) /\ GoodCall(CallAt("fetched", c, r, b))
  /\ GoodCall(CallAt("flushRoot", None, FALSE, FALSE))
  /\ GoodCall(CallAt("flushKey", None, FALSE, FALSE))
  BY DEF GoodCall, Idle, Returned, CallAt, Calls

\* A thread that changes its call to another one keeps the type of all calls.
LEMMA CallStep ==
  ASSUME call \in [Threads -> Calls], CallHasNode, NEW t \in Threads,
         NEW x, GoodCall(x), call' = [call EXCEPT ![t] = x]
  PROVE  (call \in [Threads -> Calls])' /\ CallHasNode'
  BY Zenon DEF GoodCall, CallHasNode

\* A pinner that was just loaded has its types.
LEMMA PinnerTypesInit == PinnerInit => PinnerTypes
  BY GoodCalls, Zenon DEF PinnerInit, PinnerTypes, PinnerTypeOK, CallHasNode, GoodCall

\* PinWithMode keeps them.
LEMMA PinWithModeTypes ==
  ASSUME PinnerTypes, NEW t \in Threads, NEW c \in Nodes, PinWithMode(t, c)
  PROVE  PinnerTypes'
  BY GoodCalls, CallStep, Zenon DEF PinnerTypes, PinnerTypeOK, PinWithMode, Return, storeVars

\* What Flush writes are nodes of the pin state.
LEMMA FlushTypes ==
  ASSUME PinnerTypes, NEW t \in Threads, FlushSets(t) \/ FlushRoot(t) \/ FlushKey(t)
  PROVE  PinnerTypes'
  <1> USE DEF PinnerTypes, PinnerTypeOK, Return
  <1> USE GoodCalls, CallStep
  <1>1. CASE FlushSets(t)
    BY <1>1, Zenon DEF FlushSets, pinVars, SetNodes
  <1>2. RootNode(directPin, recursePin) \in RootNodes
         /\ InternalSet(RootNode(directPin, recursePin))
              \subseteq {EmptyNode} \cup SetNodes \cup RootNodes
    BY DEF RootNode, RootNodes, InternalSet, StateNodes, SetNodes
  <1>3. CASE FlushRoot(t)
    <2>1. call' = [call EXCEPT ![t].at = "flushKey"] \/ Return(t, FALSE)
      BY <1>3, Zenon DEF FlushRoot
    <2>2. call' = [call EXCEPT ![t].at = "flushKey"]
            => call' = [call EXCEPT ![t] = [call[t] EXCEPT !.at = "flushKey"]]
      BY Zenon
    <2>3. GoodCall([call[t] EXCEPT !.at = "flushKey"])
      BY DEF GoodCall, Calls
    <2>4. (call \in [Threads -> Calls])' /\ CallHasNode'
      BY <2>1, <2>2, <2>3, Zenon
    <2> QED BY <1>2, <1>3, <2>4, Zenon DEF FlushRoot, pinVars
  <1>4. CASE FlushKey(t)
    BY <1>2, <1>4, Zenon DEF FlushKey
  <1> QED BY <1>1, <1>3, <1>4, Zenon

\* What LoadPinner reads back has its types.
LEMMA LoadTypes ==
  ASSUME PinnerTypes, Load, UNCHANGED storeVars
  PROVE  PinnerTypes'
  <1> USE DEF PinnerTypes, PinnerTypeOK
  <1>1. Loadable => /\ pinKey.recursive \subseteq Nodes /\ pinKey.direct \subseteq Nodes
                    /\ InternalSet(pinKey) \subseteq {EmptyNode} \cup SetNodes \cup RootNodes
    BY Zenon DEF Loadable, RootNodes, InternalSet, StateNodes, SetNodes
  <1>2. (call \in [Threads -> Calls])' /\ CallHasNode'
    BY GoodCalls, Zenon DEF Load, CallHasNode, GoodCall
  <1>3. recursePin' \subseteq Nodes /\ directPin' \subseteq Nodes
        /\ internalPin' \subseteq {EmptyNode} \cup SetNodes \cup RootNodes
    BY <1>1, Zenon DEF Load
  <1> QED BY <1>2, <1>3, Zenon DEF Load, storeVars

-----------------------------------------------------------------------------
(* The collectors.                                                         *)

CollectorStep(g) == RmBlocks(g) \/ GarbageCollect(g) \/ Collecting(g)

\* Before the first collection the collectors have their types.
LEMMA GCTypesInit == GCInit => GCTypeOK
  BY GCAssumption DEF GCInit, GCTypeOK, Phases

\* The steps of GC keep them.
LEMMA CollectorTypes ==
  ASSUME PinnerTypeOK, GCTypeOK, NEW g \in Collectors, CollectorStep(g)
  PROVE  PinnerTypeOK' /\ GCTypeOK'
  <1> USE DEF PinnerTypeOK, GCTypeOK, Goto, Mark, Phases, storeVars, pinVars, pinnerVars
  <1> USE BelowAllInNodes, ReachInNodes
  <1>1. CASE RmBlocks(g) \/ GarbageCollect(g)
    BY <1>1, GCAssumption DEF RmBlocks, GarbageCollect
  <1>2. CASE Locking(g)
    BY <1>2, Zenon DEF Locking, gcVars
  <1>3. CASE MarkRecursive(g) \/ MarkBestEffort(g) \/ MarkDirect(g)
    BY <1>3 DEF MarkRecursive, MarkBestEffort, MarkDirect
  <1>4. CASE MarkInternal(g)
    BY <1>4 DEF MarkInternal
  <1>5. CASE Sweep(g) \/ SweepEnd(g) \/ Cancel(g)
    BY <1>5, Zenon DEF Sweep, SweepEnd, Cancel, gcVars
  <1>6. CASE FilterPinned(g) \/ DeleteBlock(g) \/ Finish(g)
    BY <1>6, Zenon DEF FilterPinned, DeleteBlock, Finish
  <1> QED
    BY <1>1, <1>2, <1>3, <1>4, <1>5, <1>6, Zenon DEF CollectorStep, Collecting

\* The collectors use the lock as GCLocker describes ...
LEMMA CollectorUsesLock ==
  ASSUME NEW g \in Collectors, CollectorStep(g)
  PROVE  [LockNext]_lockVars
  BY Zenon DEF CollectorStep, RmBlocks, GarbageCollect, Collecting, Locking, MarkRecursive,
     MarkBestEffort, MarkDirect, MarkInternal, Sweep, SweepEnd, Cancel, FilterPinned,
     DeleteBlock, Finish, LockNext

\* ... and leave the pinner's memory alone; only the last step lets readers in.
LEMMA CollectorFrame ==
  ASSUME NEW g \in Collectors, CollectorStep(g)
  PROVE  /\ UNCHANGED <<pinVars, plock, call, pinKey, filesRoot>>
         /\ UNCHANGED <<readers, blocked>> \/ Finish(g)
  BY Zenon DEF CollectorStep, RmBlocks, GarbageCollect, Collecting, Locking, MarkRecursive,
         MarkBestEffort, MarkDirect, MarkInternal, Sweep, SweepEnd, Cancel, FilterPinned,
         DeleteBlock, Finish, pinnerVars, pinVars, storeVars, lockVars,
         GCLock, Announce, Acquire, GCLocked

\* A collector changes nothing of another one.
LEMMA CollectorOthers ==
  ASSUME LockTypeOK, GCTypeOK, NEW g \in Collectors, CollectorStep(g),
         NEW h \in Collectors, h # g
  PROVE  phase'[h] = phase[h] /\ marked'[h] = marked[h] /\ gcRoots'[h] = gcRoots[h]
  <1> USE DEF GCTypeOK, Goto, Mark
  <1>1. CASE RmBlocks(g) \/ GarbageCollect(g)
    BY <1>1, Zenon DEF RmBlocks, GarbageCollect
  <1>2. CASE Locking(g) \/ Sweep(g)
    BY <1>2, Zenon DEF Locking, Sweep, gcVars
  <1>3. CASE MarkRecursive(g) \/ MarkBestEffort(g) \/ MarkDirect(g)
    BY <1>3, Zenon DEF MarkRecursive, MarkBestEffort, MarkDirect
  <1>4. CASE MarkInternal(g)
    BY <1>4, Zenon DEF MarkInternal
  <1>5. CASE SweepEnd(g) \/ Cancel(g) \/ FilterPinned(g) \/ DeleteBlock(g) \/ Finish(g)
    BY <1>5, Zenon DEF SweepEnd, Cancel, FilterPinned, DeleteBlock, Finish
  <1> QED
    BY <1>1, <1>2, <1>3, <1>4, <1>5, Zenon DEF CollectorStep, Collecting

\* A collector deletes in two of its steps.
LEMMA CollectorAddsBlocks ==
  ASSUME NEW g \in Collectors, CollectorStep(g), ~Sweep(g), ~DeleteBlock(g)
  PROVE  blocks \subseteq blocks'
  BY Zenon DEF CollectorStep, RmBlocks, GarbageCollect, Collecting, Locking, MarkRecursive,
     MarkBestEffort, MarkDirect, MarkInternal, SweepEnd, Cancel, FilterPinned, Finish,
     pinnerVars, storeVars

\* Nothing is deleted while somebody holds PinLock.
LEMMA ReadersKeepBlocks ==
  ASSUME LockInv, NEW g \in Collectors, CollectorStep(g), readers # {}
  PROVE  blocks \subseteq blocks'
  <1>1. ~Sweep(g) /\ ~DeleteBlock(g)
    BY LockedAlone, Zenon DEF Sweep, DeleteBlock, Locked
  <1> QED BY <1>1, CollectorAddsBlocks, Zenon

-----------------------------------------------------------------------------
(* Collections without RmBlocks beside them.                               *)

Collection(g) == GarbageCollect(g) \/ Collecting(g)

\* A collector marks and deletes only under GCLock.  It starts without marks
\* and marks whole graphs, and from when it has read the recursive pins
\* until it has swept, its marks cover what is below them.
CollectInv ==
  \A g \in Collectors :
    /\ phase[g] \notin {"check", "delete"}
    /\ phase[g] \notin {"away", "recursive"} => gcAt[g] = "locked"
    /\ phase[g] \in {"away", "recursive"} => marked[g] = {}
    /\ phase[g] = "bestEffort" => ClosedUnder(Links, marked[g])
    /\ phase[g] \in {"bestEffort", "direct", "internal", "sweep"}
         => BelowAll(recursePin) \subseteq marked[g]

\* Before the first collection there is nothing to cover.
LEMMA CollectInvInit == LockInit /\ GCInit => CollectInv
  BY Zenon DEF GCInit, CollectInv

\* The steps of the marking and of the deletion keep CollectInv.
LEMMA CollectionKeepsInv ==
  ASSUME LockInv, PinnerTypeOK, GCTypeOK, CollectInv, NEW g \in Collectors, Collection(g)
  PROVE  CollectInv'
  <1> USE DEF CollectInv, GCTypeOK, Goto, Mark, Locked, LockInv, LockTypeOK
  <1>0. recursePin' = recursePin
    BY CollectorFrame, Zenon DEF Collection, CollectorStep, pinVars
  <1>1. CASE GarbageCollect(g)
    BY <1>0, <1>1, Zenon DEF GarbageCollect, GCLock
  <1>2. CASE Locking(g)
    BY <1>0, <1>2 DEF Locking, gcVars, Announce, Acquire, GCLocked
  <1>3. CASE MarkRecursive(g)
    <2>1. ClosedUnder(Links, BelowAll(recursePin))
      BY BelowAllClosed, Zenon DEF PinnerTypeOK
    <2>2. CASE marked' = marked /\ phase' = [phase EXCEPT ![g] = "done"]
      BY <1>0, <1>3, <2>2, Zenon DEF MarkRecursive, lockVars
    <2>3. CASE /\ marked' = [marked EXCEPT ![g] = marked[g] \cup BelowAll(recursePin)]
               /\ phase' = [phase EXCEPT ![g] = "bestEffort"]
      <3>1. marked'[g] = BelowAll(recursePin) /\ gcAt' = gcAt /\ gcAt[g] = "locked"
        BY <1>3, <2>3, Zenon DEF MarkRecursive, lockVars
      <3> QED BY <1>0, <2>1, <2>3, <3>1, Zenon
    <2> QED BY <1>3, <2>2, <2>3, Zenon DEF MarkRecursive
  <1>4. CASE MarkBestEffort(g)
    BY <1>0, <1>4, Zenon DEF MarkBestEffort, lockVars
  <1>5. CASE MarkDirect(g)
    BY <1>0, <1>5, Zenon DEF MarkDirect, lockVars
  <1>6. CASE MarkInternal(g)
    BY <1>0, <1>6 DEF MarkInternal, lockVars
  <1>7. CASE Sweep(g) \/ SweepEnd(g) \/ Cancel(g)
    BY <1>0, <1>7 DEF Sweep, SweepEnd, Cancel, lockVars, gcVars
  <1>8. CASE FilterPinned(g) \/ DeleteBlock(g)
    BY <1>8, Zenon DEF FilterPinned, DeleteBlock
  <1>9. CASE Finish(g)
    BY <1>0, <1>9, Zenon DEF Finish, GCUnlock
  <1> QED
    BY <1>1, <1>2, <1>3, <1>4, <1>5, <1>6, <1>7, <1>8, <1>9, Zenon DEF Collection, Collecting

\* A collection deletes nothing that is below a recursive pin.
LEMMA CollectionSparesPins ==
  ASSUME CollectInv, NEW g \in Collectors, Collection(g)
  PROVE  BelowAll(recursePin) \cap blocks \subseteq blocks'
  <1>1. CASE Sweep(g)
    <2>1. BelowAll(recursePin) \subseteq marked[g]
      BY <1>1, Zenon DEF Sweep, Locked, CollectInv
    <2> QED BY <1>1, <2>1, Zenon DEF Sweep
  <1>2. ~DeleteBlock(g)
    BY Zenon DEF DeleteBlock, Locked, CollectInv
  <1>3. CASE ~Sweep(g)
    BY <1>2, <1>3, CollectorAddsBlocks, Zenon DEF Collection, CollectorStep
  <1> QED BY <1>1, <1>3, Zenon

=============================================================================
