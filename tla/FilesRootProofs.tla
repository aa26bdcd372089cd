-------------------------- MODULE FilesRootProofs --------------------------
(***************************************************************************)
(* Proofs about FilesRoot: a collection keeps the tree of the files API    *)
(* that it was given, for every graph, any number of writers, collectors,  *)
(* crashes and collections.                                                *)
(***************************************************************************)
EXTENDS FilesRoot, GCProofs

FilesTypes ==
  /\ next \in [FilesWriters -> SUBSET Nodes]
  /\ writesLeft \in [FilesWriters -> 0 .. MaxWrites]
  /\ filesKey \in SUBSET Nodes
  /\ started \in BOOLEAN
  /\ crashes \in 0 .. MaxCrashes
  /\ whole \in [Collectors -> BOOLEAN]

\* From when a collector has marked a tree that was whole until it has swept,
\* its marks cover the tree.
TreeInv ==
  \A g \in Collectors :
    /\ gcRoots[g] \subseteq Nodes
    /\ whole[g] => /\ phase[g] \in {"direct", "internal", "sweep", "done"}
                   /\ Complete(gcRoots[g])
                   /\ phase[g] # "done" => BelowAll(gcRoots[g]) \subseteq marked[g]

FilesInv ==
  /\ LockInv /\ PinnerTypes /\ GCTypeOK /\ FilesTypes
  /\ CollectInv /\ TreeInv

-----------------------------------------------------------------------------
\* The root that is stored when the node starts is complete.
LEMMA FilesInvInit == Init => FilesInv
  <1> SUFFICES ASSUME Init PROVE FilesInv
    BY Zenon
  <1>1. LockInv /\ PinnerTypes /\ GCTypeOK /\ CollectInv
    BY LockInvInit, PinnerTypesInit, GCTypesInit, CollectInvInit, Zenon DEF Init
  <1>2. FilesTypes
    BY FilesAssumption DEF Init, FilesTypes
  <1>3. TreeInv
    BY Zenon DEF Init, GCInit, TreeInv
  <1> QED BY <1>1, <1>2, <1>3, Zenon DEF FilesInv

\* A tree stays whole while blocks are only added.
LEMMA TreeGrows ==
  ASSUME TreeInv, blocks \subseteq blocks', UNCHANGED <<gcVars, whole>>
  PROVE  TreeInv'
  BY Zenon DEF TreeInv, Complete, BelowAll, gcVars

\* A command of the files API takes no lock, and adds blocks.
LEMMA FilesWriterStep ==
  ASSUME FilesInv, NEW w \in FilesWriters, NEW n \in Nodes, SetRoot(w) \/ WriteBlocks(w, n)
  PROVE  FilesInv'
  <1>1. /\ UNCHANGED <<lockVars, pinBlocks, pinKey, pinVars, plock, call, gcVars>>
        /\ UNCHANGED <<filesKey, started, crashes, whole>>
    BY Zenon DEF SetRoot, WriteBlocks
  <1>2. /\ blocks \subseteq blocks' /\ blocks' \subseteq Nodes /\ filesRoot' \subseteq Nodes
        /\ (next \in [FilesWriters -> SUBSET Nodes])'
    BY BelowInNodes
    DEF SetRoot, WriteBlocks, FilesInv, FilesTypes, GCTypeOK, PinnerTypes, PinnerTypeOK
  <1>3. (writesLeft \in [FilesWriters -> 0 .. MaxWrites])'
    BY FilesAssumption DEF SetRoot, WriteBlocks, FilesInv, FilesTypes
  <1>4. LockInv'
    BY <1>1, LockInvStep, Zenon DEF FilesInv
  <1>5. PinnerTypes'
    BY <1>1, <1>2, Zenon DEF FilesInv, PinnerTypes, PinnerTypeOK, CallHasNode, pinVars
  <1>6. GCTypeOK' /\ FilesTypes'
    BY <1>1, <1>2, <1>3, Zenon DEF FilesInv, GCTypeOK, FilesTypes, gcVars
  <1>7. CollectInv'
    BY <1>1, Zenon DEF FilesInv, CollectInv, BelowAll, lockVars, gcVars, pinVars
  <1>8. TreeInv'
    BY <1>1, <1>2, TreeGrows, Zenon DEF FilesInv
  <1> QED BY <1>4, <1>5, <1>6, <1>7, <1>8, Zenon DEF FilesInv

\* A collector leaves the tree of another one alone: that one holds the lock.
LEMMA OtherTree ==
  ASSUME FilesInv, NEW g \in Collectors, Collector(g), NEW h \in Collectors, h # g, whole[h]
  PROVE  Complete(gcRoots[h])'
  <1>1. Collection(g) /\ gcRoots'[h] = gcRoots[h]
    BY CollectorOthers, Zenon DEF Collector, Collection, CollectorStep, FilesInv, LockInv
  <1>2. gcAt[h] = "locked" /\ Complete(gcRoots[h])
    BY Zenon DEF FilesInv, TreeInv, CollectInv
  <1>3. ~Sweep(g) /\ ~DeleteBlock(g)
    BY <1>2, LockedAlone, Zenon DEF Sweep, DeleteBlock, Locked, FilesInv
  <1>4. blocks \subseteq blocks'
    BY <1>1, <1>3, CollectorAddsBlocks, Zenon DEF Collection, CollectorStep
  <1> QED BY <1>1, <1>2, <1>4, Zenon DEF Complete, BelowAll

\* A collector's own tree: it is marked whole or not at all, and what is marked
\* is not swept.
LEMMA OwnTree ==
  ASSUME FilesInv, NEW g \in Collectors, Collector(g), whole'[g]
  PROVE  /\ phase'[g] \in {"direct", "internal", "sweep", "done"}
         /\ Complete(gcRoots[g])'
         /\ phase'[g] # "done" => BelowAll(gcRoots'[g]) \subseteq marked'[g]
  <1> USE DEF Goto, Mark
  <1>0. /\ gcRoots[g] \in SUBSET Nodes /\ marked[g] \in SUBSET Nodes
        /\ DOMAIN phase = Collectors /\ DOMAIN marked = Collectors /\ DOMAIN whole = Collectors
        /\ phase[g] \notin {"away", "recursive"} => gcAt[g] = "locked"
        /\ phase[g] \notin {"check", "delete"}
    BY Zenon DEF FilesInv, GCTypeOK, FilesTypes, TreeInv, CollectInv
  <1>1. phase[g] = "bestEffort" => Complete(gcRoots[g])
    BY <1>0, Zenon DEF Collector
  <1>2. phase[g] # "bestEffort" => whole[g] /\ phase[g] # "done"
    BY <1>0, Zenon DEF Collector
  <1>3. phase[g] # "bestEffort" =>
          /\ phase[g] \in {"direct", "internal", "sweep"}
          /\ Complete(gcRoots[g]) /\ BelowAll(gcRoots[g]) \subseteq marked[g]
    BY <1>2, Zenon DEF FilesInv, TreeInv
  <1>4. phase[g] \notin {"away", "recursive", "done", "check", "delete"} /\ gcAt[g] = "locked"
    BY <1>0, <1>2, <1>3, Zenon
  <1>5. CASE MarkBestEffort(g)
    <2>1. /\ phase[g] = "bestEffort" /\ phase'[g] = "direct"
          /\ marked'[g] = marked[g] \cup Reach(WalkLinks(blocks, marked[g]), gcRoots[g])
          /\ UNCHANGED <<blocks, gcRoots>>
      BY <1>0, <1>5, Zenon DEF MarkBestEffort, Locked, pinnerVars, storeVars
    <2>2. ClosedUnder(Links, marked[g])
      BY <2>1, Zenon DEF FilesInv, CollectInv
    <2>3. BelowAll(gcRoots[g]) \subseteq blocks
      BY <1>1, <2>1, Zenon DEF Complete
    <2>4. BelowAll(gcRoots[g]) \subseteq marked'[g]
      BY <1>0, <2>1, <2>2, <2>3, WalkCovers, Zenon
    <2> QED BY <2>1, <2>3, <2>4, Zenon DEF Complete
  <1>6. CASE MarkDirect(g)
    <2>1. /\ phase[g] = "direct" /\ phase'[g] = "internal" /\ marked[g] \subseteq marked'[g]
          /\ UNCHANGED <<blocks, gcRoots>>
      BY <1>0, <1>6, Zenon DEF MarkDirect, Locked, pinnerVars, storeVars
    <2> QED BY <1>3, <2>1, Zenon DEF Complete, BelowAll
  <1>7. CASE MarkInternal(g)
    <2>1. /\ phase[g] = "internal" /\ phase'[g] \in {"sweep", "done"}
          /\ marked[g] \subseteq marked'[g]
          /\ UNCHANGED <<blocks, gcRoots>>
      BY <1>0, <1>7 DEF MarkInternal, Locked, pinnerVars, storeVars
    <2> QED BY <1>3, <2>1, Zenon DEF Complete, BelowAll
  <1>8. CASE Sweep(g)
    <2>1. phase[g] = "sweep" /\ blocks \cap marked[g] \subseteq blocks' /\ UNCHANGED gcVars
      BY <1>8, Zenon DEF Sweep, Locked
    <2> QED BY <1>3, <2>1, Zenon DEF Complete, BelowAll, gcVars
  <1>9. CASE SweepEnd(g) \/ Cancel(g)
    <2>1. phase'[g] = "done" /\ UNCHANGED <<blocks, gcRoots>>
      BY <1>0, <1>9, Zenon DEF SweepEnd, Cancel, pinnerVars, storeVars
    <2> QED BY <1>1, <1>3, <2>1, Zenon DEF Complete, BelowAll
  <1>10. ~Locking(g)
    BY <1>4, Zenon DEF Locking, Announce, Acquire, GCLocked
  <1>11. /\ ~GarbageCollect(g) /\ ~MarkRecursive(g) /\ ~FilterPinned(g)
         /\ ~DeleteBlock(g) /\ ~Finish(g)
    BY <1>4, Zenon DEF GarbageCollect, MarkRecursive, FilterPinned, DeleteBlock, Finish, Locked
  <1> QED
    BY <1>5, <1>6, <1>7, <1>8, <1>9, <1>10, <1>11, Zenon DEF Collector, Collecting

\* Every step of GC keeps the tree of the root that was handed to it.
LEMMA FilesCollectorStep ==
  ASSUME FilesInv, NEW g \in Collectors, Collector(g)
  PROVE  FilesInv'
  <1>1. Collection(g) /\ CollectorStep(g) /\ UNCHANGED <<next, writesLeft, filesKey, started, crashes>>
    BY Zenon DEF Collector, Collection, CollectorStep
  <1>2. LockInv'
    BY <1>1, CollectorUsesLock, LockInvStep, Zenon DEF FilesInv
  <1>3. PinnerTypes' /\ GCTypeOK'
    BY <1>1, CollectorTypes, CollectorFrame, Zenon DEF FilesInv, PinnerTypes, CallHasNode
  <1>4. CollectInv'
    BY <1>1, CollectionKeepsInv, Zenon DEF FilesInv, PinnerTypes
  <1>5. (whole \in [Collectors -> BOOLEAN])'
    <2> DEFINE b == IF phase[g] = "bestEffort" THEN Complete(gcRoots[g])
                    ELSE whole[g] /\ phase[g] # "done"
    <2>1. b \in BOOLEAN
      BY Zenon DEF Complete
    <2>2. whole' = [whole EXCEPT ![g] = b]
      BY Zenon DEF Collector
    <2> HIDE DEF b
    <2> QED BY <2>1, <2>2, Zenon DEF FilesInv, FilesTypes
  <1>6. FilesTypes'
    BY <1>1, <1>5, Zenon DEF FilesInv, FilesTypes
  <1>7. ASSUME NEW h \in Collectors PROVE gcRoots'[h] \subseteq Nodes
    BY <1>1, Zenon DEF Collection, GarbageCollect, Collecting, Locking, MarkRecursive, MarkBestEffort,
       MarkDirect, MarkInternal, Sweep, SweepEnd, Cancel, FilterPinned, DeleteBlock, Finish,
       gcVars, FilesInv, GCTypeOK, TreeInv
  <1>8. ASSUME NEW h \in Collectors, h # g, whole'[h]
        PROVE  /\ phase'[h] \in {"direct", "internal", "sweep", "done"}
               /\ Complete(gcRoots[h])'
               /\ phase'[h] # "done" => BelowAll(gcRoots'[h]) \subseteq marked'[h]
    <2>1. whole[h]
      BY <1>8, Zenon DEF Collector, FilesInv, FilesTypes
    <2>2. phase'[h] = phase[h] /\ marked'[h] = marked[h] /\ gcRoots'[h] = gcRoots[h]
      BY <1>1, <1>8, CollectorOthers, Zenon DEF FilesInv, LockInv
    <2>3. Complete(gcRoots[h])'
      BY <1>8, <2>1, OtherTree, Zenon
    <2> QED BY <2>1, <2>2, <2>3, Zenon DEF FilesInv, TreeInv
  <1>9. TreeInv'
    BY <1>7, <1>8, OwnTree, Zenon DEF TreeInv, Complete, BelowAll
  <1> QED BY <1>2, <1>3, <1>4, <1>6, <1>9, Zenon DEF FilesInv

\* A restart: no collection runs, and the root is what was published.
LEMMA FilesCrash ==
  ASSUME FilesInv, CrashRestart
  PROVE  FilesInv'
  <1>1. LockInv'
    <2>1. LockInit'
      BY Zenon DEF CrashRestart, LockInit
    <2> QED BY <2>1, LockInvInit, PTL
  <1>2. PinnerTypes'
    BY LoadTypes, Zenon DEF CrashRestart, FilesInv
  <1>3. GCTypeOK'
    BY Zenon DEF CrashRestart, GCTypeOK, Phases, FilesInv, FilesTypes
  <1>4. FilesTypes'
    BY FilesAssumption DEF CrashRestart, FilesInv, FilesTypes
  <1>5. CollectInv' /\ TreeInv'
    BY Zenon DEF CrashRestart, CollectInv, TreeInv
  <1> QED BY <1>1, <1>2, <1>3, <1>4, <1>5, Zenon DEF FilesInv

\* FilesInv is inductive.
LEMMA FilesInvStep == FilesInv /\ [Next]_vars => FilesInv'
  <1> SUFFICES ASSUME FilesInv, [Next]_vars PROVE FilesInv'
    BY Zenon
  <1>1. ASSUME NEW w \in FilesWriters, SetRoot(w) PROVE FilesInv'
    <2>1. CASE Nodes = {}
      <3>1. next[w] \in SUBSET Nodes /\ next[w] # {}
        BY <1>1, Zenon DEF SetRoot, FilesInv, FilesTypes
      <3> QED BY <2>1, <3>1, Zenon
    <2>2. CASE Nodes # {}
      BY <1>1, <2>2, FilesWriterStep, Zenon
    <2> QED BY <2>1, <2>2, Zenon
  <1>2. CASE Publish \/ UNCHANGED vars
    <2>1. /\ UNCHANGED <<lockVars, pinnerVars, gcVars, filesRoot, next, writesLeft, started,
                         crashes, whole>>
          /\ filesKey' \in {filesKey, filesRoot}
      BY <1>2, Zenon DEF Publish, vars, filesVars
    <2>2. LockInv'
      BY <2>1, LockInvStep, Zenon DEF FilesInv
    <2>3. PinnerTypes' /\ GCTypeOK' /\ FilesTypes'
      BY <2>1, Zenon DEF FilesInv, PinnerTypes, PinnerTypeOK, CallHasNode, GCTypeOK, FilesTypes,
         pinnerVars, storeVars, pinVars, gcVars
    <2>4. CollectInv' /\ TreeInv'
      BY <2>1, TreeGrows, Zenon DEF FilesInv, CollectInv, BelowAll, lockVars, pinnerVars, storeVars,
         pinVars, gcVars
    <2> QED BY <2>2, <2>3, <2>4, Zenon DEF FilesInv
  <1> QED BY <1>1, <1>2, FilesWriterStep, FilesCollectorStep, FilesCrash, Zenon DEF Next

\* The inductive invariant holds in every state of the files API, the
\* collectors and the crashes.
THEOREM FilesSafe == Spec => []FilesInv
  BY FilesInvInit, FilesInvStep, PTL DEF Spec

\* The state of the files API, of the lock, the pinner and the collectors has
\* its types.
THEOREM FilesStateTypes == Spec => []FilesTypeOK
  <1>1. FilesInv => FilesTypeOK
    BY Zenon DEF FilesInv, LockInv, PinnerTypes, FilesTypes, FilesTypeOK
  <1> QED BY <1>1, FilesSafe, PTL

\* A collection keeps the tree it was given as a best-effort root, if the tree
\* was whole when it was marked, whatever the commands of the files API write
\* meanwhile.
THEOREM GivenTreeKept == Spec => []SnapshotKept
  <1>1. FilesInv => SnapshotKept
    BY Zenon DEF FilesInv, TreeInv, SnapshotKept
  <1> QED BY <1>1, FilesSafe, PTL
=============================================================================
