---------------------------- MODULE AdderProofs ----------------------------
(***************************************************************************)
(* Proofs about Adder: what an add that pauses at most once keeps, for     *)
(* every graph, any number of files, adders, collectors and collections.   *)
(***************************************************************************)
EXTENDS Adder, GCProofs

AdderTypes ==
  /\ apc \in [Threads -> {"away", "next", "file", "root", "pin", "flush", "flushing",
                          "paused", "done", "failed"}]
  /\ added \in [Threads -> 0 .. NFiles]
  /\ memo \in [Threads -> Nodes \cup {None}]
  /\ pauses \in [Threads -> 0 .. NFiles]
  /\ kept \in [Threads -> 0 .. NFiles]

\* An adder has PinLock, or waits for it, from when it starts to where it
\* pauses or ends; it waits before its first file and when it resumes.
PlaceInv(t) ==
  /\ t \in readers \cup blocked
       <=> apc[t] \in {"next", "file", "root", "pin", "flush", "flushing"}
  /\ t \notin readers \cap blocked
  /\ t \in blocked /\ apc[t] = "next" => added[t] = 0
  /\ t \in blocked /\ apc[t] = "file" => pauses[t] > 0
  /\ t \in blocked => apc[t] \in {"next", "file"}

\* A pause is followed by a file.
CountInv(t) ==
  /\ apc[t] = "away" => added[t] = 0
  /\ apc[t] = "done" => added[t] = NFiles
  /\ apc[t] \in {"file", "paused"} => added[t] < NFiles
  /\ apc[t] \notin {"file", "failed"} => pauses[t] <= added[t]
  /\ apc[t] = "file" => pauses[t] <= added[t] + 1

\* A file is counted while a collector waits, and no second one is begun.
LetInInv(t) ==
  /\ kept[t] <= added[t]
  /\ kept[t] > 0 => CollectorWaits
  /\ kept[t] <= 1
  /\ t \in readers /\ apc[t] = "file" => kept[t] = 0

\* Until the first pause is over the node RootNode remembers is the directory
\* of the files added so far, stored and then pinned.
RootInv(t) ==
  /\ apc[t] \in {"pin", "flush", "flushing"} => memo[t] \in Nodes
  /\ pauses[t] = 0 =>
       /\ apc[t] \in {"away", "next", "file", "root"} => memo[t] = None
       /\ apc[t] \in {"pin", "flush", "flushing", "paused", "done"}
            => memo[t] = Tree[added[t]]
       /\ apc[t] \in {"pin", "flush", "flushing"} => memo[t] \in blocks
       /\ apc[t] \in {"flush", "flushing", "paused", "done"} => memo[t] \in recursePin

\* Who does not hold the lock has its files under a pinned directory.
KeepInv(t) ==
  /\ t \in readers /\ pauses[t] <= 1 => AddedPresent(t)
  /\ apc[t] = "paused" /\ pauses[t] = 0 => AddedPresent(t)
  /\ t \in blocked /\ apc[t] = "file" /\ pauses[t] = 1
       => AddedPresent(t) /\ Tree[added[t]] \in recursePin
  /\ apc[t] = "done" /\ pauses[t] = 0 => Below[Tree[NFiles]] \subseteq blocks

ThreadInv(t) == PlaceInv(t) /\ CountInv(t) /\ LetInInv(t) /\ RootInv(t) /\ KeepInv(t)

AddInv ==
  /\ LockInv /\ PinnerTypes /\ GCTypeOK /\ AdderTypes /\ CollectInv
  /\ \A t \in Threads : ThreadInv(t)

-----------------------------------------------------------------------------
(* The directory of the first i files, and the lock.                       *)

\* The graph below a directory is the node and the graphs of its files.
LEMMA TreeBelow ==
  ASSUME NEW i \in 0 .. NFiles
  PROVE  /\ Tree[i] \in Nodes
         /\ Below[Tree[i]] = {Tree[i]} \cup BelowAll({File[j] : j \in 1 .. i})
         /\ \A j \in 1 .. i : Below[File[j]] \subseteq Below[Tree[i]]
  <1>1. Tree[i] \in Nodes /\ Links[Tree[i]] = {File[j] : j \in 1 .. i}
    BY AdderAssumption, Zenon
  <1>2. Below[Tree[i]] = {Tree[i]} \cup BelowAll({File[j] : j \in 1 .. i})
    BY <1>1, BelowUnfold, Zenon
  <1>3. ASSUME NEW j \in 1 .. i PROVE Below[File[j]] \subseteq Below[Tree[i]]
    BY <1>2, Zenon DEF BelowAll
  <1> QED BY <1>1, <1>2, <1>3, Zenon

\* A collection spares the files of a pinned directory.
LEMMA PinnedTreeSpared ==
  ASSUME CollectInv, NEW g \in Collectors, Collection(g),
         NEW i \in 0 .. NFiles, Tree[i] \in recursePin
  PROVE  /\ Below[Tree[i]] \subseteq blocks => Below[Tree[i]] \subseteq blocks'
         /\ \A j \in 1 .. i : Below[File[j]] \subseteq blocks => Below[File[j]] \subseteq blocks'
  <1>1. BelowAll(recursePin) \cap blocks \subseteq blocks'
    BY CollectionSparesPins, Zenon
  <1>2. Below[Tree[i]] \subseteq BelowAll(recursePin)
    BY Zenon DEF BelowAll
  <1> QED BY <1>1, <1>2, TreeBelow, Zenon

\* No collector is announced while the inner mutex is free, or while nobody is
\* counted.
LEMMA NobodyWaits ==
  ASSUME LockInv, writer = NoOne \/ ~GCRequested
  PROVE  ~CollectorWaits
  <1>1. CASE writer = NoOne
    BY <1>1, CollectorsAssumption, Zenon DEF LockInv, Owners, CollectorWaits
  <1>2. CASE ~GCRequested
    <2>1. Waiting = {}
      BY <1>2, WaitingFinite DEF LockInv, GCRequested
    <2> QED BY <2>1, Zenon DEF Waiting, InGCLock, CollectorWaits
  <1> QED BY <1>1, <1>2, Zenon

-----------------------------------------------------------------------------
(* A step of an adder.                                                     *)

\* Before the first add nothing is written and nobody holds the lock.
LEMMA AddInvInit == Init => AddInv
  <1> SUFFICES ASSUME Init PROVE AddInv
    BY Zenon
  <1>1. LockInv /\ PinnerTypes /\ GCTypeOK /\ CollectInv
    BY LockInvInit, PinnerTypesInit, GCTypesInit, CollectInvInit, Zenon DEF Init
  <1>2. AdderTypes
    BY AdderAssumption DEF Init, AdderTypes
  <1>3. ASSUME NEW t \in Threads PROVE ThreadInv(t)
    BY DEF Init, LockInit, ThreadInv, PlaceInv, CountInv, LetInInv, RootInv, KeepInv
  <1> QED BY <1>1, <1>2, <1>3, Zenon DEF AddInv

\* An adder uses the lock as GCLocker describes.
LEMMA AddingUsesLock ==
  ASSUME NEW t \in Threads, Adding(t)
  PROVE  [LockNext]_lockVars
  BY AdderAssumption, Zenon
  DEF Adding, AddAllAndPin, MaybePauseForGC, AddFile, AddFails, Finalize, AddRoot, PinRoot,
      StartFlush, Flushing, Returns, Resume, LockNext

\* An adder adds blocks and pins, and pins only under PinLock.
LEMMA AddingGrows ==
  ASSUME NEW t \in Threads, Adding(t)
  PROVE  /\ UNCHANGED <<gcVars, filesRoot, gcAt>>
         /\ blocks \subseteq blocks' /\ recursePin \subseteq recursePin'
         /\ recursePin' = recursePin \/ readers # {}
  <1> USE DEF pinnerVars, storeVars, pinVars, lockVars
  <1>1. CASE AddAllAndPin(t) \/ AddFails(t) \/ Resume(t)
    BY <1>1, Zenon DEF AddAllAndPin, AddFails, Resume, PinLock, PinUnlock
  <1>2. CASE MaybePauseForGC(t) \/ AddFile(t) \/ Finalize(t) \/ AddRoot(t)
    BY <1>2, Zenon DEF MaybePauseForGC, AddFile, Finalize, AddRoot
  <1>3. CASE PinRoot(t)
    BY <1>3, Zenon DEF PinRoot, Here, PinWithMode
  <1>4. CASE StartFlush(t) \/ Flushing(t) \/ Returns(t)
    BY <1>4, Zenon DEF StartFlush, FlushSets, Flushing, FlushRoot, FlushKey, Returns, PinUnlock
  <1> QED BY <1>1, <1>2, <1>3, <1>4, Zenon DEF Adding

\* An adder changes nothing of another one.
LEMMA AddingOthers ==
  ASSUME AdderTypes, NEW t \in Threads, Adding(t), NEW u \in Threads, u # t
  PROVE  /\ (u \in readers' <=> u \in readers) /\ (u \in blocked' <=> u \in blocked)
         /\ apc'[u] = apc[u] /\ added'[u] = added[u] /\ memo'[u] = memo[u]
         /\ pauses'[u] = pauses[u] /\ kept'[u] = kept[u]
  <1> USE DEF AdderTypes, Goes, lockVars, adderVars
  <1>1. CASE AddAllAndPin(t) \/ AddFails(t) \/ Resume(t)
    BY <1>1 DEF AddAllAndPin, AddFails, Resume, PinLock, PinUnlock
  <1>2. CASE MaybePauseForGC(t) \/ AddFile(t) \/ Finalize(t) \/ AddRoot(t)
    BY <1>2, Zenon DEF MaybePauseForGC, AddFile, Finalize, AddRoot
  <1>3. CASE PinRoot(t) \/ StartFlush(t) \/ Flushing(t)
    BY <1>3, Zenon DEF PinRoot, StartFlush, Flushing
  <1>4. CASE Returns(t)
    BY <1>4, Zenon DEF Returns, PinUnlock
  <1> QED BY <1>1, <1>2, <1>3, <1>4, Zenon DEF Adding

\* An adder keeps its invariant when another one takes a step and only adds blocks.
LEMMA OtherThread ==
  ASSUME AddInv, NEW t \in Threads, Adding(t), NEW u \in Threads, u # t
  PROVE  ThreadInv(u)'
  <1>0. ThreadInv(u) /\ AdderTypes
    BY Zenon DEF AddInv
  <1>1. /\ (u \in readers' <=> u \in readers) /\ (u \in blocked' <=> u \in blocked)
        /\ apc'[u] = apc[u] /\ added'[u] = added[u] /\ memo'[u] = memo[u]
        /\ pauses'[u] = pauses[u] /\ kept'[u] = kept[u]
    BY <1>0, AddingOthers, Zenon
  <1>2. gcAt' = gcAt /\ blocks \subseteq blocks' /\ recursePin \subseteq recursePin'
    BY AddingGrows, Zenon
  <1>3. PlaceInv(u)'
    BY <1>0, <1>1, Zenon DEF ThreadInv, PlaceInv
  <1>4. CountInv(u)'
    BY <1>0, <1>1, Zenon DEF ThreadInv, CountInv
  <1>5. LetInInv(u)'
    BY <1>0, <1>1, <1>2, Zenon DEF ThreadInv, LetInInv, CollectorWaits
  <1>6. RootInv(u)'
    BY <1>0, <1>1, <1>2, Zenon DEF ThreadInv, RootInv
  <1>7. KeepInv(u)'
    BY <1>0, <1>1, <1>2, Zenon DEF ThreadInv, KeepInv, AddedPresent
  <1> QED BY <1>3, <1>4, <1>5, <1>6, <1>7, Zenon DEF ThreadInv

\* The types of an adder's step
LEMMA AddingTypes ==
  ASSUME AddInv, NEW t \in Threads, Adding(t)
  PROVE  PinnerTypes' /\ GCTypeOK'
  <1>1. GCTypeOK'
    BY AddingGrows, Zenon DEF AddInv, GCTypeOK, gcVars
  <1>2. CASE AddAllAndPin(t) \/ AddFails(t) \/ Resume(t) \/ MaybePauseForGC(t)
    BY <1>1, <1>2, Zenon
    DEF AddAllAndPin, AddFails, Resume, MaybePauseForGC, AddInv, PinnerTypes, PinnerTypeOK,
        CallHasNode, pinnerVars, storeVars, pinVars
  <1>3. CASE AddFile(t) \/ Finalize(t) \/ AddRoot(t)
    <2>1. blocks' \subseteq Nodes
      <3>1. CASE AddFile(t)
        <4>1. added[t] + 1 \in 1 .. NFiles
          BY <3>1, AdderAssumption DEF AddFile, Here, AddInv, ThreadInv, CountInv, AdderTypes
        <4>2. Below[File[added[t] + 1]] \subseteq Nodes
          BY <4>1, AdderAssumption, BelowInNodes, Zenon
        <4> QED BY <3>1, <4>2, Zenon DEF AddFile, AddInv, PinnerTypes, PinnerTypeOK
      <3>2. CASE Finalize(t)
        BY <3>2, AdderAssumption DEF Finalize, AddInv, PinnerTypes, PinnerTypeOK
      <3>3. CASE AddRoot(t)
        BY <3>3, AdderAssumption
        DEF AddRoot, RootNodeOf, AddInv, AdderTypes, PinnerTypes, PinnerTypeOK
      <3> QED BY <1>3, <3>1, <3>2, <3>3, Zenon
    <2>2. UNCHANGED <<pinBlocks, pinKey, pinVars, plock, call>>
      BY <1>3, Zenon DEF AddFile, Finalize, AddRoot
    <2> QED
      BY <1>1, <2>1, <2>2, Zenon DEF AddInv, PinnerTypes, PinnerTypeOK, CallHasNode, pinVars
  <1>4. CASE PinRoot(t)
    <2>1. memo[t] \in Nodes
      BY <1>4, Zenon DEF PinRoot, Here, AddInv, ThreadInv, RootInv
    <2> QED BY <1>1, <1>4, <2>1, PinWithModeTypes, Zenon DEF PinRoot, AddInv
  <1>5. CASE StartFlush(t) \/ Flushing(t)
    BY <1>1, <1>5, FlushTypes, Zenon DEF StartFlush, Flushing, AddInv
  <1>6. CASE Returns(t)
    <2>1. (call \in [Threads -> Calls])' /\ CallHasNode'
      BY <1>6, GoodCalls, CallStep, Zenon DEF Returns, AddInv, PinnerTypes, PinnerTypeOK
    <2>2. UNCHANGED <<storeVars, pinVars, plock>>
      BY <1>6, Zenon DEF Returns
    <2> QED BY <1>1, <2>1, <2>2, Zenon DEF AddInv, PinnerTypes, PinnerTypeOK, storeVars, pinVars
  <1> QED BY <1>1, <1>2, <1>3, <1>4, <1>5, <1>6, Zenon DEF Adding

\* An adder that pins leaves no collector with marks that miss the pin: none
\* has any.
LEMMA AddingKeepsCollectInv ==
  ASSUME AddInv, NEW t \in Threads, Adding(t)
  PROVE  CollectInv'
  <1>1. /\ UNCHANGED <<gcVars, filesRoot, gcAt>>
        /\ recursePin' = recursePin \/ readers # {}
    BY AddingGrows, Zenon
  <1>2. CASE recursePin' = recursePin
    BY <1>1, <1>2, Zenon DEF AddInv, CollectInv, BelowAll, gcVars
  <1>3. CASE readers # {}
    <2>1. \A g \in Collectors : gcAt[g] # "locked"
      BY <1>3, LockedAlone, Zenon DEF AddInv
    <2>2. \A g \in Collectors : phase[g] \in {"away", "recursive"}
      BY <2>1, Zenon DEF AddInv, CollectInv
    <2> QED BY <1>1, <2>2, Zenon DEF AddInv, CollectInv, gcVars
  <1> QED BY <1>1, <1>2, <1>3, Zenon

\* The adder that moves, one step at a time.
LEMMA OwnThread ==
  ASSUME AddInv, NEW t \in Threads, Adding(t)
  PROVE  ThreadInv(t)' /\ AdderTypes'
  <1>0. /\ ThreadInv(t) /\ AdderTypes /\ LockInv /\ NFiles \in Nat
        /\ added[t] \in 0 .. NFiles /\ pauses[t] \in 0 .. NFiles /\ kept[t] \in 0 .. NFiles
    BY AdderAssumption, Zenon DEF AddInv, AdderTypes
  <1>g. gcAt' = gcAt /\ blocks \subseteq blocks' /\ recursePin \subseteq recursePin'
    BY AddingGrows, Zenon
  <1>w. CollectorWaits' = CollectorWaits
    BY <1>g, Zenon DEF CollectorWaits
  <1> USE DEF Goes, Here
  <1>1. CASE AddAllAndPin(t)
    <2>1. /\ apc[t] = "away" /\ apc' = [apc EXCEPT ![t] = "next"]
          /\ t \notin readers \cup blocked /\ t \in readers' \cup blocked'
          /\ ~(t \in readers' /\ t \in blocked')
          /\ UNCHANGED <<added, memo, pauses, kept, blocks>>
      BY <1>1, Zenon DEF AddAllAndPin, PinLock, pinnerVars, storeVars
    <2>2. AdderTypes' /\ apc'[t] = "next"
      BY <1>0, <2>1, Zenon DEF AdderTypes
    <2>3. PlaceInv(t)' /\ CountInv(t)' /\ LetInInv(t)'
      BY <1>0, <1>w, <2>1, <2>2, Zenon DEF ThreadInv, PlaceInv, CountInv, LetInInv
    <2>4. RootInv(t)' /\ KeepInv(t)'
      BY <1>0, <2>1, <2>2 DEF ThreadInv, CountInv, RootInv, KeepInv, AddedPresent
    <2> QED BY <2>2, <2>3, <2>4, Zenon DEF ThreadInv
  <1>2. CASE MaybePauseForGC(t)
    <2>1. /\ apc[t] = "next" /\ t \in readers /\ added[t] < NFiles
          /\ apc' = [apc EXCEPT ![t] = IF GCRequested THEN "root" ELSE "file"]
          /\ UNCHANGED <<added, memo, pauses, kept, blocks, readers, blocked>>
      BY <1>2, Zenon DEF MaybePauseForGC, pinnerVars, storeVars, lockVars
    <2>2. apc'[t] = "root" \/ (apc'[t] = "file" /\ ~GCRequested)
      BY <1>0, <2>1, Zenon DEF AdderTypes
    <2>3. AdderTypes'
      BY <1>0, <2>1, Zenon DEF AdderTypes
    <2>4. apc'[t] = "file" => kept[t] = 0
      BY <1>0, <2>2, NobodyWaits DEF ThreadInv, LetInInv
    <2>5. PlaceInv(t)' /\ CountInv(t)' /\ LetInInv(t)'
      BY <1>0, <1>w, <2>1, <2>2, <2>4 DEF ThreadInv, PlaceInv, CountInv, LetInInv
    <2>6. RootInv(t)' /\ KeepInv(t)'
      BY <1>0, <2>1, <2>2, Zenon DEF ThreadInv, PlaceInv, RootInv, KeepInv, AddedPresent
    <2> QED BY <2>3, <2>5, <2>6, Zenon DEF ThreadInv
  <1>3. CASE AddFile(t)
    <2>1. /\ apc[t] = "file" /\ t \in readers /\ apc' = [apc EXCEPT ![t] = "next"]
          /\ added' = [added EXCEPT ![t] = added[t] + 1]
          /\ kept' = [kept EXCEPT ![t] = IF CollectorWaits THEN kept[t] + 1 ELSE 0]
          /\ blocks' = blocks \cup Below[File[added[t] + 1]]
          /\ UNCHANGED <<memo, pauses, readers, blocked>>
      BY <1>3, Zenon DEF AddFile, lockVars
    <2>2. kept[t] = 0 /\ added[t] < NFiles
      BY <1>0, <2>1, Zenon DEF ThreadInv, LetInInv, CountInv
    <2>3. /\ apc'[t] = "next" /\ added'[t] = added[t] + 1
          /\ kept'[t] \in {0, 1} /\ (kept'[t] > 0 => CollectorWaits)
      BY <1>0, <2>1, <2>2 DEF AdderTypes
    <2>4. AdderTypes'
      BY <1>0, <2>1, <2>2 DEF AdderTypes
    <2>5. PlaceInv(t)' /\ CountInv(t)' /\ LetInInv(t)'
      BY <1>0, <1>w, <2>1, <2>2, <2>3 DEF ThreadInv, PlaceInv, CountInv, LetInInv
    <2>6. pauses[t] <= 1 => AddedPresent(t)'
      <3>1. pauses[t] <= 1 => \A i \in 1 .. added[t] : Below[File[i]] \subseteq blocks
        BY <1>0, <2>1, Zenon DEF ThreadInv, KeepInv, AddedPresent
      <3>2. \A i \in 1 .. added[t] + 1 : i \in 1 .. added[t] \/ i = added[t] + 1
        BY <1>0
      <3> QED BY <2>1, <2>3, <3>1, <3>2, Zenon DEF AddedPresent
    <2>7. RootInv(t)' /\ KeepInv(t)'
      BY <1>0, <2>1, <2>3, <2>6, Zenon DEF ThreadInv, PlaceInv, RootInv, KeepInv
    <2> QED BY <2>4, <2>5, <2>7, Zenon DEF ThreadInv
  <1>4. CASE AddFails(t)
    <2>1. /\ apc[t] = "file" /\ t \in readers /\ apc' = [apc EXCEPT ![t] = "failed"]
          /\ t \notin readers'
          /\ UNCHANGED <<added, memo, pauses, kept, blocks, blocked>>
      BY <1>4, Zenon DEF AddFails, PinUnlock, pinnerVars, storeVars
    <2>2. AdderTypes' /\ apc'[t] = "failed"
      BY <1>0, <2>1, Zenon DEF AdderTypes
    <2>3. PlaceInv(t)' /\ CountInv(t)' /\ LetInInv(t)'
      BY <1>0, <1>w, <2>1, <2>2, Zenon DEF ThreadInv, PlaceInv, CountInv, LetInInv
    <2>4. RootInv(t)' /\ KeepInv(t)'
      BY <1>0, <2>1, <2>2, Zenon DEF ThreadInv, PlaceInv, RootInv, KeepInv
    <2> QED BY <2>2, <2>3, <2>4, Zenon DEF ThreadInv
  <1>5. CASE Finalize(t)
    <2>1. /\ apc[t] = "next" /\ t \in readers /\ apc' = [apc EXCEPT ![t] = "root"]
          /\ UNCHANGED <<added, memo, pauses, kept, readers, blocked>>
      BY <1>5, Zenon DEF Finalize, lockVars
    <2>2. AdderTypes' /\ apc'[t] = "root"
      BY <1>0, <2>1, Zenon DEF AdderTypes
    <2>3. PlaceInv(t)' /\ CountInv(t)' /\ LetInInv(t)'
      BY <1>0, <1>w, <2>1, <2>2, Zenon DEF ThreadInv, PlaceInv, CountInv, LetInInv
    <2>4. RootInv(t)' /\ KeepInv(t)'
      BY <1>0, <1>g, <2>1, <2>2, Zenon DEF ThreadInv, PlaceInv, RootInv, KeepInv, AddedPresent
    <2> QED BY <2>2, <2>3, <2>4, Zenon DEF ThreadInv
  <1>6. CASE AddRoot(t)
    <2>0. Tree[added[t]] \in Nodes /\ None \notin Nodes
      BY <1>0, TreeBelow, PinnerAssumption, Zenon
    <2>1. /\ apc[t] = "root" /\ t \in readers /\ apc' = [apc EXCEPT ![t] = "pin"]
          /\ memo' = [memo EXCEPT ![t] = RootNodeOf(t)]
          /\ RootNodeOf(t) \in blocks'
          /\ UNCHANGED <<added, pauses, kept, readers, blocked>>
      BY <1>6, Zenon DEF AddRoot, lockVars
    <2>2. /\ RootNodeOf(t) \in Nodes
          /\ pauses[t] = 0 => RootNodeOf(t) = Tree[added[t]]
      BY <1>0, <2>0, <2>1, Zenon DEF RootNodeOf, AdderTypes, ThreadInv, RootInv
    <2>3. AdderTypes' /\ apc'[t] = "pin" /\ memo'[t] = RootNodeOf(t)
      BY <1>0, <2>1, <2>2, Zenon DEF AdderTypes
    <2>4. PlaceInv(t)' /\ CountInv(t)' /\ LetInInv(t)'
      BY <1>0, <1>w, <2>1, <2>3, Zenon DEF ThreadInv, PlaceInv, CountInv, LetInInv
    <2>5. RootInv(t)' /\ KeepInv(t)'
      BY <1>0, <1>g, <2>1, <2>2, <2>3, Zenon DEF ThreadInv, PlaceInv, RootInv, KeepInv, AddedPresent
    <2> QED BY <2>3, <2>4, <2>5, Zenon DEF ThreadInv
  <1>7. CASE PinRoot(t)
    <2>1. /\ apc[t] = "pin" /\ t \in readers /\ apc' = [apc EXCEPT ![t] = "flush"]
          /\ memo[t] \in recursePin'
          /\ UNCHANGED <<added, memo, pauses, kept, readers, blocked, blocks>>
      BY <1>7, Zenon DEF PinRoot, PinWithMode, storeVars, lockVars
    <2>2. AdderTypes' /\ apc'[t] = "flush"
      BY <1>0, <2>1, Zenon DEF AdderTypes
    <2>3. PlaceInv(t)' /\ CountInv(t)' /\ LetInInv(t)'
      BY <1>0, <1>w, <2>1, <2>2, Zenon DEF ThreadInv, PlaceInv, CountInv, LetInInv
    <2>4. RootInv(t)' /\ KeepInv(t)'
      BY <1>0, <1>g, <2>1, <2>2, Zenon DEF ThreadInv, PlaceInv, RootInv, KeepInv, AddedPresent
    <2> QED BY <2>2, <2>3, <2>4, Zenon DEF ThreadInv
  <1>8. CASE StartFlush(t)
    <2>1. /\ apc[t] = "flush" /\ t \in readers /\ apc' = [apc EXCEPT ![t] = "flushing"]
          /\ UNCHANGED <<added, memo, pauses, kept, readers, blocked, blocks>>
      BY <1>8, Zenon DEF StartFlush, FlushSets, lockVars
    <2>2. AdderTypes' /\ apc'[t] = "flushing"
      BY <1>0, <2>1, Zenon DEF AdderTypes
    <2>3. PlaceInv(t)' /\ CountInv(t)' /\ LetInInv(t)'
      BY <1>0, <1>w, <2>1, <2>2, Zenon DEF ThreadInv, PlaceInv, CountInv, LetInInv
    <2>4. RootInv(t)' /\ KeepInv(t)'
      BY <1>0, <1>g, <2>1, <2>2, Zenon DEF ThreadInv, PlaceInv, RootInv, KeepInv, AddedPresent
    <2> QED BY <2>2, <2>3, <2>4, Zenon DEF ThreadInv
  <1>9. CASE Flushing(t)
    <2>1. UNCHANGED <<apc, added, memo, pauses, kept, readers, blocked>>
      BY <1>9, Zenon DEF Flushing, adderVars, lockVars
    <2>2. AdderTypes' /\ PlaceInv(t)' /\ CountInv(t)' /\ LetInInv(t)'
      BY <1>0, <1>w, <2>1, Zenon DEF AdderTypes, ThreadInv, PlaceInv, CountInv, LetInInv
    <2>3. RootInv(t)' /\ KeepInv(t)'
      BY <1>0, <1>g, <2>1, Zenon DEF ThreadInv, RootInv, KeepInv, AddedPresent
    <2> QED BY <2>2, <2>3, Zenon DEF ThreadInv
  <1>10. CASE Returns(t)
    <2>1. /\ apc[t] = "flushing" /\ t \in readers /\ t \notin readers'
          /\ apc' = [apc EXCEPT ![t] = IF ~call[t].ok THEN "failed"
                                       ELSE IF added[t] = NFiles THEN "done" ELSE "paused"]
          /\ UNCHANGED <<added, memo, pauses, kept, blocked, blocks>>
      BY <1>10, Zenon DEF Returns, PinUnlock, storeVars
    <2>2. /\ apc'[t] \in {"failed", "done", "paused"}
          /\ apc'[t] = "done" => added[t] = NFiles
          /\ apc'[t] = "paused" => added[t] # NFiles
      BY <1>0, <2>1, Zenon DEF AdderTypes
    <2>3. AdderTypes'
      BY <1>0, <2>1, Zenon DEF AdderTypes
    <2>4. PlaceInv(t)' /\ CountInv(t)' /\ LetInInv(t)'
      BY <1>0, <1>w, <2>1, <2>2 DEF ThreadInv, PlaceInv, CountInv, LetInInv
    <2>5. RootInv(t)'
      BY <1>0, <1>g, <2>1, <2>2, Zenon DEF ThreadInv, RootInv
    <2>6. pauses[t] = 0 => AddedPresent(t)'
      BY <1>0, <2>1 DEF ThreadInv, KeepInv, AddedPresent
    <2>7. apc'[t] = "done" /\ pauses[t] = 0 => Below[Tree[NFiles]] \subseteq blocks'
      <3> SUFFICES ASSUME apc'[t] = "done", pauses[t] = 0
                   PROVE  Below[Tree[NFiles]] \subseteq blocks'
        BY Zenon
      <3>1. added[t] = NFiles /\ Tree[NFiles] \in blocks
        BY <1>0, <2>1, <2>2, Zenon DEF ThreadInv, RootInv
      <3>2. Below[Tree[NFiles]] = {Tree[NFiles]} \cup BelowAll({File[j] : j \in 1 .. NFiles})
        BY <1>0, TreeBelow
      <3>3. \A j \in 1 .. NFiles : Below[File[j]] \subseteq blocks
        BY <1>0, <2>1, <3>1 DEF ThreadInv, KeepInv, AddedPresent
      <3>4. BelowAll({File[j] : j \in 1 .. NFiles}) \subseteq blocks
        BY <3>3 DEF BelowAll
      <3> QED BY <2>1, <3>1, <3>2, <3>4, Zenon
    <2>8. KeepInv(t)'
      BY <1>0, <2>1, <2>2, <2>6, <2>7, Zenon DEF ThreadInv, PlaceInv, KeepInv
    <2> QED BY <2>3, <2>4, <2>5, <2>8, Zenon DEF ThreadInv
  <1>11. CASE Resume(t)
    <2>1. /\ apc[t] = "paused" /\ apc' = [apc EXCEPT ![t] = "file"]
          /\ t \notin readers \cup blocked /\ t \in readers' \cup blocked'
          /\ ~(t \in readers' /\ t \in blocked')
          /\ t \in readers' => writer = NoOne
          /\ pauses' = [pauses EXCEPT ![t] = pauses[t] + 1]
          /\ UNCHANGED <<added, memo, kept, blocks, recursePin>>
      BY <1>11, Zenon DEF Resume, PinLock, pinnerVars, storeVars, pinVars
    <2>2. pauses[t] < NFiles
      BY <1>0, <2>1 DEF ThreadInv, CountInv
    <2>3. AdderTypes' /\ apc'[t] = "file" /\ pauses'[t] = pauses[t] + 1
      BY <1>0, <2>1, <2>2 DEF AdderTypes
    <2>4. t \in readers' => kept[t] = 0
      BY <1>0, <2>1, NobodyWaits DEF ThreadInv, LetInInv
    <2>5. PlaceInv(t)' /\ CountInv(t)' /\ LetInInv(t)'
      BY <1>0, <1>w, <2>1, <2>3, <2>4 DEF ThreadInv, PlaceInv, CountInv, LetInInv
    <2>6. RootInv(t)'
      BY <1>0, <2>1, <2>3 DEF ThreadInv, RootInv
    <2>7. pauses[t] = 0 => AddedPresent(t)' /\ Tree[added[t]] \in recursePin
      BY <1>0, <2>1, Zenon DEF ThreadInv, KeepInv, RootInv, AddedPresent
    <2>8. pauses'[t] <= 1 => pauses[t] = 0
      BY <1>0, <2>3
    <2>9. KeepInv(t)'
      BY <2>1, <2>3, <2>7, <2>8 DEF KeepInv
    <2> QED BY <2>3, <2>5, <2>6, <2>9, Zenon DEF ThreadInv
  <1> QED
    BY <1>1, <1>2, <1>3, <1>4, <1>5, <1>6, <1>7, <1>8, <1>9, <1>10, <1>11, Zenon DEF Adding

\* Every step of an adder keeps the invariant of all of them.
LEMMA AddingStep ==
  ASSUME AddInv, NEW t \in Threads, Adding(t)
  PROVE  AddInv'
  <1>1. LockInv'
    BY AddingUsesLock, LockInvStep, Zenon DEF AddInv
  <1>2. \A u \in Threads : ThreadInv(u)'
    BY OtherThread, OwnThread, Zenon
  <1> QED BY <1>1, <1>2, AddingTypes, OwnThread, AddingKeepsCollectInv, Zenon DEF AddInv

-----------------------------------------------------------------------------
(* A step of a collector.                                                  *)

\* Adders that hold the lock keep what they have; the others have it pinned.
LEMMA CollectorKeeps ==
  ASSUME AddInv, NEW g \in Collectors, Collector(g), NEW t \in Threads
  PROVE  KeepInv(t)' /\ RootInv(t)'
  <1>0. /\ ThreadInv(t) /\ AdderTypes /\ LockInv /\ CollectInv /\ NFiles \in Nat
        /\ added[t] \in 0 .. NFiles /\ pauses[t] \in 0 .. NFiles
    BY AdderAssumption, Zenon DEF AddInv, AdderTypes
  <1>1. Collection(g) /\ CollectorStep(g) /\ UNCHANGED <<apc, added, memo, pauses>>
    BY Zenon DEF Collector, Collection, CollectorStep, adderVars
  <1>2. recursePin' = recursePin
    BY <1>1, CollectorFrame, Zenon DEF pinVars
  <1>3. readers # {} => blocks \subseteq blocks'
    BY <1>0, <1>1, ReadersKeepBlocks, Zenon
  <1>4. \/ readers' = readers /\ blocked' = blocked
        \/ readers' = readers \cup blocked /\ blocked' = {} /\ blocks' = blocks
    BY <1>1, CollectorFrame, Zenon DEF Finish, GCUnlock, pinnerVars, storeVars
  <1>5. Tree[added[t]] \in recursePin /\ AddedPresent(t) => AddedPresent(t)'
    BY <1>0, <1>1, PinnedTreeSpared, Zenon DEF AddedPresent
  <1>6. RootInv(t)'
    <2>1. apc[t] \in {"pin", "flush", "flushing"} => t \in readers
      BY <1>0, Zenon DEF ThreadInv, PlaceInv
    <2> QED BY <1>0, <1>1, <1>2, <1>3, <2>1, Zenon DEF ThreadInv, RootInv
  <1>7. t \in readers' /\ pauses[t] <= 1 => AddedPresent(t)'
    <2>1. CASE t \in readers
      BY <1>0, <1>1, <1>3, <2>1, Zenon DEF ThreadInv, KeepInv, AddedPresent
    <2>2. CASE t \in blocked /\ t \notin readers
      <3>1. t \in readers' => blocks' = blocks
        BY <1>4, <2>2, Zenon
      <3>2. pauses[t] <= 1 => AddedPresent(t)
        <4>1. CASE apc[t] = "next"
          BY <1>0, <2>2, <4>1 DEF ThreadInv, PlaceInv, AddedPresent
        <4>2. CASE apc[t] = "file"
          BY <1>0, <2>2, <4>2 DEF ThreadInv, PlaceInv, KeepInv
        <4> QED BY <1>0, <2>2, <4>1, <4>2, Zenon DEF ThreadInv, PlaceInv
      <3> QED BY <1>1, <3>1, <3>2, Zenon DEF AddedPresent
    <2> QED BY <1>4, <2>1, <2>2, Zenon
  <1>8. apc[t] = "paused" /\ pauses[t] = 0 => AddedPresent(t)'
    BY <1>0, <1>5, Zenon DEF ThreadInv, RootInv, KeepInv
  <1>9. t \in blocked' /\ apc[t] = "file" /\ pauses[t] = 1
          => AddedPresent(t)' /\ Tree[added[t]] \in recursePin
    BY <1>0, <1>4, <1>5, Zenon DEF ThreadInv, KeepInv
  <1>10. apc[t] = "done" /\ pauses[t] = 0 => Below[Tree[NFiles]] \subseteq blocks'
    <2> SUFFICES ASSUME apc[t] = "done", pauses[t] = 0
                 PROVE  Below[Tree[NFiles]] \subseteq blocks'
      BY Zenon
    <2>1. Tree[NFiles] \in recursePin /\ Below[Tree[NFiles]] \subseteq blocks
      BY <1>0, Zenon DEF ThreadInv, CountInv, RootInv, KeepInv
    <2> QED BY <1>0, <1>1, <2>1, PinnedTreeSpared
  <1>11. KeepInv(t)'
    BY <1>1, <1>2, <1>7, <1>8, <1>9, <1>10, Zenon DEF KeepInv
  <1> QED BY <1>6, <1>11, Zenon

\* A collector that is let in ends the count of the files that kept it out.
LEMMA CollectorLetsIn ==
  ASSUME AddInv, LockInv', NEW g \in Collectors, Collector(g), NEW t \in Threads
  PROVE  PlaceInv(t)' /\ CountInv(t)' /\ LetInInv(t)'
  <1>0. /\ ThreadInv(t) /\ AdderTypes /\ NFiles \in Nat
        /\ added[t] \in 0 .. NFiles /\ kept[t] \in 0 .. NFiles
    BY AdderAssumption, Zenon DEF AddInv, AdderTypes
  <1>1. CollectorStep(g) /\ UNCHANGED <<apc, added, memo, pauses>>
    BY Zenon DEF Collector, CollectorStep, adderVars
  <1>2. \/ readers' = readers /\ blocked' = blocked
        \/ readers' = readers \cup blocked /\ blocked' = {} /\ writer' = NoOne
    BY <1>1, CollectorFrame, Zenon DEF Finish, GCUnlock
  <1>3. PlaceInv(t)'
    BY <1>0, <1>1, <1>2, Zenon DEF ThreadInv, PlaceInv
  <1>4. CountInv(t)'
    BY <1>0, <1>1, Zenon DEF ThreadInv, CountInv
  <1>5. /\ CollectorWaits' => kept'[t] = kept[t]
        /\ ~CollectorWaits' => kept'[t] = 0
    BY Zenon DEF Collector
  <1>6. writer' = NoOne => ~CollectorWaits'
    BY CollectorsAssumption, Zenon DEF LockInv, Owners, CollectorWaits
  <1>7. LetInInv(t)'
    <2>1. CASE CollectorWaits'
      BY <1>0, <1>1, <1>2, <1>5, <1>6, <2>1, Zenon DEF ThreadInv, LetInInv
    <2>2. CASE ~CollectorWaits'
      BY <1>0, <1>1, <1>5, <2>2 DEF LetInInv
    <2> QED BY <2>1, <2>2, Zenon
  <1> QED BY <1>3, <1>4, <1>7, Zenon

\* Every step of GC keeps it: what an adder may still rely on is coloured or the lock is held.
LEMMA AddCollectorStep ==
  ASSUME AddInv, NEW g \in Collectors, Collector(g)
  PROVE  AddInv'
  <1>1. Collection(g) /\ CollectorStep(g) /\ UNCHANGED <<apc, added, memo, pauses>>
    BY Zenon DEF Collector, Collection, CollectorStep, adderVars
  <1>2. LockInv'
    BY <1>1, CollectorUsesLock, LockInvStep, Zenon DEF AddInv
  <1>3. PinnerTypes' /\ GCTypeOK'
    BY <1>1, CollectorTypes, CollectorFrame, Zenon DEF AddInv, PinnerTypes, CallHasNode
  <1>4. CollectInv'
    BY <1>1, CollectionKeepsInv, Zenon DEF AddInv, PinnerTypes
  <1>5. (kept \in [Threads -> 0 .. NFiles])'
    BY AdderAssumption DEF Collector, AddInv, AdderTypes
  <1>6. AdderTypes'
    BY <1>1, <1>5, Zenon DEF AddInv, AdderTypes
  <1>7. \A t \in Threads : ThreadInv(t)'
    BY <1>2, CollectorKeeps, CollectorLetsIn, Zenon DEF ThreadInv
  <1> QED BY <1>2, <1>3, <1>4, <1>6, <1>7, Zenon DEF AddInv

-----------------------------------------------------------------------------
\* AddInv is inductive.
LEMMA AddInvStep == AddInv /\ [Next]_vars => AddInv'
  <1> SUFFICES ASSUME AddInv, [Next]_vars PROVE AddInv'
    BY Zenon
  <1>1. CASE UNCHANGED vars
    <2>0. /\ UNCHANGED <<lockVars, blocks, pinBlocks, pinKey, pinVars, plock, call>>
          /\ UNCHANGED <<gcVars, filesRoot, apc, added, memo, pauses, kept>>
      BY <1>1, Zenon DEF vars, pinnerVars, storeVars, adderVars
    <2>1. LockInv'
      BY <2>0, LockInvStep, Zenon DEF AddInv
    <2>2. PinnerTypes' /\ GCTypeOK' /\ AdderTypes'
      BY <2>0, Zenon
      DEF AddInv, PinnerTypes, PinnerTypeOK, CallHasNode, GCTypeOK, AdderTypes, pinVars, gcVars
    <2>3. CollectInv'
      BY <2>0, Zenon DEF AddInv, CollectInv, BelowAll, lockVars, gcVars, pinVars
    <2>4. ASSUME NEW t \in Threads PROVE ThreadInv(t)'
      <3>1. ThreadInv(t)
        BY Zenon DEF AddInv
      <3>2. PlaceInv(t)' /\ CountInv(t)' /\ LetInInv(t)'
        BY <2>0, <3>1, Zenon DEF ThreadInv, PlaceInv, CountInv, LetInInv, CollectorWaits, lockVars
      <3>3. RootInv(t)' /\ KeepInv(t)'
        BY <2>0, <3>1, Zenon DEF ThreadInv, RootInv, KeepInv, AddedPresent, lockVars, pinVars
      <3> QED BY <3>2, <3>3, Zenon DEF ThreadInv
    <2> QED BY <2>1, <2>2, <2>3, <2>4, Zenon DEF AddInv
  <1> QED BY <1>1, AddingStep, AddCollectorStep, Zenon DEF Next

\* The inductive invariant holds in every state of the adders and collectors.
THEOREM AddsKeep == Spec => []AddInv
  BY AddInvInit, AddInvStep, PTL DEF Spec

\* The adders, the lock, the pinner and the collectors have their types.
THEOREM AdderStateTypes == Spec => []AddTypeOK
  <1>1. AddInv => AddTypeOK
    BY Zenon DEF AddInv, LockInv, PinnerTypes, AdderTypes, AddTypeOK
  <1> QED BY <1>1, AddsKeep, PTL

\* The first pause of an add loses none of its files: maybePauseForGC pins the
\* directory of all of them before it gives the lock to the collector.
THEOREM FirstPauseKeeps == Spec => []FirstPauseSafe
  <1>1. AddInv => FirstPauseSafe
    BY Zenon DEF AddInv, ThreadInv, KeepInv, FirstPauseSafe, Holding
  <1> QED BY <1>1, AddsKeep, PTL

\* AddAllAndPin that did not pause returns with the whole tree pinned and
\* stored, and collections that run after it keep it.
THEOREM UninterruptedAddPinned == Spec => []UninterruptedIsPinned
  <1>1. AddInv => UninterruptedIsPinned
    BY Zenon DEF AddInv, ThreadInv, CountInv, RootInv, KeepInv, UninterruptedIsPinned
  <1> QED BY <1>1, AddsKeep, PTL

\* A collector that waits in Lock() is kept out by at most one file of each
\* adder: maybePauseForGC sees it before the next.
THEOREM AddersLetCollectorIn == Spec => []CollectorLetIn
  <1>1. AddInv => CollectorLetIn
    BY Zenon DEF AddInv, ThreadInv, LetInInv, CollectorLetIn
  <1> QED BY <1>1, AddsKeep, PTL
=============================================================================
