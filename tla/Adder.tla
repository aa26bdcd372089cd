------------------------------- MODULE Adder -------------------------------
(***************************************************************************)
(* "ipfs add" beside garbage collection: AddAllAndPin of                   *)
(* core/coreunix/add.go.                                                   *)
(*                                                                         *)
(* An adder holds PinLock while it adds its files one after the other, and *)
(* gives way to a collector between two files: it pins what it has so far, *)
(* releases the lock and asks for it again.  The directory that grows is   *)
(* kept in memory; Tree[i] is the node RootNode makes of it once i files   *)
(* are in.  RootNode remembers the first node it made.                     *)
(***************************************************************************)
EXTENDS GC

CONSTANTS
  NFiles,   \* how many files an adder is given
  File,     \* File[i]: the root of the i-th file's graph
  Tree      \* Tree[i]: the root directory that holds the first i files

ASSUME AdderAssumption ==
  /\ NFiles \in Nat
  /\ File \in [1 .. NFiles -> Nodes]
  /\ Tree \in [0 .. NFiles -> Nodes]
  /\ \A i \in 0 .. NFiles : Links[Tree[i]] = {File[j] : j \in 1 .. i}
  /\ Pinners = Threads

VARIABLES
  apc,     \* where each adder is
  added,   \* how many files it has added
  memo,    \* Adder.root
  pauses,  \* how often it has paused
  kept     \* files it has added while a collector was waiting in Lock()

adderVars == <<apc, added, memo, pauses>>
vars == <<lockVars, pinnerVars, gcVars, filesRoot, adderVars, kept>>

Init ==
  /\ LockInit /\ PinnerInit /\ GCInit
  /\ apc = [t \in Threads |-> "away"]
  /\ added = [t \in Threads |-> 0]
  /\ memo = [t \in Threads |-> None]
  /\ pauses = [t \in Threads |-> 0]
  /\ kept = [t \in Threads |-> 0]

Goes(t, next) == apc' = [apc EXCEPT ![t] = next]
Here(t, here) == apc[t] = here /\ t \in readers

CollectorWaits == \E g \in Collectors : gcAt[g] = "announced"

-----------------------------------------------------------------------------
\* adder.unlocker = adder.gcLocker.PinLock()
AddAllAndPin(t) ==
  /\ apc[t] = "away"
  /\ PinLock(t)
  /\ Goes(t, "next")
  /\ UNCHANGED <<pinnerVars, gcVars, filesRoot, added, memo, pauses, kept>>

\* A mistake: nobody looks at GCRequested.
NeverPauses(t) ==
  /\ Here(t, "next")
  /\ added[t] < NFiles
  /\ Goes(t, "file")
  /\ UNCHANGED <<lockVars, pinnerVars, gcVars, filesRoot, added, memo, pauses, kept>>

\* addFileNode begins with maybePauseForGC
MaybePauseForGC(t) ==
  /\ Here(t, "next")
  /\ added[t] < NFiles
  /\ Goes(t, IF GCRequested THEN "root" ELSE "file")
  /\ UNCHANGED <<lockVars, pinnerVars, gcVars, filesRoot, added, memo, pauses, kept>>

\* addFile: the file's blocks, then its place in the directory in memory
AddFile(t) ==
  /\ Here(t, "file")
  /\ blocks' = blocks \cup Below[File[added[t] + 1]]
  /\ added' = [added EXCEPT ![t] = @ + 1]
  /\ Goes(t, "next")
  /\ kept' = [kept EXCEPT ![t] = IF CollectorWaits THEN @ + 1 ELSE 0]
  /\ UNCHANGED <<lockVars, pinBlocks, pinKey, pinVars, plock, call, gcVars,
                 filesRoot, memo, pauses>>

\* A mistake: the lock is not given back.
AddFailsHoldingLock(t) ==
  /\ Here(t, "file")
  /\ Goes(t, "failed")
  /\ UNCHANGED <<lockVars, pinnerVars, gcVars, filesRoot, added, memo, pauses, kept>>

\* Reading or storing the file fails: the deferred Unlock, nothing is pinned
AddFails(t) ==
  /\ Here(t, "file")
  /\ PinUnlock(t)
  /\ Goes(t, "failed")
  /\ UNCHANGED <<pinnerVars, gcVars, filesRoot, added, memo, pauses, kept>>

\* Finalize writes the directory
Finalize(t) ==
  /\ Here(t, "next")
  /\ added[t] = NFiles
  /\ blocks' = blocks \cup {Tree[NFiles]}
  /\ Goes(t, "root")
  /\ UNCHANGED <<lockVars, pinBlocks, pinKey, pinVars, plock, call, gcVars,
                 filesRoot, added, memo, pauses, kept>>

-----------------------------------------------------------------------------
(* PinRoot: RootNode, dagService.Add, PinWithMode, Flush                   *)

RootNodeOf(t) == IF memo[t] # None THEN memo[t] ELSE Tree[added[t]]

AddRoot(t) ==
  /\ Here(t, "root")
  /\ memo' = [memo EXCEPT ![t] = RootNodeOf(t)]
  /\ blocks' = blocks \cup {RootNodeOf(t)}
  /\ Goes(t, "pin")
  /\ UNCHANGED <<lockVars, pinBlocks, pinKey, pinVars, plock, call, gcVars,
                 filesRoot, added, pauses, kept>>

\* A mistake: a pause does not pin what is there so far.
PinRootAtEndOnly(t) ==
  /\ Here(t, "pin")
  /\ call[t] = Idle /\ plock = None
  /\ recursePin' = IF added[t] = NFiles THEN recursePin \cup {memo[t]} ELSE recursePin
  /\ Return(t, TRUE)
  /\ Goes(t, "flush")
  /\ UNCHANGED <<storeVars, directPin, internalPin, plock, lockVars, gcVars, filesRoot,
                 added, memo, pauses, kept>>

PinRoot(t) ==
  /\ Here(t, "pin")
  /\ PinWithMode(t, memo[t])
  /\ Goes(t, "flush")
  /\ UNCHANGED <<lockVars, gcVars, filesRoot, added, memo, pauses, kept>>

StartFlush(t) ==
  /\ Here(t, "flush") /\ call[t] = Returned(TRUE)
  /\ FlushSets(t)
  /\ Goes(t, "flushing")
  /\ UNCHANGED <<lockVars, gcVars, filesRoot, added, memo, pauses, kept>>

Flushing(t) ==
  /\ FlushRoot(t) \/ FlushKey(t)
  /\ UNCHANGED <<lockVars, gcVars, filesRoot, adderVars, kept>>

\* A mistake: a pause asks for the lock again without giving it back.
ReturnsHoldingLock(t) ==
  /\ Here(t, "flushing") /\ call[t].at = "returned"
  /\ IF call[t].ok /\ added[t] < NFiles THEN UNCHANGED lockVars ELSE PinUnlock(t)
  /\ call' = [call EXCEPT ![t] = Idle]
  /\ Goes(t, IF ~call[t].ok THEN "failed"
             ELSE IF added[t] = NFiles THEN "done" ELSE "paused")
  /\ UNCHANGED <<storeVars, pinVars, plock, gcVars, filesRoot, added, memo, pauses, kept>>

\* PinRoot returns: an error ends the add, the last one returns the root, and
\* a pause lets the collectors in.
Returns(t) ==
  /\ Here(t, "flushing") /\ call[t].at = "returned"
  /\ PinUnlock(t)
  /\ call' = [call EXCEPT ![t] = Idle]
  /\ Goes(t, IF ~call[t].ok THEN "failed"
             ELSE IF added[t] = NFiles THEN "done" ELSE "paused")
  /\ UNCHANGED <<storeVars, pinVars, plock, gcVars, filesRoot, added, memo, pauses, kept>>

\* adder.unlocker = adder.gcLocker.PinLock(), then the file it paused before
Resume(t) ==
  /\ apc[t] = "paused"
  /\ PinLock(t)
  /\ Goes(t, "file")
  /\ pauses' = [pauses EXCEPT ![t] = @ + 1]
  /\ UNCHANGED <<pinnerVars, gcVars, filesRoot, added, memo, kept>>

-----------------------------------------------------------------------------
Adding(t) ==
  \/ AddAllAndPin(t) \/ MaybePauseForGC(t) \/ AddFile(t) \/ AddFails(t)
  \/ Finalize(t) \/ AddRoot(t) \/ PinRoot(t)
  \/ StartFlush(t) \/ Flushing(t) \/ Returns(t) \/ Resume(t)

Collector(g) ==
  /\ GarbageCollect(g) \/ Collecting(g)
  /\ kept' = IF CollectorWaits' THEN kept ELSE [t \in Threads |-> 0]
  /\ UNCHANGED adderVars

Next ==
  \/ \E t \in Threads : Adding(t)
  \/ \E g \in Collectors : Collector(g)

Spec == Init /\ [][Next]_vars

\* Goroutines that can run do; a collector that waits for the inner mutex of
\* the RWMutex gets it (the mutex hands over to a starving waiter).
FairSpec ==
  /\ Spec
  /\ \A t \in Threads : WF_vars(Adding(t))
  /\ \A g \in Collectors :
       /\ WF_vars(Collecting(g) /\ Collector(g))
       /\ SF_vars(Announce(g) /\ Collector(g))
  
-----------------------------------------------------------------------------
AddTypeOK ==
  /\ LockTypeOK /\ PinnerTypeOK /\ GCTypeOK
  /\ apc \in [Threads -> {"away", "next", "file", "root", "pin", "flush", "flushing",
                          "paused", "done", "failed"}]
  /\ added \in [Threads -> 0 .. NFiles]
  /\ memo \in [Threads -> Nodes \cup {None}]
  /\ pauses \in [Threads -> 0 .. NFiles]
  /\ kept \in [Threads -> 0 .. NFiles]

Holding(t) == t \in readers /\ apc[t] \notin {"away", "failed"}
AddedPresent(t) == \A i \in 1 .. added[t] : Below[File[i]] \subseteq blocks

\* What an adder has added is still there when it goes on after a pause
\* (TestAddGCLive: "gc'ed a hash we just added").
AddedSurvives == \A t \in Threads : Holding(t) => AddedPresent(t)

\* "AddAllAndPin adds the given request's files and pin them": when it has
\* returned without error, the root of all the files is pinned.
AddedIsPinned ==
  \A t \in Threads : apc[t] = "done" => Tree[NFiles] \in recursePin

\* The first pause loses nothing: the root that PinRoot pins holds every file
\* added before it, and the files added after it are under the lock.
FirstPauseSafe ==
  \A t \in Threads : Holding(t) /\ pauses[t] <= 1 => AddedPresent(t)

\* An add that no collector interrupts ends with its whole tree pinned, and
\* collections that come later keep it.
UninterruptedIsPinned ==
  \A t \in Threads : apc[t] = "done" /\ pauses[t] = 0 =>
     Tree[NFiles] \in recursePin /\ Below[Tree[NFiles]] \subseteq blocks

\* A collector that waits in Lock() is let in after at most one more file of
\* each adder: the next look at GCRequested sees it.
CollectorLetIn == \A t \in Threads : kept[t] <= 1

\* The hand-over of the lock does not deadlock: every add ends.
AddEnds == \A t \in Threads : <>(apc[t] \in {"done", "failed"})

\* A collection that was asked for while adders are busy completes.
CollectionEnds == \A g \in Collectors : phase[g] = "recursive" ~> phase[g] = "away"
=============================================================================
