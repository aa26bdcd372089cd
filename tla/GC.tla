--------------------------------- MODULE GC ---------------------------------
(***************************************************************************)
(* The collectors: gc.GC of pin/gc/gc.go, started by GarbageCollect of     *)
(* core/corerepo/gc.go, and RmBlocks of blocks/blockstoreutil/remove.go    *)
(* ("ipfs block rm").  Both hold GCLock while they delete.                 *)
(*                                                                         *)
(* Marking is one action per kind of root, because the roots are read one  *)
(* kind after the other while goroutines that do not take PinLock go on.   *)
(* Sweeping is one action per block.                                       *)
(***************************************************************************)
EXTENDS GCLocker, Pinner

CONSTANT
  MaxCollections   \* bound: how often each collector runs

ASSUME GCAssumption == MaxCollections \in Nat

VARIABLES
  phase,      \* where each collector is
  gcRoots,    \* bestEffortRoots of a collection; the argument of RmBlocks
  marked,     \* gcs, the user's nodes in it
  pinMarked,  \* gcs, the pinner's nodes in it
  filesRoot,  \* the root of the files API, the only best-effort root
  runsLeft    \* MaxCollections minus the runs of each collector

gcVars == <<phase, gcRoots, marked, pinMarked, runsLeft>>

Phases == {"away", "recursive", "bestEffort", "direct", "internal", "sweep",
           "check", "delete", "done"}

GCInit ==
  /\ phase = [g \in Collectors |-> "away"]
  /\ gcRoots = [g \in Collectors |-> {}]
  /\ marked = [g \in Collectors |-> {}]
  /\ pinMarked = [g \in Collectors |-> {}]
  /\ filesRoot = {}
  /\ runsLeft = [g \in Collectors |-> MaxCollections]

Goto(g, next) == phase' = [phase EXCEPT ![g] = next]
Mark(g, nodes) == marked' = [marked EXCEPT ![g] = @ \cup nodes]

\* The collector's next step, taken with GCLock held
Locked(g, here) == phase[g] = here /\ gcAt[g] = "locked"

-----------------------------------------------------------------------------
(* gc.GC.  The best-effort roots are read before the lock is asked for.    *)

GarbageCollect(g) ==
  /\ phase[g] = "away"
  /\ runsLeft[g] > 0
  /\ runsLeft' = [runsLeft EXCEPT ![g] = @ - 1]
  /\ gcRoots' = [gcRoots EXCEPT ![g] = filesRoot]
  /\ GCLock(g)
  /\ Goto(g, "recursive")
  /\ UNCHANGED <<pinnerVars, marked, pinMarked, filesRoot>>

\* Mistakes: only the roots are marked; the pinner's own nodes are not.
MarkRecursiveRootsOnly(g) ==
  /\ Locked(g, "recursive")
  /\ Mark(g, recursePin) /\ Goto(g, "bestEffort")
  /\ UNCHANGED <<lockVars, pinnerVars, gcRoots, pinMarked, filesRoot, runsLeft>>

MarkInternalNothing(g) ==
  /\ Locked(g, "internal")
  /\ plock = None
  /\ Goto(g, "sweep")
  /\ UNCHANGED <<lockVars, pinnerVars, gcRoots, marked, pinMarked, filesRoot, runsLeft>>

\* A block that cannot be read makes ColoredSet fail, and nothing is deleted.
MarkRecursive(g) ==
  /\ Locked(g, "recursive")
  /\ IF BelowAll(recursePin) \subseteq blocks
       THEN Mark(g, BelowAll(recursePin)) /\ Goto(g, "bestEffort")
       ELSE Goto(g, "done") /\ UNCHANGED marked
  /\ UNCHANGED <<lockVars, pinnerVars, gcRoots, pinMarked, filesRoot, runsLeft>>

\* A mistake: the best-effort roots are left out.
MarkBestEffortNothing(g) ==
  /\ Locked(g, "bestEffort")
  /\ Goto(g, "direct")
  /\ UNCHANGED <<lockVars, pinnerVars, gcRoots, marked, pinMarked, filesRoot, runsLeft>>

\* A block that is not there ends the walk there and is no error.
MarkBestEffort(g) ==
  /\ Locked(g, "bestEffort")
  /\ Mark(g, Reach(WalkLinks(blocks, marked[g]), gcRoots[g]))
  /\ Goto(g, "direct")
  /\ UNCHANGED <<lockVars, pinnerVars, gcRoots, pinMarked, filesRoot, runsLeft>>

MarkDirect(g) ==
  /\ Locked(g, "direct")
  /\ Mark(g, directPin)
  /\ Goto(g, "internal")
  /\ UNCHANGED <<lockVars, pinnerVars, gcRoots, pinMarked, filesRoot, runsLeft>>

\* The walk of the pinner's own nodes goes on into the pinned nodes that are
\* not marked yet, which are those no longer pinned when the others were read.
StoredPins == UNION {S \in SUBSET Nodes : SetNode(S) \in internalPin}

MarkInternal(g) ==
  /\ Locked(g, "internal")
  /\ plock = None
  /\ LET walk == Reach(WalkLinks(blocks, marked[g]), StoredPins \ marked[g])
     IN  IF walk \ marked[g] \subseteq blocks /\ internalPin \subseteq pinBlocks
           THEN /\ Mark(g, walk)
                /\ pinMarked' = [pinMarked EXCEPT ![g] = internalPin]
                /\ Goto(g, "sweep")
           ELSE Goto(g, "done") /\ UNCHANGED <<marked, pinMarked>>
  /\ UNCHANGED <<lockVars, pinnerVars, gcRoots, filesRoot, runsLeft>>

\* AllKeysChan yields every key that was there when the sweep began, and may
\* yield those written since.
Sweep(g) ==
  /\ Locked(g, "sweep")
  /\ \/ \E k \in blocks \ marked[g] : blocks' = blocks \ {k} /\ UNCHANGED pinBlocks
     \/ \E k \in pinBlocks \ pinMarked[g] : pinBlocks' = pinBlocks \ {k} /\ UNCHANGED blocks
  /\ UNCHANGED <<lockVars, gcVars, pinKey, pinVars, plock, call, filesRoot>>

\* The last key has come (a block that could not be deleted stays), or the
\* context was cancelled.
SweepEnd(g) ==
  /\ Locked(g, "sweep")
  /\ Goto(g, "done")
  /\ UNCHANGED <<lockVars, pinnerVars, gcRoots, marked, pinMarked, filesRoot, runsLeft>>

\* The context is cancelled while the marks are made.
Cancel(g) ==
  /\ \E here \in {"recursive", "bestEffort", "internal"} : Locked(g, here)
  /\ Goto(g, "done")
  /\ UNCHANGED <<lockVars, pinnerVars, gcRoots, marked, pinMarked, filesRoot, runsLeft>>

\* unlocker.Unlock() when the goroutine ends
Finish(g) ==
  /\ Locked(g, "done")
  /\ GCUnlock(g)
  /\ Goto(g, "away")
  /\ marked' = [marked EXCEPT ![g] = {}]
  /\ pinMarked' = [pinMarked EXCEPT ![g] = {}]
  /\ gcRoots' = [gcRoots EXCEPT ![g] = {}]
  /\ UNCHANGED <<pinnerVars, filesRoot, runsLeft>>

-----------------------------------------------------------------------------
(* RmBlocks of one block.                                                  *)

RmBlocks(g) ==
  /\ phase[g] = "away"
  /\ runsLeft[g] > 0
  /\ runsLeft' = [runsLeft EXCEPT ![g] = @ - 1]
  /\ \E c \in blocks \cup pinBlocks : gcRoots' = [gcRoots EXCEPT ![g] = {c}]
  /\ GCLock(g)
  /\ Goto(g, "check")
  /\ UNCHANGED <<pinnerVars, marked, pinMarked, filesRoot>>

\* FilterPinned: CheckIfPinned walks below the recursive pins unless the
\* block is itself pinned.  A missing block is fetched or is an error, and
\* an error removes nothing.
PinnedItself(c) == c \in recursePin \cup directPin \/ c \in internalPin

\* A mistake: blocks below a recursive pin are not looked for.
FilterPinnedDirectly(g) ==
  /\ Locked(g, "check")
  /\ plock = None
  /\ Goto(g, IF \E c \in gcRoots[g] : PinnedItself(c) THEN "done" ELSE "delete")
  /\ UNCHANGED <<lockVars, pinnerVars, gcRoots, marked, pinMarked, filesRoot, runsLeft>>

FilterPinned(g) ==
  /\ Locked(g, "check")
  /\ plock = None
  /\ \/ /\ \A c \in gcRoots[g] : ~PinnedItself(c) /\ c \notin BelowAll(recursePin)
        /\ blocks' = blocks \cup BelowAll(recursePin)
        /\ Goto(g, "delete")
     \/ /\ \/ \E c \in gcRoots[g] : PinnedItself(c) \/ c \in BelowAll(recursePin)
           \/ ~ (BelowAll(recursePin) \subseteq blocks)
        /\ Goto(g, "done")
        /\ UNCHANGED blocks
  /\ UNCHANGED <<lockVars, pinBlocks, pinKey, pinVars, plock, call,
                 gcRoots, marked, pinMarked, filesRoot, runsLeft>>

\* The block is deleted, or the error is reported and it stays.
DeleteBlock(g) ==
  /\ Locked(g, "delete")
  /\ \/ blocks' = blocks \ gcRoots[g] /\ pinBlocks' = pinBlocks \ gcRoots[g]
     \/ UNCHANGED <<blocks, pinBlocks>>
  /\ Goto(g, "done")
  /\ UNCHANGED <<lockVars, pinKey, pinVars, plock, call,
                 gcRoots, marked, pinMarked, filesRoot, runsLeft>>

-----------------------------------------------------------------------------
\* The collector's steps inside GCLock
Locking(g) ==
  /\ Announce(g) \/ Acquire(g) \/ GCLocked(g)
  /\ UNCHANGED <<pinnerVars, gcVars, filesRoot>>

Collecting(g) ==
  \/ Locking(g)
  \/ MarkRecursive(g) \/ MarkBestEffort(g) \/ MarkDirect(g) \/ MarkInternal(g)
  \/ Sweep(g) \/ SweepEnd(g) \/ Cancel(g) \/ FilterPinned(g) \/ DeleteBlock(g) \/ Finish(g)

GCTypeOK ==
  /\ phase \in [Collectors -> Phases]
  /\ gcRoots \in [Collectors -> SUBSET (Nodes \cup {EmptyNode} \cup SetNodes \cup RootNodes)]
  /\ marked \in [Collectors -> SUBSET Nodes]
  /\ pinMarked \in [Collectors -> SUBSET ({EmptyNode} \cup SetNodes \cup RootNodes)]
  /\ filesRoot \in SUBSET Nodes
  /\ runsLeft \in [Collectors -> 0 .. MaxCollections]
=============================================================================
