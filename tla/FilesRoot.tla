----------------------------- MODULE FilesRoot -----------------------------
(***************************************************************************)
(* The files API ("ipfs files") beside garbage collection.  Its commands   *)
(* take no PinLock: what protects the tree is that GarbageCollect passes   *)
(* its root to gc.GC as a best-effort root (core/corerepo/gc.go).          *)
(*                                                                         *)
(* A command with --flush writes the blocks of the new tree, then makes    *)
(* the new root current; the republisher stores it in the datastore later, *)
(* where loadFilesRoot (core/core.go) finds it at the next start.          *)
(***************************************************************************)
EXTENDS GC

CONSTANTS
  FilesWriters,   \* goroutines that run commands of the files API
  MaxWrites,      \* bound: commands of each
  MaxCrashes      \* bound: crashes of the node

ASSUME FilesAssumption == MaxWrites \in Nat /\ MaxCrashes \in Nat

VARIABLES
  next,        \* the tree each writer is making, {} when it is away
  writesLeft,  \* MaxWrites minus the commands of each writer
  filesKey,    \* the datastore's value under /local/filesroot
  started,     \* whether the node has started
  crashes,     \* crashes so far
  whole        \* whether the tree a collector spares was whole when it marked it

filesVars == <<next, writesLeft, filesKey, started, crashes, whole>>
vars == <<lockVars, pinnerVars, gcVars, filesRoot, filesVars>>

Init ==
  /\ LockInit /\ PinnerInit /\ GCInit
  /\ next = [w \in FilesWriters |-> {}]
  /\ writesLeft = [w \in FilesWriters |-> MaxWrites]
  /\ filesKey = {}
  /\ started = TRUE
  /\ crashes = 0
  /\ whole = [g \in Collectors |-> FALSE]

Complete(root) == BelowAll(root) \subseteq blocks

\* the blocks of the changed file and of the directories above it
WriteBlocks(w, n) ==
  /\ started /\ next[w] = {} /\ writesLeft[w] > 0
  /\ blocks' = blocks \cup Below[n]
  /\ next' = [next EXCEPT ![w] = {n}]
  /\ writesLeft' = [writesLeft EXCEPT ![w] = @ - 1]
  /\ UNCHANGED <<lockVars, pinBlocks, pinKey, pinVars, plock, call, gcVars,
                 filesRoot, filesKey, started, crashes, whole>>

\* closeChild has reached the root directory: it is added once more
SetRoot(w) ==
  /\ started /\ next[w] # {}
  /\ filesRoot' = next[w]
  /\ blocks' = blocks \cup next[w]
  /\ next' = [next EXCEPT ![w] = {}]
  /\ UNCHANGED <<lockVars, pinBlocks, pinKey, pinVars, plock, call, gcVars,
                 writesLeft, filesKey, started, crashes, whole>>

\* Republisher.publish
Publish ==
  /\ started /\ filesKey # filesRoot
  /\ filesKey' = filesRoot
  /\ UNCHANGED <<lockVars, pinnerVars, gcVars, filesRoot, next, writesLeft, started,
                 crashes, whole>>

\* The process dies; loadFilesRoot needs the block that filesKey names.
CrashRestart ==
  /\ crashes < MaxCrashes
  /\ crashes' = crashes + 1
  /\ Load
  /\ started' = (filesKey \subseteq blocks)
  /\ filesRoot' = filesKey
  /\ next' = [w \in FilesWriters |-> {}]
  /\ gcreq' = 0 /\ writer' = NoOne /\ readers' = {} /\ blocked' = {}
  /\ gcAt' = [g \in Collectors |-> "away"]
  /\ phase' = [g \in Collectors |-> "away"]
  /\ gcRoots' = [g \in Collectors |-> {}]
  /\ marked' = [g \in Collectors |-> {}]
  /\ pinMarked' = [g \in Collectors |-> {}]
  /\ whole' = [g \in Collectors |-> FALSE]
  /\ UNCHANGED <<storeVars, runsLeft, writesLeft, filesKey>>

Collector(g) ==
  /\ started
  /\ GarbageCollect(g) \/ Collecting(g)
  /\ whole' = [whole EXCEPT ![g] = IF phase[g] = "bestEffort" THEN Complete(gcRoots[g])
                                   ELSE @ /\ phase[g] # "done"]
  /\ UNCHANGED <<next, writesLeft, filesKey, started, crashes>>

Next ==
  \/ \E w \in FilesWriters : SetRoot(w) \/ \E n \in Nodes : WriteBlocks(w, n)
  \/ Publish
  \/ \E g \in Collectors : Collector(g)
  \/ CrashRestart

Spec == Init /\ [][Next]_vars

-----------------------------------------------------------------------------
FilesTypeOK ==
  /\ LockTypeOK /\ PinnerTypeOK /\ GCTypeOK
  /\ next \in [FilesWriters -> SUBSET Nodes]
  /\ writesLeft \in [FilesWriters -> 0 .. MaxWrites]
  /\ filesKey \in SUBSET Nodes
  /\ started \in BOOLEAN
  /\ crashes \in 0 .. MaxCrashes
  /\ whole \in [Collectors -> BOOLEAN]

\* The tree that was current when the collection was asked for, if it was
\* still whole when it was marked, stays whole until the collection ends.
SnapshotKept == \A g \in Collectors : whole[g] => Complete(gcRoots[g])

\* "data may be lost. This also applies to running 'ipfs repo gc' concurrently
\* with '--flush=false' operations": with --flush, the default, the current
\* tree of the files API stays whole while collections run.
FilesKept == Complete(filesRoot)
=============================================================================
