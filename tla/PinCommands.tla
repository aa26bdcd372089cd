---------------------------- MODULE PinCommands ----------------------------
(***************************************************************************)
(* The commands that change pins, running against the collectors, with a   *)
(* crash and restart of the node at any point:                             *)
(*                                                                         *)
(*   pin add      PinLock, Pin, Flush      core/commands/pin.go            *)
(*   pin rm       Unpin, Flush             core/commands/pin.go            *)
(*   pin update   PinLock, Update, Flush   core/coreapi/pin.go             *)
(*   object put,  PinLock, Add,            core/coreapi/object.go,         *)
(*   dag put      PinWithMode, Flush       core/commands/dag/dag.go        *)
(*   block put, and blocks that arrive from the network: no lock           *)
(*                                                                         *)
(* "pin add --progress" runs Pin and Flush in a goroutine of its own and   *)
(* gives PinLock back when the request is cancelled, whatever the goroutine *)
(* is doing.                                                               *)
(***************************************************************************)
EXTENDS GC

CONSTANTS
  PinAdders, ProgressAdders, PinUpdaters, PutPinners,   \* they take PinLock
  PinRemovers,                                          \* they do not
  BlockRemovers,   \* collectors that run RmBlocks, the others run GC
  Targets,         \* bound: the nodes the commands name
  MaxPaths,        \* bound: paths named by the commands of each thread
  MaxCrashes       \* bound: crashes of the node

ASSUME CommandsAssumption ==
  /\ Threads = PinAdders \cup PinUpdaters \cup PutPinners \cup PinRemovers
  /\ Pinners = PinAdders \cup PinUpdaters \cup PutPinners
  /\ ProgressAdders \subseteq PinAdders
  /\ Pinners \cap PinRemovers = {}
  /\ BlockRemovers \subseteq Collectors
  /\ Targets \subseteq Nodes
  /\ MaxPaths \in Nat /\ MaxCrashes \in Nat

VARIABLES
  pc,         \* where each command is
  node,       \* the node a put command has added and is about to pin
  pathsLeft,  \* MaxPaths minus the paths of each thread's commands
  crashes,    \* crashes so far
  owed,       \* pins that Flush has written and nothing has removed since
  unchecked   \* pins whose graph nobody has looked for

cmdVars == <<pc, node, pathsLeft>>
ghostVars == <<owed, unchecked>>
vars == <<lockVars, pinnerVars, gcVars, filesRoot, cmdVars, crashes, ghostVars>>

Where == {"away", "locking", "added", "calling", "next", "flushing"}

CmdInit ==
  /\ pc = [t \in Threads |-> "away"]
  /\ node = [t \in Threads |-> None]
  /\ pathsLeft = [t \in Threads |-> MaxPaths]

Init == LockInit /\ PinnerInit /\ GCInit /\ CmdInit /\ crashes = 0 /\ owed = {} /\ unchecked = {}

At(t, here) == pc[t] = here
Step(t, next) == pc' = [pc EXCEPT ![t] = next]

\* A pin that is gone is no longer unchecked.
Checking(others) == unchecked' = (unchecked \cup others) \cap (directPin' \cup recursePin')

TakePath(t) ==
  /\ pathsLeft[t] > 0
  /\ pathsLeft' = [pathsLeft EXCEPT ![t] = @ - 1]

Begin(t) == At(t, "away") /\ TakePath(t)

-----------------------------------------------------------------------------
(* The commands.                                                           *)

\* defer n.Blockstore.PinLock().Unlock()
TakePinLock(t) ==
  /\ Begin(t)
  /\ PinLock(t)
  /\ Step(t, "locking")
  /\ UNCHANGED <<pinnerVars, gcVars, filesRoot, node, crashes, ghostVars>>

\* corerepo.Pin and corerepo.Unpin take a list of paths and flush after the
\* last one.
NextPath(t) ==
  /\ At(t, "calling") /\ call[t] = Returned(TRUE)
  /\ TakePath(t)
  /\ call' = [call EXCEPT ![t] = Idle]
  /\ Step(t, "next")
  /\ UNCHANGED <<lockVars, storeVars, pinVars, plock, gcVars, filesRoot, node, crashes, ghostVars>>

\* A path does not resolve, or dag.Add fails: what was pinned before it stays
\* pinned, and is not flushed.
PathFails(t) ==
  /\ (At(t, "locking") /\ t \in readers) \/ At(t, "next")
  /\ Return(t, FALSE)
  /\ Step(t, "calling")
  /\ UNCHANGED <<lockVars, storeVars, pinVars, plock, gcVars, filesRoot, node, pathsLeft,
                 crashes, ghostVars>>

\* corerepo.Pin.  A direct pin is gone as soon as Pin starts to fetch.
PinAdd(t, c, recurse) ==
  /\ (At(t, "locking") /\ t \in readers) \/ At(t, "next")
  /\ PinBegin(t, c, recurse)
  /\ Step(t, "calling")
  /\ owed' = owed \ (directPin \ directPin')
  /\ Checking({})
  /\ UNCHANGED <<lockVars, gcVars, filesRoot, node, pathsLeft, crashes>>

\* corerepo.Unpin, called without PinLock
PinRm(t, c, recursive) ==
  /\ Begin(t) \/ (At(t, "next") /\ UNCHANGED pathsLeft)
  /\ Unpin(t, c, recursive)
  /\ Step(t, "calling")
  /\ owed' = owed \ ((recursePin \ recursePin') \cup (directPin \ directPin'))
  /\ Checking({})
  /\ UNCHANGED <<lockVars, gcVars, filesRoot, node, crashes>>

\* The new pin is only as whole as the old one.
PinUpdate(t, from, to, unpin) ==
  /\ At(t, "locking") /\ t \in readers
  /\ Update(t, from, to, unpin)
  /\ Step(t, "calling")
  /\ owed' = owed \ (recursePin \ recursePin')
  /\ Checking(IF from \in unchecked THEN {to} ELSE {})
  /\ UNCHANGED <<lockVars, gcVars, filesRoot, node, pathsLeft, crashes>>

\* dag.Add, then PinWithMode
PutNode(t, c) ==
  /\ At(t, "locking") /\ t \in readers
  /\ blocks' = blocks \cup {c}
  /\ node' = [node EXCEPT ![t] = c]
  /\ Step(t, "added")
  /\ UNCHANGED <<lockVars, pinBlocks, pinKey, pinVars, plock, call, gcVars,
                 filesRoot, pathsLeft, crashes, ghostVars>>

PutPin(t) ==
  /\ At(t, "added")
  /\ PinWithMode(t, node[t])
  /\ Step(t, "calling")
  /\ node' = [node EXCEPT ![t] = None]
  /\ Checking({node[t]} \ recursePin)
  /\ UNCHANGED <<lockVars, gcVars, filesRoot, pathsLeft, crashes, owed>>

\* The middle of Pin.  PinEnd may find a direct pin that was made meanwhile.
PinGoesOn(t) ==
  /\ PinFetch(t) \/ PinEnd(t)
  /\ owed' = owed \ (directPin \ (directPin' \cup recursePin'))
  /\ Checking({})
  /\ UNCHANGED <<lockVars, gcVars, filesRoot, cmdVars, crashes>>

\* The pinner has returned: flush, or give up with its error.
StartFlush(t) ==
  /\ At(t, "calling") /\ call[t] = Returned(TRUE)
  /\ FlushSets(t)
  /\ Step(t, "flushing")
  /\ UNCHANGED <<lockVars, gcVars, filesRoot, node, pathsLeft, crashes, ghostVars>>

Flushing(t) ==
  /\ FlushRoot(t) \/ FlushKey(t)
  /\ owed' = IF call'[t] = Returned(TRUE) THEN directPin \cup recursePin ELSE owed
  /\ UNCHANGED <<lockVars, gcVars, filesRoot, cmdVars, crashes, unchecked>>

CommandEnds(t) ==
  /\ call[t].at = "returned"
  /\ At(t, "flushing") \/ (At(t, "calling") /\ ~call[t].ok)
  /\ IF t \in readers THEN PinUnlock(t) ELSE UNCHANGED lockVars
  /\ call' = [call EXCEPT ![t] = Idle]
  /\ Step(t, "away")
  /\ UNCHANGED <<storeVars, pinVars, plock, gcVars, filesRoot, node, pathsLeft, crashes, ghostVars>>

\* --progress: the request is cancelled while the goroutine is still pinning
AbandonProgress(t) ==
  /\ pc[t] \in {"calling", "next", "flushing"}
  /\ PinUnlock(t)
  /\ UNCHANGED <<pinnerVars, gcVars, filesRoot, cmdVars, crashes, ghostVars>>

\* block put, or a block from the network
BlockPut(c) ==
  /\ blocks' = blocks \cup {c}
  /\ UNCHANGED <<lockVars, pinBlocks, pinKey, pinVars, plock, call, gcVars,
                 filesRoot, cmdVars, crashes, ghostVars>>

-----------------------------------------------------------------------------
\* The process dies and is started again: the blockstore and the datastore
\* keep what was written, everything else starts anew.  A pin that memory no
\* longer had comes back unchecked: its unpin was not flushed, or not yet.
CrashRestart ==
  /\ crashes < MaxCrashes
  /\ crashes' = crashes + 1
  /\ Load
  /\ gcreq' = 0 /\ writer' = NoOne /\ readers' = {} /\ blocked' = {}
  /\ gcAt' = [g \in Collectors |-> "away"]
  /\ phase' = [g \in Collectors |-> "away"]
  /\ gcRoots' = [g \in Collectors |-> {}]
  /\ marked' = [g \in Collectors |-> {}]
  /\ pinMarked' = [g \in Collectors |-> {}]
  /\ pc' = [t \in Threads |-> "away"]
  /\ node' = [t \in Threads |-> None]
  /\ unchecked' = (recursePin' \ (recursePin \ unchecked))
                    \cup (directPin' \ ((directPin \cup recursePin) \ unchecked))
  /\ UNCHANGED <<storeVars, filesRoot, runsLeft, pathsLeft, owed>>

Collector(g) ==
  /\ \/ g \in BlockRemovers /\ RmBlocks(g)
     \/ g \notin BlockRemovers /\ GarbageCollect(g)
     \/ Collecting(g)
  /\ UNCHANGED <<cmdVars, crashes, ghostVars>>

Command(t) ==
  \/ t \in Pinners /\ TakePinLock(t)
  \/ t \in PinAdders /\ \E c \in Targets, recurse \in BOOLEAN : PinAdd(t, c, recurse)
  \/ t \in PinRemovers /\ \E c \in Targets, recursive \in BOOLEAN : PinRm(t, c, recursive)
  \/ t \in PinUpdaters /\ \E from, to \in Targets, unpin \in BOOLEAN : PinUpdate(t, from, to, unpin)
  \/ t \in PutPinners /\ \E c \in Targets : PutNode(t, c)
  \/ PutPin(t)
  \/ t \in PinAdders \cup PinRemovers /\ NextPath(t)
  \/ PathFails(t)
  \/ PinGoesOn(t) \/ StartFlush(t) \/ Flushing(t) \/ CommandEnds(t)
  \/ t \in ProgressAdders /\ AbandonProgress(t)

Next ==
  \/ \E t \in Threads : Command(t)
  \/ \E g \in Collectors : Collector(g)
  \/ \E c \in Nodes : BlockPut(c)
  \/ CrashRestart

Spec == Init /\ [][Next]_vars

-----------------------------------------------------------------------------
CmdTypeOK ==
  /\ pc \in [Threads -> Where]
  /\ node \in [Threads -> Nodes \cup {None}]
  /\ pathsLeft \in [Threads -> 0 .. MaxPaths]
  /\ crashes \in 0 .. MaxCrashes
  /\ owed \subseteq Nodes /\ unchecked \subseteq Nodes

\* The state of the lock, the pinner, the collectors and the commands has its
\* types.
TypeOK == LockTypeOK /\ PinnerTypeOK /\ GCTypeOK /\ CmdTypeOK

\* The nodes that the pins keep
Kept == directPin \cup BelowAll(recursePin)

\* No collector, whatever commands run beside it, deletes a block that is
\* pinned directly or lies below a recursive pin.
PinnedNeverDeleted == [][Kept \cap blocks \subseteq blocks']_vars

\* Why: from the moment a collector has read the pins until it unlocks, what
\* it is going to spare covers everything that is pinned, although the pins
\* are read one kind after the other and "pin rm" goes on meanwhile.
MarksCoverPins ==
  \A g \in Collectors :
    /\ phase[g] \in {"bestEffort", "direct", "internal", "sweep"}
         => BelowAll(recursePin) \subseteq marked[g]
    /\ phase[g] \in {"internal", "sweep"} => directPin \subseteq marked[g]
    /\ phase[g] = "delete" => gcRoots[g] \cap Kept = {}

\* A recursive pin means that the whole graph is here: Pin adds the pin only
\* after FetchGraph, Update relies on the graph of the old pin, nothing is
\* deleted in between, and a restart that reads the pins back finds it still
\* there.  The exceptions are the pins that PinWithMode adds without a look at
\* the graph, and those that were unpinned and come back with a restart because
\* that was not flushed.
PinnedComplete ==
  (directPin \ unchecked) \cup BelowAll(recursePin \ unchecked) \subseteq blocks

\* What LoadPinner needs at the next start is always in the blockstore: the
\* collectors spare the blocks of the last pin state that Flush committed,
\* and of the one that is being written.
PinStateLoadable == pinKey # None => Loadable

\* Every block that the walk of the pinner's own nodes visits is there, so
\* that a collection is never refused on their account ("all blocks utilized
\* internally by the pinner" are marked).
PinStateWalkable == internalPin \subseteq pinBlocks

\* "Updates one pin to another": after a successful update something is
\* pinned recursively.
UpdateLeavesPin ==
  [][\A t \in PinUpdaters :
       call[t] = Idle /\ call'[t] = Returned(TRUE) => recursePin' # {}]_vars

\* A pin that a Flush has written stays until a command removes it, over
\* crashes and restarts.
PinsNotLost == owed \subseteq directPin \cup recursePin
=============================================================================
