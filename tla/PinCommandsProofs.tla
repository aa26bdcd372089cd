------------------------- MODULE PinCommandsProofs -------------------------
(***************************************************************************)
(* Proofs about PinCommands, for every graph, any number of threads of     *)
(* each kind and of collectors, and any bounds: its types; and, when no    *)
(* "pin add --progress" is among the commands, that collectors spare the   *)
(* pins and that checked pins are whole; and, when no "pin rm" is either,  *)
(* or nobody collects, that the stored pin state can always be loaded and  *)
(* has every pin it owes.                                                  *)
(***************************************************************************)
EXTENDS PinCommands, GCProofs

Reading == {"bestEffort", "direct", "internal", "sweep", "delete"}

\* The types the proof needs
ShapeOK ==
  /\ DOMAIN phase = Collectors
  /\ DOMAIN marked = Collectors
  /\ DOMAIN gcRoots = Collectors
  /\ DOMAIN pc = Threads
  /\ DOMAIN call = Threads
  /\ \A t \in Threads : DOMAIN call[t] = {"at", "c", "recurse", "ok"}

\* Pins are added only under PinLock: by the second half of Pin, by PinWithMode
\* after the node was put, and by the next path of a list.
PinsUnderLock ==
  /\ \A t \in Threads : call[t].at \in {"fetching", "fetched"} => t \in readers
  /\ \A t \in Pinners : pc[t] \in {"added", "calling", "next"} => t \in readers
  /\ \A t \in PinRemovers : pc[t] # "added"

\* Collectors decide what to delete, and delete it, only under GCLock.
MarksUnderLock ==
  \A g \in Collectors : phase[g] \in Reading => gcAt[g] = "locked"

SafeInv == LockInv /\ ShapeOK /\ PinsUnderLock /\ MarksUnderLock /\ MarksCoverPins

-----------------------------------------------------------------------------
(* Helpers.                                                                *)

\* While a collector holds the lock no command adds a pin.
LEMMA NoPinAdded ==
  ASSUME SafeInv, NEW t \in Threads, Command(t), readers = {}
  PROVE  recursePin' \subseteq recursePin /\ directPin' \subseteq directPin
  <1> USE DEF pinVars, pinnerVars, storeVars
  <1>1. CASE TakePinLock(t)
    BY <1>1, Zenon DEF TakePinLock
  <1>2. ASSUME NEW c, NEW r, t \in PinAdders, PinAdd(t, c, r) PROVE FALSE
    BY <1>2, CommandsAssumption, Zenon DEF PinAdd, At, SafeInv, PinsUnderLock
  <1>3. ASSUME NEW c, NEW r, PinRm(t, c, r)
        PROVE  recursePin' \subseteq recursePin /\ directPin' \subseteq directPin
    BY <1>3, Zenon DEF PinRm, Unpin
  <1>4. ASSUME NEW from, NEW to, NEW u, PinUpdate(t, from, to, u) PROVE FALSE
    BY <1>4, Zenon DEF PinUpdate
  <1>5. ASSUME NEW c, PutNode(t, c) PROVE FALSE
    BY <1>5, Zenon DEF PutNode
  <1>6. CASE PutPin(t)
    BY <1>6, CommandsAssumption, Zenon DEF PutPin, At, SafeInv, PinsUnderLock
  <1>7. CASE PinGoesOn(t)
    BY <1>7, Zenon DEF PinGoesOn, PinFetch, PinEnd, SafeInv, PinsUnderLock
  <1>8. CASE StartFlush(t) \/ Flushing(t)
    BY <1>8, Zenon DEF StartFlush, Flushing, FlushSets, FlushRoot, FlushKey
  <1>9. CASE CommandEnds(t)
    BY <1>9, Zenon DEF CommandEnds
  <1>10. CASE AbandonProgress(t) \/ NextPath(t) \/ PathFails(t)
    BY <1>10, Zenon DEF AbandonProgress, NextPath, PathFails
  <1> QED
    BY <1>1, <1>2, <1>3, <1>4, <1>5, <1>6, <1>7, <1>8, <1>9, <1>10, Zenon DEF Command

\* Commands leave the collectors alone.
LEMMA CommandFrame ==
  ASSUME NEW t \in Threads, Command(t)
  PROVE  UNCHANGED <<phase, marked, gcRoots, gcAt>>
  <1> USE DEF gcVars, lockVars
  <1>1. CASE TakePinLock(t)
    BY <1>1, Zenon DEF TakePinLock, PinLock
  <1>2. ASSUME NEW c, NEW r, PinAdd(t, c, r) \/ PinRm(t, c, r)
        PROVE  UNCHANGED <<phase, marked, gcRoots, gcAt>>
    BY <1>2, Zenon DEF PinAdd, PinRm
  <1>3. ASSUME NEW from, NEW to, NEW u, PinUpdate(t, from, to, u)
        PROVE  UNCHANGED <<phase, marked, gcRoots, gcAt>>
    BY <1>3, Zenon DEF PinUpdate
  <1>4. ASSUME NEW c, PutNode(t, c)
        PROVE  UNCHANGED <<phase, marked, gcRoots, gcAt>>
    BY <1>4, Zenon DEF PutNode
  <1>5. CASE \/ PutPin(t) \/ PinGoesOn(t) \/ StartFlush(t) \/ Flushing(t)
             \/ NextPath(t) \/ PathFails(t)
    BY <1>5, Zenon DEF PutPin, PinGoesOn, StartFlush, Flushing, NextPath, PathFails
  <1>6. CASE CommandEnds(t) \/ AbandonProgress(t)
    BY <1>6, Zenon DEF CommandEnds, AbandonProgress, PinUnlock
  <1> QED
    BY <1>1, <1>2, <1>3, <1>4, <1>5, <1>6, Zenon DEF Command

\* A command gives PinLock back only when its call of the pinner is over.
LEMMA CommandKeepsPinsUnderLock ==
  ASSUME SafeInv, NEW t \in Threads, Command(t), ProgressAdders = {}
  PROVE  ShapeOK' /\ PinsUnderLock'
  <1> USE DEF SafeInv, ShapeOK, PinsUnderLock, At, Step, CallAt, Idle, Returned, Return
  <1>0. UNCHANGED <<phase, marked, gcRoots, gcAt>>
    BY CommandFrame, Zenon
  <1>1. CASE TakePinLock(t)
    BY <1>0, CommandsAssumption, <1>1, Zenon DEF TakePinLock, PinLock, pinnerVars, Begin
  <1>2. ASSUME NEW c, NEW r, t \in PinAdders, PinAdd(t, c, r)
        PROVE  ShapeOK' /\ PinsUnderLock'
    BY <1>0, CommandsAssumption, <1>2 DEF PinAdd, PinBegin, lockVars
  <1>3. ASSUME NEW c, NEW r, t \in PinRemovers, PinRm(t, c, r)
        PROVE  ShapeOK' /\ PinsUnderLock'
    BY <1>0, CommandsAssumption, <1>3 DEF PinRm, Unpin, lockVars
  <1>4. ASSUME NEW from, NEW to, NEW u, t \in PinUpdaters, PinUpdate(t, from, to, u)
        PROVE  ShapeOK' /\ PinsUnderLock'
    BY <1>0, CommandsAssumption, <1>4, Zenon DEF PinUpdate, Update, lockVars
  <1>5. ASSUME NEW c, t \in PutPinners, PutNode(t, c)
        PROVE  ShapeOK' /\ PinsUnderLock'
    BY <1>0, CommandsAssumption, <1>5, Zenon DEF PutNode, lockVars
  <1>6. CASE PutPin(t)
    BY <1>0, CommandsAssumption, <1>6, Zenon DEF PutPin, PinWithMode, lockVars
  <1>7. CASE PinGoesOn(t)
    <2>1. CASE PinFetch(t)
      BY <1>0, CommandsAssumption, <1>7, <2>1, Zenon DEF PinGoesOn, PinFetch, lockVars, cmdVars
    <2>2. CASE PinEnd(t)
      BY <1>0, CommandsAssumption, <1>7, <2>2, Zenon DEF PinGoesOn, PinEnd, lockVars, cmdVars
    <2> QED BY <1>7, <2>1, <2>2, Zenon DEF PinGoesOn
  <1>8. CASE StartFlush(t)
    BY <1>0, CommandsAssumption, <1>8 DEF StartFlush, FlushSets, lockVars
  <1>9. CASE Flushing(t)
    BY <1>0, CommandsAssumption, <1>9 DEF Flushing, FlushRoot, FlushKey, lockVars, cmdVars
  <1>10. CASE CommandEnds(t)
    BY <1>0, CommandsAssumption, <1>10, Zenon DEF CommandEnds, PinUnlock, lockVars
  <1>11. CASE t \in PinAdders \cup PinRemovers /\ NextPath(t)
    BY <1>0, CommandsAssumption, <1>11, Zenon DEF NextPath, lockVars
  <1>12. CASE PathFails(t)
    BY <1>0, CommandsAssumption, <1>12, Zenon DEF PathFails, lockVars
  <1> QED
    BY <1>1, <1>2, <1>3, <1>4, <1>5, <1>6, <1>7, <1>8, <1>9, <1>10, <1>11, <1>12, Zenon
    DEF Command

\* The steps of the collectors leave the commands and the pins alone.
LEMMA CollectorLeaves ==
  ASSUME NEW g \in Collectors, Collector(g)
  PROVE  /\ CollectorStep(g)
         /\ UNCHANGED <<pc, node, pathsLeft, crashes, owed, unchecked>>
         /\ UNCHANGED <<recursePin, directPin, internalPin, plock, call, pinKey>>
         /\ UNCHANGED readers \/ Finish(g)
  <1>1. CollectorStep(g) /\ UNCHANGED <<pc, node, pathsLeft, crashes, owed, unchecked>>
    BY Zenon DEF Collector, CollectorStep, cmdVars, ghostVars
  <1> QED BY <1>1, CollectorFrame, Zenon DEF pinVars

-----------------------------------------------------------------------------
(* What a collector is going to spare.                                     *)

\* A collector's own step keeps its marks right: while it holds the lock it
\* reads each kind of pin before it goes on, and only adds marks.
LEMMA CollectorMarks ==
  ASSUME SafeInv, NEW g \in Collectors, Collector(g)
  PROVE  ShapeOK' /\ MarksUnderLock' /\ MarksCoverPins'
  <1> USE DEF SafeInv, LockInv, LockTypeOK, ShapeOK, MarksUnderLock, MarksCoverPins,
              Reading, Goto, Mark, Locked, Kept
  <1>0. UNCHANGED <<pc, call, recursePin, directPin>>
    BY CollectorLeaves, Zenon
  <1>1. CASE RmBlocks(g) \/ GarbageCollect(g)
    BY <1>0, <1>1 DEF RmBlocks, GarbageCollect, GCLock
  <1>2. CASE Locking(g)
    BY <1>0, <1>2, Zenon DEF Locking, gcVars, Announce, Acquire, GCLocked
  <1>3. CASE MarkRecursive(g)
    BY <1>0, <1>3 DEF MarkRecursive, lockVars
  <1>4. CASE MarkBestEffort(g)
    BY <1>0, <1>4, Zenon DEF MarkBestEffort, lockVars
  <1>5. CASE MarkDirect(g)
    BY <1>0, <1>5, Zenon DEF MarkDirect, lockVars
  <1>6. CASE MarkInternal(g)
    BY <1>0, <1>6 DEF MarkInternal, lockVars
  <1>7. CASE Sweep(g) \/ SweepEnd(g) \/ Cancel(g) \/ DeleteBlock(g)
    BY <1>0, <1>7, Zenon DEF Sweep, SweepEnd, Cancel, DeleteBlock, lockVars, gcVars
  <1>8. CASE FilterPinned(g)
    BY <1>0, <1>8, Zenon DEF FilterPinned, PinnedItself, lockVars
  <1>9. CASE Finish(g)
    BY <1>0, <1>9, Zenon DEF Finish, GCUnlock
  <1> QED
    BY <1>1, <1>2, <1>3, <1>4, <1>5, <1>6, <1>7, <1>8, <1>9, Zenon DEF Collector, Collecting

\* A command may take pins away beside a collector but adds none, so the
\* marks stay right.
LEMMA CommandMarks ==
  ASSUME SafeInv, NEW t \in Threads, Command(t)
  PROVE  MarksUnderLock' /\ MarksCoverPins'
  <1>1. UNCHANGED <<phase, marked, gcRoots, gcAt>>
    BY CommandFrame, Zenon
  <1>2. MarksUnderLock'
    BY <1>1, Zenon DEF SafeInv, MarksUnderLock
  <1>3. ASSUME NEW g \in Collectors, phase[g] \in Reading
        PROVE  /\ directPin' \subseteq directPin
               /\ BelowAll(recursePin)' \subseteq BelowAll(recursePin)
    <2>1. readers = {}
      BY <1>3, LockedAlone, Zenon DEF SafeInv, MarksUnderLock
    <2>2. recursePin' \subseteq recursePin /\ directPin' \subseteq directPin
      BY <2>1, NoPinAdded, Zenon
    <2> QED BY <2>2, BelowAllMonotone, Zenon DEF BelowAll
  <1>4. MarksCoverPins'
    BY <1>1, <1>3, Zenon DEF SafeInv, MarksCoverPins, Kept, Reading
  <1> QED BY <1>2, <1>4, Zenon

\* The commands and the collectors use the lock as GCLocker describes.
LEMMA LockUse ==
  ASSUME LockInv,
         \/ \E t \in Threads : Command(t)
         \/ \E g \in Collectors : Collector(g)
         \/ \E c \in Nodes : BlockPut(c)
  PROVE  [LockNext]_lockVars
  <1>1. ASSUME NEW t \in Threads, Command(t) PROVE [LockNext]_lockVars
    <2>1. CASE t \in Pinners /\ TakePinLock(t)
      BY <2>1, Zenon DEF TakePinLock, LockNext
    <2>2. CASE CommandEnds(t) \/ AbandonProgress(t)
      BY <2>2, Zenon DEF CommandEnds, AbandonProgress, LockNext, LockInv, LockTypeOK, PinUnlock
    <2>3. ASSUME ~(t \in Pinners /\ TakePinLock(t)), ~CommandEnds(t), ~AbandonProgress(t)
          PROVE  UNCHANGED lockVars
      BY <1>1, <2>3, Zenon DEF Command, PinAdd, PinRm, PinUpdate, PutNode, PutPin,
                        PinGoesOn, StartFlush, Flushing, NextPath, PathFails
    <2> QED BY <2>1, <2>2, <2>3, Zenon
  <1>2. ASSUME NEW g \in Collectors, Collector(g) PROVE [LockNext]_lockVars
    BY <1>2, CollectorLeaves, CollectorUsesLock, Zenon
  <1>3. ASSUME NEW c \in Nodes, BlockPut(c) PROVE [LockNext]_lockVars
    BY <1>3, Zenon DEF BlockPut
  <1> QED BY <1>1, <1>2, <1>3, Zenon

\* A crash gives every lock back.
LEMMA CrashFreesLock == CrashRestart => LockInv'
  <1>1. CrashRestart => LockInit'
    BY Zenon DEF CrashRestart, LockInit
  <1> QED BY <1>1, LockInvInit, PTL

-----------------------------------------------------------------------------
(* The inductive invariant and the theorems.                               *)

\* At the start everything pinned is stored.
LEMMA SafeInvInit == Init => SafeInv
  <1> SUFFICES ASSUME Init PROVE SafeInv
    BY Zenon
  <1>1. LockInv
    BY LockInvInit, Zenon DEF Init
  <1>2. ShapeOK /\ PinsUnderLock
    BY CommandsAssumption, Zenon
    DEF Init, PinnerInit, GCInit, CmdInit, ShapeOK, PinsUnderLock, Idle, CallAt
  <1>3. MarksUnderLock /\ MarksCoverPins
    BY Zenon DEF Init, GCInit, MarksUnderLock, MarksCoverPins, Reading
  <1> QED BY <1>1, <1>2, <1>3, Zenon DEF SafeInv

\* Every step keeps the use of the lock, and the marks of the collectors over the pins.
LEMMA SafeInvStep ==
  ASSUME ProgressAdders = {}
  PROVE  SafeInv /\ [Next]_vars => SafeInv'
  <1> SUFFICES ASSUME SafeInv, [Next]_vars PROVE SafeInv'
    BY Zenon
  <1>1. ASSUME NEW t \in Threads, Command(t) PROVE SafeInv'
    <2>1. LockInv'
      BY <1>1, LockUse, LockInvStep, Zenon DEF SafeInv
    <2> QED
      BY <1>1, <2>1, CommandMarks, CommandKeepsPinsUnderLock, Zenon DEF SafeInv
  <1>2. ASSUME NEW g \in Collectors, Collector(g) PROVE SafeInv'
    <2>1. LockInv'
      BY <1>2, LockUse, LockInvStep, Zenon DEF SafeInv
    <2>2. readers \subseteq readers' /\ UNCHANGED <<pc, call>>
      BY <1>2, CollectorLeaves, Zenon DEF Finish, GCUnlock
    <2>3. PinsUnderLock'
      BY <2>2, Zenon DEF SafeInv, PinsUnderLock
    <2> QED
      BY <1>2, <2>1, <2>3, CollectorMarks, Zenon DEF SafeInv
  <1>3. ASSUME NEW c \in Nodes, BlockPut(c) PROVE SafeInv'
    <2>1. LockInv'
      BY <1>3, LockUse, LockInvStep, Zenon DEF SafeInv
    <2>2. UNCHANGED <<lockVars, pinVars, call, gcVars, pc>>
      BY <1>3, Zenon DEF BlockPut, cmdVars
    <2> QED
      BY <2>1, <2>2, Zenon DEF SafeInv, ShapeOK, PinsUnderLock, MarksUnderLock, MarksCoverPins,
         Kept, BelowAll, lockVars, pinVars, gcVars
  <1>4. CASE CrashRestart
    <2>1. LockInv'
      BY <1>4, CrashFreesLock, Zenon
    <2>2. ShapeOK' /\ PinsUnderLock'
      BY <1>4, CommandsAssumption, Zenon
      DEF CrashRestart, Load, ShapeOK, PinsUnderLock, Idle, CallAt
    <2>3. MarksUnderLock' /\ MarksCoverPins'
      BY <1>4, Zenon DEF CrashRestart, MarksUnderLock, MarksCoverPins, Reading
    <2> QED BY <2>1, <2>2, <2>3, Zenon DEF SafeInv
  <1>5. CASE UNCHANGED vars
    <2>1. LockInv'
      BY <1>5, LockInvStep, Zenon DEF SafeInv, vars
    <2> QED
      BY <1>5, <2>1, Zenon DEF vars, SafeInv, ShapeOK, PinsUnderLock, MarksUnderLock, MarksCoverPins,
         Kept, BelowAll, lockVars, pinnerVars, pinVars, gcVars, cmdVars
  <1> QED BY <1>1, <1>2, <1>3, <1>4, <1>5, Zenon DEF Next

\* Commands only add blocks.
LEMMA CommandAddsBlocks ==
  ASSUME NEW t \in Threads, Command(t)
  PROVE  blocks \subseteq blocks'
  BY Zenon DEF Command, TakePinLock, PinAdd, PinBegin, PinRm, Unpin, PinUpdate, Update,
     PutNode, PutPin, PinWithMode, PinGoesOn, PinFetch, PinEnd, StartFlush, FlushSets,
     Flushing, FlushRoot, FlushKey, CommandEnds, AbandonProgress, NextPath, PathFails,
     pinnerVars, storeVars

\* A step that respects the invariant deletes no pinned block.
LEMMA NothingPinnedGoes ==
  SafeInv /\ [Next]_vars => [Kept \cap blocks \subseteq blocks']_vars
  <1> SUFFICES ASSUME SafeInv, Next PROVE Kept \cap blocks \subseteq blocks'
    BY Zenon
  <1>1. ASSUME NEW t \in Threads, Command(t) PROVE blocks \subseteq blocks'
    BY <1>1, CommandAddsBlocks, Zenon
  <1>2. ASSUME NEW g \in Collectors, Collector(g), ~Sweep(g), ~DeleteBlock(g)
        PROVE  blocks \subseteq blocks'
    BY <1>2, CollectorLeaves, CollectorAddsBlocks, Zenon
  <1>3. ASSUME NEW g \in Collectors, Sweep(g) PROVE Kept \cap blocks \subseteq blocks'
    <2>1. Kept \subseteq marked[g]
      BY <1>3, Zenon DEF Sweep, Locked, SafeInv, MarksCoverPins, Kept
    <2> QED BY <1>3, <2>1, Zenon DEF Sweep
  <1>4. ASSUME NEW g \in Collectors, DeleteBlock(g) PROVE Kept \cap blocks \subseteq blocks'
    BY <1>4, Zenon DEF DeleteBlock, Locked, SafeInv, MarksCoverPins
  <1>5. ASSUME NEW c \in Nodes, BlockPut(c) PROVE blocks \subseteq blocks'
    BY <1>5, Zenon DEF BlockPut
  <1>6. CASE CrashRestart
    BY <1>6, Zenon DEF CrashRestart, storeVars
  <1> QED BY <1>1, <1>2, <1>3, <1>4, <1>5, <1>6, Zenon DEF Next

\* The inductive invariant holds: pins are added only under PinLock, and what
\* a collector spares covers the pins from when it reads them until it unlocks.
THEOREM Safe ==
  ASSUME ProgressAdders = {}
  PROVE  Spec => []SafeInv
  BY SafeInvInit, SafeInvStep, PTL DEF Spec

\* What a collector (gc.GC or RmBlocks) is going to spare covers the pins,
\* while "pin rm" and every other command run beside it.
THEOREM CollectorsCoverPins ==
  ASSUME ProgressAdders = {}
  PROVE  Spec => []MarksCoverPins
  <1>1. SafeInv => MarksCoverPins
    BY Zenon DEF SafeInv
  <1> QED BY <1>1, Safe, PTL

\* No collector ever deletes a block that is pinned directly or lies below a
\* recursive pin, whatever the graph and however many commands, collectors,
\* crashes and failing writes there are.
THEOREM CollectorsSparePins ==
  ASSUME ProgressAdders = {}
  PROVE  Spec => PinnedNeverDeleted
  BY Safe, NothingPinnedGoes, PTL DEF Spec, PinnedNeverDeleted

-----------------------------------------------------------------------------
(* Types.                                                                  *)

\* A put command that is about to pin has a node to pin.
AddedHasNode == \A t \in Threads : pc[t] = "added" => node[t] \in Nodes

PinTypes == PinnerTypeOK /\ CmdTypeOK /\ AddedHasNode /\ CallHasNode

\* A command that goes to another step keeps the type of all.
LEMMA PcStep ==
  ASSUME pc \in [Threads -> Where], NEW t \in Threads, NEW next \in Where, Step(t, next)
  PROVE  /\ (pc \in [Threads -> Where])'
         /\ AddedHasNode /\ next # "added" /\ (\A s \in Threads \ {t} : node'[s] = node[s])
              => AddedHasNode'
  BY Zenon DEF Step, AddedHasNode

\* The steps of the commands keep the types of the pinner.
LEMMA CommandPinner ==
  ASSUME PinTypes, NEW t \in Threads, Command(t)
  PROVE  PinnerTypeOK' /\ CallHasNode'
  <1> USE DEF PinTypes, PinnerTypeOK, Return
  <1> USE GoodCalls, CallStep
  <1>t. Targets \subseteq Nodes
    BY CommandsAssumption, Zenon
  <1>1. CASE TakePinLock(t)
    BY <1>1, Zenon DEF TakePinLock, pinnerVars, storeVars, pinVars, CallHasNode
  <1>2. ASSUME NEW c \in Targets, NEW r \in BOOLEAN, PinAdd(t, c, r)
        PROVE  PinnerTypeOK' /\ CallHasNode'
    BY <1>2, <1>t, Zenon DEF PinAdd, PinBegin
  <1>3. ASSUME NEW c \in Targets, NEW r \in BOOLEAN, PinRm(t, c, r)
        PROVE  PinnerTypeOK' /\ CallHasNode'
    BY <1>3, <1>t, Zenon DEF PinRm, Unpin, storeVars
  <1>4. ASSUME NEW from \in Targets, NEW to \in Targets, NEW u \in BOOLEAN,
               PinUpdate(t, from, to, u)
        PROVE  PinnerTypeOK' /\ CallHasNode'
    BY <1>4, <1>t, BelowInNodes, Zenon DEF PinUpdate, Update
  <1>5. ASSUME NEW c \in Targets, PutNode(t, c)
        PROVE  PinnerTypeOK' /\ CallHasNode'
    BY <1>5, <1>t, Zenon DEF PutNode, pinVars, CallHasNode
  <1>6. CASE PutPin(t)
    BY <1>6, PinWithModeTypes, Zenon DEF PutPin, AddedHasNode, At, PinnerTypes
  <1>7. CASE PinFetch(t)
    <2>1. call[t].at = "fetching" /\ call[t].c \in Nodes /\ call[t].recurse \in BOOLEAN
      BY <1>7, Zenon DEF PinFetch, CallHasNode, Calls
    <2>2. PICK ok \in BOOLEAN :
            call' = [call EXCEPT ![t] = CallAt("fetched", call[t].c, call[t].recurse, ok)]
      BY <1>7, Zenon DEF PinFetch
    <2>3. GoodCall(CallAt("fetched", call[t].c, call[t].recurse, ok))
      BY <2>1, Zenon
    <2>4. Wanted(call[t].c, call[t].recurse) \subseteq Nodes
      BY <2>1, BelowInNodes, Zenon DEF Wanted
    <2>5. blocks' \subseteq Nodes
      BY <1>7, <2>4, Zenon DEF PinFetch
    <2> QED BY <1>7, <2>2, <2>3, <2>5, Zenon DEF PinFetch, pinVars
  <1>8. CASE PinEnd(t)
    BY <1>8, Zenon DEF PinEnd, CallHasNode, storeVars
  <1>9. CASE StartFlush(t) \/ Flushing(t)
    BY <1>9, FlushTypes, Zenon DEF StartFlush, Flushing, PinnerTypes
  <1>10. CASE CommandEnds(t) \/ NextPath(t) \/ PathFails(t)
    BY <1>10, Zenon DEF CommandEnds, NextPath, PathFails, storeVars, pinVars
  <1>11. CASE AbandonProgress(t)
    BY <1>11, Zenon DEF AbandonProgress, pinnerVars, storeVars, pinVars, CallHasNode
  <1> QED
    BY <1>1, <1>2, <1>3, <1>4, <1>5, <1>6, <1>7, <1>8, <1>9, <1>10, <1>11, Zenon
    DEF Command, PinGoesOn

\* The arithmetic of PathTaken.
LEMMA OneLess ==
  ASSUME NEW m \in Nat, NEW n \in 0 .. m, n > 0
  PROVE  n - 1 \in 0 .. m
  OBVIOUS

\* A command never takes more paths than it was given.
LEMMA PathTaken ==
  ASSUME pathsLeft \in [Threads -> 0 .. MaxPaths], NEW t \in Threads, TakePath(t)
  PROVE  (pathsLeft \in [Threads -> 0 .. MaxPaths])'
  <1>1. MaxPaths \in Nat
    BY CommandsAssumption, Zenon
  <1>2. pathsLeft[t] \in 0 .. MaxPaths /\ pathsLeft[t] > 0
    BY Zenon DEF TakePath
  <1>3. pathsLeft[t] - 1 \in 0 .. MaxPaths
    BY <1>1, <1>2, OneLess, Zenon
  <1> QED BY <1>3, Zenon DEF TakePath

\* The steps of the commands keep the types of the commands.
LEMMA CommandCmd ==
  ASSUME PinTypes, PinnerTypeOK', NEW t \in Threads, Command(t)
  PROVE  CmdTypeOK' /\ AddedHasNode'
  <1> USE DEF PinTypes, PinnerTypeOK, CmdTypeOK, At, Where, AddedHasNode
  <1> USE PcStep
  <1>t. Targets \subseteq Nodes
    BY CommandsAssumption, Zenon
  <1>1. CASE TakePinLock(t)
    BY <1>1, PathTaken, Zenon DEF TakePinLock, ghostVars, Begin
  <1>2. ASSUME NEW c \in Targets, NEW r \in BOOLEAN, PinAdd(t, c, r)
        PROVE  CmdTypeOK' /\ AddedHasNode'
    BY <1>2, Zenon DEF PinAdd, Checking
  <1>3. ASSUME NEW c \in Targets, NEW r \in BOOLEAN, PinRm(t, c, r)
        PROVE  CmdTypeOK' /\ AddedHasNode'
    BY <1>3, PathTaken, Zenon DEF PinRm, Checking, Begin
  <1>4. ASSUME NEW from \in Targets, NEW to \in Targets, NEW u \in BOOLEAN,
               PinUpdate(t, from, to, u)
        PROVE  CmdTypeOK' /\ AddedHasNode'
    BY <1>4, <1>t, Zenon DEF PinUpdate, Checking
  <1>5. ASSUME NEW c \in Targets, PutNode(t, c)
        PROVE  CmdTypeOK' /\ AddedHasNode'
    BY <1>5, <1>t, Zenon DEF PutNode, ghostVars, Step
  <1>6. CASE PutPin(t)
    BY <1>6, Zenon DEF PutPin, Checking
  <1>7. CASE PinGoesOn(t) \/ Flushing(t)
    BY <1>7, Zenon DEF PinGoesOn, Flushing, Checking, cmdVars
  <1>8. CASE StartFlush(t) \/ CommandEnds(t) \/ PathFails(t)
    BY <1>8, Zenon DEF StartFlush, CommandEnds, PathFails, ghostVars
  <1>9. CASE NextPath(t)
    BY <1>9, PathTaken, Zenon DEF NextPath, ghostVars
  <1>10. CASE AbandonProgress(t)
    BY <1>10, Zenon DEF AbandonProgress, cmdVars, ghostVars
  <1> QED
    BY <1>1, <1>2, <1>3, <1>4, <1>5, <1>6, <1>7, <1>8, <1>9, <1>10 DEF Command

TypesInv == LockInv /\ PinTypes /\ GCTypeOK

\* At the start everything has its type.
LEMMA TypesInit == Init => TypesInv
  <1> SUFFICES ASSUME Init PROVE TypesInv
    BY Zenon
  <1>1. LockInv
    BY LockInvInit, Zenon DEF Init
  <1>2. PinTypes
    BY CommandsAssumption, PinnerTypesInit
    DEF Init, PinnerTypes, PinTypes, CmdInit, CmdTypeOK, AddedHasNode, Where
  <1>3. GCTypeOK
    BY GCTypesInit, Zenon DEF Init
  <1> QED BY <1>1, <1>2, <1>3, Zenon DEF TypesInv

\* A restart keeps the types.
LEMMA CrashTypes ==
  ASSUME PinTypes, GCTypeOK, CrashRestart
  PROVE  PinTypes' /\ GCTypeOK'
  <1> USE DEF PinTypes, PinnerTypeOK, CrashRestart, storeVars
  <1>2. PinnerTypeOK' /\ CallHasNode'
    BY LoadTypes, Zenon DEF PinnerTypes
  <1>3. CmdTypeOK' /\ AddedHasNode'
    BY <1>2, CommandsAssumption DEF CmdTypeOK, AddedHasNode, Where
  <1>4. GCTypeOK'
    BY Zenon DEF GCTypeOK, Phases
  <1> QED BY <1>2, <1>3, <1>4, Zenon

\* Every step keeps the types.
LEMMA TypesStep == TypesInv /\ [Next]_vars => TypesInv'
  <1> SUFFICES ASSUME TypesInv, [Next]_vars PROVE TypesInv'
    BY Zenon
  <1> USE DEF TypesInv
  <1>1. ASSUME NEW t \in Threads, Command(t) PROVE TypesInv'
    <2>1. LockInv'
      BY <1>1, LockUse, LockInvStep, Zenon
    <2>2. UNCHANGED <<gcVars, filesRoot>>
      BY <1>1, Zenon DEF Command, TakePinLock, PinAdd, PinRm, PinUpdate, PutNode, PutPin, PinGoesOn,
                  StartFlush, Flushing, CommandEnds, NextPath, PathFails, AbandonProgress
    <2>3. GCTypeOK'
      BY <2>2, Zenon DEF GCTypeOK, gcVars
    <2> QED BY <1>1, <2>1, <2>3, CommandPinner, CommandCmd, Zenon DEF PinTypes
  <1>2. ASSUME NEW g \in Collectors, Collector(g) PROVE TypesInv'
    <2>1. LockInv'
      BY <1>2, LockUse, LockInvStep, Zenon
    <2>2. CmdTypeOK' /\ AddedHasNode' /\ CallHasNode'
      BY <1>2, CollectorLeaves, Zenon DEF PinTypes, CmdTypeOK, AddedHasNode, CallHasNode
    <2> QED BY <1>2, <2>1, <2>2, CollectorLeaves, CollectorTypes, Zenon DEF PinTypes
  <1>3. ASSUME NEW c \in Nodes, BlockPut(c) PROVE TypesInv'
    <2>1. LockInv'
      BY <1>3, LockUse, LockInvStep, Zenon
    <2> QED
      BY <1>3, <2>1, Zenon DEF BlockPut, PinTypes, PinnerTypeOK, CmdTypeOK, AddedHasNode, CallHasNode,
         GCTypeOK, pinVars, gcVars, cmdVars, ghostVars
  <1>4. CASE CrashRestart
    BY <1>4, CrashTypes, CrashFreesLock, Zenon
  <1>5. CASE UNCHANGED vars
    <2>1. LockInv'
      BY <1>5, LockInvStep, Zenon DEF vars
    <2> QED
      BY <1>5, <2>1, Zenon DEF vars, PinTypes, PinnerTypeOK, CmdTypeOK, AddedHasNode, CallHasNode,
         GCTypeOK, pinnerVars, storeVars, pinVars, gcVars, cmdVars, ghostVars
  <1> QED BY <1>1, <1>2, <1>3, <1>4, <1>5, Zenon DEF Next

\* Every reachable state of the lock, the pinner, the collectors and the pin
\* commands has its types, with "--progress" and every other command.
THEOREM Types == Spec => []TypeOK
  <1>1. TypesInv => TypeOK
    BY Zenon DEF TypesInv, LockInv, PinTypes, TypeOK
  <1> QED BY <1>1, TypesInit, TypesStep, PTL DEF Spec

-----------------------------------------------------------------------------
(* Checked pins are whole.                                                 *)

\* What a Pin call has fetched is still there when it adds the pin.
FetchedThere ==
  \A t \in Threads :
    call[t].at = "fetched" /\ call[t].ok => Wanted(call[t].c, call[t].recurse) \subseteq blocks

WholeInv == SafeInv /\ PinTypes /\ PinnedComplete /\ FetchedThere

\* Pins stay whole when blocks are added and every new pin is whole.
LEMMA WholeGrows ==
  ASSUME PinnedComplete, blocks \subseteq blocks',
         \A r \in recursePin' \ unchecked' : r \in recursePin \ unchecked \/ Below[r] \subseteq blocks',
         \A d \in directPin' \ unchecked' : d \in directPin \ unchecked \/ d \in blocks'
  PROVE  PinnedComplete'
  BY Zenon DEF PinnedComplete, BelowAll, Below

\* A pin that stays keeps its status.
LEMMA StatusKept ==
  ASSUME NEW X, Checking(X)
  PROVE  /\ \A r \in recursePin' \ unchecked' : r \notin unchecked \cup X
         /\ \A d \in directPin' \ unchecked' : d \notin unchecked \cup X
  BY Zenon DEF Checking

\* The steps of the commands keep the trees of the checked pins whole.
LEMMA CommandWhole ==
  ASSUME WholeInv, NEW t \in Threads, Command(t)
  PROVE  PinnedComplete'
  <1>0. PinnedComplete /\ blocks \subseteq blocks'
    BY CommandAddsBlocks, Zenon DEF WholeInv
  <1>1. CASE UNCHANGED <<recursePin, directPin, unchecked>>
    BY <1>0, <1>1, WholeGrows, Zenon
  <1>2. ASSUME NEW c, NEW r, PinAdd(t, c, r) \/ PinRm(t, c, r) PROVE PinnedComplete'
    <2>1. recursePin' \subseteq recursePin /\ directPin' \subseteq directPin /\ Checking({})
      BY <1>2, Zenon DEF PinAdd, PinBegin, PinRm, Unpin
    <2> QED BY <1>0, <2>1, StatusKept, WholeGrows, Zenon
  <1>3. ASSUME NEW from, NEW to, NEW u, PinUpdate(t, from, to, u) PROVE PinnedComplete'
    <2>1. /\ recursePin' \subseteq recursePin \cup {to}
          /\ UNCHANGED directPin
          /\ Checking(IF from \in unchecked THEN {to} ELSE {})
      BY <1>3, Zenon DEF PinUpdate, Update
    <2>2. \A r \in recursePin' \ unchecked' : r \notin unchecked
      BY <2>1, StatusKept, Zenon
    <2>3. \A d \in directPin' \ unchecked' : d \in directPin \ unchecked
      BY <2>1, StatusKept, Zenon
    <2>4. ASSUME to \in recursePin' \ unchecked', to \notin recursePin
          PROVE  Below[to] \subseteq blocks'
      <3>1. from \notin unchecked
        BY <2>1, <2>4, StatusKept, Zenon
      <3>2. from \in recursePin /\ Below[to] \ Below[from] \subseteq blocks'
        BY <1>3, <2>4, Zenon DEF PinUpdate, Update
      <3>3. Below[from] \subseteq blocks
        BY <1>0, <3>1, <3>2, Zenon DEF PinnedComplete, BelowAll
      <3> QED BY <1>0, <3>2, <3>3, Zenon
    <2> QED BY <1>0, <2>1, <2>2, <2>3, <2>4, WholeGrows, Zenon
  <1>4. CASE PutPin(t)
    <2>1. /\ recursePin' = recursePin \cup {node[t]}
          /\ UNCHANGED directPin
          /\ Checking({node[t]} \ recursePin)
      BY <1>4, Zenon DEF PutPin, PinWithMode
    <2>2. \A r \in recursePin' \ unchecked' : r \in recursePin \ unchecked
      BY <2>1, StatusKept, Zenon
    <2>3. \A d \in directPin' \ unchecked' : d \in directPin \ unchecked
      BY <2>1, StatusKept, Zenon
    <2> QED BY <1>0, <2>2, <2>3, WholeGrows, Zenon
  <1>5. CASE PinGoesOn(t)
    <2>1. Checking({})
      BY <1>5, Zenon DEF PinGoesOn
    <2>2. CASE PinFetch(t)
      BY <1>0, <2>1, <2>2, StatusKept, WholeGrows, Zenon DEF PinFetch, pinVars
    <2>3. CASE PinEnd(t)
      <3>1. call[t].ok => Wanted(call[t].c, call[t].recurse) \subseteq blocks'
        BY <1>0, <2>3, Zenon DEF PinEnd, WholeInv, FetchedThere
      <3>2. \A r \in recursePin' : r \in recursePin \/ Below[r] \subseteq blocks'
        BY <2>3, <3>1, Zenon DEF PinEnd, Wanted
      <3>3. \A d \in directPin' : d \in directPin \/ d \in blocks'
        BY <2>3, <3>1, Zenon DEF PinEnd, Wanted
      <3> QED BY <1>0, <2>1, <3>2, <3>3, StatusKept, WholeGrows, Zenon
    <2> QED BY <1>5, <2>2, <2>3, Zenon DEF PinGoesOn
  <1> QED
    BY <1>1, <1>2, <1>3, <1>4, <1>5, Zenon
    DEF Command, TakePinLock, PutNode, NextPath, PathFails, StartFlush, FlushSets, Flushing,
        FlushRoot, FlushKey, CommandEnds, AbandonProgress, pinnerVars, pinVars, ghostVars

\* A call gets to "fetched" by PinFetch only.
CallGoesOn(t) ==
  \A s \in Threads : \/ call'[s] = call[s]
                     \/ s = t /\ (PinFetch(t) \/ call'[s].at # "fetched")

\* Which calls of the pinner a step can change.
LEMMA CallChanges ==
  ASSUME ShapeOK, NEW t \in Threads, Command(t)
  PROVE  CallGoesOn(t)
  <1> USE DEF CallGoesOn, ShapeOK, Return
  <1>1. Idle.at # "fetched" /\ \A ok : Returned(ok).at # "fetched"
    BY Zenon DEF Idle, Returned, CallAt
  <1>2. \A c, r, b : /\ CallAt("fetching", c, r, b).at # "fetched"
                    /\ CallAt("flushRoot", c, r, b).at # "fetched"
    BY Zenon DEF CallAt
  <1>3. ASSUME NEW c, NEW r, PinAdd(t, c, r) \/ PinRm(t, c, r) PROVE CallGoesOn(t)
    <2>1. CASE PinRm(t, c, r)
      BY <1>1, <2>1, Zenon DEF PinRm, Unpin
    <2>2. CASE PinAdd(t, c, r)
      <3>1. CASE \E ok : Return(t, ok)
        BY <1>1, <3>1, Zenon
      <3>2. CASE call' = [call EXCEPT ![t] = CallAt("fetching", c, r, FALSE)]
        BY <1>2, <3>2, Zenon
      <3> QED BY <2>2, <3>1, <3>2, Zenon DEF PinAdd, PinBegin
    <2> QED BY <1>3, <2>1, <2>2, Zenon
  <1>4. ASSUME NEW from, NEW to, NEW u, PinUpdate(t, from, to, u) PROVE CallGoesOn(t)
    BY <1>1, <1>4, Zenon DEF PinUpdate, Update
  <1>5. CASE PutPin(t) \/ PinEnd(t) \/ StartFlush(t) \/ FlushKey(t)
    <2>1. CASE \E ok : Return(t, ok)
      BY <1>1, <2>1, Zenon
    <2>2. CASE call' = [call EXCEPT ![t] = CallAt("flushRoot", None, FALSE, FALSE)]
      BY <1>2, <2>2, Zenon
    <2> QED
      BY <1>5, <2>1, <2>2, Zenon DEF PutPin, PinWithMode, PinEnd, StartFlush, FlushSets, FlushKey
  <1>6. CASE CommandEnds(t) \/ NextPath(t) \/ PathFails(t)
    BY <1>1, <1>6, Zenon DEF CommandEnds, NextPath, PathFails
  <1>7. CASE FlushRoot(t)
    <2>1. CASE Return(t, FALSE)
      BY <1>1, <2>1, Zenon
    <2>2. CASE call' = [call EXCEPT ![t].at = "flushKey"]
      BY <2>2, Zenon
    <2> QED BY <1>7, <2>1, <2>2, Zenon DEF FlushRoot
  <1>8. CASE PinFetch(t)
    BY <1>8, Zenon DEF PinFetch
  <1>9. CASE UNCHANGED call
    BY <1>9, Zenon
  <1> QED
    BY <1>3, <1>4, <1>5, <1>6, <1>7, <1>8, <1>9, Zenon
    DEF Command, TakePinLock, PutNode, PinGoesOn, Flushing, AbandonProgress, pinnerVars

\* What a command says it has fetched is there.
LEMMA CommandFetched ==
  ASSUME WholeInv, NEW t \in Threads, Command(t)
  PROVE  FetchedThere'
  <1>0. blocks \subseteq blocks'
    BY CommandAddsBlocks, Zenon
  <1>1. ASSUME NEW s \in Threads, call'[s].at = "fetched", call'[s].ok, call'[s] = call[s]
        PROVE  Wanted(call[s].c, call[s].recurse) \subseteq blocks'
    BY <1>0, <1>1, Zenon DEF WholeInv, FetchedThere
  <1>2. ASSUME NEW s \in Threads, call'[s] # call[s], call'[s].at = "fetched", call'[s].ok
        PROVE  Wanted(call'[s].c, call'[s].recurse) \subseteq blocks'
    <2>1. s = t /\ PinFetch(t)
      BY <1>2, CallChanges, Zenon DEF WholeInv, SafeInv, CallGoesOn
    <2> QED BY <1>2, <2>1 DEF PinFetch, CallAt
  <1> QED BY <1>1, <1>2, Zenon DEF FetchedThere, Wanted, Below

\* The steps of GC keep the trees of the checked pins whole.
LEMMA CollectorWhole ==
  ASSUME WholeInv, NEW g \in Collectors, Collector(g)
  PROVE  PinnedComplete' /\ FetchedThere'
  <1>1. UNCHANGED <<call, recursePin, directPin, unchecked>>
    BY CollectorLeaves, Zenon
  <1>2. PinnedComplete'
    <2>1. Kept \cap blocks \subseteq blocks' \/ UNCHANGED vars
      BY NothingPinnedGoes, Zenon DEF WholeInv, Next
    <2>2. Kept \cap blocks \subseteq blocks'
      BY <2>1, Zenon DEF vars, pinnerVars, storeVars
    <2> QED BY <1>1, <2>2 DEF WholeInv, PinnedComplete, Kept, BelowAll
  <1>3. FetchedThere'
    <2>1. CASE Sweep(g) \/ DeleteBlock(g)
      <3>1. readers = {}
        BY <2>1, LockedAlone, Zenon DEF Sweep, DeleteBlock, Locked, WholeInv, SafeInv
      <3>2. \A t \in Threads : call[t].at # "fetched"
        BY <3>1, Zenon DEF WholeInv, SafeInv, PinsUnderLock
      <3> QED BY <1>1, <3>2, Zenon DEF FetchedThere
    <2>2. CASE ~Sweep(g) /\ ~DeleteBlock(g)
      BY <1>1, <2>2, CollectorLeaves, CollectorAddsBlocks, Zenon DEF WholeInv, FetchedThere, Wanted
    <2> QED BY <2>1, <2>2, Zenon
  <1> QED BY <1>2, <1>3, Zenon

\* A restart brings checked pins back as checked only if memory had them so.
LEMMA CrashWhole ==
  ASSUME WholeInv, CrashRestart
  PROVE  PinnedComplete' /\ FetchedThere'
  <1>1. PinnedComplete /\ blocks' = blocks
    BY Zenon DEF WholeInv, CrashRestart, storeVars
  <1>2. \A r \in recursePin' \ unchecked' : r \in recursePin \ unchecked
    BY Zenon DEF CrashRestart
  <1>3. \A d \in directPin' \ unchecked' : d \in (directPin \cup recursePin) \ unchecked
    BY Zenon DEF CrashRestart
  <1>4. \A d \in recursePin \ unchecked : d \in blocks
    BY <1>1, BelowInNodes, Zenon DEF WholeInv, PinTypes, PinnerTypeOK, PinnedComplete, BelowAll
  <1>5. PinnedComplete'
    BY <1>1, <1>2, <1>3, <1>4, WholeGrows, Zenon
  <1>6. FetchedThere'
    BY Zenon DEF CrashRestart, Load, FetchedThere, Idle, CallAt
  <1> QED BY <1>5, <1>6, Zenon

\* Every step keeps them whole.
LEMMA WholeStep ==
  ASSUME ProgressAdders = {}
  PROVE  WholeInv /\ TypesInv /\ [Next]_vars => WholeInv'
  <1> SUFFICES ASSUME WholeInv, TypesInv, [Next]_vars PROVE PinnedComplete' /\ FetchedThere'
    BY SafeInvStep, TypesStep, Zenon DEF WholeInv, TypesInv
  <1>1. ASSUME NEW c \in Nodes, BlockPut(c) PROVE PinnedComplete' /\ FetchedThere'
    <2>1. /\ blocks \subseteq blocks'
          /\ UNCHANGED <<recursePin, directPin, call, unchecked>>
      BY <1>1, Zenon DEF BlockPut, pinVars, ghostVars
    <2> QED BY <2>1, WholeGrows, Zenon DEF WholeInv, FetchedThere, Wanted
  <1>2. CASE UNCHANGED vars
    BY <1>2, Zenon DEF vars, pinnerVars, storeVars, pinVars, ghostVars, WholeInv, PinnedComplete,
                BelowAll, FetchedThere, Wanted
  <1> QED BY <1>1, <1>2, CommandWhole, CommandFetched, CollectorWhole, CrashWhole, Zenon DEF Next

\* Every pin that Pin or Update has checked is whole, and stays so while
\* collectors run, writes of the pin state fail and the node crashes and
\* restarts, for every graph and any number of commands.
THEOREM CheckedPinsWhole ==
  ASSUME ProgressAdders = {}
  PROVE  Spec => []PinnedComplete
  <1>1. Init => WholeInv
    <2> SUFFICES ASSUME Init PROVE PinnedComplete /\ FetchedThere
      BY SafeInvInit, TypesInit, Zenon DEF WholeInv, TypesInv
    <2> QED BY Zenon DEF Init, PinnerInit, PinnedComplete, BelowAll, FetchedThere, Idle, CallAt
  <1>2. WholeInv => PinnedComplete
    BY Zenon DEF WholeInv
  <1> QED BY <1>1, <1>2, WholeStep, TypesInit, TypesStep, PTL DEF Spec

-----------------------------------------------------------------------------
(* The stored pin state.                                                   *)

StoredPinSet == IF pinKey = None THEN {} ELSE pinKey.direct \cup pinKey.recursive

\* The committed state is there, internalPin names exactly its blocks, and it
\* has every pin it owes.
StoredOK ==
  /\ internalPin = IF pinKey = None THEN {} ELSE InternalSet(pinKey)
  /\ internalPin \subseteq pinBlocks
  /\ owed \subseteq StoredPinSet
  /\ PinsNotLost

\* A Flush holds the pinner's lock, and what it has written is there.
FlushOK ==
  \A t \in Threads : call[t].at \in {"flushRoot", "flushKey"} =>
     /\ plock = t
     /\ {SetNode(directPin), SetNode(recursePin)} \subseteq pinBlocks
     /\ call[t].at = "flushKey" => {EmptyNode, RootNode(directPin, recursePin)} \subseteq pinBlocks

\* It holds PinLock too, unless it belongs to "pin rm" or to "pin add --progress".
FlushLocked ==
  \A t \in Threads : call[t].at \in {"flushRoot", "flushKey"} => t \in readers

\* What a collector is going to delete is not part of the state.
StateSpared ==
  \A g \in Collectors :
    /\ phase[g] = "sweep" => internalPin \subseteq pinMarked[g]
    /\ phase[g] = "delete" => gcRoots[g] \cap internalPin = {}

StateInv == SafeInv /\ TypesInv /\ StoredOK /\ FlushOK /\ FlushLocked /\ StateSpared

\* The types contain what SafeInv says of them.
LEMMA TypesShape == TypesInv => ShapeOK
  <1> SUFFICES ASSUME TypesInv PROVE ShapeOK
    BY Zenon
  <1>1. /\ DOMAIN phase = Collectors /\ DOMAIN marked = Collectors /\ DOMAIN gcRoots = Collectors
        /\ DOMAIN pc = Threads /\ DOMAIN call = Threads
    BY Zenon DEF TypesInv, GCTypeOK, PinTypes, CmdTypeOK, PinnerTypeOK
  <1>2. ASSUME NEW t \in Threads PROVE DOMAIN call[t] = {"at", "c", "recurse", "ok"}
    <2>1. call[t] \in Calls
      BY Zenon DEF TypesInv, PinTypes, PinnerTypeOK
    <2> QED BY <2>1 DEF Calls
  <1> QED BY <1>1, <1>2, Zenon DEF ShapeOK

\* A step outside Flush: it writes no pin state, and changes pins only when
\* nobody flushes.
Quiet(t) ==
  /\ UNCHANGED <<pinBlocks, pinKey, internalPin, plock>>
  /\ plock = None \/ UNCHANGED <<recursePin, directPin>>
  /\ \A s \in Threads : call'[s].at \in {"flushRoot", "flushKey"} => call'[s] = call[s]
  /\ owed' \subseteq owed
  /\ owed' \subseteq directPin' \cup recursePin'

\* A step that leaves the pins and the flushes alone keeps the stored state.
LEMMA QuietKeepsState ==
  ASSUME StoredOK, FlushOK, NEW t, Quiet(t)
  PROVE  StoredOK' /\ FlushOK'
  <1>1. StoredOK'
    BY Zenon DEF StoredOK, Quiet, StoredPinSet, PinsNotLost, InternalSet, StateNodes
  <1>2. FlushOK'
    <2> SUFFICES ASSUME NEW s \in Threads, call'[s].at \in {"flushRoot", "flushKey"}
                 PROVE  /\ plock' = s
                        /\ {SetNode(directPin'), SetNode(recursePin')} \subseteq pinBlocks'
                        /\ call'[s].at = "flushKey"
                             => {EmptyNode, RootNode(directPin', recursePin')} \subseteq pinBlocks'
      BY Zenon DEF FlushOK, SetNode, RootNode
    <2>1. call'[s] = call[s] /\ plock = s /\ s # None
      BY PinnerAssumption, Zenon DEF Quiet, FlushOK
    <2> QED BY <2>1, Zenon DEF Quiet, FlushOK
  <1> QED BY <1>1, <1>2, Zenon

\* Where the calls of the pinner are.
LEMMA CallFields ==
  /\ Idle.at = "idle"
  /\ \A ok : Returned(ok).at = "returned"
  /\ \A where, c, r, ok : CallAt(where, c, r, ok).at = where
  BY Zenon DEF Idle, Returned, CallAt

\* A call outside Flush changes no flush that is under way.
LEMMA CallOutsideFlush ==
  ASSUME ShapeOK, NEW t \in Threads, NEW x, x.at \notin {"flushRoot", "flushKey"},
         call' = [call EXCEPT ![t] = x]
  PROVE  \A s \in Threads : call'[s].at \in {"flushRoot", "flushKey"} => call'[s] = call[s]
  BY Zenon DEF ShapeOK

\* All steps but those of Flush are such steps.
LEMMA QuietSteps ==
  ASSUME TypesInv, StoredOK, NEW t \in Threads, Command(t), ~StartFlush(t), ~Flushing(t)
  PROVE  Quiet(t)
  <1>0. ShapeOK /\ owed \subseteq directPin \cup recursePin
    BY TypesShape, Zenon DEF StoredOK, PinsNotLost
  <1> DEFINE CallStays ==
        \A s \in Threads : call'[s].at \in {"flushRoot", "flushKey"} => call'[s] = call[s]
  <1>f. \/ UNCHANGED call
        \/ \E ok : Return(t, ok)
        \/ call' = [call EXCEPT ![t] = Idle]
        \/ \E c, r, ok : call' = [call EXCEPT ![t] = CallAt("fetching", c, r, ok)]
        \/ \E c, r, ok : call' = [call EXCEPT ![t] = CallAt("fetched", c, r, ok)]
        => CallStays
    <2>1. ASSUME NEW ok, Return(t, ok) PROVE CallStays
      <3>1. Returned(ok).at \notin {"flushRoot", "flushKey"}
        BY CallFields, Zenon
      <3> QED BY <1>0, <2>1, <3>1, CallOutsideFlush, Zenon DEF Return
    <2>2. CASE call' = [call EXCEPT ![t] = Idle]
      <3>1. Idle.at \notin {"flushRoot", "flushKey"}
        BY CallFields, Zenon
      <3> QED BY <1>0, <2>2, <3>1, CallOutsideFlush, Zenon
    <2>3. ASSUME NEW c, NEW r, NEW ok, NEW where \in {"fetching", "fetched"},
                 call' = [call EXCEPT ![t] = CallAt(where, c, r, ok)]
          PROVE  CallStays
      <3>1. CallAt(where, c, r, ok).at \notin {"flushRoot", "flushKey"}
        BY CallFields, Zenon
      <3> QED BY <1>0, <2>3, <3>1, CallOutsideFlush, Zenon
    <2>4. UNCHANGED call => CallStays
      BY Zenon
    <2> HIDE DEF CallStays
    <2>5. ASSUME NEW c, NEW r, NEW ok,
                 \/ call' = [call EXCEPT ![t] = CallAt("fetching", c, r, ok)]
                 \/ call' = [call EXCEPT ![t] = CallAt("fetched", c, r, ok)]
          PROVE  CallStays
      BY <2>3, <2>5, Zenon
    <2> QED BY <2>1, <2>2, <2>4, <2>5, Zenon
  <1> HIDE DEF CallStays
  <1>1. CASE TakePinLock(t)
    <2>1. UNCHANGED <<pinnerVars, ghostVars>>
      BY <1>1, Zenon DEF TakePinLock
    <2> QED BY <1>0, <1>f, <2>1, Zenon DEF Quiet, CallStays, pinnerVars, storeVars, pinVars, ghostVars
  <1>2. ASSUME NEW c, NEW r, PinAdd(t, c, r) PROVE Quiet(t)
    <2>1. /\ UNCHANGED <<pinBlocks, pinKey, recursePin, internalPin, plock>>
          /\ plock = None /\ owed' = owed \ (directPin \ directPin')
      BY <1>2, Zenon DEF PinAdd, PinBegin
    <2>2. \/ \E ok : Return(t, ok)
          \/ \E d, s, ok : call' = [call EXCEPT ![t] = CallAt("fetching", d, s, ok)]
      BY <1>2, Zenon DEF PinAdd, PinBegin
    <2>3. CallStays
      BY <1>f, <2>2, Zenon
    <2>4. owed' \subseteq owed /\ owed' \subseteq directPin' \cup recursePin'
      BY <1>0, <2>1, Zenon
    <2> QED BY <2>1, <2>3, <2>4, Zenon DEF Quiet, CallStays
  <1>3. ASSUME NEW from, NEW to, NEW u, PinUpdate(t, from, to, u) PROVE Quiet(t)
    <2>1. /\ UNCHANGED <<pinBlocks, pinKey, directPin, internalPin, plock>>
          /\ plock = None /\ owed' = owed \ (recursePin \ recursePin')
      BY <1>3, Zenon DEF PinUpdate, Update
    <2>2. \E ok : Return(t, ok)
      BY <1>3, Zenon DEF PinUpdate, Update
    <2>3. CallStays
      BY <1>f, <2>2, Zenon
    <2>4. owed' \subseteq owed /\ owed' \subseteq directPin' \cup recursePin'
      BY <1>0, <2>1, Zenon
    <2> QED BY <2>1, <2>3, <2>4, Zenon DEF Quiet, CallStays
  <1>4. ASSUME NEW c, PutNode(t, c) PROVE Quiet(t)
    <2>1. UNCHANGED <<pinBlocks, pinKey, pinVars, plock, call, ghostVars>>
      BY <1>4, Zenon DEF PutNode
    <2> QED BY <1>0, <1>f, <2>1, Zenon DEF Quiet, CallStays, pinVars, ghostVars
  <1>5. CASE PutPin(t)
    <2>1. /\ UNCHANGED <<storeVars, directPin, internalPin, plock, owed>>
          /\ plock = None /\ recursePin \subseteq recursePin' /\ Return(t, TRUE)
      BY <1>5, Zenon DEF PutPin, PinWithMode
    <2>2. CallStays
      BY <1>f, <2>1, Zenon
    <2>3. owed' \subseteq directPin' \cup recursePin'
      BY <1>0, <2>1, Zenon
    <2> QED BY <2>1, <2>2, <2>3, Zenon DEF Quiet, CallStays, storeVars
  <1>6. CASE PinGoesOn(t)
    <2>1. /\ UNCHANGED <<pinBlocks, pinKey, internalPin, plock>>
          /\ plock = None \/ UNCHANGED <<recursePin, directPin>>
          /\ recursePin \subseteq recursePin'
          /\ owed' = owed \ (directPin \ (directPin' \cup recursePin'))
      BY <1>6, Zenon DEF PinGoesOn, PinFetch, PinEnd, storeVars, pinVars
    <2>2. \/ \E ok : Return(t, ok)
          \/ \E d, s, ok : call' = [call EXCEPT ![t] = CallAt("fetched", d, s, ok)]
      BY <1>6, Zenon DEF PinGoesOn, PinFetch, PinEnd
    <2>3. CallStays
      BY <1>f, <2>2, Zenon
    <2>4. owed' \subseteq owed /\ owed' \subseteq directPin' \cup recursePin'
      BY <1>0, <2>1, Zenon
    <2> QED BY <2>1, <2>3, <2>4, Zenon DEF Quiet, CallStays
  <1>7. CASE CommandEnds(t)
    <2>1. /\ UNCHANGED <<storeVars, pinVars, plock, ghostVars>>
          /\ call' = [call EXCEPT ![t] = Idle]
      BY <1>7, Zenon DEF CommandEnds
    <2>2. CallStays
      BY <1>f, <2>1, Zenon
    <2> QED BY <1>0, <2>1, <2>2, Zenon DEF Quiet, CallStays, storeVars, pinVars, ghostVars
  <1>8. CASE NextPath(t) \/ PathFails(t)
    <2>1. /\ UNCHANGED <<storeVars, pinVars, plock, ghostVars>>
          /\ call' = [call EXCEPT ![t] = Idle] \/ Return(t, FALSE)
      BY <1>8, Zenon DEF NextPath, PathFails
    <2>2. CallStays
      BY <1>f, <2>1, Zenon
    <2> QED BY <1>0, <2>1, <2>2, Zenon DEF Quiet, CallStays, storeVars, pinVars, ghostVars
  <1>9. ASSUME NEW c, NEW r, PinRm(t, c, r) PROVE Quiet(t)
    <2>1. /\ UNCHANGED <<storeVars, internalPin, plock>>
          /\ plock = None
          /\ owed' = owed \ ((recursePin \ recursePin') \cup (directPin \ directPin'))
      BY <1>9, Zenon DEF PinRm, Unpin
    <2>2. \E ok : Return(t, ok)
      BY <1>9, Zenon DEF PinRm, Unpin
    <2>3. CallStays
      BY <1>f, <2>2, Zenon
    <2>4. owed' \subseteq owed /\ owed' \subseteq directPin' \cup recursePin'
      BY <1>0, <2>1, Zenon
    <2> QED BY <2>1, <2>3, <2>4, Zenon DEF Quiet, CallStays, storeVars
  <1>10. CASE AbandonProgress(t)
    <2>1. UNCHANGED <<pinnerVars, ghostVars>>
      BY <1>10, Zenon DEF AbandonProgress
    <2> QED BY <1>0, <1>f, <2>1, Zenon DEF Quiet, CallStays, pinnerVars, storeVars, pinVars, ghostVars
  <1> QED
    BY <1>1, <1>2, <1>3, <1>4, <1>5, <1>6, <1>7, <1>8, <1>9, <1>10, Zenon DEF Command

\* The steps of Flush
LEMMA FlushKeepsState ==
  ASSUME TypesInv, StoredOK, FlushOK, NEW t \in Threads, StartFlush(t) \/ Flushing(t)
  PROVE  StoredOK' /\ FlushOK'
  <1> USE DEF Return, Returned, CallAt
  <1>0. ShapeOK /\ StoredOK /\ FlushOK /\ RootNode(directPin, recursePin) # None
    <2>1. RootNode(directPin, recursePin) \in RootNodes
      BY Zenon DEF RootNode, RootNodes, TypesInv, PinTypes, PinnerTypeOK
    <2> QED BY <2>1, NoneIsNoRoot, TypesShape, Zenon
  <1>1. CASE StartFlush(t)
    <2>1. /\ plock = None /\ pinBlocks \subseteq pinBlocks'
          /\ UNCHANGED <<pinKey, recursePin, directPin, internalPin, owed>>
      BY <1>1, Zenon DEF StartFlush, FlushSets, pinVars, ghostVars
    <2>2. StoredOK'
      BY <1>0, <2>1, Zenon DEF StoredOK, StoredPinSet, PinsNotLost, InternalSet, StateNodes
    <2>4. \A s \in Threads : call[s].at \notin {"flushRoot", "flushKey"}
      BY <1>0, <2>1, PinnerAssumption, Zenon DEF FlushOK
    <2>5. CASE Return(t, FALSE)
      BY <1>0, <2>2, <2>4, <2>5, Zenon DEF FlushOK, ShapeOK
    <2>6. CASE /\ pinBlocks' = pinBlocks \cup {SetNode(directPin), SetNode(recursePin)}
               /\ plock' = t
               /\ call' = [call EXCEPT ![t] = CallAt("flushRoot", None, FALSE, FALSE)]
      BY <1>0, <2>1, <2>2, <2>4, <2>6, Zenon DEF FlushOK, ShapeOK, SetNode, RootNode
    <2> QED BY <1>1, <2>2, <2>5, <2>6, Zenon DEF StartFlush, FlushSets
  <1>2. CASE Flushing(t) /\ FlushRoot(t)
    <2>1. /\ pinBlocks \subseteq pinBlocks'
          /\ UNCHANGED <<pinKey, recursePin, directPin, internalPin>>
          /\ call[t].at = "flushRoot"
      BY <1>2, Zenon DEF Flushing, FlushRoot, pinVars
    <2>2. /\ plock = t
          /\ {SetNode(directPin), SetNode(recursePin)} \subseteq pinBlocks
          /\ \A s \in Threads \ {t} : call[s].at \notin {"flushRoot", "flushKey"}
      BY <1>0, <2>1, Zenon DEF FlushOK
    <2>3. CASE Return(t, FALSE)
      <3>1. UNCHANGED owed
        BY <1>0, <1>2, <2>3, Zenon DEF Flushing, ShapeOK
      <3> QED
        BY <1>0, <2>1, <2>2, <2>3, <3>1, Zenon
        DEF StoredOK, StoredPinSet, PinsNotLost, InternalSet, StateNodes, FlushOK, ShapeOK
    <2>4. CASE /\ pinBlocks' = pinBlocks \cup {EmptyNode, RootNode(directPin, recursePin)}
               /\ call' = [call EXCEPT ![t].at = "flushKey"]
               /\ UNCHANGED plock
      <3>1. UNCHANGED owed
        BY <1>0, <1>2, <2>4, Zenon DEF Flushing, ShapeOK
      <3>2. StoredOK'
        BY <1>0, <2>1, <3>1, Zenon DEF StoredOK, StoredPinSet, PinsNotLost, InternalSet, StateNodes
      <3>3. FlushOK'
        BY <1>0, <2>1, <2>2, <2>4, Zenon DEF FlushOK, ShapeOK, SetNode, RootNode
      <3> QED BY <3>2, <3>3, Zenon
    <2> QED BY <1>2, <2>3, <2>4, Zenon DEF FlushRoot
  <1>3. CASE Flushing(t) /\ FlushKey(t)
    <2>1. /\ UNCHANGED <<pinBlocks, recursePin, directPin>>
          /\ call[t].at = "flushKey"
          /\ call'[t].at = "returned" /\ \A s \in Threads \ {t} : call'[s] = call[s]
      <3>1. /\ UNCHANGED <<pinBlocks, recursePin, directPin>>
            /\ call[t].at = "flushKey" /\ \E ok : Return(t, ok)
        BY <1>3, Zenon DEF Flushing, FlushKey
      <3>2. PICK ok : call' = [call EXCEPT ![t] = Returned(ok)]
        BY <3>1, Zenon DEF Return
      <3>3. call'[t] = Returned(ok) /\ \A s \in Threads \ {t} : call'[s] = call[s]
        BY <1>0, <3>2, Zenon DEF ShapeOK
      <3> QED BY <3>1, <3>3, CallFields, Zenon
    <2>2. /\ {SetNode(directPin), SetNode(recursePin)} \subseteq pinBlocks
          /\ {EmptyNode, RootNode(directPin, recursePin)} \subseteq pinBlocks
          /\ \A s \in Threads \ {t} : call[s].at \notin {"flushRoot", "flushKey"}
      BY <1>0, <2>1, Zenon DEF FlushOK
    <2>3. FlushOK'
      BY <2>1, <2>2, Zenon DEF FlushOK
    <2>4. CASE Return(t, FALSE) /\ UNCHANGED <<pinKey, internalPin>>
      <3>1. UNCHANGED owed
        BY <1>0, <1>3, <2>4, Zenon DEF Flushing, ShapeOK
      <3> QED
        BY <1>0, <2>1, <2>3, <2>4, <3>1, Zenon
        DEF StoredOK, StoredPinSet, PinsNotLost, InternalSet, StateNodes
    <2>5. CASE /\ pinKey' = RootNode(directPin, recursePin)
               /\ internalPin' = InternalSet(RootNode(directPin, recursePin))
               /\ Return(t, TRUE)
      <3>1. owed' = directPin \cup recursePin
        BY <1>0, <1>3, <2>5, Zenon DEF Flushing, ShapeOK
      <3> QED
        BY <1>0, <2>1, <2>2, <2>3, <2>5, <3>1, Zenon
        DEF StoredOK, StoredPinSet, PinsNotLost, InternalSet, StateNodes, RootNode, SetNode
    <2> QED BY <1>3, <2>4, <2>5, Zenon DEF FlushKey
  <1> QED BY <1>1, <1>2, <1>3, Zenon DEF Flushing

\* Whatever the commands, the committed state stays complete as long as nobody
\* deletes: each Flush writes it in order and under the pinner's lock.
LEMMA CommandStored ==
  ASSUME TypesInv, StoredOK, FlushOK, NEW t \in Threads, Command(t)
  PROVE  StoredOK' /\ FlushOK'
  BY FlushKeepsState, QuietSteps, QuietKeepsState, Zenon

\* Without "pin rm" and "pin add --progress" a Flush keeps PinLock to its end.
LEMMA CommandFlushLocked ==
  ASSUME StateInv, NEW t \in Threads, Command(t), PinRemovers = {}, ProgressAdders = {}
  PROVE  FlushLocked'
  <1>0. ShapeOK /\ FlushLocked
    BY Zenon DEF StateInv, SafeInv
  <1>1. \A s \in readers : s \in readers' \/ (s = t /\ CommandEnds(t))
    <2>1. CASE CommandEnds(t)
      BY <2>1, Zenon DEF CommandEnds, PinUnlock, lockVars
    <2>2. CASE TakePinLock(t)
      BY <2>2, Zenon DEF TakePinLock, PinLock
    <2>3. CASE ~CommandEnds(t) /\ ~TakePinLock(t)
      <3>1. UNCHANGED lockVars
        BY <2>3, Zenon DEF Command, PinAdd, PinRm, PinUpdate, PutNode, PutPin, PinGoesOn, StartFlush,
                  Flushing, NextPath, PathFails
      <3> QED BY <3>1, Zenon DEF lockVars
    <2> QED BY <2>1, <2>2, <2>3, Zenon
  <1>2. CASE CommandEnds(t)
    <2>1. call' = [call EXCEPT ![t] = Idle] /\ Idle.at = "idle"
      BY <1>2, CallFields, Zenon DEF CommandEnds
    <2>2. call'[t].at = "idle" /\ \A s \in Threads \ {t} : call'[s] = call[s]
      BY <1>0, <2>1, Zenon DEF ShapeOK
    <2> QED BY <1>0, <1>1, <2>2, Zenon DEF FlushLocked
  <1>3. CASE StartFlush(t)
    <2>1. t \in readers
      BY <1>3, CommandsAssumption, Zenon DEF StartFlush, StateInv, SafeInv, PinsUnderLock, At
    <2>2. \A s \in Threads \ {t} : call'[s] = call[s]
      BY <1>0, <1>3, Zenon DEF StartFlush, FlushSets, Return, ShapeOK
    <2>3. UNCHANGED readers
      BY <1>3, Zenon DEF StartFlush, lockVars
    <2> QED BY <1>0, <2>1, <2>2, <2>3, Zenon DEF FlushLocked
  <1>4. CASE Flushing(t)
    <2>1. /\ call[t].at \in {"flushRoot", "flushKey"} /\ UNCHANGED readers
          /\ \A s \in Threads \ {t} : call'[s] = call[s]
      BY <1>0, <1>4, Zenon DEF Flushing, FlushRoot, FlushKey, Return, ShapeOK, lockVars
    <2> QED BY <1>0, <2>1, Zenon DEF FlushLocked
  <1>5. CASE ~StartFlush(t) /\ ~Flushing(t) /\ ~CommandEnds(t)
    <2>1. \A s \in Threads : call'[s].at \in {"flushRoot", "flushKey"} => call'[s] = call[s]
      BY <1>5, QuietSteps, Zenon DEF StateInv, Quiet
    <2> QED BY <1>0, <1>1, <1>5, <2>1, Zenon DEF FlushLocked
  <1> QED BY <1>2, <1>3, <1>4, <1>5, Zenon

\* What collectors may be deleting stays outside the state: they hold the
\* lock that a Flush needs.
LEMMA CommandSparesState ==
  ASSUME StateInv, NEW t \in Threads, Command(t), PinRemovers = {}, ProgressAdders = {}
  PROVE  StateSpared'
  <1>1. UNCHANGED <<phase, gcRoots, gcAt, pinMarked>>
    <2>1. UNCHANGED gcVars
      BY Zenon DEF Command, TakePinLock, PinAdd, PinRm, PinUpdate, PutNode, PutPin, PinGoesOn,
             StartFlush, Flushing, CommandEnds, NextPath, PathFails, AbandonProgress
    <2> QED BY <2>1, CommandFrame, Zenon DEF gcVars
  <1>2. CASE UNCHANGED internalPin
    BY <1>1, <1>2, Zenon DEF StateInv, StateSpared
  <1>3. CASE internalPin' # internalPin
    <2>1. Flushing(t) /\ FlushKey(t)
      <3>1. ~StartFlush(t)
        BY <1>3, Zenon DEF StartFlush, FlushSets, pinVars
      <3>2. Flushing(t)
        BY <1>3, <3>1, QuietSteps, Zenon DEF Quiet, StateInv
      <3> QED BY <1>3, <3>2, Zenon DEF Flushing, FlushRoot, pinVars
    <2>2. readers # {}
      BY <2>1, Zenon DEF FlushKey, StateInv, FlushLocked
    <2>3. \A g \in Collectors : gcAt[g] # "locked"
      BY <2>2, LockedAlone, Zenon DEF StateInv, SafeInv
    <2>4. \A g \in Collectors : phase[g] \notin Reading
      BY <2>3, Zenon DEF StateInv, SafeInv, MarksUnderLock
    <2> QED BY <1>1, <2>4, Zenon DEF StateSpared, Reading
  <1> QED BY <1>2, <1>3, Zenon

\* The steps of the commands keep the stored state loadable and complete.
LEMMA CommandState ==
  ASSUME StateInv, NEW t \in Threads, Command(t), PinRemovers = {}, ProgressAdders = {}
  PROVE  StoredOK' /\ FlushOK' /\ FlushLocked' /\ StateSpared'
  BY CommandStored, CommandFlushLocked, CommandSparesState, Zenon DEF StateInv

\* Collectors delete nothing of the state, and only Finish gives way to readers.
LEMMA CollectorState ==
  ASSUME StateInv, NEW g \in Collectors, Collector(g)
  PROVE  StoredOK' /\ FlushOK' /\ FlushLocked' /\ StateSpared'
  <1> USE DEF Goto
  <1>0. /\ StoredOK /\ FlushOK /\ FlushLocked /\ StateSpared
        /\ DOMAIN phase = Collectors /\ DOMAIN gcRoots = Collectors /\ DOMAIN pinMarked = Collectors
    BY Zenon DEF StateInv, SafeInv, ShapeOK, TypesInv, GCTypeOK
  <1>1. UNCHANGED <<pinKey, recursePin, directPin, internalPin, plock, call, owed>>
    BY CollectorLeaves, Zenon
  <1>2. readers \subseteq readers'
    BY CollectorLeaves, Zenon DEF Finish, GCUnlock
  <1>3. internalPin \subseteq pinBlocks'
    <2>1. CASE Sweep(g)
      BY <1>0, <2>1, Zenon DEF Sweep, Locked, StoredOK, StateSpared
    <2>2. CASE DeleteBlock(g)
      BY <1>0, <2>2, Zenon DEF DeleteBlock, Locked, StoredOK, StateSpared
    <2>3. CASE ~Sweep(g) /\ ~DeleteBlock(g)
      BY <1>0, <2>3, Zenon DEF Collector, RmBlocks, GarbageCollect, Collecting, Locking, MarkRecursive,
           MarkBestEffort, MarkDirect, MarkInternal, SweepEnd, Cancel, FilterPinned,
           Finish, pinnerVars, storeVars, StoredOK
    <2> QED BY <2>1, <2>2, <2>3, Zenon
  <1>4. StoredOK'
    BY <1>0, <1>1, <1>3, Zenon DEF StoredOK, StoredPinSet, PinsNotLost, InternalSet, StateNodes
  <1>5. FlushOK'
    <2>1. CASE Sweep(g) \/ DeleteBlock(g)
      <3>1. readers = {}
        BY <2>1, LockedAlone, Zenon DEF Sweep, DeleteBlock, Locked, StateInv, SafeInv
      <3> QED BY <1>0, <1>1, <3>1, Zenon DEF FlushOK, FlushLocked
    <2>2. CASE ~Sweep(g) /\ ~DeleteBlock(g)
      <3>1. UNCHANGED pinBlocks
        BY <2>2, Zenon DEF Collector, RmBlocks, GarbageCollect, Collecting, Locking, MarkRecursive,
           MarkBestEffort, MarkDirect, MarkInternal, SweepEnd, Cancel, FilterPinned,
           Finish, pinnerVars, storeVars
      <3> QED BY <1>0, <1>1, <3>1, Zenon DEF FlushOK, SetNode, RootNode
    <2> QED BY <2>1, <2>2, Zenon
  <1>l. FlushLocked'
    BY <1>0, <1>1, <1>2, Zenon DEF FlushLocked
  <1>6. StateSpared'
    <2>1. CASE MarkInternal(g)
      <3>1. CASE Goto(g, "done") /\ UNCHANGED pinMarked
        BY <1>0, <1>1, <2>1, <3>1, Zenon DEF MarkInternal, StateSpared
      <3>2. CASE pinMarked' = [pinMarked EXCEPT ![g] = internalPin] /\ Goto(g, "sweep")
        BY <1>0, <1>1, <2>1, <3>2, Zenon DEF MarkInternal, StateSpared
      <3> QED BY <2>1, <3>1, <3>2, Zenon DEF MarkInternal
    <2>2. CASE FilterPinned(g)
      <3>1. CASE Goto(g, "done")
        BY <1>0, <1>1, <2>2, <3>1, Zenon DEF FilterPinned, StateSpared
      <3>2. CASE Goto(g, "delete") /\ \A c \in gcRoots[g] : ~PinnedItself(c)
        BY <1>0, <1>1, <2>2, <3>2, Zenon DEF FilterPinned, PinnedItself, StateSpared
      <3> QED BY <2>2, <3>1, <3>2, Zenon DEF FilterPinned
    <2>3. CASE Sweep(g) \/ Locking(g)
      BY <1>0, <1>1, <2>3, Zenon DEF Sweep, Locking, gcVars, StateSpared
    <2>4. CASE MarkRecursive(g) \/ MarkBestEffort(g) \/ MarkDirect(g) \/ SweepEnd(g) \/ Cancel(g)
      <3>1. /\ \E next \in {"bestEffort", "direct", "internal", "done"} : Goto(g, next)
            /\ UNCHANGED <<gcRoots, pinMarked>>
        BY <2>4, Zenon DEF MarkRecursive, MarkBestEffort, MarkDirect, SweepEnd, Cancel
      <3> QED BY <1>0, <1>1, <3>1, Zenon DEF StateSpared
    <2>5. CASE DeleteBlock(g) \/ Finish(g) \/ RmBlocks(g) \/ GarbageCollect(g)
      <3>1. /\ \E next \in {"recursive", "check", "away", "done"} : Goto(g, next)
            /\ \A h \in Collectors \ {g} : gcRoots'[h] = gcRoots[h] /\ pinMarked'[h] = pinMarked[h]
        BY <1>0, <2>5, Zenon DEF DeleteBlock, Finish, RmBlocks, GarbageCollect
      <3> QED BY <1>0, <1>1, <3>1, Zenon DEF StateSpared
    <2> QED BY <2>1, <2>2, <2>3, <2>4, <2>5, Zenon DEF Collector, Collecting
  <1> QED BY <1>4, <1>5, <1>l, <1>6, Zenon

\* A restart reads exactly the committed state.
LEMMA CrashState ==
  ASSUME StoredOK, CrashRestart
  PROVE  StoredOK' /\ FlushOK' /\ FlushLocked' /\ StateSpared'
  <1>1. StoredOK /\ UNCHANGED <<pinBlocks, pinKey, owed>>
    BY Zenon DEF CrashRestart, storeVars
  <1>2. Loadable <=> pinKey # None
    BY <1>1, Zenon DEF StoredOK, Loadable, InternalSet
  <1>3. StoredOK'
    BY <1>1, <1>2, Zenon
    DEF StoredOK, StoredPinSet, PinsNotLost, CrashRestart, Load, InternalSet, StateNodes
  <1>4. FlushOK' /\ FlushLocked' /\ StateSpared'
    BY Zenon DEF CrashRestart, Load, FlushOK, FlushLocked, StateSpared, Idle, CallAt
  <1> QED BY <1>3, <1>4, Zenon

\* A block that is put and a step of nobody change nothing of it.
LEMMA OtherState ==
  ASSUME UNCHANGED vars \/ \E c \in Nodes : BlockPut(c)
  PROVE  /\ StoredOK => StoredOK'
         /\ FlushOK => FlushOK'
         /\ FlushLocked => FlushLocked'
         /\ StateSpared => StateSpared'
  BY Zenon DEF vars, BlockPut, pinnerVars, storeVars, pinVars, gcVars, lockVars, ghostVars,
     StoredOK, StoredPinSet, PinsNotLost, InternalSet, StateNodes, FlushOK, FlushLocked,
     StateSpared, SetNode, RootNode

\* At the start there is no pin state.
LEMMA StateInit == Init => StateInv
  <1> SUFFICES ASSUME Init PROVE StoredOK /\ FlushOK /\ FlushLocked /\ StateSpared
    BY SafeInvInit, TypesInit, Zenon DEF StateInv
  <1> QED
    BY Zenon DEF Init, PinnerInit, GCInit, StoredOK, StoredPinSet, PinsNotLost, FlushOK, FlushLocked,
           StateSpared, Idle, CallAt

\* Beside collectors every step keeps it when all Flushes run under PinLock.
LEMMA StateStep ==
  ASSUME ProgressAdders = {}, PinRemovers = {}
  PROVE  StateInv /\ [Next]_vars => StateInv'
  <1> SUFFICES ASSUME StateInv, [Next]_vars
               PROVE  StoredOK' /\ FlushOK' /\ FlushLocked' /\ StateSpared'
    BY SafeInvStep, TypesStep, Zenon DEF StateInv
  <1> QED BY OtherState, CommandState, CollectorState, CrashState, Zenon DEF Next, StateInv

-----------------------------------------------------------------------------
(* The stored pin state when nobody collects.                              *)

NoCollection == \A g \in Collectors : runsLeft[g] = 0 /\ phase[g] = "away" /\ gcAt[g] = "away"

QuietInv == TypesInv /\ StoredOK /\ FlushOK /\ NoCollection

\* A collector that may not run takes no step.
LEMMA NoCollectorRuns ==
  ASSUME NoCollection, NEW g \in Collectors, Collector(g)
  PROVE  FALSE
  <1>1. ~RmBlocks(g) /\ ~GarbageCollect(g)
    BY DEF RmBlocks, GarbageCollect, NoCollection
  <1>2. ~Collecting(g)
    BY DEF Collecting, Locking, Announce, Acquire, GCLocked, MarkRecursive, MarkBestEffort,
       MarkDirect, MarkInternal, Sweep, SweepEnd, Cancel, FilterPinned, DeleteBlock, Finish,
       Locked, NoCollection
  <1> QED BY <1>1, <1>2, Zenon DEF Collector

\* The other steps start none.
LEMMA NoCollectionStays ==
  ASSUME NoCollection, [Next]_vars
  PROVE  NoCollection'
  <1>1. ASSUME NEW t \in Threads, Command(t) PROVE NoCollection'
    <2>1. UNCHANGED gcVars
      BY <1>1, Zenon DEF Command, TakePinLock, PinAdd, PinRm, PinUpdate, PutNode, PutPin, PinGoesOn,
             StartFlush, Flushing, CommandEnds, NextPath, PathFails, AbandonProgress
    <2> QED BY <1>1, <2>1, CommandFrame, Zenon DEF gcVars, NoCollection
  <1>2. CASE CrashRestart
    BY <1>2, Zenon DEF CrashRestart, NoCollection
  <1>3. CASE UNCHANGED vars \/ \E c \in Nodes : BlockPut(c)
    BY <1>3, Zenon DEF vars, BlockPut, gcVars, lockVars, NoCollection
  <1> QED BY <1>1, <1>2, <1>3, NoCollectorRuns, Zenon DEF Next

\* Without collections every command and every crash keeps the stored state.
LEMMA QuietInvStep == QuietInv /\ [Next]_vars => QuietInv'
  <1> SUFFICES ASSUME QuietInv, [Next]_vars PROVE StoredOK' /\ FlushOK'
    BY TypesStep, NoCollectionStays, Zenon DEF QuietInv
  <1> QED
    BY OtherState, CommandStored, CrashState, NoCollectorRuns, Zenon DEF Next, QuietInv

\* In both cases the committed state is always complete and has what it owes.
LEMMA StateStored ==
  ASSUME (ProgressAdders = {} /\ PinRemovers = {}) \/ MaxCollections = 0
  PROVE  Spec => []StoredOK
  <1>1. CASE ProgressAdders = {} /\ PinRemovers = {}
    <2>1. StateInv => StoredOK
      BY Zenon DEF StateInv
    <2>2. StateInv /\ [Next]_vars => StateInv'
      BY <1>1, StateStep, Zenon
    <2> QED BY <2>1, <2>2, StateInit, PTL DEF Spec
  <1>2. CASE MaxCollections = 0
    <2>1. Init => QuietInv
      BY <1>2, StateInit, Zenon DEF StateInv, QuietInv, Init, GCInit, LockInit, NoCollection
    <2>2. QuietInv => StoredOK
      BY Zenon DEF QuietInv
    <2> QED BY <2>1, <2>2, QuietInvStep, PTL DEF Spec
  <1> QED BY <1>1, <1>2

\* The blocks of the last committed pin state are always there, whatever fails
\* and whenever the node crashes, so that the next start finds its pins: beside
\* collectors when every Flush runs under PinLock (no "pin rm", no
\* "--progress"), and with all the commands when nobody collects.
THEOREM StateAlwaysLoadable ==
  ASSUME (ProgressAdders = {} /\ PinRemovers = {}) \/ MaxCollections = 0
  PROVE  Spec => []PinStateLoadable
  <1>1. StoredOK => PinStateLoadable
    BY Zenon DEF StoredOK, PinStateLoadable, Loadable, InternalSet
  <1> QED BY <1>1, StateStored, PTL

\* Likewise a collection is never refused on account of the pinner's own nodes.
THEOREM StateAlwaysWalkable ==
  ASSUME (ProgressAdders = {} /\ PinRemovers = {}) \/ MaxCollections = 0
  PROVE  Spec => []PinStateWalkable
  <1>1. StoredOK => PinStateWalkable
    BY Zenon DEF StoredOK, PinStateWalkable
  <1> QED BY <1>1, StateStored, PTL

\* Likewise no pin that a Flush has written is lost, over any number of
\* crashes and restarts, although Flushes of several commands interleave and
\* are cut off.
THEOREM NoPinLost ==
  ASSUME (ProgressAdders = {} /\ PinRemovers = {}) \/ MaxCollections = 0
  PROVE  Spec => []PinsNotLost
  <1>1. StoredOK => PinsNotLost
    BY Zenon DEF StoredOK
  <1> QED BY <1>1, StateStored, PTL
=============================================================================
