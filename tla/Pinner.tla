------------------------------- MODULE Pinner -------------------------------
(***************************************************************************)
(* The pinner of pin/pin.go and the blocks it works on.                    *)
(*                                                                         *)
(* The blockstore is two variables, by what a block holds: "blocks" are    *)
(* the user's nodes, "pinBlocks" the nodes in which Flush writes the pin   *)
(* sets.  Those are content-addressed too: a set node is named by the cids *)
(* it holds (the 256-way buckets of pin/set.go are one node here), the     *)
(* root node by the two sets it links to.                                  *)
(*                                                                         *)
(* The goroutines that call the pinner are Threads.  p.lock is released    *)
(* while Pin fetches, and held for the whole of every other operation, so  *)
(* Pin is three actions and Flush, which writes several blocks that a      *)
(* sweep can see, is three actions under the lock.  The rest are one.      *)
(***************************************************************************)
EXTENDS MerkleDAG

CONSTANTS
  Threads,     \* goroutines that call the pinner
  EmptyNode,   \* the node without data and links, which pads every set node
  None,        \* no thread, no cid, no datastore value
  StorageFails \* whether a write of the pin state may fail

ASSUME PinnerAssumption ==
  /\ None \notin Threads \cup Nodes
  /\ StorageFails \in BOOLEAN

VARIABLES
  blocks,        \* the user's nodes in the blockstore
  pinBlocks,     \* the pinner's nodes in the blockstore
  pinKey,        \* the datastore's value under /local/pins
  recursePin,    \* pinner.recursePin
  directPin,     \* pinner.directPin
  internalPin,   \* pinner.internalPin
  plock,         \* the thread that holds pinner.lock between two steps
  call           \* what each thread is doing inside the pinner

storeVars == <<blocks, pinBlocks, pinKey>>
pinVars == <<recursePin, directPin, internalPin>>
pinnerVars == <<storeVars, pinVars, plock, call>>

-----------------------------------------------------------------------------
(* The pin state as blocks.                                                *)

SetNode(S) == [set |-> S]
RootNode(D, R) == [direct |-> D, recursive |-> R]
SetNodes == {SetNode(S) : S \in SUBSET Nodes}
RootNodes == [direct : SUBSET Nodes, recursive : SUBSET Nodes]

ASSUME NoneIsNoRoot == None \notin RootNodes

\* the nodes that hold the pins
StateNodes(root) == {root, SetNode(root.direct), SetNode(root.recursive)}

\* the nodes that storeSet and loadSet record: every set node links to the
\* empty node
InternalSet(root) == StateNodes(root) \cup {EmptyNode}

\* LoadPinner finds the key, the root and both sets; it skips the empty node
Loadable == pinKey # None /\ StateNodes(pinKey) \subseteq pinBlocks

-----------------------------------------------------------------------------
(* Calls.                                                                  *)

CallAt(where, c, recurse, ok) == [at |-> where, c |-> c, recurse |-> recurse, ok |-> ok]
Idle == CallAt("idle", None, FALSE, FALSE)
Returned(ok) == CallAt("returned", None, FALSE, ok)
Calls == [at : {"idle", "fetching", "fetched", "flushRoot", "flushKey", "returned"},
          c : Nodes \cup {None}, recurse : BOOLEAN, ok : BOOLEAN]

Return(t, ok) == call' = [call EXCEPT ![t] = Returned(ok)]

\* what a Pin call has to fetch
Wanted(c, recurse) == IF recurse THEN Below[c] ELSE {c}

PinnerInit ==
  /\ blocks = {}
  /\ pinBlocks = {}
  /\ pinKey = None
  /\ recursePin = {}
  /\ directPin = {}
  /\ internalPin = {}
  /\ plock = None
  /\ call = [t \in Threads |-> Idle]

-----------------------------------------------------------------------------
(* Pin: add the node, drop a direct pin of it when it is to be pinned      *)
(* recursively, fetch with the lock released, then pin.                    *)

PinBegin(t, c, recurse) ==
  /\ call[t] = Idle
  /\ plock = None
  /\ \/ /\ Return(t, FALSE)                               \* dserv.Add fails
        /\ UNCHANGED <<blocks, directPin>>
     \/ /\ blocks' = blocks \cup {c}
        /\ IF recurse /\ c \in recursePin
             THEN Return(t, TRUE) /\ UNCHANGED directPin
             ELSE /\ call' = [call EXCEPT ![t] = CallAt("fetching", c, recurse, FALSE)]
                  /\ directPin' = IF recurse THEN directPin \ {c} ELSE directPin
  /\ UNCHANGED <<pinBlocks, pinKey, recursePin, internalPin, plock>>

\* FetchGraph or Get: all of it, or an error after some of it
PinFetch(t) ==
  /\ call[t].at = "fetching"
  /\ \E got \in SUBSET Wanted(call[t].c, call[t].recurse) :
        /\ blocks' = blocks \cup got
        /\ \E ok \in BOOLEAN :
              /\ ok => Wanted(call[t].c, call[t].recurse) \subseteq blocks'
              /\ call' = [call EXCEPT ![t] = CallAt("fetched", @.c, @.recurse, ok)]
  /\ UNCHANGED <<pinBlocks, pinKey, pinVars, plock>>

\* A mistake: the error of FetchGraph is not looked at.
PinEndUnchecked(t) ==
  /\ call[t].at = "fetched"
  /\ plock = None
  /\ LET c == call[t].c IN
       /\ Return(t, TRUE)
       /\ recursePin' = IF call[t].recurse THEN recursePin \cup {c} ELSE recursePin
       /\ directPin' = IF call[t].recurse THEN directPin \ {c} ELSE directPin \cup {c}
  /\ UNCHANGED <<storeVars, internalPin, plock>>

PinEnd(t) ==
  /\ call[t].at = "fetched"
  /\ plock = None
  /\ LET c == call[t].c IN
       \/ /\ ~call[t].ok
          /\ Return(t, FALSE)
          /\ UNCHANGED <<recursePin, directPin>>
       \/ /\ call[t].ok /\ call[t].recurse
          /\ Return(t, TRUE)
          /\ recursePin' = recursePin \cup {c}
          /\ directPin' = IF c \in recursePin THEN directPin ELSE directPin \ {c}
       \/ /\ call[t].ok /\ ~call[t].recurse
          /\ Return(t, c \notin recursePin)
          /\ directPin' = IF c \in recursePin THEN directPin ELSE directPin \cup {c}
          /\ UNCHANGED recursePin
  /\ UNCHANGED <<storeVars, internalPin, plock>>

-----------------------------------------------------------------------------
(* Unpin, Update, PinWithMode.                                             *)

\* The look-up for an indirect pin may meet a block that is not there and
\* fail; whatever it answers nothing is unpinned.
Unpin(t, c, recursive) ==
  /\ call[t] = Idle
  /\ plock = None
  /\ \/ /\ c \in recursePin /\ recursive
        /\ recursePin' = recursePin \ {c}
        /\ Return(t, TRUE)
        /\ UNCHANGED directPin
     \/ /\ c \in directPin \ recursePin
        /\ directPin' = directPin \ {c}
        /\ Return(t, TRUE)
        /\ UNCHANGED recursePin
     \/ /\ c \notin directPin \cup recursePin \/ (c \in recursePin /\ ~recursive)
        /\ Return(t, FALSE)
        /\ UNCHANGED <<recursePin, directPin>>
  /\ UNCHANGED <<storeVars, internalPin, plock>>

\* DiffEnumerate fetches what is below "to" and not below "from", and trusts
\* that the rest is there because "from" is pinned.
Update(t, from, to, unpin) ==
  /\ call[t] = Idle
  /\ plock = None
  /\ \/ /\ from \in recursePin
        /\ blocks' = blocks \cup (Below[to] \ Below[from])
        /\ recursePin' = (recursePin \cup {to}) \ (IF unpin THEN {from} ELSE {})
        /\ Return(t, TRUE)
     \/ /\ \E got \in SUBSET (Below[to] \ Below[from]) :
              blocks' = IF from \in recursePin THEN blocks \cup got ELSE blocks
        /\ Return(t, FALSE)
        /\ UNCHANGED recursePin
  /\ UNCHANGED <<pinBlocks, pinKey, directPin, internalPin, plock>>

\* PinWithMode(c, Recursive), the only mode the callers pass
PinWithMode(t, c) ==
  /\ call[t] = Idle
  /\ plock = None
  /\ recursePin' = recursePin \cup {c}
  /\ Return(t, TRUE)
  /\ UNCHANGED <<storeVars, directPin, internalPin, plock>>

-----------------------------------------------------------------------------
(* Flush: both sets, then the empty node and the root, then the datastore  *)
(* key and internalPin.  An error at any point releases the lock.          *)

\* Mistakes: Flush gives the lock back between its writes; writes the key
\* before the root; leaves the empty node out; keeps the key of a set, or no
\* key at all.
FlushSetsUnlocked(t) ==
  /\ plock = None
  /\ pinBlocks' = pinBlocks \cup {SetNode(directPin), SetNode(recursePin)}
  /\ call' = [call EXCEPT ![t] = CallAt("flushRoot", None, FALSE, FALSE)]
  /\ UNCHANGED <<blocks, pinKey, pinVars, plock>>

FlushRootEarlyKey(t) ==
  /\ call[t].at = "flushRoot"
  /\ pinBlocks' = pinBlocks \cup {EmptyNode}
  /\ pinKey' = RootNode(directPin, recursePin)
  /\ call' = [call EXCEPT ![t].at = "flushKey"]
  /\ UNCHANGED <<blocks, pinVars, plock>>

FlushRootNoEmptyNode(t) ==
  /\ call[t].at = "flushRoot"
  /\ pinBlocks' = pinBlocks \cup {RootNode(directPin, recursePin)}
  /\ call' = [call EXCEPT ![t].at = "flushKey"]
  /\ UNCHANGED <<blocks, pinKey, pinVars, plock>>

FlushKeyOfSet(t) ==
  /\ call[t].at = "flushKey"
  /\ pinKey' = SetNode(recursePin)
  /\ internalPin' = InternalSet(RootNode(directPin, recursePin))
  /\ Return(t, TRUE)
  /\ plock' = None
  /\ UNCHANGED <<blocks, pinBlocks, recursePin, directPin>>

FlushKeyForgotten(t) ==
  /\ call[t].at = "flushKey"
  /\ internalPin' = InternalSet(RootNode(directPin, recursePin))
  /\ Return(t, TRUE)
  /\ plock' = None
  /\ UNCHANGED <<storeVars, recursePin, directPin>>

FlushSets(t) ==
  /\ plock = None
  /\ \/ /\ pinBlocks' = pinBlocks \cup {SetNode(directPin), SetNode(recursePin)}
        /\ plock' = t
        /\ call' = [call EXCEPT ![t] = CallAt("flushRoot", None, FALSE, FALSE)]
     \/ /\ StorageFails
        /\ pinBlocks' \in {pinBlocks, pinBlocks \cup {SetNode(directPin)}}
        /\ Return(t, FALSE)
        /\ UNCHANGED plock
  /\ UNCHANGED <<blocks, pinKey, pinVars>>

FlushRoot(t) ==
  /\ call[t].at = "flushRoot"
  /\ \/ /\ pinBlocks' = pinBlocks \cup {EmptyNode, RootNode(directPin, recursePin)}
        /\ call' = [call EXCEPT ![t].at = "flushKey"]
        /\ UNCHANGED plock
     \/ /\ StorageFails
        /\ pinBlocks' \in {pinBlocks, pinBlocks \cup {EmptyNode}}
        /\ Return(t, FALSE)
        /\ plock' = None
  /\ UNCHANGED <<blocks, pinKey, pinVars>>

FlushKey(t) ==
  /\ call[t].at = "flushKey"
  /\ \/ /\ pinKey' = RootNode(directPin, recursePin)
        /\ internalPin' = InternalSet(RootNode(directPin, recursePin))
        /\ Return(t, TRUE)
     \/ /\ StorageFails
        /\ UNCHANGED <<pinKey, internalPin>>
        /\ Return(t, FALSE)
  /\ plock' = None
  /\ UNCHANGED <<blocks, pinBlocks, recursePin, directPin>>

-----------------------------------------------------------------------------
\* A mistake: the direct pins are not loaded.
LoadRecursiveOnly ==
  /\ recursePin' = IF Loadable THEN pinKey.recursive ELSE {}
  /\ directPin' = {}
  /\ internalPin' = IF Loadable THEN InternalSet(pinKey) ELSE {}
  /\ plock' = None
  /\ call' = [t \in Threads |-> Idle]

\* LoadPinner, or NewPinner when it fails (setupNode in core/builder.go)
Load ==
  /\ recursePin' = IF Loadable THEN pinKey.recursive ELSE {}
  /\ directPin' = IF Loadable THEN pinKey.direct ELSE {}
  /\ internalPin' = IF Loadable THEN InternalSet(pinKey) ELSE {}
  /\ plock' = None
  /\ call' = [t \in Threads |-> Idle]

PinnerTypeOK ==
  /\ blocks \subseteq Nodes
  /\ pinBlocks \subseteq {EmptyNode} \cup SetNodes \cup RootNodes
  /\ pinKey \in RootNodes \cup {None}
  /\ recursePin \subseteq Nodes
  /\ directPin \subseteq Nodes
  /\ internalPin \subseteq {EmptyNode} \cup SetNodes \cup RootNodes
  /\ plock \in Threads \cup {None}
  /\ call \in [Threads -> Calls]
=============================================================================
