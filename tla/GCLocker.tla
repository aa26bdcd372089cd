------------------------------ MODULE GCLocker ------------------------------
(***************************************************************************)
(* The lock that separates garbage collection from pinning, gclocker in    *)
(* go-ipfs-blockstore/blockstore.go.                                       *)
(*                                                                         *)
(* Pinners are the goroutines that call PinLock (they end with a pin),     *)
(* Collectors the ones that call GCLock (gc.GC and RmBlocks).  gclocker is *)
(* a sync.RWMutex and a counter of the GCLock calls that have not returned *)
(* yet.  The RWMutex is modelled by what it does: a writer that has        *)
(* announced itself (it owns the inner mutex) makes every later reader     *)
(* wait, takes the lock when the readers before it have left, and lets all *)
(* the waiting readers in when it unlocks.                                 *)
(***************************************************************************)
EXTENDS Integers, FiniteSets

CONSTANTS
  Pinners,      \* goroutines that take PinLock
  Collectors,   \* goroutines that take GCLock
  NoOne         \* owner of a free mutex

ASSUME CollectorsAssumption == IsFiniteSet(Collectors) /\ NoOne \notin Collectors

VARIABLES
  gcreq,     \* gclocker.gcreq
  writer,    \* owner of RWMutex.w: the collector that announced itself
  readers,   \* pinners that hold the read lock
  blocked,   \* pinners inside RLock, behind an announced writer
  gcAt       \* where each collector is in GCLock

lockVars == <<gcreq, writer, readers, blocked, gcAt>>

-----------------------------------------------------------------------------
(* Collectors: "away" -> "counted" -> "announced" -> "acquired" -> "locked" *)

InGCLock == {"counted", "announced", "acquired"}

(***************************************************************************)
(* Mistakes the properties below must notice: Acquire that does not wait   *)
(* for the readers, GCLock that leaves the counter up, RLock that passes   *)
(* an announced writer, Unlock that leaves the waiting readers behind.     *)
(***************************************************************************)
AcquireUnderReaders(g) ==
  /\ gcAt[g] = "announced"
  /\ gcAt' = [gcAt EXCEPT ![g] = "acquired"]
  /\ UNCHANGED <<gcreq, writer, readers, blocked>>

GCLockedKeepingCount(g) ==
  /\ gcAt[g] = "acquired"
  /\ gcAt' = [gcAt EXCEPT ![g] = "locked"]
  /\ UNCHANGED <<gcreq, writer, readers, blocked>>

PinLockPassingWriter(p) ==
  /\ p \notin readers \cup blocked
  /\ \A g \in Collectors : gcAt[g] \notin {"acquired", "locked"}
  /\ readers' = readers \cup {p}
  /\ UNCHANGED <<gcreq, writer, blocked, gcAt>>

GCUnlockLeavingReaders(g) ==
  /\ gcAt[g] = "locked"
  /\ writer' = NoOne
  /\ gcAt' = [gcAt EXCEPT ![g] = "away"]
  /\ UNCHANGED <<gcreq, readers, blocked>>

-----------------------------------------------------------------------------

LockInit ==
  /\ gcreq = 0
  /\ writer = NoOne
  /\ readers = {}
  /\ blocked = {}
  /\ gcAt = [g \in Collectors |-> "away"]

\* GCLock: atomic.AddInt32(&bs.gcreq, 1)
GCLock(g) ==
  /\ gcAt[g] = "away"
  /\ gcreq' = gcreq + 1
  /\ gcAt' = [gcAt EXCEPT ![g] = "counted"]
  /\ UNCHANGED <<writer, readers, blocked>>

\* bs.lk.Lock(): the inner mutex is taken, later readers will wait
Announce(g) ==
  /\ gcAt[g] = "counted"
  /\ writer = NoOne
  /\ writer' = g
  /\ gcAt' = [gcAt EXCEPT ![g] = "announced"]
  /\ UNCHANGED <<gcreq, readers, blocked>>

\* bs.lk.Lock() returns when the last reader has left
Acquire(g) ==
  /\ gcAt[g] = "announced"
  /\ readers = {}
  /\ gcAt' = [gcAt EXCEPT ![g] = "acquired"]
  /\ UNCHANGED <<gcreq, writer, readers, blocked>>

\* atomic.AddInt32(&bs.gcreq, -1), and GCLock returns
GCLocked(g) ==
  /\ gcAt[g] = "acquired"
  /\ gcreq' = gcreq - 1
  /\ gcAt' = [gcAt EXCEPT ![g] = "locked"]
  /\ UNCHANGED <<writer, readers, blocked>>

\* bs.lk.Unlock(): every waiting reader gets in
GCUnlock(g) ==
  /\ gcAt[g] = "locked"
  /\ writer' = NoOne
  /\ readers' = readers \cup blocked
  /\ blocked' = {}
  /\ gcAt' = [gcAt EXCEPT ![g] = "away"]
  /\ UNCHANGED gcreq

\* PinLock: bs.lk.RLock(), which waits behind an announced writer
PinLock(p) ==
  /\ p \notin readers \cup blocked
  /\ IF writer = NoOne
       THEN readers' = readers \cup {p} /\ UNCHANGED blocked
       ELSE blocked' = blocked \cup {p} /\ UNCHANGED readers
  /\ UNCHANGED <<gcreq, writer, gcAt>>

\* bs.lk.RUnlock()
PinUnlock(p) ==
  /\ p \in readers
  /\ readers' = readers \ {p}
  /\ UNCHANGED <<gcreq, writer, blocked, gcAt>>

GCRequested == gcreq > 0

-----------------------------------------------------------------------------
LockNext ==
  \/ \E g \in Collectors :
        GCLock(g) \/ Announce(g) \/ Acquire(g) \/ GCLocked(g) \/ GCUnlock(g)
  \/ \E p \in Pinners : PinLock(p) \/ PinUnlock(p)

LockSpec == LockInit /\ [][LockNext]_lockVars

\* Whoever holds the lock releases it, and the runtime lets a goroutine that
\* can run make progress.  sync.Mutex hands the inner mutex over to a starving
\* waiter, hence strong fairness of Announce.
LockFairness ==
  /\ \A g \in Collectors :
        /\ SF_lockVars(Announce(g))
        /\ WF_lockVars(Acquire(g))
        /\ WF_lockVars(GCLocked(g))
        /\ WF_lockVars(GCUnlock(g))
  /\ \A p \in Pinners : WF_lockVars(PinUnlock(p))

FairLockSpec == LockSpec /\ LockFairness

-----------------------------------------------------------------------------
LockTypeOK ==
  /\ gcreq \in 0 .. Cardinality(Collectors)
  /\ writer \in Collectors \cup {NoOne}
  /\ readers \subseteq Pinners
  /\ blocked \subseteq Pinners
  /\ gcAt \in [Collectors -> {"away", "counted", "announced", "acquired", "locked"}]

Holds(g) == gcAt[g] \in {"acquired", "locked"}

\* While a collector holds the lock no pinner does and no other collector
\* does: "no GC should happen simulatenously" with a put->pin sequence.
Exclusion ==
  \A g \in Collectors : Holds(g) =>
    /\ readers = {}
    /\ \A h \in Collectors : Holds(h) => h = g

\* GCRequested, which an adder polls to decide whether to give way, is true
\* exactly while some GCLock call has not returned: no request is missed and
\* none is reported after the last one has the lock.
RequestsCounted ==
  GCRequested <=> \E g \in Collectors : gcAt[g] \in InGCLock

\* A pinner waits in RLock only behind a collector that is on its way to
\* release it: no waiting pinner is forgotten when the collector unlocks.
BlockedBehindWriter ==
  blocked # {} => \E g \in Collectors : g = writer /\ gcAt[g] # "away"

\* A collector that asked for the lock gets it, however many pinners come
\* after it.
CollectorGetsLock ==
  \A g \in Collectors : gcAt[g] = "counted" ~> gcAt[g] = "locked"

\* A pinner that waits for the lock gets it, even when collectors queue up:
\* GCUnlock lets the waiting readers in before the next collector.
PinnerGetsLock ==
  \A p \in Pinners : p \in blocked ~> p \in readers
=============================================================================
