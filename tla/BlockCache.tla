----------------------------- MODULE BlockCache -----------------------------
(***************************************************************************)
(* The blockstore over the datastore of BlockFiles: the bloom filter,      *)
(* below it the ARC cache, below it the blockstore that asks Has before it *)
(* puts (gxlibs/github.com/ipfs/go-ipfs-blockstore).                       *)
(*                                                                         *)
(* A client makes one call after the other.  Those that put, and the       *)
(* readers among LockedReaders, hold PinLock during the call, and those    *)
(* that delete hold GCLock.  FreeReaders hold no lock.  A restart begins   *)
(* anew with Init, where any blocks may be present.                        *)
(***************************************************************************)
EXTENDS BlockFiles, Naturals

CONSTANTS
  Putters, Batchers, Deleters, LockedReaders, FreeReaders,
  IOFails           \* whether the datastore may report errors

Readers == LockedReaders \cup FreeReaders
PinLockers == Putters \cup Batchers \cup LockedReaders

ASSUME BlockCacheAssumption ==
  /\ Threads = Putters \cup Batchers \cup Deleters \cup Readers
  /\ \A R \in {Batchers, Deleters, Readers} : Putters \cap R = {}
  /\ \A R \in {Deleters, Readers} : Batchers \cap R = {}
  /\ Deleters \cap Readers = {} /\ LockedReaders \cap FreeReaders = {}
  /\ IOFails \in BOOLEAN

ASSUME NoneIsNoOperation ==
  None \notin [typ : {"put", "rename", "delete"}, key : Keys,
               state : {"called", "effective", "ok", "notfound", "error"}]

VARIABLES
  arc,      \* what the ARC cache knows of each key, with or without its size
  bloom,    \* the keys the filter contains
  toList,   \* the keys the build of the filter has still to list
  building, \* "walk", "list", or "active"
  client,   \* the call each client is in
  acked,    \* ghost: keys that were put and not deleted since, or were found at the start
  ignored,  \* ghost: keys that a batch failed to store, without saying so
  cut       \* ghost: an error ended the listing

filter == <<bloom, toList, building, cut>>
promises == <<acked, ignored>>
cacheVars == <<arc, filter, client, promises>>
vars == <<contractVars, cacheVars>>

CallAt(at, keys, good, left) == [at |-> at, keys |-> keys, good |-> good, left |-> left]
NoCall == CallAt("idle", {}, {}, {})

Calls(t, call) == client' = [client EXCEPT ![t] = call]
Ready(t) == client[t] = NoCall
Key(t) == CHOOSE k \in client[t].keys : TRUE

Init ==
  /\ ContractInit
  /\ arc = [k \in Keys |-> "unknown"]
  /\ bloom = {} /\ toList = {} /\ building = "walk"
  /\ client = [t \in Threads |-> NoCall]
  /\ acked = present /\ ignored = {} /\ cut = FALSE

\* What hasCached of the ARC cache, and of the filter, can tell
ArcHas(k) == arc[k] = "have"
ArcHasNot(k) == arc[k] = "havenot"
BloomHasNot(k) == building = "active" /\ k \notin bloom

\* AddTS; the filter may come to contain other keys with it
AddTS(ks) == bloom' \in {b \in SUBSET Keys : bloom \cup ks \subseteq b}

Learn(ks, what) == arc' = [k \in Keys |-> IF k \in ks THEN what ELSE arc[k]]

\* The cache is small, and forgets.
Evict(k) ==
  /\ arc[k] # "unknown"
  /\ Learn({k}, "unknown")
  /\ UNCHANGED <<contractVars, filter, client, promises>>

NoDelete == \A t \in Deleters : Ready(t)
NobodyPins == \A t \in PinLockers : Ready(t)

-----------------------------------------------------------------------------
(* Put.                                                                    *)

\* The call succeeds: the filter learns the keys, and the lock is released.
Acknowledge(t) ==
  /\ AddTS(client[t].keys)
  /\ acked' = acked \cup client[t].keys
  /\ Calls(t, NoCall)
  /\ UNCHANGED <<toList, building, cut, ignored>>

\* A mistake: the filter does not learn what is already there.
PutBlockSkipsBloom(t, k) ==
  /\ Ready(t) /\ NoDelete
  /\ IF ArcHas(k) THEN /\ acked' = acked \cup {k}
                       /\ UNCHANGED client
                  ELSE Calls(t, CallAt("has", {k}, {}, {})) /\ UNCHANGED acked
  /\ UNCHANGED <<contractVars, arc, filter, ignored>>

PutBlock(t, k) ==
  /\ Ready(t) /\ NoDelete
  /\ Calls(t, CallAt(IF ArcHas(k) THEN "bloom" ELSE "has", {k}, {}, {}))
  /\ UNCHANGED <<contractVars, arc, filter, promises>>

\* An error of Has is ignored, and the block is written.
PutHas(t) ==
  /\ client[t].at = "has"
  /\ \/ /\ Key(t) \in present
        /\ Calls(t, CallAt("cache", client[t].keys, {}, {}))
        /\ UNCHANGED contractVars
     \/ /\ Key(t) \notin present \/ IOFails
        /\ Invoke(t, "put", Key(t))
        /\ Calls(t, CallAt("store", client[t].keys, {}, {}))
  /\ UNCHANGED <<arc, filter, promises>>

PutStored(t) ==
  /\ client[t].at = "store" /\ t \in Putters
  /\ Respond(t)
  /\ Calls(t, IF pending[t].state = "ok" THEN CallAt("cache", client[t].keys, {}, {}) ELSE NoCall)
  /\ UNCHANGED <<arc, filter, promises>>

PutCached(t) ==
  /\ client[t].at = "cache" /\ t \in Putters
  /\ Learn(client[t].keys, "have")
  /\ Calls(t, CallAt("bloom", client[t].keys, {}, {}))
  /\ UNCHANGED <<contractVars, filter, promises>>

PutReturns(t) ==
  /\ client[t].at = "bloom"
  /\ Acknowledge(t)
  /\ UNCHANGED <<contractVars, arc>>

-----------------------------------------------------------------------------
(* PutMany.  The lookups are one step, and so are the updates of the cache: *)
(* a key's entry depends on no other key.                                   *)

\* The blocks that the cache does not know to be there are the good ones.
PutMany(t, ks) ==
  /\ Ready(t) /\ NoDelete
  /\ Calls(t, CallAt("hasMany", ks, {k \in ks : ~ArcHas(k)}, {}))
  /\ UNCHANGED <<contractVars, arc, filter, promises>>

\* A mistake: all blocks are written, whatever the cache and Has say.
CommitManyAll(t) ==
  /\ client[t].at = "hasMany"
  /\ Calls(t, CallAt("store", client[t].keys, client[t].good, client[t].keys))
  /\ UNCHANGED <<contractVars, arc, filter, promises>>

\* Of the good ones those are written that Has does not find.  Its errors are
\* ignored.  An error of the batch before the first rename ends the call.
CommitMany(t) ==
  /\ client[t].at = "hasMany"
  /\ \/ \E ks \in SUBSET client[t].good :
          /\ client[t].good \ present \subseteq ks
          /\ IOFails \/ ks \subseteq client[t].good \ present
          /\ Calls(t, CallAt("store", client[t].keys, client[t].good, ks))
     \/ IOFails /\ Calls(t, NoCall)
  /\ UNCHANGED <<contractVars, arc, filter, promises>>

StoreOne(t) ==
  /\ client[t].at = "store"
  /\ \E k \in client[t].left :
       /\ Invoke(t, "rename", k)
       /\ Calls(t, CallAt("store", client[t].keys, client[t].good, client[t].left \ {k}))
  /\ UNCHANGED <<arc, filter, promises>>

\* The result is not looked at.
OneStored(t) ==
  /\ client[t].at = "store" /\ t \in Batchers
  /\ Respond(t)
  /\ ignored' = IF pending[t].state = "error" THEN ignored \cup {pending[t].key} ELSE ignored
  /\ UNCHANGED <<arc, filter, client, acked>>

CommittedMany(t) ==
  /\ client[t].at = "store" /\ t \in Batchers
  /\ client[t].left = {} /\ pending[t] = None
  /\ \/ Calls(t, CallAt("cache", client[t].keys, client[t].good, {}))
     \/ IOFails /\ Calls(t, NoCall)
  /\ UNCHANGED <<contractVars, arc, filter, promises>>

PutManyCached(t) ==
  /\ client[t].at = "cache" /\ t \in Batchers
  /\ Learn(client[t].good, "have")
  /\ Calls(t, CallAt("bloom", client[t].keys, {}, {}))
  /\ UNCHANGED <<contractVars, filter, promises>>

-----------------------------------------------------------------------------
(* DeleteBlock.  The Remove before the delete is given the Cid itself,      *)
(* while the cache is keyed by KeyString, and so it removes nothing.        *)

DeleteBlock(t, k) ==
  /\ NoDelete /\ NobodyPins
  /\ ~BloomHasNot(k) /\ ~ArcHasNot(k)
  /\ Invoke(t, "delete", k)
  /\ Calls(t, CallAt("delete", {k}, {}, {}))
  /\ acked' = acked \ {k}
  /\ UNCHANGED <<arc, filter, ignored>>

DeleteReturned(t) ==
  /\ client[t].at = "delete"
  /\ Respond(t)
  /\ Calls(t, IF pending[t].state = "error" THEN NoCall ELSE CallAt("forget", client[t].keys, {}, {}))
  /\ UNCHANGED <<arc, filter, promises>>

\* A mistake: the cache goes on to say that the block is there.
DeleteRemembered(t) ==
  /\ client[t].at = "forget"
  /\ Calls(t, NoCall)
  /\ UNCHANGED <<contractVars, arc, filter, promises>>

DeleteCached(t) ==
  /\ client[t].at = "forget"
  /\ Learn(client[t].keys, "havenot")
  /\ Calls(t, NoCall)
  /\ UNCHANGED <<contractVars, filter, promises>>

-----------------------------------------------------------------------------
(* Has, GetSize and Get.                                                   *)

MayRead(t) == Ready(t) /\ (t \in LockedReaders => NoDelete)

\* Each calls the blockstore below unless the cache knows enough, and then the
\* cache learns whether there is a block.
Has(t, k) ==
  /\ MayRead(t) /\ ~BloomHasNot(k) /\ arc[k] = "unknown"
  /\ Calls(t, CallAt("read", {k}, {}, {}))
  /\ UNCHANGED <<contractVars, arc, filter, promises>>

GetSize(t, k) ==
  /\ MayRead(t) /\ arc[k] = "unknown"
  /\ Calls(t, CallAt("read", {k}, {}, {}))
  /\ UNCHANGED <<contractVars, arc, filter, promises>>

Get(t, k) ==
  /\ MayRead(t) /\ ~BloomHasNot(k) /\ ~ArcHasNot(k)
  /\ Calls(t, CallAt("read", {k}, {}, {}))
  /\ UNCHANGED <<contractVars, arc, filter, promises>>

Read(t) ==
  /\ client[t].at = "read"
  /\ \/ Calls(t, CallAt("learn", client[t].keys, client[t].keys \cap present, {}))
     \/ IOFails /\ Calls(t, NoCall)
  /\ UNCHANGED <<contractVars, arc, filter, promises>>

LearnRead(t) ==
  /\ client[t].at = "learn"
  /\ Learn(client[t].keys, IF client[t].good = {} THEN "havenot" ELSE "have")
  /\ Calls(t, NoCall)
  /\ UNCHANGED <<contractVars, filter, promises>>

-----------------------------------------------------------------------------
(* The build of the filter.                                                *)

\* The directories that exist now will be listed.
Walk ==
  /\ building = "walk"
  /\ toList' = present
  /\ building' = "list"
  /\ UNCHANGED <<contractVars, arc, bloom, cut, client, promises>>

\* What is still there is added.  An error ends the listing, and AllKeysChan
\* closes its channel as at the end.
List ==
  /\ building = "list"
  /\ \/ \E k \in toList : toList' = toList \ {k} /\ AddTS({k} \cap present) /\ UNCHANGED cut
     \/ IOFails /\ toList # {} /\ toList' = {} /\ cut' = TRUE /\ UNCHANGED bloom
  /\ UNCHANGED <<contractVars, arc, building, client, promises>>

Activate ==
  /\ building = "list" /\ toList = {}
  /\ building' = "active"
  /\ UNCHANGED <<contractVars, arc, bloom, toList, cut, client, promises>>

-----------------------------------------------------------------------------
\* The datastore works on an operation.
StoreStep(t) ==
  /\ \/ TakeEffect(t) \/ Miss(t) \/ Retry(t)
     \/ \E others \in SUBSET Threads : Succeed(t, others)
     \/ IOFails /\ Fail(t)
  /\ UNCHANGED cacheVars

\* The steps of a call that has begun
CallStep(t) ==
  \/ StoreStep(t)
  \/ PutHas(t) \/ PutStored(t) \/ PutCached(t) \/ PutReturns(t)
  \/ CommitMany(t) \/ StoreOne(t) \/ OneStored(t) \/ CommittedMany(t) \/ PutManyCached(t)
  \/ DeleteReturned(t) \/ DeleteCached(t)
  \/ Read(t) \/ LearnRead(t)

Next ==
  \/ \E t \in Threads : CallStep(t)
  \/ \E t \in Putters, k \in Keys : PutBlock(t, k)
  \/ \E t \in Batchers, ks \in SUBSET Keys : PutMany(t, ks)
  \/ \E t \in Deleters, k \in Keys : DeleteBlock(t, k)
  \/ \E t \in Readers, k \in Keys : Has(t, k) \/ GetSize(t, k) \/ Get(t, k)
  \/ \E k \in Keys : Evict(k)
  \/ Walk \/ List \/ Activate
  \/ Settle /\ UNCHANGED cacheVars

Spec == Init /\ [][Next]_vars

-----------------------------------------------------------------------------
TypeOK ==
  /\ present \subseteq Keys /\ limbo \subseteq Keys
  /\ pending \in [Threads -> {None} \cup [typ : {"put", "rename", "delete"}, key : Keys,
                 state : {"called", "effective", "ok", "notfound", "error"}]]
  /\ arc \in [Keys -> {"unknown", "have", "havenot"}]
  /\ bloom \subseteq Keys /\ toList \subseteq Keys
  /\ building \in {"walk", "list", "active"}
  /\ client \in [Threads -> [at : {"idle", "has", "store", "cache", "bloom", "hasMany", "delete",
                                   "forget", "read", "learn"},
                             keys : SUBSET Keys, good : SUBSET Keys, left : SUBSET Keys]]
  /\ \A t \in Threads : client[t].left \subseteq client[t].good
  /\ acked \subseteq Keys /\ ignored \subseteq Keys /\ cut \in BOOLEAN

\* A block of a Put or PutMany that returned without error is in the datastore
\* until somebody deletes it, unless a batch ignored that it could not store it:
\* the caches never make a needed write look superfluous.
AckedStored == acked \ ignored \subseteq present

\* Once the filter answers, and the listing it was built from was complete, it
\* contains every block that was acknowledged or was there when the node started:
\* it never says of one of them that it is absent.
BloomCovers == building = "active" /\ ~cut => acked \subseteq bloom
=============================================================================
