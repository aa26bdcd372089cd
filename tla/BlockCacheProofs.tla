-------------------------- MODULE BlockCacheProofs --------------------------
(***************************************************************************)
(* Where the clients of the blockstore can be, and proofs that the filter  *)
(* lies to nobody, for any keys and clients and a datastore that may fail, *)
(* and that the ARC cache makes no needed write look superfluous, as long  *)
(* as every reader holds PinLock.                                          *)
(***************************************************************************)
EXTENDS BlockCache, TLAPS

Operations == [typ : {"put", "rename", "delete"}, key : Keys,
               state : {"called", "effective", "ok", "notfound", "error"}]

CallSet == [at : {"idle", "has", "store", "cache", "bloom", "hasMany", "delete", "forget",
                  "read", "learn"},
            keys : SUBSET Keys, good : SUBSET Keys, left : SUBSET Keys]

-----------------------------------------------------------------------------
(* Where a client can be, and the operation it then has in the datastore.   *)

PutterShape(t) ==
  /\ client[t].at \in {"idle", "has", "store", "cache", "bloom"}
  /\ client[t].at # "idle" => \E k \in Keys : client[t].keys = {k}
  /\ client[t].at = "store" => /\ pending[t] # None /\ pending[t].typ = "put"
                               /\ client[t].keys = {pending[t].key}
                               /\ client[t].left = {}
  /\ client[t].at # "store" => pending[t] = None

BatcherShape(t) ==
  /\ client[t].at \in {"idle", "hasMany", "store", "cache", "bloom"}
  /\ client[t].left \subseteq client[t].good /\ client[t].good \subseteq client[t].keys
  /\ pending[t] # None => client[t].at = "store" /\ pending[t].typ = "rename"

DeleterShape(t) ==
  /\ client[t].at \in {"idle", "delete", "forget"}
  /\ client[t].keys \cap acked = {}
  /\ client[t].at = "delete" => /\ pending[t] # None /\ pending[t].typ = "delete"
                                /\ client[t].keys = {pending[t].key}
  /\ client[t].at # "delete" => pending[t] = None

ReaderShape(t) ==
  /\ client[t].at \in {"idle", "read", "learn"}
  /\ client[t].at # "idle" => \E k \in Keys : client[t].keys = {k}
  /\ client[t].at = "learn" => client[t].good \in {{}, client[t].keys}
  /\ pending[t] = None

Shape(t) ==
  /\ client[t] \in CallSet
  /\ client[t].at = "idle" => client[t] = NoCall
  /\ pending[t] \in Operations \cup {None}
  /\ t \in Putters => PutterShape(t)
  /\ t \in Batchers => BatcherShape(t)
  /\ t \in Deleters => DeleterShape(t)
  /\ t \in Readers => ReaderShape(t)

\* PinLock and GCLock exclude each other.
Exclusion == NoDelete \/ NobodyPins

ShapeInv ==
  /\ present \subseteq Keys /\ limbo \subseteq Keys
  /\ arc \in [Keys -> {"unknown", "have", "havenot"}]
  /\ bloom \subseteq Keys /\ toList \subseteq Keys
  /\ building \in {"walk", "list", "active"}
  /\ acked \subseteq Keys /\ ignored \subseteq Keys /\ cut \in BOOLEAN
  /\ client \in [Threads -> CallSet]
  /\ pending \in [Threads -> Operations \cup {None}]
  /\ \A t \in Threads : Shape(t)
  /\ Exclusion

\* A thread keeps its shape when neither its call nor its operation changes,
\* and no key it deletes is acknowledged.
LEMMA OtherShape ==
  ASSUME NEW t \in Threads, Shape(t), client'[t] = client[t], pending'[t] = pending[t],
         t \in Deleters => client[t].keys \cap acked' = {}
  PROVE  Shape(t)'
BY DEF Shape, PutterShape, BatcherShape, DeleterShape, ReaderShape

\* The calls are records of their four fields.
LEMMA CallFields ==
  ASSUME NEW at \in {"idle", "has", "store", "cache", "bloom", "hasMany", "delete", "forget",
                     "read", "learn"},
         NEW ks \in SUBSET Keys, NEW good \in SUBSET Keys, NEW left \in SUBSET Keys
  PROVE  /\ CallAt(at, ks, good, left) \in CallSet
         /\ CallAt(at, ks, good, left).at = at /\ CallAt(at, ks, good, left).keys = ks
         /\ CallAt(at, ks, good, left).good = good /\ CallAt(at, ks, good, left).left = left
BY Zenon DEF CallAt, CallSet

\* At the start nobody is in a call.
LEMMA ShapeInit == Init => ShapeInv
<1> SUFFICES ASSUME Init PROVE ShapeInv
  BY Zenon
<1>1. NoCall \in CallSet /\ NoCall.at = "idle" /\ NoCall.keys = {} /\ NoCall.good = {} /\ NoCall.left = {}
  BY CallFields DEF NoCall
<1>2. \A t \in Threads : client[t] = NoCall /\ pending[t] = None
  BY Zenon DEF Init, ContractInit
<1>3. \A t \in Threads : Shape(t)
  BY <1>1, <1>2, Zenon DEF Shape, PutterShape, BatcherShape, DeleterShape, ReaderShape
<1>4. NoDelete
  BY <1>2, BlockCacheAssumption, Zenon DEF NoDelete, Ready
<1> QED
  BY <1>1, <1>3, <1>4, Zenon DEF Init, ContractInit, ShapeInv, Exclusion

\* The step of one thread keeps the shapes and the exclusion when that thread
\* has its shape afterwards and begins a call only with its lock.
LEMMA OneThread ==
  ASSUME ShapeInv, NEW t \in Threads, Shape(t)',
         client' \in [Threads -> CallSet], pending' \in [Threads -> Operations \cup {None}],
         \A s \in Threads \ {t} : client'[s] = client[s] /\ pending'[s] = pending[s],
         \A s \in Deleters \ {t} : client[s].keys \cap acked' = {},
         t \in PinLockers /\ Ready(t) /\ ~Ready(t)' => NoDelete,
         t \in Deleters /\ Ready(t) /\ ~Ready(t)' => NobodyPins
  PROVE  (\A s \in Threads : Shape(s)') /\ Exclusion'
<1>1. \A s \in Threads : Shape(s)'
  <2> SUFFICES ASSUME NEW s \in Threads, s # t PROVE Shape(s)'
    BY Zenon
  <2> QED
    BY OtherShape, Zenon DEF ShapeInv
<1>2. \A s \in Threads \ {t} : Ready(s)' <=> Ready(s)
  BY Zenon DEF Ready
<1>3. PinLockers \cap Deleters = {} /\ PinLockers \subseteq Threads /\ Deleters \subseteq Threads
  BY BlockCacheAssumption, Zenon DEF PinLockers, Readers
<1>4. CASE NoDelete /\ t \notin Deleters
  BY <1>1, <1>2, <1>3, <1>4, Zenon DEF Exclusion, NoDelete
<1>5. CASE NobodyPins /\ t \notin PinLockers
  BY <1>1, <1>2, <1>3, <1>5, Zenon DEF Exclusion, NobodyPins
<1>6. CASE NoDelete /\ t \in Deleters
  <2>1. CASE Ready(t)'
    BY <1>1, <1>2, <1>3, <1>6, <2>1, Zenon DEF Exclusion, NoDelete
  <2>2. CASE ~Ready(t)'
    <3>1. NobodyPins
      BY <1>6, <2>2, Zenon DEF NoDelete
    <3> QED
      BY <1>3, <1>5, <1>6, <3>1, Zenon
  <2> QED
    BY <2>1, <2>2, Zenon
<1>7. CASE NobodyPins /\ t \in PinLockers
  <2>1. CASE Ready(t)'
    BY <1>1, <1>2, <1>3, <1>7, <2>1, Zenon DEF Exclusion, NobodyPins
  <2>2. CASE ~Ready(t)'
    <3>1. NoDelete
      BY <1>7, <2>2, Zenon DEF NobodyPins
    <3> QED
      BY <1>3, <1>4, <1>7, <3>1, Zenon
  <2> QED
    BY <2>1, <2>2, Zenon
<1> QED
  BY <1>1, <1>4, <1>5, <1>6, <1>7, Zenon DEF ShapeInv, Exclusion

\* A step of the datastore changes operations only in their state.
LEMMA StatesOnly ==
  ASSUME ShapeInv, UNCHANGED <<client, acked>>, pending' \in [Threads -> Operations \cup {None}],
         \A s \in Threads : IF pending[s] = None THEN pending'[s] = None
                            ELSE /\ pending'[s] # None /\ pending'[s].typ = pending[s].typ
                                 /\ pending'[s].key = pending[s].key
  PROVE  (\A s \in Threads : Shape(s)') /\ Exclusion'
<1>1. ASSUME NEW s \in Threads PROVE Shape(s)'
  <2>1. Shape(s)
    BY Zenon DEF ShapeInv
  <2> QED
    BY <2>1, Zenon DEF Shape, PutterShape, BatcherShape, DeleterShape, ReaderShape
<1>2. Exclusion'
  BY Zenon DEF ShapeInv, Exclusion, NoDelete, NobodyPins, Ready
<1> QED
  BY <1>1, <1>2, Zenon

\* What a step of the datastore does to the operations
LEMMA StoreStepStates ==
  ASSUME ShapeInv, NEW t \in Threads, StoreStep(t)
  PROVE  /\ pending' \in [Threads -> Operations \cup {None}]
         /\ \A s \in Threads : IF pending[s] = None THEN pending'[s] = None
                               ELSE /\ pending'[s] # None /\ pending'[s].typ = pending[s].typ
                                    /\ pending'[s].key = pending[s].key
<1>1. pending \in [Threads -> Operations \cup {None}]
  BY Zenon DEF ShapeInv
<1>2. None \notin Operations
  BY NoneIsNoOperation, Zenon DEF Operations
<1>3. ASSUME NEW state \in {"called", "effective", "ok", "notfound", "error"}, NEW o \in Operations
      PROVE  /\ Operation(o.typ, o.key, state) \in Operations
             /\ Operation(o.typ, o.key, state) # None
             /\ Operation(o.typ, o.key, state).typ = o.typ
             /\ Operation(o.typ, o.key, state).key = o.key
             /\ Operation(o.typ, o.key, state).state = state
  BY <1>2 DEF Operation, Operations
<1>4. ASSUME NEW state \in {"called", "effective", "ok", "notfound", "error"},
             pending[t] # None, Becomes(t, state)
      PROVE  /\ pending' \in [Threads -> Operations \cup {None}]
             /\ \A s \in Threads : IF pending[s] = None THEN pending'[s] = None
                               ELSE /\ pending'[s] # None /\ pending'[s].typ = pending[s].typ
                                    /\ pending'[s].key = pending[s].key
  <2>1. pending[t] \in Operations
    BY <1>1, <1>4, Zenon
  <2> DEFINE o == Operation(pending[t].typ, pending[t].key, state)
  <2>2. o \in Operations /\ o # None /\ o.typ = pending[t].typ /\ o.key = pending[t].key
    BY <1>3, <2>1
  <2>3. pending' = [pending EXCEPT ![t] = o]
    BY <1>4, Zenon DEF Becomes
  <2> QED
    BY <1>1, <1>4, <2>2, <2>3, Zenon
<1>5. CASE TakeEffect(t)
  BY <1>4, <1>5, Zenon DEF TakeEffect, InState
<1>6. CASE Miss(t)
  BY <1>4, <1>6, Zenon DEF Miss, InState
<1>7. CASE Retry(t)
  BY <1>4, <1>7, Zenon DEF Retry, InState
<1>8. CASE Fail(t)
  BY <1>4, <1>8, Zenon DEF Fail, InState
<1>9. ASSUME NEW others \in SUBSET Threads, Succeed(t, others)
      PROVE  /\ pending' \in [Threads -> Operations \cup {None}]
             /\ \A s \in Threads : IF pending[s] = None THEN pending'[s] = None
                               ELSE /\ pending'[s] # None /\ pending'[s].typ = pending[s].typ
                                    /\ pending'[s].key = pending[s].key
  <2>1. \A s \in Threads : s = t \/ s \in others => pending[s] # None
    BY <1>9, Zenon DEF Succeed, InState
  <2>2. \A s \in Threads : s = t \/ s \in others => pending[s] \in Operations
    BY <1>1, <2>1, Zenon
  <2>3. pending' = [s \in Threads |-> IF s = t \/ s \in others
                                     THEN Operation(pending[s].typ, pending[s].key, "ok")
                                     ELSE pending[s]]
    BY <1>9, Zenon DEF Succeed
  <2> QED
    BY <1>1, <1>3, <2>1, <2>2, <2>3, Zenon
<1> QED
  BY <1>5, <1>6, <1>7, <1>8, <1>9, Zenon DEF StoreStep

\* A step of the datastore keeps the shapes.
LEMMA StoreStepShape ==
  ASSUME ShapeInv, NEW t \in Threads, StoreStep(t)
  PROVE  ShapeInv'
<1>1. present' \subseteq Keys /\ limbo' \subseteq Keys
  <2>1. pending[t] # None => pending[t].key \in Keys
    BY NoneIsNoOperation, Zenon DEF ShapeInv, Operations
  <2> QED
    BY <2>1, Zenon DEF StoreStep, TakeEffect, Miss, Retry, Succeed, Fail, InState, ShapeInv
<1>2. UNCHANGED <<arc, bloom, toList, building, cut, client, acked, ignored>>
  BY Zenon DEF StoreStep, cacheVars, filter, promises
<1>3. (\A s \in Threads : Shape(s)') /\ Exclusion' /\ pending' \in [Threads -> Operations \cup {None}]
  BY <1>2, StoreStepStates, StatesOnly, Zenon
<1> QED
  BY <1>1, <1>2, <1>3, Zenon DEF ShapeInv

\* The calls of clients that begin
LEMMA CallShape ==
  ASSUME ShapeInv, NEW t \in Threads,
         \/ t \in Putters /\ \E k \in Keys : PutBlock(t, k)
         \/ t \in Batchers /\ \E ks \in SUBSET Keys : PutMany(t, ks)
         \/ t \in Deleters /\ \E k \in Keys : DeleteBlock(t, k)
         \/ t \in Readers /\ \E k \in Keys : Has(t, k) \/ GetSize(t, k) \/ Get(t, k)
  PROVE  ShapeInv'
<1>1. client \in [Threads -> CallSet] /\ pending \in [Threads -> Operations \cup {None}] /\ Shape(t)
  BY Zenon DEF ShapeInv
<1>2. \A s \in Deleters : client[s].keys \cap acked = {}
  BY BlockCacheAssumption, Zenon DEF ShapeInv, Shape, DeleterShape
<1>3. NoCall.at = "idle" /\ NoCall.keys = {}
  BY CallFields DEF NoCall
<1>4. ASSUME NEW k \in Keys, PutBlock(t, k), t \in Putters
      PROVE  ShapeInv'
  <2>1. PICK at \in {"has", "bloom"} : client' = [client EXCEPT ![t] = CallAt(at, {k}, {}, {})]
    BY <1>4, Zenon DEF PutBlock, Calls
  <2>2. /\ NoDelete /\ Ready(t)
        /\ UNCHANGED <<present, limbo, pending, arc, bloom, toList, building, cut, acked, ignored>>
    BY <1>4, Zenon DEF PutBlock, contractVars, filter, promises
  <2>3. /\ client'[t] \in CallSet /\ client'[t].at = at /\ client'[t].keys = {k}
        /\ client' \in [Threads -> CallSet]
    BY <1>1, <2>1, CallFields
  <2>4. pending[t] = None
    BY <1>1, <1>3, <1>4, <2>2, Zenon DEF Shape, PutterShape, Ready
  <2>5. Shape(t)'
    BY <1>1, <1>4, <2>2, <2>3, <2>4, BlockCacheAssumption, Zenon DEF Shape, PutterShape
  <2>6. (\A s \in Threads : Shape(s)') /\ Exclusion'
    BY <1>1, <1>2, <1>4, <2>1, <2>2, <2>3, <2>5, OneThread, BlockCacheAssumption, Zenon
  <2> QED
    BY <2>2, <2>3, <2>6, Zenon DEF ShapeInv
<1>5. ASSUME NEW ks \in SUBSET Keys, PutMany(t, ks), t \in Batchers
      PROVE  ShapeInv'
  <2> DEFINE good == {k \in ks : ~ArcHas(k)}
  <2>1. client' = [client EXCEPT ![t] = CallAt("hasMany", ks, good, {})]
    BY <1>5, Zenon DEF PutMany, Calls
  <2>2. /\ NoDelete /\ Ready(t)
        /\ UNCHANGED <<present, limbo, pending, arc, bloom, toList, building, cut, acked, ignored>>
    BY <1>5, Zenon DEF PutMany, contractVars, filter, promises
  <2>3. /\ client'[t] \in CallSet /\ client'[t].at = "hasMany" /\ client'[t].keys = ks
        /\ client'[t].good = good /\ client'[t].left = {}
        /\ client' \in [Threads -> CallSet]
    BY <1>1, <2>1, CallFields
  <2>4. pending[t] = None
    BY <1>1, <1>3, <1>5, <2>2, Zenon DEF Shape, BatcherShape, Ready
  <2>5. Shape(t)'
    BY <1>1, <1>5, <2>2, <2>3, <2>4, BlockCacheAssumption, Zenon DEF Shape, BatcherShape
  <2>6. (\A s \in Threads : Shape(s)') /\ Exclusion'
    BY <1>1, <1>2, <1>5, <2>1, <2>2, <2>3, <2>5, OneThread, BlockCacheAssumption, Zenon
  <2> QED
    BY <2>2, <2>3, <2>6, Zenon DEF ShapeInv
<1>6. ASSUME NEW k \in Keys, DeleteBlock(t, k), t \in Deleters
      PROVE  ShapeInv'
  <2>1. /\ client' = [client EXCEPT ![t] = CallAt("delete", {k}, {}, {})]
        /\ pending' = [pending EXCEPT ![t] = Operation("delete", k, "called")]
        /\ acked' = acked \ {k}
    BY <1>6, Zenon DEF DeleteBlock, Invoke, Calls
  <2>2. /\ NobodyPins
        /\ UNCHANGED <<present, limbo, arc, bloom, toList, building, cut, ignored>>
    BY <1>6, Zenon DEF DeleteBlock, Invoke, filter
  <2>3. /\ client'[t] \in CallSet /\ client'[t].at = "delete" /\ client'[t].keys = {k}
        /\ client' \in [Threads -> CallSet]
    BY <1>1, <2>1, CallFields
  <2>4. /\ Operation("delete", k, "called") \in Operations
        /\ Operation("delete", k, "called").typ = "delete"
        /\ Operation("delete", k, "called").key = k
    BY Zenon DEF Operation, Operations
  <2>5. pending' \in [Threads -> Operations \cup {None}] /\ pending'[t] \in Operations
        /\ pending'[t].typ = "delete" /\ pending'[t].key = k /\ pending'[t] # None
    BY <1>1, <2>1, <2>4, NoneIsNoOperation, Zenon DEF Operations
  <2>6. Shape(t)'
    BY <1>1, <1>6, <2>1, <2>3, <2>5, BlockCacheAssumption, Zenon DEF Shape, DeleterShape
  <2>7. (\A s \in Threads : Shape(s)') /\ Exclusion'
    BY <1>1, <1>2, <1>6, <2>1, <2>2, <2>3, <2>5, <2>6, OneThread, BlockCacheAssumption DEF PinLockers, Readers
  <2> QED
    BY <2>1, <2>2, <2>3, <2>5, <2>7, Zenon DEF ShapeInv
<1>7. ASSUME NEW k \in Keys, Has(t, k) \/ GetSize(t, k) \/ Get(t, k), t \in Readers
      PROVE  ShapeInv'
  <2>1. client' = [client EXCEPT ![t] = CallAt("read", {k}, {}, {})]
    BY <1>7, Zenon DEF Has, GetSize, Get, Calls
  <2>2. /\ (t \in LockedReaders => NoDelete) /\ Ready(t)
        /\ UNCHANGED <<present, limbo, pending, arc, bloom, toList, building, cut, acked, ignored>>
    BY <1>7, Zenon DEF Has, GetSize, Get, MayRead, contractVars, filter, promises
  <2>3. /\ client'[t] \in CallSet /\ client'[t].at = "read" /\ client'[t].keys = {k}
        /\ client' \in [Threads -> CallSet]
    BY <1>1, <2>1, CallFields
  <2>4. Shape(t)'
    BY <1>1, <1>7, <2>2, <2>3, BlockCacheAssumption, Zenon DEF Shape, ReaderShape
  <2>5. t \notin Deleters /\ (t \in PinLockers => t \in LockedReaders)
    BY <1>7, BlockCacheAssumption, Zenon DEF PinLockers
  <2>6. (\A s \in Threads : Shape(s)') /\ Exclusion'
    BY <1>1, <1>2, <2>1, <2>2, <2>3, <2>4, <2>5, OneThread, Zenon
  <2> QED
    BY <2>2, <2>3, <2>6, Zenon DEF ShapeInv
<1> QED
  BY <1>4, <1>5, <1>6, <1>7, Zenon

\* A call that goes on, and may end: who acknowledges keys holds PinLock, and
\* nobody deletes meanwhile.
LEMMA Proceeds ==
  ASSUME ShapeInv, NEW t \in Threads, ~Ready(t),
         NEW c \in CallSet, client' = [client EXCEPT ![t] = c],
         NEW p \in Operations \cup {None}, pending' = [pending EXCEPT ![t] = p],
         UNCHANGED <<present, limbo, toList, building, cut>>,
         arc' \in [Keys -> {"unknown", "have", "havenot"}],
         bloom' \subseteq Keys, ignored' \subseteq Keys, acked' \subseteq Keys,
         acked' = acked \/ t \in PinLockers,
         Shape(t)'
  PROVE  ShapeInv'
<1>1. client' \in [Threads -> CallSet] /\ pending' \in [Threads -> Operations \cup {None}]
  BY Zenon DEF ShapeInv
<1>2. \A s \in Threads \ {t} : client'[s] = client[s] /\ pending'[s] = pending[s]
  BY Zenon DEF ShapeInv
<1>3. \A s \in Deleters : client[s].keys \cap acked' = {}
  <2>1. CASE acked' = acked
    BY <2>1, BlockCacheAssumption, Zenon DEF ShapeInv, Shape, DeleterShape
  <2>2. CASE t \in PinLockers
    <3>1. NoDelete
      BY <2>2, Zenon DEF ShapeInv, Exclusion, NobodyPins
    <3>2. NoCall.keys = {}
      BY Zenon DEF NoCall, CallAt
    <3> QED
      BY <3>1, <3>2, Zenon DEF NoDelete, Ready
  <2> QED
    BY <2>1, <2>2, Zenon
<1>4. (\A s \in Threads : Shape(s)') /\ Exclusion'
  BY <1>1, <1>2, <1>3, OneThread, Zenon
<1> QED
  BY <1>1, <1>4, Zenon DEF ShapeInv

\* What a Learn leaves the cache with
LEMMA LearnType ==
  ASSUME NEW ks, NEW what \in {"unknown", "have", "havenot"}, Learn(ks, what), ShapeInv
  PROVE  arc' \in [Keys -> {"unknown", "have", "havenot"}]
BY Zenon DEF Learn, ShapeInv

\* The call that ends
LEMMA NoCallFields ==
  /\ NoCall \in CallSet /\ NoCall.at = "idle" /\ NoCall.keys = {}
  /\ NoCall.good = {} /\ NoCall.left = {}
BY CallFields DEF NoCall

\* The roles of the threads are distinct.
LEMMA Roles ==
  ASSUME NEW t \in Threads
  PROVE  /\ t \in Putters => t \notin Batchers /\ t \notin Deleters /\ t \notin Readers
         /\ t \in Batchers => t \notin Putters /\ t \notin Deleters /\ t \notin Readers
         /\ t \in Deleters => t \notin Putters /\ t \notin Batchers /\ t \notin Readers
         /\ t \in Putters \/ t \in Batchers \/ t \in Deleters \/ t \in Readers
         /\ t \in Putters \/ t \in Batchers => t \in PinLockers
BY BlockCacheAssumption, Zenon DEF PinLockers

\* The steps of Put
LEMMA PutShape ==
  ASSUME ShapeInv, NEW t \in Threads,
         PutHas(t) \/ PutStored(t) \/ PutCached(t) \/ (t \in Putters /\ PutReturns(t))
  PROVE  ShapeInv'
<1>1. Shape(t) /\ pending[t] \in Operations \cup {None} /\ pending = [pending EXCEPT ![t] = pending[t]]
  BY Zenon DEF ShapeInv
<1>2. t \in Putters /\ PutterShape(t)
  BY <1>1, Roles, Zenon DEF PutHas, PutStored, PutCached, Shape, BatcherShape, DeleterShape, ReaderShape
<1>3. ~Ready(t)
  BY NoCallFields, Zenon DEF PutHas, PutStored, PutCached, PutReturns, Ready
<1>4. PICK k \in Keys : client[t].keys = {k}
  BY <1>2, Zenon DEF PutterShape, PutHas, PutStored, PutCached, PutReturns
<1>5. Key(t) = k
  BY <1>4, Zenon DEF Key
<1>6. ASSUME NEW at \in {"cache", "bloom"},
             client' = [client EXCEPT ![t] = CallAt(at, client[t].keys, {}, {})],
             pending' = [pending EXCEPT ![t] = None]
      PROVE  CallAt(at, client[t].keys, {}, {}) \in CallSet /\ Shape(t)'
  <2>1. CallAt(at, client[t].keys, {}, {}) \in CallSet
    BY <1>4, CallFields
  <2>2. client'[t] \in CallSet /\ client'[t].at = at /\ client'[t].keys = {k} /\ pending'[t] = None
    BY <1>4, <1>6, <2>1, CallFields DEF ShapeInv
  <2> QED
    BY <1>2, <2>1, <2>2, Roles, Zenon DEF Shape, PutterShape
<1>7. ASSUME client' = [client EXCEPT ![t] = NoCall], pending' = [pending EXCEPT ![t] = None]
      PROVE  Shape(t)'
  <2>1. client'[t] = NoCall /\ pending'[t] = None
    BY <1>7, Zenon DEF ShapeInv
  <2> QED
    BY <1>2, <2>1, NoCallFields, Roles, Zenon DEF Shape, PutterShape
<1>8. CASE PutHas(t) /\ UNCHANGED contractVars
  <2>1. pending[t] = None
    BY <1>2, <1>8, Zenon DEF PutHas, PutterShape
  <2>2. client' = [client EXCEPT ![t] = CallAt("cache", client[t].keys, {}, {})]
    <3>1. pending' = pending
      BY <1>8, Zenon DEF contractVars
    <3>2. ~Invoke(t, "put", Key(t))
      <4>1. Operation("put", k, "called") \in Operations
        BY Zenon DEF Operation, Operations
      <4>2. [pending EXCEPT ![t] = Operation("put", k, "called")][t] # None
        BY <4>1, NoneIsNoOperation, Zenon DEF Operations, ShapeInv
      <4> QED
        BY <1>5, <2>1, <3>1, <4>2, Zenon DEF Invoke
    <3> QED
      BY <1>8, <3>2, Zenon DEF PutHas, Calls
  <2>3. UNCHANGED <<present, limbo, pending, arc, bloom, toList, building, cut, acked, ignored>>
    BY <1>8, Zenon DEF PutHas, contractVars, filter, promises
  <2> QED
    BY <1>1, <1>3, <1>6, <2>1, <2>2, <2>3, Proceeds, Zenon DEF ShapeInv
<1>9. CASE PutHas(t) /\ Invoke(t, "put", Key(t)) /\ Calls(t, CallAt("store", client[t].keys, {}, {}))
  <2> DEFINE o == Operation("put", k, "called")
             c == CallAt("store", client[t].keys, {}, {})
  <2>1. o \in Operations /\ o.typ = "put" /\ o.key = k /\ o # None
    BY NoneIsNoOperation DEF Operation, Operations
  <2>2. c \in CallSet /\ c.at = "store" /\ c.keys = {k} /\ c.left = {}
    BY <1>4, CallFields
  <2>3. /\ client' = [client EXCEPT ![t] = c] /\ pending' = [pending EXCEPT ![t] = o]
        /\ UNCHANGED <<present, limbo, arc, bloom, toList, building, cut, acked, ignored>>
    BY <1>5, <1>9, Zenon DEF PutHas, Invoke, Calls, filter, promises
  <2>4. client'[t] = c /\ pending'[t] = o
    BY <2>3, Zenon DEF ShapeInv
  <2>5. Shape(t)'
    BY <1>2, <2>1, <2>2, <2>4, Roles, Zenon DEF Shape, PutterShape
  <2> QED
    BY <1>3, <2>1, <2>2, <2>3, <2>5, Proceeds, Zenon DEF ShapeInv
<1>10. CASE PutStored(t)
  <2>1. /\ pending' = [pending EXCEPT ![t] = None]
        /\ UNCHANGED <<present, limbo, arc, bloom, toList, building, cut, acked, ignored>>
    BY <1>10, Zenon DEF PutStored, Respond, filter, promises
  <2>2. CASE client' = [client EXCEPT ![t] = NoCall]
    BY <1>3, <1>7, <2>1, <2>2, NoCallFields, Proceeds, Zenon DEF ShapeInv
  <2>3. CASE client' = [client EXCEPT ![t] = CallAt("cache", client[t].keys, {}, {})]
    BY <1>3, <1>6, <2>1, <2>3, Proceeds, Zenon DEF ShapeInv
  <2> QED
    BY <1>10, <2>2, <2>3, Zenon DEF PutStored, Calls
<1>11. CASE PutCached(t)
  <2>1. pending[t] = None
    BY <1>2, <1>11, Zenon DEF PutCached, PutterShape
  <2>2. /\ client' = [client EXCEPT ![t] = CallAt("bloom", client[t].keys, {}, {})]
        /\ UNCHANGED <<present, limbo, pending, bloom, toList, building, cut, acked, ignored>>
    BY <1>11, Zenon DEF PutCached, Calls, contractVars, filter, promises
  <2>3. arc' \in [Keys -> {"unknown", "have", "havenot"}]
    BY <1>11, LearnType, Zenon DEF PutCached
  <2> QED
    BY <1>1, <1>3, <1>6, <2>1, <2>2, <2>3, Proceeds, Zenon DEF ShapeInv
<1>12. CASE PutReturns(t)
  <2>1. pending[t] = None
    BY <1>2, <1>12, Zenon DEF PutReturns, PutterShape
  <2>2. /\ client' = [client EXCEPT ![t] = NoCall] /\ acked' = acked \cup {k} /\ bloom' \subseteq Keys
        /\ UNCHANGED <<present, limbo, pending, arc, toList, building, cut, ignored>>
    BY <1>4, <1>12, Zenon DEF PutReturns, Acknowledge, AddTS, Calls, contractVars
  <2> QED
    BY <1>1, <1>2, <1>3, <1>7, <2>1, <2>2, NoCallFields, Roles, Proceeds, Zenon DEF ShapeInv
<1> QED
  BY <1>8, <1>9, <1>10, <1>11, <1>12, Zenon DEF PutHas

\* The steps of PutMany
LEMMA PutManyShape ==
  ASSUME ShapeInv, NEW t \in Threads,
         \/ CommitMany(t) \/ StoreOne(t) \/ OneStored(t) \/ CommittedMany(t) \/ PutManyCached(t)
         \/ (t \in Batchers /\ PutReturns(t))
  PROVE  ShapeInv'
<1>1. /\ Shape(t) /\ pending[t] \in Operations \cup {None} /\ client[t] \in CallSet
      /\ pending = [pending EXCEPT ![t] = pending[t]] /\ client = [client EXCEPT ![t] = client[t]]
  BY Zenon DEF ShapeInv
<1>2. t \in Batchers /\ BatcherShape(t)
  BY <1>1, Roles, Zenon DEF CommitMany, StoreOne, OneStored, CommittedMany, PutManyCached, Shape,
                     PutterShape, DeleterShape, ReaderShape
<1>3. ~Ready(t)
  BY NoCallFields, Zenon DEF CommitMany, StoreOne, OneStored, CommittedMany, PutManyCached, PutReturns, Ready
<1>4. client[t].keys \subseteq Keys /\ client[t].good \subseteq Keys /\ client[t].left \subseteq Keys
  BY <1>1, Zenon DEF CallSet
<1>5. ASSUME NEW c \in CallSet, client' = [client EXCEPT ![t] = c],
             c.at \in {"idle", "hasMany", "store", "cache", "bloom"}, c.at = "idle" => c = NoCall,
             c.left \subseteq c.good, c.good \subseteq c.keys,
             NEW p \in Operations \cup {None}, pending' = [pending EXCEPT ![t] = p],
             p # None => c.at = "store" /\ p.typ = "rename"
      PROVE  Shape(t)'
  <2>1. client'[t] = c /\ pending'[t] = p
    BY <1>5, Zenon DEF ShapeInv
  <2> QED
    BY <1>2, <1>5, <2>1, Roles, Zenon DEF Shape, BatcherShape
<1>6. ASSUME client' = [client EXCEPT ![t] = NoCall], pending' = [pending EXCEPT ![t] = None]
      PROVE  Shape(t)'
  BY <1>5, <1>6, NoCallFields, Zenon
<1>7. CASE CommitMany(t)
  <2>1. pending[t] = None
    BY <1>2, <1>7, Zenon DEF CommitMany, BatcherShape
  <2>2. UNCHANGED <<present, limbo, pending, arc, bloom, toList, building, cut, acked, ignored>>
    BY <1>7, Zenon DEF CommitMany, contractVars, filter, promises
  <2>3. CASE client' = [client EXCEPT ![t] = NoCall]
    BY <1>1, <1>3, <1>6, <2>1, <2>2, <2>3, NoCallFields, Proceeds, Zenon DEF ShapeInv
  <2>4. ASSUME NEW ks \in SUBSET client[t].good,
               client' = [client EXCEPT ![t] = CallAt("store", client[t].keys, client[t].good, ks)]
        PROVE  ShapeInv'
    <3> DEFINE c == CallAt("store", client[t].keys, client[t].good, ks)
    <3>1. c \in CallSet /\ c.at = "store" /\ c.keys = client[t].keys /\ c.good = client[t].good /\ c.left = ks
      BY <1>4, CallFields
    <3>2. Shape(t)'
      BY <1>1, <1>2, <1>5, <2>1, <2>2, <2>4, <3>1, Zenon DEF BatcherShape
    <3> QED
      BY <1>1, <1>3, <2>1, <2>2, <2>4, <3>1, <3>2, Proceeds, Zenon DEF ShapeInv
  <2> QED
    BY <1>7, <2>3, <2>4, Zenon DEF CommitMany, Calls
<1>8. CASE StoreOne(t)
  <2>1. PICK k \in client[t].left :
          /\ Invoke(t, "rename", k)
          /\ Calls(t, CallAt("store", client[t].keys, client[t].good, client[t].left \ {k}))
    BY <1>8, Zenon DEF StoreOne
  <2> DEFINE c == CallAt("store", client[t].keys, client[t].good, client[t].left \ {k})
             o == Operation("rename", k, "called")
  <2>2. /\ c \in CallSet /\ c.at = "store" /\ c.keys = client[t].keys /\ c.good = client[t].good
        /\ c.left = client[t].left \ {k}
    BY <1>4, CallFields
  <2>3. o \in Operations /\ o.typ = "rename" /\ o.key = k
    BY <1>4, Zenon DEF Operation, Operations
  <2>4. /\ client' = [client EXCEPT ![t] = c] /\ pending' = [pending EXCEPT ![t] = o]
        /\ UNCHANGED <<present, limbo, arc, bloom, toList, building, cut, acked, ignored>>
    BY <1>8, <2>1, Zenon DEF StoreOne, Invoke, Calls, filter, promises
  <2>5. Shape(t)'
    BY <1>2, <1>5, <2>2, <2>3, <2>4, Zenon DEF BatcherShape
  <2> QED
    BY <1>3, <2>2, <2>3, <2>4, <2>5, Proceeds, Zenon DEF ShapeInv
<1>9. CASE OneStored(t)
  <2>1. /\ pending' = [pending EXCEPT ![t] = None]
        /\ UNCHANGED <<present, limbo, arc, bloom, toList, building, cut, acked, client>>
    BY <1>9, Zenon DEF OneStored, Respond, filter
  <2>2. ignored' \subseteq Keys
    BY <1>1, <1>9, Zenon DEF OneStored, Respond, ShapeInv, Operations
  <2>3. Shape(t)'
    BY <1>1, <1>2, <1>5, <1>9, <2>1, Zenon DEF BatcherShape, OneStored
  <2> QED
    BY <1>1, <1>3, <2>1, <2>2, <2>3, Proceeds, Zenon DEF ShapeInv
<1>10. CASE CommittedMany(t)
  <2>1. /\ pending[t] = None
        /\ UNCHANGED <<present, limbo, pending, arc, bloom, toList, building, cut, acked, ignored>>
    BY <1>10, Zenon DEF CommittedMany, contractVars, filter, promises
  <2>2. CASE client' = [client EXCEPT ![t] = NoCall]
    BY <1>1, <1>3, <1>6, <2>1, <2>2, NoCallFields, Proceeds, Zenon DEF ShapeInv
  <2>3. CASE client' = [client EXCEPT ![t] = CallAt("cache", client[t].keys, client[t].good, {})]
    <3> DEFINE c == CallAt("cache", client[t].keys, client[t].good, {})
    <3>1. c \in CallSet /\ c.at = "cache" /\ c.keys = client[t].keys /\ c.good = client[t].good /\ c.left = {}
      BY <1>4, CallFields
    <3>2. Shape(t)'
      BY <1>1, <1>2, <1>5, <2>1, <2>3, <3>1, Zenon DEF BatcherShape
    <3> QED
      BY <1>1, <1>3, <2>1, <2>3, <3>1, <3>2, Proceeds, Zenon DEF ShapeInv
  <2> QED
    BY <1>10, <2>2, <2>3, Zenon DEF CommittedMany, Calls
<1>11. CASE PutManyCached(t)
  <2>1. pending[t] = None
    BY <1>2, <1>11, Zenon DEF PutManyCached, BatcherShape
  <2> DEFINE c == CallAt("bloom", client[t].keys, {}, {})
  <2>2. /\ client' = [client EXCEPT ![t] = c]
        /\ UNCHANGED <<present, limbo, pending, bloom, toList, building, cut, acked, ignored>>
    BY <1>11, Zenon DEF PutManyCached, Calls, contractVars, filter, promises
  <2>3. arc' \in [Keys -> {"unknown", "have", "havenot"}]
    BY <1>11, LearnType, Zenon DEF PutManyCached
  <2>4. c \in CallSet /\ c.at = "bloom" /\ c.keys = client[t].keys /\ c.good = {} /\ c.left = {}
    BY <1>4, CallFields
  <2>5. Shape(t)'
    BY <1>1, <1>5, <2>1, <2>2, <2>4, Zenon
  <2> QED
    BY <1>1, <1>3, <2>1, <2>2, <2>3, <2>4, <2>5, Proceeds, Zenon DEF ShapeInv
<1>12. CASE PutReturns(t)
  <2>1. pending[t] = None
    BY <1>2, <1>12, Zenon DEF PutReturns, BatcherShape
  <2>2. /\ client' = [client EXCEPT ![t] = NoCall] /\ acked' = acked \cup client[t].keys
        /\ bloom' \subseteq Keys
        /\ UNCHANGED <<present, limbo, pending, arc, toList, building, cut, ignored>>
    BY <1>12, Zenon DEF PutReturns, Acknowledge, AddTS, Calls, contractVars
  <2>3. acked' \subseteq Keys
    BY <1>4, <2>2, Zenon DEF ShapeInv
  <2> QED
    BY <1>1, <1>2, <1>3, <1>6, <2>1, <2>2, <2>3, NoCallFields, Roles, Proceeds, Zenon DEF ShapeInv
<1> QED
  BY <1>7, <1>8, <1>9, <1>10, <1>11, <1>12, Zenon

\* The steps of DeleteBlock and of the readers
LEMMA DeleteReadShape ==
  ASSUME ShapeInv, NEW t \in Threads,
         DeleteReturned(t) \/ DeleteCached(t) \/ Read(t) \/ LearnRead(t)
  PROVE  ShapeInv'
<1>1. /\ Shape(t) /\ pending[t] \in Operations \cup {None} /\ client[t] \in CallSet
      /\ pending = [pending EXCEPT ![t] = pending[t]]
  BY Zenon DEF ShapeInv
<1>2. ~Ready(t)
  BY NoCallFields, Zenon DEF DeleteReturned, DeleteCached, Read, LearnRead, Ready
<1>3. client[t].keys \subseteq Keys
  BY <1>1, Zenon DEF CallSet
<1>4. ASSUME client' = [client EXCEPT ![t] = NoCall], pending' = [pending EXCEPT ![t] = None],
             acked' = acked, t \in Deleters \/ t \in Readers
      PROVE  Shape(t)'
  <2>1. client'[t] = NoCall /\ pending'[t] = None
    BY <1>4, Zenon DEF ShapeInv
  <2> QED
    BY <1>4, <2>1, NoCallFields, Roles, Zenon DEF Shape, DeleterShape, ReaderShape
<1>5. CASE DeleteReturned(t) \/ DeleteCached(t)
  <2>1. t \in Deleters /\ DeleterShape(t)
    BY <1>1, <1>5, Roles, Zenon DEF DeleteReturned, DeleteCached, Shape, PutterShape, BatcherShape, ReaderShape
  <2>2. CASE DeleteReturned(t)
    <3>1. /\ pending' = [pending EXCEPT ![t] = None]
          /\ UNCHANGED <<present, limbo, arc, bloom, toList, building, cut, acked, ignored>>
      BY <2>2, Zenon DEF DeleteReturned, Respond, filter, promises
    <3>2. CASE client' = [client EXCEPT ![t] = NoCall]
      BY <1>2, <1>4, <2>1, <3>1, <3>2, NoCallFields, Proceeds, Zenon DEF ShapeInv
    <3>3. CASE client' = [client EXCEPT ![t] = CallAt("forget", client[t].keys, {}, {})]
      <4> DEFINE c == CallAt("forget", client[t].keys, {}, {})
      <4>1. c \in CallSet /\ c.at = "forget" /\ c.keys = client[t].keys
        BY <1>3, CallFields
      <4>2. client'[t] = c /\ pending'[t] = None
        BY <3>1, <3>3, Zenon DEF ShapeInv
      <4>3. Shape(t)'
        BY <2>1, <3>1, <4>1, <4>2, Roles, Zenon DEF Shape, DeleterShape
      <4> QED
        BY <1>2, <3>1, <3>3, <4>1, <4>3, Proceeds, Zenon DEF ShapeInv
    <3> QED
      BY <2>2, <3>2, <3>3, Zenon DEF DeleteReturned, Calls
  <2>3. CASE DeleteCached(t)
    <3>1. pending[t] = None
      BY <2>1, <2>3, Zenon DEF DeleteCached, DeleterShape
    <3>2. /\ client' = [client EXCEPT ![t] = NoCall]
          /\ UNCHANGED <<present, limbo, pending, bloom, toList, building, cut, acked, ignored>>
      BY <2>3, Zenon DEF DeleteCached, Calls, contractVars, filter, promises
    <3>3. arc' \in [Keys -> {"unknown", "have", "havenot"}]
      BY <2>3, LearnType, Zenon DEF DeleteCached
    <3> QED
      BY <1>1, <1>2, <1>4, <2>1, <3>1, <3>2, <3>3, NoCallFields, Proceeds, Zenon DEF ShapeInv
  <2> QED
    BY <1>5, <2>2, <2>3, Zenon
<1>6. CASE Read(t) \/ LearnRead(t)
  <2>1. t \in Readers /\ ReaderShape(t) /\ pending[t] = None
    BY <1>1, <1>6, Roles, Zenon DEF Read, LearnRead, Shape, PutterShape, BatcherShape, DeleterShape, ReaderShape
  <2>2. CASE client' = [client EXCEPT ![t] = NoCall]
    <3>1. UNCHANGED <<present, limbo, pending, bloom, toList, building, cut, acked, ignored>>
      BY <1>6, Zenon DEF Read, LearnRead, contractVars, filter, promises
    <3>2. arc' \in [Keys -> {"unknown", "have", "havenot"}]
      <4>1. CASE arc' = arc
        BY <4>1, Zenon DEF ShapeInv
      <4>2. CASE LearnRead(t)
        BY <4>2, LearnType, Zenon DEF LearnRead
      <4> QED
        BY <1>6, <4>1, <4>2, Zenon DEF Read
    <3> QED
      BY <1>1, <1>2, <1>4, <2>1, <2>2, <3>1, <3>2, NoCallFields, Proceeds, Zenon DEF ShapeInv
  <2>3. CASE Read(t) /\ client' = [client EXCEPT ![t] = CallAt("learn", client[t].keys, client[t].keys \cap present, {})]
    <3> DEFINE c == CallAt("learn", client[t].keys, client[t].keys \cap present, {})
    <3>1. c \in CallSet /\ c.at = "learn" /\ c.keys = client[t].keys /\ c.good = client[t].keys \cap present
      BY <1>3, CallFields
    <3>2. UNCHANGED <<present, limbo, pending, arc, bloom, toList, building, cut, acked, ignored>>
      BY <2>3, Zenon DEF Read, contractVars, filter, promises
    <3>3. client'[t] = c /\ pending'[t] = None
      BY <2>1, <2>3, <3>2, Zenon DEF ShapeInv
    <3>4. PICK k \in Keys : client[t].keys = {k}
      BY <2>1, <2>3, Zenon DEF Read, ReaderShape
    <3>5. Shape(t)'
      BY <2>1, <3>1, <3>3, <3>4, Roles, ZenonT(30) DEF Shape, ReaderShape
    <3> QED
      BY <1>1, <1>2, <2>1, <2>3, <3>1, <3>2, <3>5, Proceeds, Zenon DEF ShapeInv
  <2> QED
    BY <1>6, <2>2, <2>3, Zenon DEF Read, LearnRead, Calls
<1> QED
  BY <1>5, <1>6, Zenon

\* Only those who put reach the end of a put.
LEMMA PutReturnsRole ==
  ASSUME ShapeInv, NEW t \in Threads, PutReturns(t)
  PROVE  t \in Putters \/ t \in Batchers
BY Roles, Zenon DEF PutReturns, ShapeInv, Shape, DeleterShape, ReaderShape

\* Every step keeps the shapes.
LEMMA ShapeNext == ShapeInv /\ [Next]_vars => ShapeInv'
<1> SUFFICES ASSUME ShapeInv, [Next]_vars PROVE ShapeInv'
  BY Zenon
<1>1. ASSUME UNCHANGED <<client, pending, acked, present, ignored>>,
             arc' \in [Keys -> {"unknown", "have", "havenot"}], limbo' \subseteq Keys,
             bloom' \subseteq Keys, toList' \subseteq Keys,
             building' \in {"walk", "list", "active"}, cut' \in BOOLEAN
      PROVE  ShapeInv'
  <2>1. \A s \in Threads : Shape(s)'
    BY <1>1, ZenonT(30) DEF ShapeInv, Shape, PutterShape, BatcherShape, DeleterShape, ReaderShape
  <2>2. Exclusion'
    BY <1>1, Zenon DEF ShapeInv, Exclusion, NoDelete, NobodyPins, Ready
  <2> QED
    BY <1>1, <2>1, <2>2, Zenon DEF ShapeInv
<1>2. CASE UNCHANGED vars
  BY <1>1, <1>2, Zenon DEF vars, contractVars, cacheVars, filter, promises, ShapeInv
<1>3. ASSUME NEW k \in Keys, Evict(k) PROVE ShapeInv'
  <2>1. arc' \in [Keys -> {"unknown", "have", "havenot"}]
    BY <1>3, LearnType, Zenon DEF Evict
  <2> QED
    BY <1>1, <1>3, <2>1, Zenon DEF Evict, contractVars, filter, promises, ShapeInv
<1>4. CASE Walk \/ List \/ Activate
  BY <1>1, <1>4, Zenon DEF Walk, List, Activate, AddTS, contractVars, promises, ShapeInv
<1>5. CASE Settle /\ UNCHANGED cacheVars
  BY <1>1, <1>5, Zenon DEF Settle, cacheVars, filter, promises, ShapeInv
<1>6. ASSUME NEW t \in Threads, CallStep(t) PROVE ShapeInv'
  BY <1>6, StoreStepShape, PutShape, PutManyShape, DeleteReadShape, PutReturnsRole, Zenon DEF CallStep
<1>7. ASSUME NEW t \in Threads,
             \/ t \in Putters /\ \E k \in Keys : PutBlock(t, k)
             \/ t \in Batchers /\ \E ks \in SUBSET Keys : PutMany(t, ks)
             \/ t \in Deleters /\ \E k \in Keys : DeleteBlock(t, k)
             \/ t \in Readers /\ \E k \in Keys : Has(t, k) \/ GetSize(t, k) \/ Get(t, k)
      PROVE  ShapeInv'
  BY <1>7, CallShape, Zenon
<1>8. Putters \subseteq Threads /\ Batchers \subseteq Threads /\ Deleters \subseteq Threads /\ Readers \subseteq Threads
  BY BlockCacheAssumption, Zenon
<1> QED
  BY <1>2, <1>3, <1>4, <1>5, <1>6, <1>7, <1>8, Zenon DEF Next

-----------------------------------------------------------------------------
(* The filter.                                                              *)

\* An acknowledged key that the filter does not contain was there from the start,
\* and is still there to be listed.
BloomInv ==
  /\ acked \ bloom \subseteq present
  /\ building # "walk" /\ ~cut => acked \subseteq bloom \cup toList
  /\ building = "active" => toList = {}

\* No step of the datastore takes an acknowledged key away.
LEMMA AckedStays ==
  ASSUME ShapeInv, NEW t \in Threads, StoreStep(t)
  PROVE  /\ acked \cap present \subseteq present'
         /\ pending[t].typ # "delete" => present \subseteq present'
<1>1. CASE TakeEffect(t) /\ pending[t].typ = "delete"
  <2>1. Shape(t) /\ pending[t] # None
    BY <1>1, Zenon DEF ShapeInv, TakeEffect, InState
  <2>2. DeleterShape(t) /\ client[t].keys = {pending[t].key}
    BY <1>1, <2>1, Roles, Zenon DEF Shape, PutterShape, BatcherShape, ReaderShape, DeleterShape
  <2>3. pending[t].key \notin acked
    BY <2>2, Zenon DEF DeleterShape
  <2> QED
    BY <1>1, <2>3, Zenon DEF TakeEffect
<1>2. CASE TakeEffect(t) /\ pending[t].typ # "delete"
  BY <1>2, Zenon DEF TakeEffect
<1>3. CASE ~TakeEffect(t)
  BY <1>3, Zenon DEF StoreStep, Miss, Retry, Succeed, Fail
<1> QED
  BY <1>1, <1>2, <1>3, Zenon

\* Every step keeps BloomInv.
LEMMA BloomNext == ShapeInv /\ BloomInv /\ [Next]_vars => BloomInv'
<1> SUFFICES ASSUME ShapeInv, BloomInv, [Next]_vars PROVE BloomInv'
  BY Zenon
<1>1. ASSUME UNCHANGED filter, acked' \subseteq acked, acked \cap present \subseteq present'
      PROVE  BloomInv'
  BY <1>1, Zenon DEF BloomInv, filter
<1>2. ASSUME NEW t \in Threads, StoreStep(t) PROVE BloomInv'
  BY <1>1, <1>2, AckedStays, Zenon DEF StoreStep, cacheVars, promises
<1>3. ASSUME NEW t \in Threads, PutReturns(t) PROVE BloomInv'
  BY <1>3, Zenon DEF PutReturns, Acknowledge, AddTS, BloomInv, contractVars
<1>4. ASSUME NEW t \in Threads, CallStep(t), ~StoreStep(t), ~PutReturns(t)
      PROVE  UNCHANGED <<filter, acked, present>>
  BY <1>4, Zenon DEF CallStep, PutHas, PutStored, PutCached, CommitMany, StoreOne, OneStored,
     CommittedMany, PutManyCached, DeleteReturned, DeleteCached, Read, LearnRead, Respond, Invoke,
     contractVars, promises
<1>5. ASSUME NEW t \in Threads, NEW k \in Keys,
             PutBlock(t, k) \/ DeleteBlock(t, k) \/ Has(t, k) \/ GetSize(t, k) \/ Get(t, k)
      PROVE  BloomInv'
  BY <1>1, <1>5, Zenon DEF PutBlock, DeleteBlock, Has, GetSize, Get, Invoke, contractVars, promises
<1>6. ASSUME NEW t \in Threads, NEW ks \in SUBSET Keys, PutMany(t, ks) PROVE BloomInv'
  BY <1>1, <1>6, Zenon DEF PutMany, contractVars, promises
<1>7. CASE Walk
  BY <1>7, Zenon DEF Walk, BloomInv, contractVars, promises
<1>8. CASE List
  BY <1>8, Zenon DEF List, AddTS, BloomInv, contractVars, promises
<1>9. CASE Activate
  BY <1>9, Zenon DEF Activate, BloomInv, contractVars, promises
<1>10. ASSUME NEW k \in Keys, Evict(k) PROVE BloomInv'
  BY <1>1, <1>10, Zenon DEF Evict, contractVars, promises
<1>11. CASE (Settle /\ UNCHANGED cacheVars) \/ UNCHANGED vars
  BY <1>1, <1>11, Zenon DEF Settle, vars, contractVars, cacheVars, promises
<1>12. Putters \subseteq Threads /\ Batchers \subseteq Threads /\ Deleters \subseteq Threads /\ Readers \subseteq Threads
  BY BlockCacheAssumption, Zenon
<1> QED
  BY <1>1, <1>2, <1>3, <1>4, <1>5, <1>6, <1>7, <1>8, <1>9, <1>10, <1>11, <1>12, Zenon DEF Next

\* An active filter, built from a complete listing, contains every block that
\* was acknowledged or was there at the start, however the build in bloom_cache.go
\* interleaves with puts and deletes, and whoever reads.
THEOREM FilterCovers == Spec => []BloomCovers
<1>1. Init => ShapeInv /\ BloomInv
  BY ShapeInit, Zenon DEF Init, BloomInv
<1>2. ShapeInv /\ BloomInv /\ [Next]_vars => ShapeInv' /\ BloomInv'
  BY ShapeNext, BloomNext, Zenon
<1>3. BloomInv => BloomCovers
  BY Zenon DEF BloomInv, BloomCovers
<1> QED
  BY <1>1, <1>2, <1>3, PTL DEF Spec

-----------------------------------------------------------------------------
(* Acknowledged blocks are stored.                                         *)

\* The blocks that are there, or that a batch failed to store
Stored == present \cup ignored

\* What a client relies on where it is
Holds(t) ==
  /\ client[t].at \in {"cache", "bloom"} => client[t].keys \subseteq Stored
  /\ client[t].at = "hasMany" => client[t].keys \ client[t].good \subseteq Stored
  /\ t \in Batchers /\ client[t].at = "store" =>
       \A k \in client[t].keys \ client[t].left :
         k \in Stored \/ (pending[t] # None /\ pending[t].key = k)
  /\ pending[t] # None /\ pending[t].typ # "delete" =>
       /\ pending[t].state # "notfound"
       /\ pending[t].state \in {"effective", "ok"} => pending[t].key \in present
  /\ client[t].at = "learn" => client[t].good \subseteq Stored

\* A deleter took k away, or found it gone, and will tell the cache.
Forgetting(t, k) ==
  /\ client[t].keys = {k}
  /\ \/ client[t].at = "forget"
     \/ client[t].at = "delete" /\ pending[t].state \in {"effective", "ok", "notfound"}

\* The cache is wrong about a block only while a deleter is about to correct it.
ArcTold ==
  \A k \in Keys : arc[k] = "have" /\ k \notin Stored => \E t \in Deleters : Forgetting(t, k)

StoredInv == AckedStored /\ ArcTold /\ \A t \in Threads : Holds(t)

\* A client that is not in a step goes on to rely on what it relied on.
LEMMA OtherHolds ==
  ASSUME NEW t \in Threads, Holds(t), client'[t] = client[t], pending'[t] = pending[t],
         Stored \subseteq Stored', present \subseteq present'
  PROVE  Holds(t)'
BY Zenon DEF Holds

\* Who is in no call relies on nothing.
LEMMA ReadyHolds ==
  ASSUME ShapeInv, NEW t \in Threads, client'[t] = NoCall, pending'[t] = None
  PROVE  Holds(t)'
BY NoCallFields, Zenon DEF Holds

\* Nobody deletes while a putter, a batcher or a reader with the lock is in a call.
LEMMA PinnersAlone ==
  ASSUME ShapeInv, FreeReaders = {}, NEW t \in Threads \ Deleters, ~Ready(t)
  PROVE  \A s \in Deleters : client[s] = NoCall /\ pending[s] = None
<1>1. t \in PinLockers
  BY BlockCacheAssumption, Zenon DEF PinLockers, Readers
<1>2. NoDelete
  BY <1>1, Zenon DEF ShapeInv, Exclusion, NobodyPins
<1>3. \A s \in Deleters : client[s] = NoCall /\ Shape(s) /\ s \in Threads
  BY <1>2, BlockCacheAssumption, Zenon DEF NoDelete, Ready, ShapeInv
<1> QED
  BY <1>3, NoCallFields, Zenon DEF Shape, DeleterShape

\* Nobody else is in a call while a deleter is.
LEMMA DeletersAlone ==
  ASSUME ShapeInv, FreeReaders = {}, NEW t \in Deleters, ~Ready(t)
  PROVE  \A s \in Threads \ Deleters : client[s] = NoCall /\ pending[s] = None
<1>1. NobodyPins
  BY Zenon DEF ShapeInv, Exclusion, NoDelete
<1>2. \A s \in Threads \ Deleters : client[s] = NoCall /\ Shape(s)
  BY <1>1, BlockCacheAssumption, Zenon DEF NobodyPins, PinLockers, Readers, Ready, ShapeInv
<1> QED
  BY <1>2, NoCallFields, Roles, Zenon DEF Shape, PutterShape, BatcherShape, ReaderShape

\* The step of a client that does not delete
LEMMA PinnerKeeps ==
  ASSUME ShapeInv, StoredInv, NEW t \in Threads \ Deleters,
         \A s \in Threads \ {t} : client'[s] = client[s] /\ pending'[s] = pending[s],
         present \subseteq present', ignored \subseteq ignored',
         acked' \ ignored' \subseteq present',
         \A k \in Keys : arc'[k] = "have" => arc[k] = "have" \/ k \in Stored',
         Holds(t)'
  PROVE  StoredInv'
<1>1. Stored \subseteq Stored'
  BY Zenon DEF Stored
<1>2. \A s \in Threads : Holds(s)'
  BY <1>1, OtherHolds, Zenon DEF StoredInv
<1>3. ArcTold'
  BY <1>1, BlockCacheAssumption DEF StoredInv, ArcTold, Forgetting
<1> QED
  BY <1>2, <1>3, Zenon DEF StoredInv, AckedStored

\* A step of the datastore for a client that does not delete
LEMMA PinnerStoreStep ==
  ASSUME ShapeInv, StoredInv, FreeReaders = {}, NEW t \in Threads \ Deleters, StoreStep(t)
  PROVE  StoredInv'
<1>1. Shape(t) /\ Holds(t) /\ pending[t] # None /\ pending[t] \in Operations
  BY Zenon DEF ShapeInv, StoredInv, StoreStep, TakeEffect, Miss, Retry, Succeed, Fail, InState
<1>2. ~Ready(t) /\ pending[t].typ # "delete" /\ client[t].at = "store"
  BY <1>1, Roles, NoCallFields, Zenon DEF Shape, PutterShape, BatcherShape, ReaderShape, Ready
<1>3. UNCHANGED <<client, arc, acked, ignored>> /\ present \subseteq present'
  BY <1>2, AckedStays, Zenon DEF StoreStep, cacheVars, promises
<1>4. Stored \subseteq Stored'
  BY <1>3, Zenon DEF Stored
<1>5. \A s \in Deleters : client[s] = NoCall /\ pending[s] = None
  BY <1>2, PinnersAlone, Zenon
<1>6. ArcTold'
  BY <1>3, <1>4, <1>5, NoCallFields, Zenon DEF StoredInv, ArcTold, Forgetting
<1>7. ASSUME NEW state \in {"called", "effective", "error"}, Becomes(t, state),
             state = "effective" => pending[t].key \in present'
      PROVE  StoredInv'
  <2>1. /\ pending'[t].typ = pending[t].typ /\ pending'[t].key = pending[t].key
        /\ pending'[t].state = state /\ pending'[t] # None
    <3>1. pending'[t] = Operation(pending[t].typ, pending[t].key, state)
      BY <1>7, Zenon DEF Becomes, ShapeInv
    <3>2. Operation(pending[t].typ, pending[t].key, state) \in Operations
      BY <1>1, Zenon DEF Operation, Operations
    <3> QED
      BY <3>1, <3>2, NoneIsNoOperation DEF Operation, Operations
  <2>2. Holds(t)'
    BY <1>1, <1>2, <1>3, <1>4, <1>7, <2>1, Zenon DEF Holds
  <2>3. \A s \in Threads \ {t} : client'[s] = client[s] /\ pending'[s] = pending[s]
    BY <1>3, <1>7, Zenon DEF Becomes, ShapeInv
  <2> QED
    BY <1>3, <2>2, <2>3, PinnerKeeps, Zenon DEF StoredInv, AckedStored
<1>8. CASE TakeEffect(t)
  BY <1>2, <1>7, <1>8, Zenon DEF TakeEffect
<1>9. CASE Retry(t)
  BY <1>7, <1>9, Zenon DEF Retry
<1>10. CASE Fail(t)
  BY <1>7, <1>10, Zenon DEF Fail
<1>11. ASSUME NEW others \in SUBSET Threads, Succeed(t, others)
       PROVE  StoredInv'
  <2>1. pending[t].key \in present
    BY <1>1, <1>2, <1>11, Zenon DEF Succeed, InState, Holds
  <2>2. ASSUME NEW s \in Threads PROVE Holds(s)'
    <3>1. Holds(s) /\ Shape(s)
      BY Zenon DEF StoredInv, ShapeInv
    <3>2. CASE s # t /\ s \notin others
      <4>1. pending'[s] = pending[s]
        BY <1>11, <3>2, Zenon DEF Succeed
      <4> QED
        BY <1>3, <1>4, <3>1, <4>1, OtherHolds, Zenon
    <3>3. CASE s = t \/ s \in others
      <4>1. pending[s] # None /\ pending[s] \in Operations /\ pending[s].key = pending[t].key
        BY <1>11, <3>1, <3>3, Zenon DEF Succeed, InState, Shape
      <4>2. pending'[s] = Operation(pending[s].typ, pending[s].key, "ok")
        BY <1>11, <3>3, Zenon DEF Succeed
      <4>3. /\ pending'[s].typ = pending[s].typ /\ pending'[s].key = pending[s].key
            /\ pending'[s].state = "ok"
        BY <4>2 DEF Operation
      <4>4. pending'[s] # None
        BY <4>1, <4>2, NoneIsNoOperation DEF Operation, Operations
      <4> QED
        BY <1>3, <1>4, <2>1, <3>1, <4>1, <4>3, <4>4, Zenon DEF Holds
    <3> QED
      BY <3>2, <3>3, Zenon
  <2> QED
    BY <1>3, <1>6, <2>2, Zenon DEF StoredInv, AckedStored
<1>12. CASE Miss(t)
  BY <1>2, <1>12, Zenon DEF Miss
<1> QED
  BY <1>8, <1>9, <1>10, <1>11, <1>12, Zenon DEF StoreStep

\* A step of the datastore for a deleter: what it takes away it will forget.
LEMMA DeleterStoreStep ==
  ASSUME ShapeInv, StoredInv, FreeReaders = {}, NEW t \in Deleters, StoreStep(t)
  PROVE  StoredInv'
<1>1. t \in Threads /\ Deleters \subseteq Threads
  BY BlockCacheAssumption, Zenon
<1>2. Shape(t) /\ pending[t] # None /\ pending[t] \in Operations
  BY <1>1, Zenon DEF ShapeInv, StoreStep, TakeEffect, Miss, Retry, Succeed, Fail, InState
<1>3. /\ ~Ready(t) /\ pending[t].typ = "delete" /\ client[t].at = "delete"
      /\ client[t].keys = {pending[t].key}
  BY <1>1, <1>2, NoCallFields, Zenon DEF Shape, DeleterShape, Ready
<1>4. UNCHANGED <<client, arc, acked, ignored>>
  BY Zenon DEF StoreStep, cacheVars, promises
<1>5. \A s \in Threads \ Deleters : client[s] = NoCall /\ pending[s] = None
  BY <1>3, DeletersAlone, Zenon
<1>6. \A s \in Threads : IF pending[s] = None THEN pending'[s] = None
                         ELSE /\ pending'[s] # None /\ pending'[s].typ = pending[s].typ
                              /\ pending'[s].key = pending[s].key
  BY <1>1, StoreStepStates, Zenon
<1>7. \A s \in Threads : Holds(s)'
  <2>1. ASSUME NEW s \in Threads \ Deleters PROVE Holds(s)'
    BY <1>4, <1>5, <1>6, ReadyHolds, Zenon
  <2>2. ASSUME NEW s \in Deleters PROVE Holds(s)'
    <3>1. DeleterShape(s) /\ s \notin Batchers
      BY <1>1, Roles, Zenon DEF ShapeInv, Shape
    <3> QED
      BY <1>1, <1>4, <1>6, <3>1, Zenon DEF Holds, DeleterShape
  <2> QED
    BY <2>1, <2>2, Zenon
<1>8. AckedStored'
  BY <1>1, <1>4, AckedStays, Zenon DEF StoredInv, AckedStored
<1>9. ASSUME NEW s \in Deleters, NEW k \in Keys, Forgetting(s, k)
      PROVE  Forgetting(s, k)'
  <2>1. CASE client[s].at = "forget"
    BY <1>4, <1>9, <2>1, Zenon DEF Forgetting
  <2>2. CASE client[s].at = "delete"
    <3>1. /\ pending[s].state \in {"effective", "ok", "notfound"} /\ pending[s] # None
          /\ pending[s].typ = "delete" /\ s \in Threads
      BY <1>1, <1>9, <2>2, Zenon DEF Forgetting, ShapeInv, Shape, DeleterShape
    <3>2. pending'[s].state \in {"effective", "ok", "notfound"}
      <4>1. CASE pending'[s] = pending[s]
        BY <3>1, <4>1, Zenon
      <4>2. ASSUME NEW others \in SUBSET Threads, Succeed(t, others) 
            PROVE  pending'[s].state \in {"effective", "ok", "notfound"}
        <5>1. \/ pending'[s] = Operation(pending[s].typ, pending[s].key, "ok")
              \/ pending'[s] = pending[s]
          BY <3>1, <4>2, Zenon DEF Succeed
        <5> QED
          BY <3>1, <5>1 DEF Operation
      <4>3. CASE s # t /\ ~\E others \in SUBSET Threads : Succeed(t, others)
        BY <3>1, <4>1, <4>3, Zenon DEF StoreStep, TakeEffect, Miss, Retry, Fail, Becomes, ShapeInv
      <4>4. CASE s = t /\ ~\E others \in SUBSET Threads : Succeed(t, others)
        BY <3>1, <4>4, Zenon DEF StoreStep, TakeEffect, Miss, Retry, Fail, InState
      <4> QED
        BY <4>2, <4>3, <4>4, Zenon
    <3> QED
      BY <1>4, <1>9, <2>2, <3>2, Zenon DEF Forgetting
  <2> QED
    BY <1>9, <2>1, <2>2, Zenon DEF Forgetting
<1>10. CASE present \subseteq present'
  <2>1. ArcTold'
    BY <1>1, <1>4, <1>9, <1>10, Zenon DEF StoredInv, ArcTold, Stored
  <2> QED
    BY <1>7, <1>8, <2>1, Zenon DEF StoredInv
<1>11. CASE TakeEffect(t)
  <2>1. present' = present \ {pending[t].key} /\ Becomes(t, "effective")
    BY <1>3, <1>11, Zenon DEF TakeEffect
  <2>2. pending'[t] = Operation(pending[t].typ, pending[t].key, "effective")
    BY <1>1, <2>1, Zenon DEF Becomes, ShapeInv
  <2>3. \A k \in Keys : k = pending[t].key => Forgetting(t, k)'
    BY <1>3, <1>4, <2>2 DEF Forgetting, Operation
  <2>4. ArcTold'
    <3> SUFFICES ASSUME NEW k \in Keys, arc'[k] = "have", k \notin Stored'
                 PROVE  \E s \in Deleters : Forgetting(s, k)'
      BY Zenon DEF ArcTold
    <3>1. CASE k = pending[t].key
      BY <2>3, <3>1, Zenon
    <3>2. CASE k # pending[t].key
      BY <1>4, <1>9, <2>1, <3>2, Zenon DEF StoredInv, ArcTold, Stored
    <3> QED
      BY <3>1, <3>2, Zenon
  <2> QED
    BY <1>7, <1>8, <2>4, Zenon DEF StoredInv
<1>12. CASE ~TakeEffect(t)
  BY <1>10, <1>12, Zenon DEF StoreStep, Miss, Retry, Succeed, Fail
<1> QED
  BY <1>11, <1>12, Zenon

\* The steps of a deleter
LEMMA DeleterKeeps ==
  ASSUME ShapeInv, StoredInv, FreeReaders = {}, NEW t \in Deleters,
         (\E k \in Keys : DeleteBlock(t, k)) \/ DeleteReturned(t) \/ DeleteCached(t)
  PROVE  StoredInv'
<1>1. t \in Threads /\ Deleters \subseteq Threads /\ Shape(t) /\ DeleterShape(t) /\ t \notin Batchers
  BY BlockCacheAssumption, Roles, Zenon DEF ShapeInv, Shape
<1>2. UNCHANGED <<present, ignored>> /\ acked' \subseteq acked
  BY Zenon DEF DeleteBlock, DeleteReturned, DeleteCached, Invoke, Respond, contractVars, promises
<1>3. \A s \in Threads \ {t} : client'[s] = client[s] /\ pending'[s] = pending[s]
  BY <1>1, Zenon
  DEF DeleteBlock, DeleteReturned, DeleteCached, Invoke, Respond, Calls, contractVars, ShapeInv
<1>4. Stored' = Stored /\ AckedStored'
  BY <1>2, Zenon DEF StoredInv, AckedStored, Stored
<1>5. client'[t].at \in {"idle", "delete", "forget"}
      /\ (pending'[t] = None \/ (pending'[t].typ = "delete"))
  <2>1. ASSUME NEW k \in Keys, DeleteBlock(t, k)
        PROVE  client'[t].at = "delete" /\ pending'[t].typ = "delete"
    <3>1. client'[t] = CallAt("delete", {k}, {}, {}) /\ pending'[t] = Operation("delete", k, "called")
      BY <1>1, <2>1, Zenon DEF DeleteBlock, Invoke, Calls, ShapeInv
    <3> QED
      BY <3>1 DEF CallAt, Operation
  <2>2. CASE DeleteReturned(t)
    <3>1. pending'[t] = None /\ client'[t] \in {NoCall, CallAt("forget", client[t].keys, {}, {})}
      BY <1>1, <2>2, Zenon DEF DeleteReturned, Respond, Calls, ShapeInv
    <3> QED
      BY <3>1, NoCallFields DEF CallAt
  <2>3. CASE DeleteCached(t)
    <3>1. pending'[t] = None /\ client'[t] = NoCall
      BY <1>1, <2>3, Zenon DEF DeleteCached, Calls, contractVars, ShapeInv, DeleterShape
    <3> QED
      BY <3>1, NoCallFields, Zenon
  <2> QED
    BY <2>1, <2>2, <2>3, Zenon
<1>6. Holds(t)'
  BY <1>1, <1>5, Zenon DEF Holds
<1>7. \A s \in Threads : Holds(s)'
  BY <1>2, <1>3, <1>4, <1>6, OtherHolds, Zenon DEF StoredInv
<1>8. ASSUME NEW s \in Deleters \ {t}, NEW k \in Keys, Forgetting(s, k) PROVE Forgetting(s, k)'
  BY <1>1, <1>3, <1>8, Zenon DEF Forgetting
<1>9. ASSUME NEW k \in Keys, arc'[k] = "have", k \notin Stored',
             arc[k] = "have", Forgetting(t, k) => Forgetting(t, k)'
      PROVE  \E s \in Deleters : Forgetting(s, k)'
  BY <1>4, <1>8, <1>9, Zenon DEF StoredInv, ArcTold
<1>10. CASE \E k \in Keys : DeleteBlock(t, k)
  <2>1. arc' = arc /\ client[t] = NoCall
    BY <1>10, Zenon DEF DeleteBlock, NoDelete, Ready
  <2>2. \A k \in Keys : ~Forgetting(t, k)
    BY <2>1, NoCallFields, Zenon DEF Forgetting
  <2>3. ArcTold'
    BY <1>9, <2>1, <2>2, Zenon DEF ArcTold
  <2> QED
    BY <1>4, <1>7, <2>3, Zenon DEF StoredInv
<1>11. CASE DeleteReturned(t)
  <2>1. ASSUME NEW k \in Keys, Forgetting(t, k) PROVE Forgetting(t, k)'
    <3>1. pending[t].state # "error"
      BY <1>11, <2>1, Zenon DEF DeleteReturned, Forgetting
    <3>2. client'[t] = CallAt("forget", client[t].keys, {}, {})
      BY <1>1, <1>11, <3>1, Zenon DEF DeleteReturned, Calls, ShapeInv
    <3> QED
      BY <2>1, <3>2 DEF Forgetting, CallAt
  <2>2. arc' = arc
    BY <1>11, Zenon DEF DeleteReturned
  <2>3. ArcTold'
    BY <1>9, <2>1, <2>2, Zenon DEF ArcTold
  <2> QED
    BY <1>4, <1>7, <2>3, Zenon DEF StoredInv
<1>12. CASE DeleteCached(t)
  <2>1. \A k \in Keys : arc'[k] = "have" => arc[k] = "have" /\ k \notin client[t].keys
    BY <1>12, Zenon DEF DeleteCached, Learn
  <2>2. \A k \in Keys : arc'[k] = "have" => ~Forgetting(t, k)
    BY <2>1, Zenon DEF Forgetting
  <2>3. ArcTold'
    BY <1>9, <2>1, <2>2, Zenon DEF ArcTold
  <2> QED
    BY <1>4, <1>7, <2>3, Zenon DEF StoredInv
<1> QED
  BY <1>10, <1>11, <1>12, Zenon

\* Without a deleter the cache is right.
LEMMA ArcRight ==
  ASSUME ShapeInv, StoredInv, NoDelete, NEW k \in Keys, arc[k] = "have"
  PROVE  k \in Stored
BY NoCallFields, Zenon DEF StoredInv, ArcTold, Forgetting, NoDelete, Ready

\* The steps of those who put
LEMMA PutKeeps ==
  ASSUME ShapeInv, StoredInv, NEW t \in Threads, t \in Putters,
         \/ \E k \in Keys : PutBlock(t, k)
         \/ PutHas(t) \/ PutStored(t) \/ PutCached(t) \/ PutReturns(t)
  PROVE  StoredInv'
<1>1. t \notin Deleters /\ t \notin Batchers /\ PutterShape(t) /\ Holds(t) /\ client[t] \in CallSet
  BY Roles, Zenon DEF ShapeInv, Shape, StoredInv
<1>2. UNCHANGED <<present, ignored>>
  BY Zenon
  DEF PutBlock, PutHas, PutStored, PutCached, PutReturns, Acknowledge, Invoke, Respond,
      contractVars, promises
<1>3. \A s \in Threads \ {t} : client'[s] = client[s] /\ pending'[s] = pending[s]
  BY Zenon DEF PutBlock, PutHas, PutStored, PutCached, PutReturns, Acknowledge, Calls, Invoke, Respond,
         contractVars, ShapeInv
<1>4. Stored' = Stored
  BY <1>2, Zenon DEF Stored
<1>5. ASSUME acked' = acked, arc' = arc, Holds(t)' PROVE StoredInv'
  BY <1>1, <1>2, <1>3, <1>5, PinnerKeeps, Zenon DEF StoredInv, AckedStored
<1>6. ASSUME NEW at, NEW ks, client'[t] = CallAt(at, ks, {}, {}), pending'[t] = None,
             at \in {"has"} \/ (at \in {"cache", "bloom"} /\ ks \subseteq Stored)
      PROVE  Holds(t)'
  BY <1>1, <1>4, <1>6 DEF Holds, CallAt
<1>7. ASSUME NEW k \in Keys, PutBlock(t, k) PROVE StoredInv'
  <2>1. ArcHas(k) => k \in Stored
    BY <1>7, ArcRight, Zenon DEF PutBlock, ArcHas
  <2>2. client'[t] = CallAt(IF ArcHas(k) THEN "bloom" ELSE "has", {k}, {}, {})
    BY <1>7, Zenon DEF PutBlock, Calls, ShapeInv
  <2>3. pending'[t] = None
    BY <1>1, <1>7, NoCallFields, Zenon DEF PutBlock, Ready, contractVars, PutterShape
  <2>4. Holds(t)'
    BY <1>6, <2>1, <2>2, <2>3, Zenon
  <2> QED
    BY <1>5, <1>7, <2>4, Zenon DEF PutBlock, promises
<1>8. CASE PutHas(t)
  <2>1. Key(t) \in client[t].keys /\ client[t].keys = {Key(t)} /\ pending[t] = None
    BY <1>1, <1>8, Zenon DEF PutHas, PutterShape, Key
  <2>2. CASE Invoke(t, "put", Key(t)) /\ Calls(t, CallAt("store", client[t].keys, {}, {}))
    <3>1. client'[t].at = "store" /\ pending'[t].typ = "put" /\ pending'[t].state = "called"
      <4>1. /\ client'[t] = CallAt("store", client[t].keys, {}, {})
            /\ pending'[t] = Operation("put", Key(t), "called")
        BY <2>2, Zenon DEF Invoke, Calls, ShapeInv
      <4> QED
        BY <4>1 DEF CallAt, Operation
    <3>2. Holds(t)'
      BY <1>1, <3>1, Zenon DEF Holds
    <3> QED
      BY <1>5, <1>8, <3>2, Zenon DEF PutHas, promises
  <2>3. CASE Key(t) \in present /\ Calls(t, CallAt("cache", client[t].keys, {}, {})) /\ UNCHANGED contractVars
    <3>1. client'[t] = CallAt("cache", client[t].keys, {}, {}) /\ pending'[t] = None
      BY <2>1, <2>3, Zenon DEF Calls, contractVars, ShapeInv
    <3>2. client[t].keys \subseteq Stored
      BY <2>1, <2>3, Zenon DEF Stored
    <3>3. Holds(t)'
      BY <1>6, <3>1, <3>2, Zenon
    <3> QED
      BY <1>5, <1>8, <3>3, Zenon DEF PutHas, promises
  <2> QED
    BY <1>8, <2>2, <2>3, Zenon DEF PutHas
<1>9. CASE PutStored(t)
  <2>1. /\ pending'[t] = None /\ pending[t] # None /\ pending[t].typ = "put"
        /\ client[t].keys = {pending[t].key}
    BY <1>1, <1>9, Zenon DEF PutStored, Respond, PutterShape, ShapeInv
  <2>2. CASE pending[t].state = "ok"
    <3>1. client'[t] = CallAt("cache", client[t].keys, {}, {})
      BY <1>9, <2>2, Zenon DEF PutStored, Calls, ShapeInv
    <3>2. client[t].keys \subseteq Stored
      BY <1>1, <2>1, <2>2, Zenon DEF Holds, Stored
    <3>3. Holds(t)'
      BY <1>6, <2>1, <3>1, <3>2, Zenon
    <3> QED
      BY <1>5, <1>9, <3>3, Zenon DEF PutStored, promises
  <2>3. CASE pending[t].state # "ok"
    <3>1. client'[t] = NoCall
      BY <1>9, <2>3, Zenon DEF PutStored, Calls, ShapeInv
    <3>2. Holds(t)'
      BY <2>1, <3>1, ReadyHolds, Zenon
    <3> QED
      BY <1>5, <1>9, <3>2, Zenon DEF PutStored, promises
  <2> QED
    BY <2>2, <2>3, Zenon
<1>10. CASE PutCached(t)
  <2>1. client[t].keys \subseteq Stored /\ pending[t] = None
    BY <1>1, <1>10, Zenon DEF PutCached, Holds, PutterShape
  <2>2. client'[t] = CallAt("bloom", client[t].keys, {}, {}) /\ pending'[t] = None
    BY <1>10, <2>1, Zenon DEF PutCached, Calls, contractVars, ShapeInv
  <2>3. Holds(t)'
    BY <1>6, <2>1, <2>2, Zenon
  <2>4. \A k \in Keys : arc'[k] = "have" => arc[k] = "have" \/ k \in Stored'
    BY <1>4, <1>10, <2>1, Zenon DEF PutCached, Learn
  <2>5. acked' \ ignored' \subseteq present'
    BY <1>2, <1>10, Zenon DEF PutCached, promises, StoredInv, AckedStored
  <2> QED
    BY <1>1, <1>2, <1>3, <2>3, <2>4, <2>5, PinnerKeeps, Zenon
<1>11. CASE PutReturns(t)
  <2>1. client[t].keys \subseteq Stored /\ pending[t] = None
    BY <1>1, <1>11, Zenon DEF PutReturns, Holds, PutterShape
  <2>2. /\ client'[t] = NoCall /\ pending'[t] = None /\ arc' = arc
        /\ acked' = acked \cup client[t].keys
    BY <1>11, <2>1, Zenon DEF PutReturns, Acknowledge, Calls, contractVars, ShapeInv
  <2>3. Holds(t)'
    BY <2>2, ReadyHolds, Zenon
  <2>4. acked' \ ignored' \subseteq present'
    BY <1>2, <2>1, <2>2, Zenon DEF StoredInv, AckedStored, Stored
  <2> QED
    BY <1>1, <1>2, <1>3, <2>2, <2>3, <2>4, PinnerKeeps, Zenon
<1> QED
  BY <1>7, <1>8, <1>9, <1>10, <1>11, Zenon

\* The steps of those who put many
LEMMA PutManyKeeps ==
  ASSUME ShapeInv, StoredInv, NEW t \in Threads, t \in Batchers,
         \/ \E ks \in SUBSET Keys : PutMany(t, ks)
         \/ CommitMany(t) \/ StoreOne(t) \/ OneStored(t) \/ CommittedMany(t) \/ PutManyCached(t)
         \/ PutReturns(t)
  PROVE  StoredInv'
<1>1. t \notin Deleters /\ BatcherShape(t) /\ Holds(t) /\ client[t] \in CallSet
  BY Roles, Zenon DEF ShapeInv, Shape, StoredInv
<1>2. present' = present /\ ignored \subseteq ignored'
  BY Zenon DEF PutMany, CommitMany, StoreOne, OneStored, CommittedMany, PutManyCached, PutReturns,
         Acknowledge, Invoke, Respond, contractVars, promises
<1>3. \A s \in Threads \ {t} : client'[s] = client[s] /\ pending'[s] = pending[s]
  BY Zenon DEF PutMany, CommitMany, StoreOne, OneStored, CommittedMany, PutManyCached, PutReturns,
         Acknowledge, Calls, Invoke, Respond, contractVars, filter, ShapeInv
<1>4. Stored \subseteq Stored'
  BY <1>2, Zenon DEF Stored
<1>5. ASSUME acked' = acked, arc' = arc, Holds(t)' PROVE StoredInv'
  BY <1>1, <1>2, <1>3, <1>5, PinnerKeeps, Zenon DEF StoredInv, AckedStored
<1>6. ASSUME client'[t] = NoCall, pending'[t] = None PROVE Holds(t)'
  BY <1>6, ReadyHolds, Zenon
<1>7. ASSUME NEW ks \in SUBSET Keys, PutMany(t, ks) PROVE StoredInv'
  <2> DEFINE good == {k \in ks : ~ArcHas(k)}
  <2>1. ks \ good \subseteq Stored
    BY <1>7, ArcRight, Zenon DEF PutMany, ArcHas
  <2>2. client'[t] = CallAt("hasMany", ks, good, {}) /\ pending'[t] = None
    BY <1>1, <1>7, NoCallFields, Zenon DEF PutMany, Calls, Ready, contractVars, BatcherShape, ShapeInv
  <2>3. client'[t].at = "hasMany" /\ client'[t].keys = ks /\ client'[t].good = good
    BY <1>7, <2>2, CallFields
  <2>4. Holds(t)'
    BY <1>4, <2>1, <2>2, <2>3, Zenon DEF Holds
  <2> QED
    BY <1>5, <1>7, <2>4, Zenon DEF PutMany, promises
<1>8. CASE CommitMany(t)
  <2>1. pending'[t] = None /\ UNCHANGED <<arc, acked>>
    BY <1>1, <1>8, Zenon DEF CommitMany, BatcherShape, contractVars, promises
  <2>2. CASE client' = [client EXCEPT ![t] = NoCall]
    BY <1>5, <1>6, <2>1, <2>2, Zenon DEF ShapeInv
  <2>3. ASSUME NEW ks \in SUBSET client[t].good, client[t].good \ present \subseteq ks,
               client' = [client EXCEPT ![t] = CallAt("store", client[t].keys, client[t].good, ks)]
        PROVE  StoredInv'
    <3>1. client'[t] = CallAt("store", client[t].keys, client[t].good, ks)
      BY <2>3, Zenon DEF ShapeInv
    <3>2. client'[t].at = "store" /\ client'[t].keys = client[t].keys /\ client'[t].left = ks
      <4>1. /\ client[t].keys \in SUBSET Keys /\ client[t].good \in SUBSET Keys
            /\ ks \in SUBSET Keys
        BY <1>1, <2>3, Zenon DEF CallSet
      <4> QED BY <3>1, <4>1, CallFields
    <3>3. client[t].keys \ ks \subseteq Stored
      BY <1>1, <1>8, <2>3, Zenon DEF CommitMany, Holds, Stored
    <3>4. Holds(t)'
      BY <1>4, <2>1, <3>2, <3>3, Zenon DEF Holds
    <3> QED
      BY <1>5, <2>1, <3>4, Zenon
  <2> QED
    BY <1>8, <2>2, <2>3, Zenon DEF CommitMany, Calls
<1>9. CASE StoreOne(t)
  <2>1. PICK k \in client[t].left :
          /\ Invoke(t, "rename", k)
          /\ Calls(t, CallAt("store", client[t].keys, client[t].good, client[t].left \ {k}))
    BY <1>9, Zenon DEF StoreOne
  <2>2. /\ client'[t] = CallAt("store", client[t].keys, client[t].good, client[t].left \ {k})
        /\ pending'[t] = Operation("rename", k, "called") /\ pending[t] = None
    BY <2>1, Zenon DEF Invoke, Calls, ShapeInv
  <2>3. /\ client'[t].at = "store" /\ client'[t].keys = client[t].keys
        /\ client'[t].left = client[t].left \ {k}
        /\ pending'[t].key = k /\ pending'[t].state = "called"
    BY <2>2 DEF CallAt, Operation
  <2>4. pending'[t] # None
    <3>1. Operation("rename", k, "called") \in Operations
      BY <1>1, Zenon DEF Operation, Operations, CallSet
    <3> QED
      BY <2>2, <3>1, NoneIsNoOperation, Zenon DEF Operations
  <2>5. Holds(t)'
    BY <1>1, <1>4, <1>9, <2>2, <2>3, <2>4, Zenon DEF Holds, StoreOne
  <2> QED
    BY <1>5, <1>9, <2>5, Zenon DEF StoreOne, promises
<1>10. CASE OneStored(t)
  <2>1. /\ pending'[t] = None /\ client'[t] = client[t] /\ UNCHANGED <<arc, acked>>
        /\ pending[t] # None /\ pending[t].typ = "rename"
        /\ pending[t].state \in {"ok", "notfound", "error"}
    BY <1>1, <1>10, Zenon DEF OneStored, Respond, BatcherShape, ShapeInv
  <2>2. pending[t].key \in Stored'
    BY <1>1, <1>2, <1>10, <2>1, Zenon DEF OneStored, Holds, Stored
  <2>3. Holds(t)'
    BY <1>1, <1>4, <1>10, <2>1, <2>2, Zenon DEF Holds, OneStored
  <2> QED
    BY <1>5, <2>1, <2>3, Zenon
<1>11. CASE CommittedMany(t)
  <2>1. /\ pending[t] = None /\ pending'[t] = None /\ UNCHANGED <<arc, acked>>
        /\ client[t].keys \subseteq Stored
    BY <1>1, <1>11, Zenon DEF CommittedMany, contractVars, promises, Holds
  <2>2. CASE client' = [client EXCEPT ![t] = NoCall]
    BY <1>5, <1>6, <2>1, <2>2, Zenon DEF ShapeInv
  <2>3. CASE client' = [client EXCEPT ![t] = CallAt("cache", client[t].keys, client[t].good, {})]
    <3>1. client'[t] = CallAt("cache", client[t].keys, client[t].good, {})
      BY <2>3, Zenon DEF ShapeInv
    <3>2. client'[t].at = "cache" /\ client'[t].keys = client[t].keys
      BY <3>1 DEF CallAt
    <3>3. Holds(t)'
      BY <1>4, <2>1, <3>2, Zenon DEF Holds
    <3> QED
      BY <1>5, <2>1, <3>3, Zenon
  <2> QED
    BY <1>11, <2>2, <2>3, Zenon DEF CommittedMany, Calls
<1>12. CASE PutManyCached(t)
  <2>1. /\ client[t].keys \subseteq Stored /\ client[t].good \subseteq client[t].keys
        /\ pending[t] = None
    BY <1>1, <1>12, Zenon DEF PutManyCached, Holds, BatcherShape
  <2>2. client'[t] = CallAt("bloom", client[t].keys, {}, {}) /\ pending'[t] = None
    BY <1>12, <2>1, Zenon DEF PutManyCached, Calls, contractVars, ShapeInv
  <2>3. Holds(t)'
    BY <1>4, <2>1, <2>2 DEF Holds, CallAt
  <2>4. \A k \in Keys : arc'[k] = "have" => arc[k] = "have" \/ k \in Stored'
    BY <1>4, <1>12, <2>1, Zenon DEF PutManyCached, Learn
  <2>5. acked' \ ignored' \subseteq present'
    BY <1>2, <1>12, Zenon DEF PutManyCached, promises, StoredInv, AckedStored
  <2> QED
    BY <1>1, <1>2, <1>3, <2>3, <2>4, <2>5, PinnerKeeps, Zenon
<1>13. CASE PutReturns(t)
  <2>1. client[t].keys \subseteq Stored /\ pending[t] = None
    BY <1>1, <1>13, Zenon DEF PutReturns, Holds, BatcherShape
  <2>2. /\ client'[t] = NoCall /\ pending'[t] = None /\ arc' = arc
        /\ acked' = acked \cup client[t].keys
    BY <1>13, <2>1, Zenon DEF PutReturns, Acknowledge, Calls, contractVars, ShapeInv
  <2>3. acked' \ ignored' \subseteq present'
    BY <1>2, <2>1, <2>2, Zenon DEF StoredInv, AckedStored, Stored
  <2> QED
    BY <1>1, <1>2, <1>3, <1>6, <2>2, <2>3, PinnerKeeps, Zenon
<1> QED
  BY <1>7, <1>8, <1>9, <1>10, <1>11, <1>12, <1>13, Zenon

\* The steps of those who read with the lock
LEMMA ReadKeeps ==
  ASSUME ShapeInv, StoredInv, NEW t \in Threads, t \in Readers,
         \/ \E k \in Keys : Has(t, k) \/ GetSize(t, k) \/ Get(t, k)
         \/ Read(t) \/ LearnRead(t)
  PROVE  StoredInv'
<1>1. t \notin Deleters /\ t \notin Batchers /\ ReaderShape(t) /\ Holds(t)
  BY BlockCacheAssumption, Zenon DEF ShapeInv, Shape, StoredInv
<1>2. UNCHANGED <<present, ignored, acked, pending>>
  BY Zenon DEF Has, GetSize, Get, Read, LearnRead, contractVars, promises
<1>3. \A s \in Threads \ {t} : client'[s] = client[s] /\ pending'[s] = pending[s]
  BY <1>2, Zenon DEF Has, GetSize, Get, Read, LearnRead, Calls, ShapeInv
<1>4. pending'[t] = None
  BY <1>1, <1>2, Zenon DEF ReaderShape
<1>5. acked' \ ignored' \subseteq present' /\ Stored' = Stored
  BY <1>2, Zenon DEF StoredInv, AckedStored, Stored
<1>6. ASSUME NEW k \in Keys, Has(t, k) \/ GetSize(t, k) \/ Get(t, k) PROVE StoredInv'
  <2>1. client'[t] = CallAt("read", {k}, {}, {}) /\ arc' = arc
    BY <1>6, Zenon DEF Has, GetSize, Get, Calls, ShapeInv
  <2>2. Holds(t)'
    BY <1>4, <2>1 DEF Holds, CallAt
  <2> QED
    BY <1>1, <1>2, <1>3, <1>5, <2>1, <2>2, PinnerKeeps, Zenon
<1>7. CASE Read(t)
  <2>1. /\ arc' = arc
        /\ \/ client'[t] = NoCall
           \/ client'[t] = CallAt("learn", client[t].keys, client[t].keys \cap present, {})
    BY <1>7, Zenon DEF Read, Calls, ShapeInv
  <2>2. Holds(t)'
    BY <1>2, <1>4, <2>1, ReadyHolds DEF Holds, CallAt, Stored
  <2> QED
    BY <1>1, <1>2, <1>3, <1>5, <2>1, <2>2, PinnerKeeps, Zenon
<1>8. CASE LearnRead(t)
  <2>1. client'[t] = NoCall
    BY <1>8, Zenon DEF LearnRead, Calls, ShapeInv
  <2>2. client[t].good # {} => client[t].keys \subseteq Stored
    BY <1>1, <1>8, Zenon DEF LearnRead, ReaderShape, Holds
  <2>3. \A k \in Keys : arc'[k] = "have" => arc[k] = "have" \/ k \in Stored'
    BY <1>5, <1>8, <2>2, Zenon DEF LearnRead, Learn
  <2>4. Holds(t)'
    BY <1>4, <2>1, ReadyHolds, Zenon
  <2> QED
    BY <1>1, <1>2, <1>3, <1>5, <2>3, <2>4, PinnerKeeps, Zenon
<1> QED
  BY <1>6, <1>7, <1>8, Zenon

\* Every step keeps StoredInv when all readers hold PinLock.
LEMMA StoredNext ==
  ASSUME FreeReaders = {}
  PROVE  ShapeInv /\ StoredInv /\ [Next]_vars => StoredInv'
<1> SUFFICES ASSUME ShapeInv, StoredInv, [Next]_vars PROVE StoredInv'
  BY Zenon
<1>1. ASSUME UNCHANGED <<client, pending, acked, present, ignored>>,
             \A k \in Keys : arc'[k] = "have" => arc[k] = "have"
      PROVE  StoredInv'
  BY <1>1 DEF StoredInv, AckedStored, ArcTold, Stored, Forgetting, Holds
<1>2. CASE UNCHANGED vars
  BY <1>1, <1>2, Zenon DEF vars, contractVars, cacheVars, promises
<1>3. ASSUME NEW k \in Keys, Evict(k) PROVE StoredInv'
  BY <1>1, <1>3, Zenon DEF Evict, Learn, contractVars, promises
<1>4. CASE Walk \/ List \/ Activate
  BY <1>1, <1>4, Zenon DEF Walk, List, Activate, contractVars, promises
<1>5. CASE Settle /\ UNCHANGED cacheVars
  BY <1>1, <1>5, Zenon DEF Settle, cacheVars, promises
<1>6. Putters \subseteq Threads /\ Batchers \subseteq Threads /\ Deleters \subseteq Threads /\ Readers \subseteq Threads
  BY BlockCacheAssumption, Zenon
<1>7. ASSUME NEW t \in Threads, CallStep(t) PROVE StoredInv'
  <2>2. CASE StoreStep(t)
    BY <2>2, PinnerStoreStep, DeleterStoreStep, Zenon
  <2>3. CASE PutHas(t) \/ PutStored(t) \/ PutCached(t)
    <3>1. t \in Putters
      BY <2>3, Roles, Zenon
      DEF PutHas, PutStored, PutCached, ShapeInv, Shape, BatcherShape, DeleterShape, ReaderShape
    <3> QED
      BY <2>3, <3>1, PutKeeps, Zenon
  <2>4. CASE PutReturns(t)
    BY <2>4, PutReturnsRole, PutKeeps, PutManyKeeps, Zenon
  <2>5. CASE CommitMany(t) \/ StoreOne(t) \/ OneStored(t) \/ CommittedMany(t) \/ PutManyCached(t)
    <3>1. t \in Batchers
      BY <2>5, Roles, Zenon DEF CommitMany, StoreOne, OneStored, CommittedMany, PutManyCached, ShapeInv,
         Shape, PutterShape, DeleterShape, ReaderShape
    <3> QED
      BY <2>5, <3>1, PutManyKeeps, Zenon
  <2>6. CASE DeleteReturned(t) \/ DeleteCached(t)
    <3>1. t \in Deleters
      BY <2>6, Roles, Zenon
      DEF DeleteReturned, DeleteCached, ShapeInv, Shape, PutterShape, BatcherShape, ReaderShape
    <3> QED
      BY <2>6, <3>1, DeleterKeeps, Zenon
  <2>7. CASE Read(t) \/ LearnRead(t)
    <3>1. t \in Readers
      BY <2>7, Roles, Zenon DEF Read, LearnRead, ShapeInv, Shape, PutterShape, BatcherShape, DeleterShape
    <3> QED
      BY <2>7, <3>1, ReadKeeps, Zenon
  <2> QED
    BY <1>7, <2>2, <2>3, <2>4, <2>5, <2>6, <2>7, Zenon DEF CallStep
<1>8. ASSUME NEW t \in Putters, NEW k \in Keys, PutBlock(t, k) PROVE StoredInv'
  BY <1>6, <1>8, PutKeeps, Zenon
<1>9. ASSUME NEW t \in Batchers, NEW ks \in SUBSET Keys, PutMany(t, ks) PROVE StoredInv'
  BY <1>6, <1>9, PutManyKeeps, Zenon
<1>10. ASSUME NEW t \in Deleters, NEW k \in Keys, DeleteBlock(t, k) PROVE StoredInv'
  BY <1>6, <1>10, DeleterKeeps, Zenon
<1>11. ASSUME NEW t \in Readers, NEW k \in Keys, Has(t, k) \/ GetSize(t, k) \/ Get(t, k) PROVE StoredInv'
  BY <1>6, <1>11, ReadKeeps, Zenon
<1> QED
  BY <1>2, <1>3, <1>4, <1>5, <1>7, <1>8, <1>9, <1>10, <1>11, Zenon DEF Next

\* When readers hold PinLock too, a block that was acknowledged is in the
\* datastore until it is deleted, for any keys, clients and failures: the ARC
\* cache of arc_cache.go never makes Put or PutMany skip a needed write.
THEOREM AckedBlocksStored ==
  ASSUME FreeReaders = {}
  PROVE  Spec => []AckedStored
<1>1. Init => ShapeInv /\ StoredInv
  <2> SUFFICES ASSUME Init PROVE StoredInv
    BY ShapeInit, Zenon
  <2>1. \A t \in Threads : client[t] = NoCall /\ pending[t] = None
    BY Zenon DEF Init, ContractInit
  <2>2. \A t \in Threads : Holds(t)
    BY <2>1, NoCallFields, Zenon DEF Holds
  <2> QED
    BY <2>2, Zenon DEF Init, StoredInv, AckedStored, ArcTold
<1>2. ShapeInv /\ StoredInv /\ [Next]_vars => ShapeInv' /\ StoredInv'
  BY ShapeNext, StoredNext, Zenon
<1>3. StoredInv => AckedStored
  BY Zenon DEF StoredInv
<1> QED
  BY <1>1, <1>2, <1>3, PTL DEF Spec

-----------------------------------------------------------------------------
(* Types.                                                                   *)

\* What a batch has still to write is among the blocks it has to write.
LeftGood == \A t \in Threads : client[t].left \subseteq client[t].good

\* A thread that enters a call or a step of one keeps LeftGood when that call has it.
LEMMA CallsLeft ==
  ASSUME ShapeInv, LeftGood, NEW t \in Threads, NEW c, Calls(t, c), c.left \subseteq c.good
  PROVE  LeftGood'
BY Zenon DEF ShapeInv, LeftGood, Calls

\* So do all steps of the calls: PutMany only ever takes blocks off what it has left.
LEMMA LeftStep ==
  ASSUME ShapeInv, LeftGood, NEW t \in Threads, CallStep(t)
  PROVE  LeftGood'
<1>1. NoCall.left \subseteq NoCall.good
  BY NoCallFields, Zenon
<1>2. ASSUME NEW at, NEW ks, NEW good, NEW left, left \subseteq good
      PROVE  CallAt(at, ks, good, left).left \subseteq CallAt(at, ks, good, left).good
  BY <1>2, Zenon DEF CallAt
<1>3. CASE client' = client
  BY <1>3, Zenon DEF LeftGood
<1>4. ASSUME NEW at, NEW ks, NEW good, Calls(t, CallAt(at, ks, good, {})) PROVE LeftGood'
  BY <1>2, <1>4, CallsLeft, Zenon
<1>5. CASE Calls(t, NoCall)
  BY <1>1, <1>5, CallsLeft, Zenon
<1>6. CASE PutHas(t) \/ PutStored(t) \/ PutCached(t) \/ PutReturns(t)
  BY <1>4, <1>5, <1>6, Zenon DEF PutHas, PutStored, PutCached, PutReturns, Acknowledge
<1>7. CASE CommitMany(t)
  <2>1. CASE Calls(t, NoCall)
    BY <1>5, <2>1, Zenon
  <2>2. CASE \E ks \in SUBSET client[t].good :
               Calls(t, CallAt("store", client[t].keys, client[t].good, ks))
    BY <1>2, <2>2, CallsLeft, Zenon
  <2> QED BY <1>7, <2>1, <2>2, Zenon DEF CommitMany
<1>8. CASE StoreOne(t)
  <2>1. PICK k \in client[t].left :
          Calls(t, CallAt("store", client[t].keys, client[t].good, client[t].left \ {k}))
    BY <1>8, Zenon DEF StoreOne
  <2>2. client[t].left \ {k} \subseteq client[t].good
    BY Zenon DEF LeftGood
  <2> QED BY <1>2, <2>1, <2>2, CallsLeft, Zenon
<1>9. CASE CommittedMany(t) \/ PutManyCached(t) \/ DeleteReturned(t) \/ DeleteCached(t)
  BY <1>4, <1>5, <1>9, Zenon DEF CommittedMany, PutManyCached, DeleteReturned, DeleteCached
<1>10. CASE Read(t) \/ LearnRead(t)
  BY <1>4, <1>5, <1>10, Zenon DEF Read, LearnRead
<1>11. CASE StoreStep(t) \/ OneStored(t)
  BY <1>3, <1>11, Zenon DEF StoreStep, cacheVars, OneStored
<1> QED BY <1>6, <1>7, <1>8, <1>9, <1>10, <1>11, Zenon DEF CallStep

\* No other step touches what a batch has left.
LEMMA LeftNext == ShapeInv /\ LeftGood /\ [Next]_vars => LeftGood'
<1> SUFFICES ASSUME ShapeInv, LeftGood, [Next]_vars PROVE LeftGood'
  BY Zenon
<1>1. ASSUME NEW t \in Threads, NEW at, NEW ks, NEW good, Calls(t, CallAt(at, ks, good, {}))
      PROVE  LeftGood'
  <2>1. CallAt(at, ks, good, {}).left \subseteq CallAt(at, ks, good, {}).good
    BY Zenon DEF CallAt
  <2> QED BY <1>1, <2>1, CallsLeft, Zenon
<1>2. Putters \subseteq Threads /\ Batchers \subseteq Threads /\ Deleters \subseteq Threads /\ Readers \subseteq Threads
  BY BlockCacheAssumption, Zenon
<1>3. ASSUME NEW t \in Threads,
             \/ \E k \in Keys : PutBlock(t, k) \/ DeleteBlock(t, k)
             \/ \E ks \in SUBSET Keys : PutMany(t, ks)
             \/ \E k \in Keys : Has(t, k) \/ GetSize(t, k) \/ Get(t, k)
      PROVE  LeftGood'
  BY <1>1, <1>3, Zenon DEF PutBlock, PutMany, DeleteBlock, Has, GetSize, Get
<1>4. ASSUME \/ \E k \in Keys : Evict(k)
             \/ Walk \/ List \/ Activate \/ UNCHANGED cacheVars \/ UNCHANGED vars
      PROVE  client' = client
  BY <1>4, Zenon DEF Evict, Walk, List, Activate, cacheVars, vars
<1>5. client' = client => LeftGood'
  BY Zenon DEF LeftGood
<1> QED BY <1>2, <1>3, <1>4, <1>5, LeftStep, Zenon DEF Next

\* The caches, the calls and the datastore's operations have their types; a
\* batch writes only blocks that its cache did not know.
THEOREM CacheTypes == Spec => []TypeOK
<1>1. Init => ShapeInv /\ LeftGood
  <2> SUFFICES ASSUME Init PROVE LeftGood
    BY ShapeInit, Zenon
  <2> QED BY NoCallFields, Zenon DEF Init, LeftGood
<1>2. ShapeInv /\ LeftGood /\ [Next]_vars => ShapeInv' /\ LeftGood'
  BY ShapeNext, LeftNext, Zenon
<1>3. ShapeInv /\ LeftGood => TypeOK
  BY Zenon DEF ShapeInv, LeftGood, TypeOK, CallSet, Operations
<1> QED BY <1>1, <1>2, <1>3, PTL DEF Spec
=============================================================================
