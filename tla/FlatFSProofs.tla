---------------------------- MODULE FlatFSProofs ----------------------------
(***************************************************************************)
(* flatfs keeps the contract of BlockFiles, for any number of keys,        *)
(* directories, threads and crashes, and counts its files exactly until a  *)
(* crash, for any finite number of keys.                                   *)
(***************************************************************************)
EXTENDS FlatFS, FiniteSetTheorems, TLAPS

Busy(t) == op[t].at \in {"dir", "temp", "stat", "rename", "syncDir", "remove", "finish"}

\* The operation of a thread is one of the three, and at a place it can be.
OpShape(t) ==
  /\ op[t].at = "idle" => op[t] = NoOp
  /\ op[t].at # "idle" => op[t].key \in Keys /\ op[t].typ \in {"put", "rename", "delete"}
  /\ op[t].at \in {"dir", "temp", "syncDir"} => op[t].typ = "put"
  /\ op[t].at \in {"stat", "rename"} => op[t].typ \in {"put", "rename"}
  /\ op[t].at = "remove" => op[t].typ = "delete"
  /\ op[t].at \in {"finish", "done"} => op[t].res \in {"ok", "notfound", "error"}
  /\ op[t].at = "finish" /\ op[t].res = "notfound" => op[t].typ = "delete"

\* Who works on a key is in opMap under it.
OpOwned(t) == Busy(t) => opMap[op[t].key] = t

\* The directory of a file that is put is there for good before the rename.
DirReady(t) ==
  /\ op[t].at \in {"temp", "stat", "rename", "syncDir"} /\ op[t].typ = "put"
       => getDir[op[t].key] \in dirs /\ getDir[op[t].key] \notin newDirs
  /\ op[t].at = "finish" /\ op[t].res = "ok" /\ op[t].typ = "put"
       => /\ getDir[op[t].key] \in dirs /\ getDir[op[t].key] \notin newDirs
          /\ op[t].key \notin unsynced

\* A batch makes its directories before its renames.
BatchReady(t) ==
  /\ batch[t].keys \subseteq Keys
  /\ batch[t].left \subseteq batch[t].keys
  /\ batch[t].at = "renames" => \A k \in batch[t].keys : getDir[k] \in dirs
  /\ op[t].typ = "rename" => getDir[op[t].key] \in dirs

\* What the invariant says of one thread
ThreadInv(t) == OpShape(t) /\ OpOwned(t) /\ DirReady(t) /\ BatchReady(t)

\* The part of it that is not about threads
FilesInv ==
  /\ op \in [Threads -> Ops]
  /\ batch \in [Threads -> [at : {"idle", "temps", "renames", "syncTop", "ok", "error"},
                            keys : SUBSET Keys, left : SUBSET Keys]]
  /\ opMap \in [Keys -> Threads \cup {None}]
  /\ files \subseteq Keys /\ unsynced \subseteq Keys
  /\ newDirs \subseteq dirs
  /\ \A k \in files \cup unsynced : getDir[k] \in dirs

StoreInv == FilesInv /\ \A t \in Threads : ThreadInv(t)

-----------------------------------------------------------------------------
(* The invariant.                                                          *)

\* A step of another thread that keeps what this one has done, its place in
\* opMap and the file it has synchronised, keeps what is known of this one.
LEMMA OtherThread ==
  ASSUME NEW s \in Threads, ThreadInv(s),
         op'[s] = op[s], batch'[s] = batch[s],
         Busy(s) => opMap'[op[s].key] = s,
         dirs \subseteq dirs', newDirs' \subseteq newDirs \cup (dirs' \ dirs),
         Busy(s) /\ op[s].key \notin unsynced => op[s].key \notin unsynced'
  PROVE  ThreadInv(s)'
<1>1. OpShape(s)' /\ OpOwned(s)'
  BY Zenon DEF ThreadInv, OpShape, OpOwned, Busy
<1>2. DirReady(s)'
  BY Zenon DEF ThreadInv, DirReady, Busy
<1>3. BatchReady(s)'
  BY Zenon DEF ThreadInv, BatchReady
<1> QED
  BY <1>1, <1>2, <1>3, Zenon DEF ThreadInv

\* A datastore that nobody uses satisfies the invariant.
LEMMA StoreInvInit == Init => StoreInv
<1> SUFFICES ASSUME Init PROVE StoreInv
  BY Zenon
<1>1. FilesInv
  BY Zenon DEF Init, FilesInv, NoOp, OpAt, Ops, Results, NoBatch, Dir
<1>2. ASSUME NEW t \in Threads PROVE ThreadInv(t)
  BY Zenon DEF Init, ThreadInv, OpShape, OpOwned, DirReady, BatchReady, Busy, NoOp, OpAt, NoBatch
<1> QED
  BY <1>1, <1>2, Zenon DEF StoreInv

\* The calls Put, Delete and Commit keep the invariant.
LEMMA CallKeepsInv ==
  ASSUME StoreInv, NEW t \in Threads, Call(t)
  PROVE  StoreInv'
<1>1. FilesInv /\ \A s \in Threads : ThreadInv(s)
  BY Zenon DEF StoreInv
<1>2. CASE \E k \in Keys : Put(t, k) \/ Delete(t, k)
  <2>1. PICK k \in Keys : Put(t, k) \/ Delete(t, k)
    BY <1>2, Zenon
  <2>2. PICK typ \in {"put", "delete"} :
          /\ op' = [op EXCEPT ![t] = OpAt("begin", typ, k, "none")]
          /\ UNCHANGED <<dirs, newDirs, files, unsynced, opMap, batch>>
    BY <2>1, Zenon DEF Put, Delete
  <2>3. FilesInv'
    BY <2>2, <1>1, Zenon DEF FilesInv, OpAt, Ops, Results
  <2>4. ASSUME NEW s \in Threads PROVE ThreadInv(s)'
    <3>1. CASE s = t
      BY <2>2, <1>1, <3>1 DEF FilesInv, ThreadInv, OpShape, OpOwned, DirReady, BatchReady, Busy,
         OpAt, Ops
    <3>2. CASE s # t
      <4>1. op'[s] = op[s]
        BY <1>1, <2>2, <3>2, Zenon DEF FilesInv
      <4> QED
        BY <1>1, <2>2, <4>1 DEF ThreadInv, OpShape, OpOwned, DirReady, BatchReady, Busy
    <3> QED
      BY <3>1, <3>2, Zenon
  <2> QED
    BY <2>3, <2>4, Zenon DEF StoreInv
<1>3. CASE \E ks \in SUBSET Keys : Commit(t, ks)
  <2>1. PICK ks \in SUBSET Keys : Commit(t, ks)
    BY <1>3, Zenon
  <2>2. FilesInv'
    BY <2>1, <1>1, Zenon DEF Commit, FilesInv
  <2>3. ASSUME NEW s \in Threads PROVE ThreadInv(s)'
    BY <2>1, <1>1, Zenon DEF Commit, FilesInv, ThreadInv, OpShape, OpOwned, DirReady, BatchReady, Busy
  <2> QED
    BY <2>2, <2>3, Zenon DEF StoreInv
<1> QED
  BY <1>2, <1>3, Zenon DEF Call

\* The steps of an operation that touch no file keep the invariant.
LEMMA QuietKeepsInv ==
  ASSUME StoreInv, NEW t \in Threads,
         Begin(t) \/ Finish(t) \/ PutAgain(t) \/ Return(t) \/ MakeTemp(t) \/ Stat(t)
  PROVE  StoreInv'
<1>1. FilesInv /\ \A s \in Threads : ThreadInv(s)
  BY Zenon DEF StoreInv
<1>2. CASE Begin(t)
  <2>1. op[t].typ \in {"put", "rename", "delete"} /\ op[t].key \in Keys
    BY <1>1, <1>2, Zenon DEF Begin, ThreadInv, OpShape
  <2>2. CASE opMap[op[t].key] = None
    <3>1. /\ opMap' = [opMap EXCEPT ![op[t].key] = t]
          /\ op' = [op EXCEPT ![t] = OpAt(doOp(op[t].typ), op[t].typ, op[t].key, op[t].res)]
          /\ UNCHANGED <<dirs, newDirs, files, unsynced, batch>>
      BY <1>2, <2>2, Zenon DEF Begin, Goto
    <3>2. /\ op[t].typ = "put" => doOp(op[t].typ) = "dir"
          /\ op[t].typ = "rename" => doOp(op[t].typ) = "stat"
          /\ op[t].typ = "delete" => doOp(op[t].typ) = "remove"
      BY Zenon DEF doOp
    <3>3. FilesInv'
      BY <1>1, <2>1, <3>1, <3>2, Zenon DEF FilesInv, OpAt, Ops, Results
    <3>4. ASSUME NEW s \in Threads PROVE ThreadInv(s)'
      <4>1. CASE s = t
        BY <1>1, <2>1, <3>1, <3>2, <4>1 DEF FilesInv, ThreadInv, OpShape, OpOwned, DirReady,
           BatchReady, Busy, OpAt, Ops
      <4>2. CASE s # t
        <5>1. op'[s] = op[s] /\ (Busy(s) => opMap'[op[s].key] = s)
          BY <1>1, <2>1, <2>2, <3>1, <4>2, FlatFSAssumption
             DEF FilesInv, ThreadInv, OpShape, OpOwned, Busy
        <5> QED
          BY <1>1, <3>1, <5>1, OtherThread, Zenon
      <4> QED
        BY <4>1, <4>2, Zenon
    <3> QED
      BY <3>3, <3>4, Zenon DEF StoreInv
  <2>3. CASE opMap[op[t].key] # None
    <3>1. /\ op' = [op EXCEPT ![t] = OpAt("waiting", op[t].typ, op[t].key, op[t].res)]
          /\ UNCHANGED <<dirs, newDirs, files, unsynced, opMap, batch>>
      BY <1>2, <2>3, Zenon DEF Begin, Goto
    <3>2. FilesInv'
      BY <1>1, <2>1, <3>1, Zenon DEF FilesInv, OpAt, Ops, Results
    <3>3. ASSUME NEW s \in Threads PROVE ThreadInv(s)'
      BY <1>1, <2>1, <3>1 DEF FilesInv, ThreadInv, OpShape, OpOwned, DirReady, BatchReady, Busy,
         OpAt, Ops
    <3> QED
      BY <3>2, <3>3, Zenon DEF StoreInv
  <2> QED
    BY <2>2, <2>3, Zenon
<1>3. CASE Finish(t)
  <2>1. op[t].key \in Keys /\ opMap[op[t].key] = t
    BY <1>1, <1>3, Zenon DEF Finish, ThreadInv, OpShape, OpOwned, Busy
  <2>2. FilesInv'
    BY <1>1, <1>3, <2>1, Zenon DEF Finish, FilesInv, OpAt, Ops, Results
  <2>3. ASSUME NEW s \in Threads PROVE ThreadInv(s)'
    <3>1. UNCHANGED <<dirs, newDirs, files, unsynced, batch>>
      BY <1>3, Zenon DEF Finish
    <3>2. CASE s = t \/ s \in Waiters(t)
      <4>1. \E here \in {"done", "begin"}, res \in Results :
              /\ op'[s] = OpAt(here, op[s].typ, op[s].key, res)
              /\ here = "done" => res \in {"ok", "notfound", "error"}
        BY <1>1, <1>3, <3>2, Zenon DEF Finish, FilesInv, ThreadInv, OpShape, Ops, Results
      <4>2. op[s].at # "idle"
        BY <1>3, <3>2, Zenon DEF Finish, Waiters
      <4> QED
        BY <1>1, <3>1, <4>1, <4>2 DEF FilesInv, ThreadInv, OpShape, OpOwned, DirReady, BatchReady,
           Busy, OpAt
    <3>3. CASE s # t /\ s \notin Waiters(t)
      <4>1. op'[s] = op[s]
        BY <1>3, <3>3, Zenon DEF Finish
      <4>2. Busy(s) => opMap'[op[s].key] = s
        BY <1>1, <1>3, <2>1, <3>3 DEF Finish, FilesInv, ThreadInv, OpOwned
      <4> QED
        BY <1>1, <3>1, <4>1, <4>2 DEF ThreadInv, OpShape, OpOwned, DirReady, BatchReady, Busy
    <3> QED
      BY <3>2, <3>3, Zenon
  <2> QED
    BY <2>2, <2>3, Zenon DEF StoreInv
<1>4. CASE PutAgain(t) \/ Return(t) \/ MakeTemp(t) \/ Stat(t)
  <2>1. UNCHANGED <<dirs, newDirs, files, unsynced, opMap, batch>>
    BY <1>4, Zenon DEF PutAgain, Return, MakeTemp, Stat
  <2>2. \/ op' = [op EXCEPT ![t] = NoOp]
        \/ op[t].at = "done" /\ op[t].typ = "put"
             /\ op' = [op EXCEPT ![t] = OpAt("begin", "put", op[t].key, "none")]
        \/ op[t].at = "temp" /\ op' = [op EXCEPT ![t] = OpAt("stat", op[t].typ, op[t].key, op[t].res)]
        \/ op[t].at = "stat" /\ op' = [op EXCEPT ![t] = OpAt("rename", op[t].typ, op[t].key, op[t].res)]
        \/ op[t].at \in {"temp", "stat"}
             /\ op' = [op EXCEPT ![t] = OpAt("finish", op[t].typ, op[t].key, "error")]
    BY <1>4, Zenon DEF PutAgain, Return, MakeTemp, Stat, Goto, Ends
  <2>3. FilesInv'
    BY <1>1, <2>1, <2>2 DEF FilesInv, OpAt, NoOp, Ops, Results
  <2>4. ASSUME NEW s \in Threads PROVE ThreadInv(s)'
    <3>1. CASE s # t
      <4>1. op'[s] = op[s]
        BY <1>1, <2>2, <3>1, Zenon DEF FilesInv
      <4> QED
        BY <1>1, <2>1, <4>1 DEF ThreadInv, OpShape, OpOwned, DirReady, BatchReady, Busy
    <3>2. CASE s = t
      BY <1>1, <2>1, <2>2, <3>2 DEF FilesInv, ThreadInv, OpShape, OpOwned, DirReady, BatchReady,
         Busy, OpAt, NoOp, Ops
    <3> QED
      BY <3>1, <3>2, Zenon
  <2> QED
    BY <2>3, <2>4, Zenon DEF StoreInv
<1> QED
  BY <1>2, <1>3, <1>4, Zenon

\* The steps that make directories, rename, remove and synchronise files keep
\* the invariant: whoever else works does so on other keys.
LEMMA FileKeepsInv ==
  ASSUME StoreInv, NEW t \in Threads,
         MakeDir(t) \/ Rename(t) \/ SyncDir(t) \/ Remove(t)
  PROVE  StoreInv'
<1>1. FilesInv /\ \A s \in Threads : ThreadInv(s)
  BY Zenon DEF StoreInv
<1>2. op[t].key \in Keys /\ opMap[op[t].key] = t
  BY <1>1, Zenon DEF MakeDir, Rename, SyncDir, Remove, ThreadInv, OpShape, OpOwned, Busy
<1>3. ASSUME NEW s \in Threads, s # t, Busy(s)
      PROVE  op[s].key # op[t].key
  BY <1>1, <1>2, <1>3, Zenon DEF ThreadInv, OpOwned
<1>4. UNCHANGED <<opMap, batch>>
  BY Zenon DEF MakeDir, Rename, SyncDir, Remove
<1>5. \E here \in {"temp", "syncDir", "finish"}, res \in Results :
        op' = [op EXCEPT ![t] = OpAt(here, op[t].typ, op[t].key, res)]
  BY <1>1, Zenon DEF MakeDir, Rename, SyncDir, Remove, Goto, Ends, FilesInv, Ops, Results
<1>6. ASSUME NEW s \in Threads, s # t
      PROVE  op'[s] = op[s]
  BY <1>1, <1>5, <1>6, Zenon DEF FilesInv
<1>7. dirs \subseteq dirs' /\ newDirs' \subseteq newDirs \cup (dirs' \ dirs) /\ newDirs' \subseteq dirs'
  BY <1>1, Zenon DEF MakeDir, Rename, SyncDir, Remove, FilesInv
<1>8. unsynced' \subseteq unsynced \cup {op[t].key}
  BY Zenon DEF MakeDir, Rename, SyncDir, Remove, Sync
<1>9. files' \subseteq files \cup {op[t].key}
  BY Zenon DEF MakeDir, Rename, SyncDir, Remove
<1>10. op[t].key \in files' \cup unsynced' =>
         op[t].key \in files \cup unsynced \/ getDir[op[t].key] \in dirs
  BY <1>1, Zenon DEF Sync, MakeDir, Rename, SyncDir, Remove, ThreadInv, DirReady, BatchReady, OpShape
<1>11. FilesInv'
  <2>1. op' \in [Threads -> Ops]
    BY <1>1, <1>2, <1>5 DEF FilesInv, OpAt, Ops, Results
  <2>2. \A k \in files' \cup unsynced' : getDir[k] \in dirs'
    BY <1>1, <1>7, <1>8, <1>9, <1>10, Zenon DEF FilesInv
  <2> QED
    BY <1>1, <1>2, <1>4, <1>7, <1>8, <1>9, <2>1, <2>2, Zenon DEF FilesInv
<1>12. ASSUME NEW s \in Threads PROVE ThreadInv(s)'
  <2>1. CASE s # t
    <3>1. Busy(s) /\ op[s].key \notin unsynced => op[s].key \notin unsynced'
      BY <1>3, <1>8, <2>1, Zenon
    <3>2. Busy(s) => opMap'[op[s].key] = s
      BY <1>1, <1>4, Zenon DEF ThreadInv, OpOwned
    <3> QED
      BY <1>1, <1>4, <1>6, <1>7, <2>1, <3>1, <3>2, OtherThread, Zenon
  <2>2. CASE s = t
    <3>1. CASE MakeDir(t)
      <4>1. \/ /\ op' = [op EXCEPT ![t] = OpAt("temp", op[t].typ, op[t].key, op[t].res)]
               /\ getDir[op[t].key] \in dirs' /\ newDirs' = {}
            \/ op' = [op EXCEPT ![t] = OpAt("finish", op[t].typ, op[t].key, "error")]
        BY <3>1, Zenon DEF MakeDir, Goto, Ends
      <4>2. op[t].at = "dir" /\ op[t].typ = "put"
        BY <1>1, <3>1, Zenon DEF MakeDir, ThreadInv, OpShape
      <4>3. OpShape(t)' /\ OpOwned(t)'
        BY <1>1, <1>2, <1>4, <4>1, <4>2 DEF FilesInv, OpShape, OpOwned, Busy, OpAt, Ops
      <4>4. DirReady(t)'
        BY <1>1, <4>1, <4>2 DEF FilesInv, DirReady, OpAt, Ops
      <4>5. BatchReady(t)'
        BY <1>1, <1>4, <1>7, <4>1, <4>2 DEF FilesInv, ThreadInv, BatchReady, OpAt, Ops
      <4> QED
        BY <2>2, <4>3, <4>4, <4>5, Zenon DEF ThreadInv
    <3>2. CASE Rename(t)
      <4>1. \/ /\ op[t].typ = "put"
               /\ op' = [op EXCEPT ![t] = OpAt("syncDir", op[t].typ, op[t].key, op[t].res)]
            \/ /\ op[t].typ # "put"
               /\ op' = [op EXCEPT ![t] = OpAt("finish", op[t].typ, op[t].key, "ok")]
            \/ op' = [op EXCEPT ![t] = OpAt("finish", op[t].typ, op[t].key, "error")]
        BY <3>2, Zenon DEF Rename, Goto, Ends
      <4>2. op[t].at = "rename" /\ op[t].typ \in {"put", "rename"} /\ UNCHANGED <<dirs, newDirs>>
        BY <1>1, <3>2, Zenon DEF Rename, ThreadInv, OpShape
      <4>3. OpShape(t)' /\ OpOwned(t)'
        BY <1>1, <1>2, <1>4, <4>1, <4>2 DEF FilesInv, OpShape, OpOwned, Busy, OpAt, Ops
      <4>4. DirReady(t)'
        BY <1>1, <4>1, <4>2 DEF FilesInv, ThreadInv, DirReady, OpAt, Ops
      <4>5. BatchReady(t)'
        BY <1>1, <1>4, <1>7, <4>1, <4>2 DEF FilesInv, ThreadInv, BatchReady, OpAt, Ops
      <4> QED
        BY <2>2, <4>3, <4>4, <4>5, Zenon DEF ThreadInv
    <3>3. CASE SyncDir(t)
      <4>1. \/ /\ op' = [op EXCEPT ![t] = OpAt("finish", op[t].typ, op[t].key, "ok")]
               /\ op[t].key \notin unsynced'
            \/ op' = [op EXCEPT ![t] = OpAt("finish", op[t].typ, op[t].key, "error")]
        BY <3>3, Zenon DEF SyncDir, Ends, Sync
      <4>2. op[t].at = "syncDir" /\ op[t].typ = "put" /\ UNCHANGED <<dirs, newDirs>>
        BY <1>1, <3>3, Zenon DEF SyncDir, ThreadInv, OpShape
      <4>3. OpShape(t)' /\ OpOwned(t)'
        BY <1>1, <1>2, <1>4, <4>1, <4>2 DEF FilesInv, OpShape, OpOwned, Busy, OpAt, Ops
      <4>4. DirReady(t)'
        BY <1>1, <4>1, <4>2 DEF FilesInv, ThreadInv, DirReady, OpAt, Ops
      <4>5. BatchReady(t)'
        BY <1>1, <1>4, <1>7, <4>1, <4>2 DEF FilesInv, ThreadInv, BatchReady, OpAt, Ops
      <4> QED
        BY <2>2, <4>3, <4>4, <4>5, Zenon DEF ThreadInv
    <3>4. CASE Remove(t)
      <4>1. \E res \in {"ok", "notfound", "error"} :
              op' = [op EXCEPT ![t] = OpAt("finish", op[t].typ, op[t].key, res)]
        BY <3>4, Zenon DEF Remove, Ends
      <4>2. op[t].at = "remove" /\ op[t].typ = "delete"
        BY <1>1, <3>4, Zenon DEF Remove, ThreadInv, OpShape
      <4>3. OpShape(t)' /\ OpOwned(t)'
        BY <1>1, <1>2, <1>4, <4>1, <4>2 DEF FilesInv, OpShape, OpOwned, Busy, OpAt, Ops
      <4>4. DirReady(t)'
        BY <1>1, <4>1, <4>2 DEF FilesInv, DirReady, OpAt, Ops
      <4>5. BatchReady(t)'
        BY <1>1, <1>4, <1>7, <4>1, <4>2 DEF FilesInv, ThreadInv, BatchReady, OpAt, Ops
      <4> QED
        BY <2>2, <4>3, <4>4, <4>5, Zenon DEF ThreadInv
    <3> QED
      BY <3>1, <3>2, <3>3, <3>4, Zenon
  <2> QED
    BY <2>1, <2>2, Zenon
<1> QED
  BY <1>11, <1>12, Zenon DEF StoreInv

\* The steps of a batch keep the invariant.
LEMMA BatchKeepsInv ==
  ASSUME StoreInv, NEW t \in Threads,
         \/ BatchTemps(t) \/ BatchRename(t) \/ BatchRenamed(t)
         \/ BatchSyncDirs(t) \/ BatchSyncTop(t) \/ BatchReturn(t)
  PROVE  StoreInv'
<1>1. FilesInv /\ \A s \in Threads : ThreadInv(s)
  BY Zenon DEF StoreInv
<1>2. CASE BatchTemps(t) \/ BatchSyncDirs(t) \/ BatchSyncTop(t) \/ BatchReturn(t)
  <2>1. UNCHANGED <<files, opMap, op>>
    BY <1>2, Zenon DEF BatchTemps, BatchSyncDirs, BatchSyncTop, BatchReturn
  <2>2. /\ dirs \subseteq dirs' /\ newDirs' \subseteq newDirs \cup (dirs' \ dirs)
        /\ newDirs' \subseteq dirs' /\ unsynced' \subseteq unsynced
    BY <1>1, <1>2, Zenon DEF BatchTemps, BatchSyncDirs, BatchSyncTop, BatchReturn, Sync, FilesInv
  <2>3. \/ \E here \in {"renames", "syncTop", "ok", "error"} :
             /\ batch' = [batch EXCEPT ![t] = [at |-> here, keys |-> batch[t].keys, left |-> batch[t].left]]
             /\ here = "renames" => Dir(batch[t].keys) \subseteq dirs'
        \/ batch' = [batch EXCEPT ![t] = NoBatch]
    BY <1>2, Zenon DEF BatchTemps, BatchSyncDirs, BatchSyncTop, BatchReturn, BatchAt
  <2>4. FilesInv'
    <3>1. batch \in [Threads -> [at : {"idle", "temps", "renames", "syncTop", "ok", "error"},
                                  keys : SUBSET Keys, left : SUBSET Keys]]
      BY <1>1, Zenon DEF FilesInv
    <3>2. batch' \in [Threads -> [at : {"idle", "temps", "renames", "syncTop", "ok", "error"},
                                   keys : SUBSET Keys, left : SUBSET Keys]]
      BY <2>3, <3>1 DEF NoBatch
    <3> QED BY <1>1, <2>1, <2>2, <3>2, Zenon DEF FilesInv
  <2>5. ASSUME NEW s \in Threads PROVE ThreadInv(s)'
    <3>1. CASE s # t
      <4>1. batch'[s] = batch[s]
        BY <1>1, <2>3, <3>1, Zenon DEF FilesInv
      <4>2. Busy(s) => opMap'[op[s].key] = s
        BY <1>1, <2>1, Zenon DEF ThreadInv, OpOwned
      <4> QED
        BY <1>1, <2>1, <2>2, <4>1, <4>2, OtherThread, Zenon
    <3>2. CASE s = t
      <4>1. OpShape(t)' /\ OpOwned(t)'
        BY <1>1, <2>1, Zenon DEF ThreadInv, OpShape, OpOwned, Busy
      <4>2. DirReady(t)'
        BY <1>1, <2>1, <2>2, Zenon DEF ThreadInv, DirReady
      <4>3. BatchReady(t)'
        <5>1. BatchReady(t) /\ DOMAIN batch = Threads
          BY <1>1, Zenon DEF FilesInv, ThreadInv
        <5>2. op[t].typ = "rename" => getDir[op[t].key] \in dirs'
          BY <2>2, <5>1, Zenon DEF BatchReady
        <5>3. CASE batch' = [batch EXCEPT ![t] = NoBatch]
          <6>1. batch'[t] = NoBatch
            BY <5>1, <5>3, Zenon
          <6> QED BY <2>1, <5>2, <6>1 DEF BatchReady, NoBatch
        <5>4. ASSUME NEW here \in {"renames", "syncTop", "ok", "error"},
                     batch' = [batch EXCEPT ![t] = [at |-> here, keys |-> batch[t].keys,
                                                    left |-> batch[t].left]],
                     here = "renames" => Dir(batch[t].keys) \subseteq dirs'
              PROVE  BatchReady(t)'
          <6>1. /\ batch'[t].at = here /\ batch'[t].keys = batch[t].keys
                /\ batch'[t].left = batch[t].left
            BY <5>1, <5>4, Zenon
          <6>2. here = "renames" => \A k \in batch[t].keys : getDir[k] \in dirs'
            BY <5>4, Zenon DEF Dir
          <6> QED BY <2>1, <5>1, <5>2, <6>1, <6>2, Zenon DEF BatchReady
        <5> QED BY <2>3, <5>3, <5>4, Zenon
      <4> QED
        BY <3>2, <4>1, <4>2, <4>3, Zenon DEF ThreadInv
    <3> QED
      BY <3>1, <3>2, Zenon
  <2> QED
    BY <2>4, <2>5, Zenon DEF StoreInv
<1>3. CASE BatchRename(t)
  <2>1. PICK k \in batch[t].left :
          /\ op' = [op EXCEPT ![t] = OpAt("begin", "rename", k, "none")]
          /\ batch' = [batch EXCEPT ![t] = [at |-> "renames", keys |-> batch[t].keys,
                                            left |-> batch[t].left \ {k}]]
    BY <1>3, Zenon DEF BatchRename
  <2>2. k \in Keys /\ k \in batch[t].keys /\ getDir[k] \in dirs /\ batch[t].at = "renames"
    BY <1>1, <1>3, <2>1, Zenon DEF BatchRename, FilesInv, ThreadInv, BatchReady
  <2>3. UNCHANGED <<dirs, newDirs, files, unsynced, opMap>>
    BY <1>3, Zenon DEF BatchRename
  <2>4. FilesInv'
    BY <1>1, <2>1, <2>2, <2>3, Zenon DEF FilesInv, OpAt, Ops, Results
  <2>5. ASSUME NEW s \in Threads PROVE ThreadInv(s)'
    <3>1. CASE s # t
      <4>1. op'[s] = op[s] /\ batch'[s] = batch[s]
        BY <1>1, <2>1, <3>1, Zenon DEF FilesInv
      <4>2. Busy(s) => opMap'[op[s].key] = s
        BY <1>1, <2>3, Zenon DEF ThreadInv, OpOwned
      <4> QED
        BY <1>1, <2>3, <4>1, <4>2, OtherThread, Zenon
    <3>2. CASE s = t
      <4>1. op'[t] = OpAt("begin", "rename", k, "none")
        BY <1>1, <2>1, Zenon DEF FilesInv
      <4>2. OpShape(t)' /\ OpOwned(t)' /\ DirReady(t)'
        BY <2>2, <4>1 DEF OpShape, OpOwned, DirReady, Busy, OpAt
      <4>3. BatchReady(t)'
        BY <1>1, <2>1, <2>2, <2>3, <4>1, Zenon DEF FilesInv, ThreadInv, BatchReady, OpAt
      <4> QED
        BY <3>2, <4>2, <4>3, Zenon DEF ThreadInv
    <3> QED
      BY <3>1, <3>2, Zenon
  <2> QED
    BY <2>4, <2>5, Zenon DEF StoreInv
<1>4. CASE BatchRenamed(t)
  BY <1>4, QuietKeepsInv, Zenon DEF BatchRenamed
<1> QED
  BY <1>2, <1>3, <1>4, Zenon

\* What a crash leaves satisfies the invariant.
LEMMA CrashKeepsInv ==
  ASSUME StoreInv, Crash
  PROVE  StoreInv'
<1>1. FilesInv
  BY Zenon DEF StoreInv
<1>2. PICK lost \in SUBSET newDirs, undone \in SUBSET unsynced :
        /\ files' = {k \in (files \ undone) \cup (undone \ files) : getDir[k] \notin lost}
        /\ dirs' = dirs \ lost
  BY Zenon DEF Crash
<1>3. \A k \in files' : getDir[k] \in dirs'
  BY <1>1, <1>2, Zenon DEF FilesInv
<1>4. FilesInv'
  BY <1>1, <1>2, <1>3, Zenon DEF Crash, FilesInv, NoOp, OpAt, Ops, Results, NoBatch
<1>5. ASSUME NEW t \in Threads PROVE ThreadInv(t)'
  BY Zenon DEF Crash, ThreadInv, OpShape, OpOwned, DirReady, BatchReady, Busy, NoOp, OpAt, NoBatch
<1> QED
  BY <1>4, <1>5, Zenon DEF StoreInv

\* Every step keeps the invariant.
LEMMA StoreInvNext == StoreInv /\ [Next]_vars => StoreInv'
<1> SUFFICES ASSUME StoreInv, [Next]_vars PROVE StoreInv'
  BY Zenon
<1>1. ASSUME NEW t \in Threads, Call(t) \/ Step(t) PROVE StoreInv'
  BY <1>1, CallKeepsInv, QuietKeepsInv, FileKeepsInv, BatchKeepsInv, Zenon DEF Step
<1>2. CASE UNCHANGED vars
  BY <1>2 DEF StoreInv, FilesInv, ThreadInv, OpShape, OpOwned, DirReady, BatchReady, Busy, vars
<1> QED
  BY <1>1, <1>2, CrashKeepsInv, Zenon DEF Next

-----------------------------------------------------------------------------
(* The simulation.                                                         *)

Called == {"begin", "waiting", "dir", "temp", "stat", "rename", "remove"}

As(o, state) == [typ |-> o.typ, key |-> o.key, state |-> state]

\* The fields of such an operation
LEMMA AsFields ==
  ASSUME NEW o, NEW state
  PROVE  As(o, state).typ = o.typ /\ As(o, state).key = o.key /\ As(o, state).state = state
  BY Zenon DEF As

\* What a caller knows, by the place the operation is at
LEMMA SeenAt ==
  ASSUME NEW o
  PROVE  /\ o.at = "idle" => Seen(o) = None
         /\ o.at \in Called => Seen(o) = As(o, "called")
         /\ o.at = "syncDir" => Seen(o) = As(o, "effective")
         /\ o.at = "finish" /\ o.res = "ok" => Seen(o) = As(o, "effective")
         /\ o.at = "finish" /\ o.res # "ok" => Seen(o) = As(o, o.res)
         /\ o.at = "done" => Seen(o) = As(o, o.res)
  BY Zenon DEF Seen, Called, As

\* The effect of a change of one thread's operation
LEMMA SeenExcept ==
  ASSUME NEW t \in Threads, NEW o, op \in [Threads -> Ops], op' = [op EXCEPT ![t] = o]
  PROVE  [s \in Threads |-> Seen(op[s])]' = [[s \in Threads |-> Seen(op[s])] EXCEPT ![t] = Seen(o)]
<1>1. \A s \in Threads : Seen(op'[s]) = IF s = t THEN Seen(o) ELSE Seen(op[s])
  BY Zenon
<1> QED
  BY <1>1, Zenon

\* A change of one operation to another state, as the contract has it
LEMMA SeenBecomes ==
  ASSUME NEW t \in Threads, NEW o, NEW before, NEW after, op \in [Threads -> Ops],
         op' = [op EXCEPT ![t] = o], o.typ = op[t].typ, o.key = op[t].key,
         Seen(op[t]) = As(op[t], before), Seen(o) = As(o, after)
  PROVE  Store!Becomes(t, after)
<1> DEFINE P == [s \in Threads |-> Seen(op[s])]
<1>1. P' = [P EXCEPT ![t] = As(o, after)]
  BY SeenExcept, Zenon
<1>2. P[t].typ = op[t].typ /\ P[t].key = op[t].key
  BY DEF As
<1>3. As(o, after) = [typ |-> P[t].typ, key |-> P[t].key, state |-> after]
  BY <1>2, Zenon DEF As
<1>4. P' = [P EXCEPT ![t] = [typ |-> P[t].typ, key |-> P[t].key, state |-> after]]
  BY <1>1, <1>3, Zenon
<1> QED
  BY <1>4, Zenon DEF Store!Becomes, Store!Operation

\* An operation is not None, and its place determines its state.
LEMMA SeenIsOperation ==
  ASSUME StoreInv, NEW t \in Threads, op[t].at # "idle"
  PROVE  Seen(op[t]) # None
<1>1. /\ op[t] \in Ops /\ OpShape(t)
  BY Zenon DEF StoreInv, FilesInv, ThreadInv
<1>2. op[t].at \in Called \cup {"syncDir", "finish", "done"}
  BY <1>1, Zenon DEF Ops, Called
<1>3. op[t].typ \in {"put", "rename", "delete"} /\ op[t].key \in Keys
  BY <1>1, Zenon DEF OpShape
<1>4. op[t].at \in {"finish", "done"} => op[t].res \in {"ok", "notfound", "error"}
  BY <1>1, Zenon DEF OpShape
<1>5. \E state \in {"called", "effective", "ok", "notfound", "error"} : Seen(op[t]) = As(op[t], state)
  BY <1>2, <1>4, SeenAt, Zenon
<1> QED
  BY <1>3, <1>5, NoneIsNoOperation DEF As

\* The calls, and the first step of a rename, are calls of the contract.
LEMMA CallImplements ==
  ASSUME StoreInv, NEW t \in Threads, Call(t) \/ BatchRename(t)
  PROVE  Store!ContractNext \/ UNCHANGED Store!contractVars
<1>1. op \in [Threads -> Ops]
  BY Zenon DEF StoreInv, FilesInv
<1>2. CASE \E ks \in SUBSET Keys : Commit(t, ks)
  BY <1>2, Zenon DEF Commit, Store!contractVars, Limbo
<1>3. ASSUME NEW typ \in {"put", "rename", "delete"}, NEW k \in Keys, op[t] = NoOp,
             op' = [op EXCEPT ![t] = OpAt("begin", typ, k, "none")],
             UNCHANGED <<newDirs, files, unsynced>>
      PROVE  Store!ContractNext
  <2>1. Seen(op[t]) = None
    BY <1>3, SeenAt DEF NoOp, OpAt
  <2>2. Seen(OpAt("begin", typ, k, "none")) = [typ |-> typ, key |-> k, state |-> "called"]
    BY SeenAt DEF OpAt, As, Called
  <2>3. Store!Invoke(t, typ, k)
    BY <1>1, <1>3, <2>1, <2>2, SeenExcept, Zenon DEF Store!Invoke, Store!Operation, Limbo
  <2> QED
    BY <2>3, Zenon DEF Store!ContractNext
<1>4. CASE BatchRename(t)
  <2>1. \A k \in batch[t].left : k \in Keys
    BY Zenon DEF StoreInv, FilesInv
  <2> QED
    BY <1>3, <1>4, <2>1, Zenon DEF BatchRename
<1>5. CASE \E k \in Keys : Put(t, k)
  BY <1>3, <1>5, Zenon DEF Put
<1>6. CASE \E k \in Keys : Delete(t, k)
  BY <1>3, <1>6, Zenon DEF Delete
<1> QED
  BY <1>2, <1>4, <1>5, <1>6, Zenon DEF Call

\* A failure of any step before the end is a failure in the contract.
LEMMA FailImplements ==
  ASSUME StoreInv, NEW t \in Threads,
         op[t].at \in {"dir", "temp", "stat", "rename", "syncDir", "remove"},
         Ends(t, "error"), files' = files, Limbo' = Limbo
  PROVE  Store!ContractNext
<1>1. op \in [Threads -> Ops] /\ OpShape(t)
  BY Zenon DEF StoreInv, FilesInv, ThreadInv
<1>2. Seen(op[t]) # None
  BY SeenIsOperation, Zenon
<1>3. /\ op[t].at # "syncDir" => Seen(op[t]) = As(op[t], "called")
      /\ op[t].at = "syncDir" => Seen(op[t]) = As(op[t], "effective") /\ op[t].typ = "put"
  BY <1>1, SeenAt, Zenon DEF Called, OpShape
<1>4. Store!InState(t, "called") \/ (Store!InState(t, "effective") /\ op[t].typ = "put")
  BY <1>2, <1>3 DEF Store!InState, As
<1>5. Store!Becomes(t, "error")
  <2> DEFINE o == OpAt("finish", op[t].typ, op[t].key, "error")
  <2>1. op' = [op EXCEPT ![t] = o] /\ o.typ = op[t].typ /\ o.key = op[t].key
    BY Zenon DEF Ends, OpAt
  <2>2. Seen(o) = As(o, "error")
    BY SeenAt DEF OpAt
  <2> QED
    BY <1>1, <1>3, <2>1, <2>2, SeenBecomes, Zenon
<1>6. Seen(op[t]).typ = op[t].typ
  BY <1>3 DEF As
<1>7. Store!Fail(t)
  BY <1>4, <1>5, <1>6, Zenon DEF Store!Fail
<1> QED
  BY <1>7, Zenon DEF Store!ContractNext

\* A step after which a caller knows the same, and less is in limbo
LEMMA SettleImplements ==
  ASSUME files' = files, Limbo' \subseteq Limbo,
         \A s \in Threads : Seen(op'[s]) = Seen(op[s])
  PROVE  Store!ContractNext
  BY Zenon DEF Store!ContractNext, Store!Settle

\* The steps before the rename are invisible, or fail.
LEMMA QuietImplements ==
  ASSUME StoreInv, NEW t \in Threads, Begin(t) \/ MakeTemp(t) \/ Stat(t)
  PROVE  Store!ContractNext \/ UNCHANGED Store!contractVars
<1>1. op \in [Threads -> Ops] /\ OpShape(t)
  BY Zenon DEF StoreInv, FilesInv, ThreadInv
<1>2. files' = files /\ Limbo' = Limbo
  BY Zenon DEF Begin, MakeTemp, Stat, Limbo
<1>3. CASE (MakeTemp(t) \/ Stat(t)) /\ Ends(t, "error")
  BY <1>2, <1>3, FailImplements, Zenon DEF MakeTemp, Stat
<1>4. ASSUME NEW here \in Called, op[t].at \in Called,
             op' = [op EXCEPT ![t] = OpAt(here, op[t].typ, op[t].key, op[t].res)]
      PROVE  UNCHANGED Store!contractVars
  <2>1. Seen(op[t]) = As(op[t], "called")
    BY <1>4, SeenAt, Zenon
  <2>2. Seen(op'[t]) = As(op[t], "called")
    BY <1>1, <1>4, SeenAt DEF OpAt, As
  <2>3. \A s \in Threads : Seen(op'[s]) = Seen(op[s])
    BY <1>1, <1>4, <2>1, <2>2, Zenon
  <2> QED
    BY <1>2, <2>3, Zenon DEF Store!contractVars
<1>5. CASE Begin(t)
  <2>1. op[t].typ \in {"put", "rename", "delete"}
    BY <1>1, <1>5, Zenon DEF Begin, OpShape
  <2>2. doOp(op[t].typ) \in Called
    BY <2>1, Zenon DEF doOp, Called
  <2>3. "waiting" \in Called /\ op[t].at \in Called
    BY <1>5, Zenon DEF Begin, Called
  <2> QED
    BY <1>4, <1>5, <2>2, <2>3, Zenon DEF Begin, Goto
<1>6. CASE (MakeTemp(t) \/ Stat(t)) /\ ~Ends(t, "error")
  <2>1. Goto(t, "stat") \/ Goto(t, "rename")
    BY <1>6, Zenon DEF MakeTemp, Stat
  <2>2. "stat" \in Called /\ "rename" \in Called /\ op[t].at \in Called
    BY <1>6, Zenon DEF Called, MakeTemp, Stat
  <2> QED
    BY <1>4, <2>1, <2>2, Zenon DEF Goto
<1> QED
  BY <1>3, <1>5, <1>6, Zenon

\* Making the directory settles what is in new directories, or fails.
LEMMA MakeDirImplements ==
  ASSUME StoreInv, NEW t \in Threads, MakeDir(t)
  PROVE  Store!ContractNext
<1>1. op \in [Threads -> Ops] /\ \A k \in files : getDir[k] \in dirs
  BY Zenon DEF StoreInv, FilesInv
<1>2. CASE Ends(t, "error") /\ newDirs' = newDirs \cup (dirs' \ dirs)
  <2>1. files' = files /\ Limbo' = Limbo
    BY <1>1, <1>2, Zenon DEF MakeDir, Limbo
  <2> QED
    BY <1>2, <2>1, FailImplements, Zenon DEF MakeDir
<1>3. CASE Goto(t, "temp") /\ newDirs' = {}
  <2>1. files' = files /\ Limbo' \subseteq Limbo
    BY <1>3, Zenon DEF MakeDir, Limbo
  <2>2. Seen(op[t]) = As(op[t], "called")
    BY SeenAt, Zenon DEF MakeDir, Called
  <2>3. Seen(op'[t]) = As(op[t], "called")
    BY <1>1, <1>3, SeenAt DEF Goto, OpAt, As, Called
  <2>4. \A s \in Threads : Seen(op'[s]) = Seen(op[s])
    BY <1>1, <1>3, <2>2, <2>3, Zenon DEF Goto
  <2> QED
    BY <2>1, <2>4, SettleImplements, Zenon
<1> QED
  BY <1>2, <1>3, Zenon DEF MakeDir

\* A rename or a removal is where the operation takes effect.
LEMMA EffectImplements ==
  ASSUME StoreInv, NEW t \in Threads, Rename(t) \/ Remove(t)
  PROVE  Store!ContractNext
<1>1. op \in [Threads -> Ops] /\ OpShape(t)
  BY Zenon DEF StoreInv, FilesInv, ThreadInv
<1>2. Seen(op[t]) = As(op[t], "called") /\ Seen(op[t]) # None
  BY SeenAt, SeenIsOperation, Zenon DEF Rename, Remove, Called
<1>3. Store!InState(t, "called")
  BY <1>2 DEF Store!InState, As
<1>4. Seen(op[t]).typ = op[t].typ /\ Seen(op[t]).key = op[t].key
  BY <1>2 DEF As
<1>5. CASE Ends(t, "error") /\ UNCHANGED <<files, unsynced>>
  <2>1. files' = files /\ Limbo' = Limbo
    BY <1>5, Zenon DEF Rename, Remove, Limbo
  <2> QED
    BY <1>5, <2>1, FailImplements, Zenon DEF Rename, Remove
<1>6. ASSUME NEW o, op' = [op EXCEPT ![t] = o], o.typ = op[t].typ, o.key = op[t].key,
             Seen(o) = As(o, "effective"),
             Limbo' \in {Limbo, Limbo \cup {op[t].key}},
             \/ op[t].typ = "delete" /\ op[t].key \in files /\ files' = files \ {op[t].key}
             \/ op[t].typ # "delete" /\ files' = files \cup {op[t].key}
      PROVE  Store!ContractNext
  <2>1. Store!Becomes(t, "effective")
    BY <1>1, <1>2, <1>6, SeenBecomes, Zenon
  <2>2. Store!TakeEffect(t)
    BY <1>3, <1>4, <1>6, <2>1, Zenon DEF Store!TakeEffect
  <2> QED
    BY <2>2, Zenon DEF Store!ContractNext
<1>7. CASE Rename(t) /\ ~(Ends(t, "error") /\ UNCHANGED <<files, unsynced>>)
  <2>1. /\ files' = files \cup {op[t].key}
        /\ unsynced' = unsynced \cup ({op[t].key} \ files) /\ newDirs' = newDirs
        /\ op[t].typ \in {"put", "rename"}
    BY <1>1, <1>7, Zenon DEF Rename, OpShape
  <2>2. Limbo' \in {Limbo, Limbo \cup {op[t].key}}
    <3>1. CASE op[t].key \in files
      BY <2>1, <3>1, Zenon DEF Limbo
    <3>2. CASE op[t].key \notin files
      BY <2>1, <3>2, Zenon DEF Limbo
    <3> QED
      BY <3>1, <3>2, Zenon
  <2>3. CASE op[t].typ = "put"
    <3> DEFINE o == OpAt("syncDir", op[t].typ, op[t].key, op[t].res)
    <3>1. op' = [op EXCEPT ![t] = o] /\ o.typ = op[t].typ /\ o.key = op[t].key
      BY <1>7, <2>3, Zenon DEF Rename, Goto, OpAt
    <3>2. Seen(o) = As(o, "effective")
      BY SeenAt, Zenon DEF OpAt
    <3> QED
      BY <1>6, <2>1, <2>2, <3>1, <3>2, Zenon
  <2>4. CASE op[t].typ # "put"
    <3> DEFINE o == OpAt("finish", op[t].typ, op[t].key, "ok")
    <3>1. op' = [op EXCEPT ![t] = o] /\ o.typ = op[t].typ /\ o.key = op[t].key
      BY <1>7, <2>4, Zenon DEF Rename, Ends, OpAt
    <3>2. Seen(o) = As(o, "effective")
      BY SeenAt, Zenon DEF OpAt
    <3> QED
      BY <1>6, <2>1, <2>2, <3>1, <3>2, Zenon
  <2> QED
    BY <2>3, <2>4, Zenon
<1>8. CASE Remove(t) /\ op[t].key \in files /\ files' = files \ {op[t].key}
  <2>1. unsynced' = unsynced \cup {op[t].key} /\ newDirs' = newDirs /\ op[t].typ = "delete"
    BY <1>1, <1>8, Zenon DEF Remove, OpShape
  <2>2. Limbo' = Limbo \cup {op[t].key}
    BY <1>8, <2>1, Zenon DEF Limbo
  <2> DEFINE o == OpAt("finish", op[t].typ, op[t].key, "ok")
  <2>3. op' = [op EXCEPT ![t] = o] /\ o.typ = op[t].typ /\ o.key = op[t].key
    BY <1>8, Zenon DEF Remove, Ends, OpAt
  <2>4. Seen(o) = As(o, "effective")
    BY SeenAt, Zenon DEF OpAt
  <2> QED
    BY <1>6, <1>8, <2>1, <2>2, <2>3, <2>4, Zenon
<1>9. CASE Remove(t) /\ op[t].key \notin files /\ Ends(t, "notfound")
  <2>1. files' = files /\ Limbo' = Limbo /\ op[t].typ = "delete"
    BY <1>1, <1>9, Zenon DEF Remove, Limbo, OpShape
  <2> DEFINE o == OpAt("finish", op[t].typ, op[t].key, "notfound")
  <2>2. op' = [op EXCEPT ![t] = o] /\ o.typ = op[t].typ /\ o.key = op[t].key
    BY <1>9, Zenon DEF Ends, OpAt
  <2>3. Seen(o) = As(o, "notfound")
    BY SeenAt DEF OpAt
  <2>4. Store!Becomes(t, "notfound")
    BY <1>1, <1>2, <2>2, <2>3, SeenBecomes, Zenon
  <2>5. Store!Miss(t)
    BY <1>3, <1>4, <1>9, <2>1, <2>4, Zenon DEF Store!Miss
  <2> QED
    BY <2>5, Zenon DEF Store!ContractNext
<1> QED
  BY <1>5, <1>7, <1>8, <1>9, Zenon DEF Remove

\* Synchronising the directory settles the keys in it, or fails.
LEMMA SyncDirImplements ==
  ASSUME StoreInv, NEW t \in Threads, SyncDir(t)
  PROVE  Store!ContractNext
<1>1. op \in [Threads -> Ops]
  BY Zenon DEF StoreInv, FilesInv
<1>2. CASE Ends(t, "error") /\ UNCHANGED unsynced
  <2>1. files' = files /\ Limbo' = Limbo
    BY <1>2, Zenon DEF SyncDir, Limbo
  <2> QED
    BY <1>2, <2>1, FailImplements, Zenon DEF SyncDir
<1>3. CASE Ends(t, "ok") /\ Sync({getDir[op[t].key]})
  <2>1. files' = files /\ Limbo' \subseteq Limbo
    BY <1>3, Zenon DEF SyncDir, Sync, Limbo
  <2>2. Seen(op[t]) = As(op[t], "effective")
    BY SeenAt, Zenon DEF SyncDir
  <2>3. Seen(op'[t]) = As(op[t], "effective")
    BY <1>1, <1>3, SeenAt DEF Ends, OpAt, As
  <2>4. \A s \in Threads : Seen(op'[s]) = Seen(op[s])
    BY <1>1, <1>3, <2>2, <2>3, Zenon DEF Ends
  <2> QED
    BY <2>1, <2>4, SettleImplements, Zenon
<1> QED
  BY <1>2, <1>3, Zenon DEF SyncDir

\* The end of an operation lets those who wait succeed with it when it
\* succeeded, and is invisible when it did not.
LEMMA FinishImplements ==
  ASSUME StoreInv, NEW t \in Threads, Finish(t)
  PROVE  Store!ContractNext \/ UNCHANGED Store!contractVars
<1>1. op \in [Threads -> Ops] /\ \A s \in Threads : ThreadInv(s)
  BY Zenon DEF StoreInv, FilesInv
<1>2. op[t].at = "finish" /\ op[t].res \in {"ok", "notfound", "error"}
  BY <1>1, Zenon DEF Finish, ThreadInv, OpShape
<1>3. files' = files /\ Limbo' = Limbo
  BY Zenon DEF Finish, Limbo
<1>4. t \notin Waiters(t)
  BY <1>2, Zenon DEF Waiters
<1>5. \A s \in Waiters(t) : Seen(op[s]) = As(op[s], "called") /\ op[s].key = op[t].key
  BY SeenAt, Zenon DEF Waiters, Called
<1>6. op'[t] = OpAt("done", op[t].typ, op[t].key, op[t].res)
  BY Zenon DEF Finish
<1>7. \A s \in Threads : s # t /\ s \notin Waiters(t) => op'[s] = op[s]
  BY Zenon DEF Finish
<1>8. CASE op[t].res = "ok"
  <2>1. Seen(op[t]) = As(op[t], "effective") /\ Seen(op[t]) # None
    BY <1>2, <1>8, SeenAt, SeenIsOperation, Zenon
  <2>2. \A s \in Waiters(t) : op'[s] = OpAt("done", op[s].typ, op[s].key, "ok")
    BY <1>4, <1>8, Zenon DEF Finish, Waiters
  <2>3. ASSUME NEW s \in Threads, s = t \/ s \in Waiters(t)
        PROVE  Seen(op'[s]) = As(op[s], "ok")
    <3>1. op'[s] = OpAt("done", op[s].typ, op[s].key, "ok")
      BY <1>6, <1>8, <2>2, <2>3, Zenon
    <3>2. Seen(op'[s]) = As(op'[s], "ok")
      BY <3>1, SeenAt DEF OpAt
    <3> QED
      BY <3>1, <3>2 DEF OpAt, As
  <2>4. \A s \in Waiters(t) : Seen(op[s]) # None
    BY SeenIsOperation, Zenon DEF Waiters
  <2>5. \A s \in Threads :
          Seen(op'[s]) = IF s = t \/ s \in Waiters(t)
                           THEN [typ |-> Seen(op[s]).typ, key |-> Seen(op[s]).key, state |-> "ok"]
                           ELSE Seen(op[s])
    <3> SUFFICES ASSUME NEW s \in Threads
                 PROVE  Seen(op'[s]) = IF s = t \/ s \in Waiters(t)
                           THEN [typ |-> Seen(op[s]).typ, key |-> Seen(op[s]).key, state |-> "ok"]
                           ELSE Seen(op[s])
      BY Zenon
    <3>1. CASE s = t \/ s \in Waiters(t)
      <4>1. Seen(op[s]).typ = op[s].typ /\ Seen(op[s]).key = op[s].key
        BY <1>5, <2>1, <3>1, AsFields
      <4> QED
        BY <2>3, <3>1, <4>1, Zenon DEF As
    <3>2. CASE s # t /\ s \notin Waiters(t)
      BY <1>7, <3>2, Zenon
    <3> QED
      BY <3>1, <3>2, Zenon
  <2>6. op[t].typ = "put" => op[t].key \notin Limbo
    BY <1>1, <1>2, <1>8, Zenon DEF ThreadInv, DirReady, Limbo
  <2>7. Store!InState(t, "effective") /\ Seen(op[t]).typ = op[t].typ /\ Seen(op[t]).key = op[t].key
    BY <2>1 DEF Store!InState, As
  <2>8. \A s \in Waiters(t) : Store!InState(s, "called") /\ Seen(op[s]).key = op[t].key
    <3> SUFFICES ASSUME NEW s \in Waiters(t)
                 PROVE  Store!InState(s, "called") /\ Seen(op[s]).key = op[t].key
      BY Zenon
    <3>1. s \in Threads
      BY Zenon DEF Waiters
    <3>2. Seen(op[s]).state = "called" /\ Seen(op[s]).key = op[t].key
      BY <1>5, AsFields
    <3> QED
      BY <2>4, <3>1, <3>2, Zenon DEF Store!InState
  <2>9. Waiters(t) \in SUBSET Threads
    BY Zenon DEF Waiters
  <2>10. Store!Succeed(t, Waiters(t))
    BY <1>3, <2>5, <2>6, <2>7, <2>8, <2>9, Zenon DEF Store!Succeed, Store!Operation
  <2> QED
    BY <2>9, <2>10, Zenon DEF Store!ContractNext
<1>9. CASE op[t].res # "ok"
  <2>1. Seen(op'[t]) = Seen(op[t])
    BY <1>2, <1>6, <1>9, SeenAt, Zenon DEF OpAt, As
  <2>2. \A s \in Waiters(t) : op'[s] = OpAt("begin", op[s].typ, op[s].key, "none")
    BY <1>4, <1>9, Zenon DEF Finish, Waiters
  <2>3. \A s \in Waiters(t) : Seen(op'[s]) = Seen(op[s])
    BY <1>5, <2>2, SeenAt, ZenonT(30) DEF OpAt, As, Called
  <2>4. \A s \in Threads : Seen(op'[s]) = Seen(op[s])
    BY <1>7, <2>1, <2>3, Zenon
  <2> QED
    BY <1>3, <2>4, Zenon DEF Store!contractVars
<1> QED
  BY <1>8, <1>9, Zenon

\* A put that is tried again, and a return
LEMMA ReturnImplements ==
  ASSUME StoreInv, NEW t \in Threads, PutAgain(t) \/ Return(t)
  PROVE  Store!ContractNext
<1>1. op \in [Threads -> Ops] /\ OpShape(t)
  BY Zenon DEF StoreInv, FilesInv, ThreadInv
<1>2. op[t].at = "done" /\ op[t].res \in {"ok", "notfound", "error"}
  BY <1>1, Zenon DEF PutAgain, Return, OpShape
<1>3. Seen(op[t]) = As(op[t], op[t].res) /\ Seen(op[t]) # None
  BY <1>2, SeenAt, SeenIsOperation, Zenon
<1>4. files' = files /\ Limbo' = Limbo
  BY Zenon DEF PutAgain, Return, Limbo
<1>5. CASE PutAgain(t)
  <2> DEFINE o == OpAt("begin", "put", op[t].key, "none")
  <2>1. op' = [op EXCEPT ![t] = o] /\ o.typ = op[t].typ /\ o.key = op[t].key
    BY <1>5, Zenon DEF PutAgain, OpAt
  <2>2. Seen(o) = As(o, "called")
    BY SeenAt, Zenon DEF OpAt, Called
  <2>3. Store!Becomes(t, "called")
    BY <1>1, <1>3, <2>1, <2>2, SeenBecomes, Zenon
  <2>4. Store!InState(t, "error") /\ Seen(op[t]).typ = "put"
    BY <1>3, <1>5 DEF PutAgain, Store!InState, As
  <2>5. Store!Retry(t)
    BY <1>4, <2>3, <2>4, Zenon DEF Store!Retry
  <2> QED
    BY <2>5, Zenon DEF Store!ContractNext
<1>6. CASE Return(t)
  <2>1. Seen(NoOp) = None
    BY SeenAt, Zenon DEF NoOp, OpAt
  <2>2. Seen(op[t]).state \in {"ok", "notfound", "error"}
    BY <1>2, <1>3 DEF As
  <2>3. Store!Respond(t)
    BY <1>1, <1>3, <1>4, <1>6, <2>1, <2>2, SeenExcept, Zenon DEF Return, Store!Respond
  <2> QED
    BY <2>3, Zenon DEF Store!ContractNext
<1> QED
  BY <1>5, <1>6, Zenon

\* The other steps of a batch settle keys, or are invisible.
LEMMA BatchImplements ==
  ASSUME StoreInv, NEW t \in Threads,
         BatchTemps(t) \/ BatchSyncDirs(t) \/ BatchSyncTop(t) \/ BatchReturn(t)
  PROVE  Store!ContractNext
<1>1. \A k \in files : getDir[k] \in dirs
  BY Zenon DEF StoreInv, FilesInv
<1>2. files' = files /\ op' = op
  BY Zenon DEF BatchTemps, BatchSyncDirs, BatchSyncTop, BatchReturn
<1>3. Limbo' \subseteq Limbo
  <2>1. CASE BatchTemps(t)
    <3>1. unsynced' = unsynced /\ newDirs' = newDirs \cup (dirs' \ dirs)
      BY <2>1, Zenon DEF BatchTemps
    <3> QED
      BY <1>1, <1>2, <3>1, Zenon DEF Limbo
  <2>2. CASE BatchSyncDirs(t) \/ BatchSyncTop(t) \/ BatchReturn(t)
    <3>1. unsynced' \subseteq unsynced /\ newDirs' \subseteq newDirs
      BY <2>2, Zenon DEF BatchSyncDirs, BatchSyncTop, BatchReturn, Sync
    <3> QED
      BY <1>2, <3>1, Zenon DEF Limbo
  <2> QED
    BY <2>1, <2>2, Zenon
<1> QED
  BY <1>2, <1>3, SettleImplements, Zenon

\* A crash undoes no more than the contract allows.
LEMMA CrashImplements ==
  ASSUME StoreInv, Crash
  PROVE  Store!ContractNext
<1>1. PICK lost \in SUBSET newDirs, undone \in SUBSET unsynced :
        files' = {k \in (files \ undone) \cup (undone \ files) : getDir[k] \notin lost}
  BY Zenon DEF Crash
<1>2. files \ Limbo \subseteq files' /\ files' \subseteq files \cup Limbo
  BY <1>1, Zenon DEF Limbo
<1>3. Limbo' = {}
  BY Zenon DEF Crash, Limbo
<1>4. \A t \in Threads : Seen(op'[t]) = None
  BY SeenAt, Zenon DEF Crash, NoOp, OpAt
<1>5. Store!Restart
  BY <1>2, <1>3, <1>4, Zenon DEF Store!Restart
<1> QED
  BY <1>5, Zenon DEF Store!ContractNext

\* The operations of the datastore (Put, Delete and Commit, with opMap, the
\* synchronisation of files and directories, and crashes) implement the
\* contract of BlockFiles.
THEOREM FilesKeepContract == Spec => StoreContract
<1>1. Init => Store!ContractInit
  <2> SUFFICES ASSUME Init PROVE Store!ContractInit
    BY Zenon
  <2>1. Limbo = {}
    BY Zenon DEF Init, Limbo
  <2>2. \A t \in Threads : Seen(op[t]) = None
    BY SeenAt, Zenon DEF Init, NoOp, OpAt
  <2> QED
    BY <2>1, <2>2, Zenon DEF Init, Store!ContractInit
<1>2. StoreInv /\ [Next]_vars => [Store!ContractNext]_(Store!contractVars)
  <2> SUFFICES ASSUME StoreInv, [Next]_vars
               PROVE  Store!ContractNext \/ UNCHANGED Store!contractVars
    BY Zenon
  <2>1. ASSUME NEW t \in Threads, Call(t) \/ Step(t)
        PROVE  Store!ContractNext \/ UNCHANGED Store!contractVars
    BY <2>1, CallImplements, QuietImplements, MakeDirImplements, EffectImplements,
       SyncDirImplements, FinishImplements, ReturnImplements, BatchImplements, Zenon
       DEF Step, BatchRenamed
  <2>2. CASE UNCHANGED vars
    BY <2>2, Zenon DEF vars, Store!contractVars, Limbo
  <2> QED
    BY <2>1, <2>2, CrashImplements, Zenon DEF Next
<1> QED
  BY <1>1, <1>2, StoreInvInit, StoreInvNext, PTL DEF Spec, StoreContract, Store!Contract

-----------------------------------------------------------------------------
(* diskUsage.                                                              *)

\* The keys between the stat and the rename, which are not counted
Renaming == {k \in Keys : \E t \in Threads : op[t].at = "rename" /\ op[t].key = k}

UsageInv == diskUsage = Cardinality(files \ Renaming)

\* Who works on a key works on it alone.
LEMMA AloneOnKey ==
  ASSUME StoreInv, NEW s \in Threads, NEW t \in Threads, Busy(s), Busy(t), op[s].key = op[t].key
  PROVE  s = t
BY Zenon DEF StoreInv, ThreadInv, OpOwned

\* The steps that neither count nor enter or leave the rename
LEMMA UsageSame ==
  ASSUME UsageInv, UNCHANGED <<files, diskUsage>>,
         \A s \in Threads : op'[s] = op[s] \/ (op[s].at # "rename" /\ op'[s].at # "rename")
  PROVE  UsageInv'
<1>1. Renaming' = Renaming
  BY Zenon DEF Renaming
<1> QED
  BY <1>1, Zenon DEF UsageInv

\* Such are all but Stat, Rename and Remove.
LEMMA UsageQuiet ==
  ASSUME StoreInv, UsageInv, NEW t \in Threads, Call(t) \/ Step(t),
         ~Stat(t), ~Rename(t), ~Remove(t)
  PROVE  UsageInv'
<1>1. op \in [Threads -> Ops] /\ OpShape(t)
  BY Zenon DEF StoreInv, FilesInv, ThreadInv
<1>2. UNCHANGED <<files, diskUsage>>
  BY Zenon DEF Call, Step, Put, Delete, Commit, Begin, Finish, PutAgain, MakeDir, MakeTemp, SyncDir,
         BatchTemps, BatchRename, BatchRenamed, BatchSyncDirs, BatchSyncTop, Return, BatchReturn
<1>3. CASE op' = op
  BY <1>2, <1>3, UsageSame, Zenon
<1>4. ASSUME NEW o, op' = [op EXCEPT ![t] = o], op[t].at # "rename", o.at # "rename"
      PROVE  UsageInv'
  BY <1>1, <1>2, <1>4, UsageSame, Zenon
<1>5. NoOp.at = "idle"
  BY Zenon DEF NoOp, OpAt
<1>6. CASE Call(t) \/ BatchRename(t)
  <2>1. op' = op \/ (op[t] = NoOp /\ \E typ \in {"put", "delete", "rename"}, k \in Keys \cup batch[t].left :
                       op' = [op EXCEPT ![t] = OpAt("begin", typ, k, "none")])
    BY <1>6, Zenon DEF Call, Put, Delete, Commit, BatchRename
  <2>2. \A typ, k : OpAt("begin", typ, k, "none").at # "rename"
    BY Zenon DEF OpAt
  <2> QED
    BY <1>3, <1>4, <1>5, <2>1, <2>2, Zenon
<1>7. CASE Begin(t)
  <2>1. PICK at \in {"dir", "stat", "remove", "waiting"} : Goto(t, at)
    BY <1>1, <1>7, Zenon DEF Begin, doOp, OpShape
  <2> QED
    BY <1>4, <1>7, <2>1, ZenonT(30) DEF Begin, Goto, OpAt
<1>8. CASE MakeDir(t) \/ MakeTemp(t) \/ SyncDir(t)
  <2>1. /\ op[t].at # "rename"
        /\ (\E at \in {"temp", "stat"} : Goto(t, at)) \/ (\E res \in Results : Ends(t, res))
    BY <1>8, Zenon DEF MakeDir, MakeTemp, SyncDir, Results
  <2> QED
    BY <1>4, <2>1, Zenon DEF Goto, Ends, OpAt
<1>9. CASE PutAgain(t) \/ Return(t) \/ BatchRenamed(t)
  BY <1>4, <1>5, <1>9 DEF PutAgain, Return, BatchRenamed, OpAt
<1>10. CASE Finish(t)
  <2>1. \A s \in Threads : op'[s] = op[s] \/ (op[s].at # "rename" /\ op'[s].at # "rename")
    BY <1>10, Zenon DEF Finish, Waiters, OpAt
  <2> QED
    BY <1>2, <2>1, UsageSame, Zenon
<1>11. CASE BatchTemps(t) \/ BatchSyncDirs(t) \/ BatchSyncTop(t) \/ BatchReturn(t)
  BY <1>3, <1>11, Zenon DEF BatchTemps, BatchSyncDirs, BatchSyncTop, BatchReturn
<1> QED
  BY <1>6, <1>7, <1>8, <1>9, <1>10, <1>11, Zenon DEF Step

\* Stat, Rename and Remove keep the count.
LEMMA UsageCounts ==
  ASSUME IsFiniteSet(Keys), StoreInv, UsageInv, NEW t \in Threads, Stat(t) \/ Rename(t) \/ Remove(t)
  PROVE  UsageInv'
<1> DEFINE k == op[t].key
<1>1. op \in [Threads -> Ops] /\ k \in Keys /\ files \subseteq Keys
  BY Zenon DEF StoreInv, FilesInv, ThreadInv, OpShape, Stat, Rename, Remove
<1>2. \A s \in Threads \ {t} : op[s].at = "rename" => op[s].key # k
  BY AloneOnKey, Zenon DEF Busy, Stat, Rename, Remove
<1>3. \A here, res : /\ OpAt(here, op[t].typ, k, res).at = here
                     /\ OpAt(here, op[t].typ, k, res).key = k
  BY Zenon DEF OpAt
<1>4. ASSUME NEW here, NEW res, op' = [op EXCEPT ![t] = OpAt(here, op[t].typ, k, res)]
      PROVE  Renaming' = IF here = "rename" THEN Renaming \cup {k} ELSE Renaming \ {k}
  <2>1. op'[t].at = here /\ op'[t].key = k /\ \A s \in Threads \ {t} : op'[s] = op[s]
    BY <1>1, <1>3, <1>4, Zenon
  <2> QED
    BY <1>1, <1>2, <2>1 DEF Renaming
<1>5. IsFiniteSet(files \ Renaming) /\ Cardinality(files \ Renaming) \in Nat
  BY <1>1, FS_Subset, FS_CardinalityType, Zenon
<1>6. k \in Renaming <=> op[t].at = "rename"
  BY <1>1, <1>2, Zenon DEF Renaming
<1>7. /\ k \in files \ Renaming => Cardinality((files \ Renaming) \ {k}) = diskUsage - 1
      /\ k \notin files \ Renaming => Cardinality((files \ Renaming) \ {k}) = diskUsage
  BY <1>5, FS_RemoveElement, Zenon DEF UsageInv
<1>8. k \notin files \ Renaming => Cardinality((files \ Renaming) \cup {k}) = diskUsage + 1
  BY <1>5, FS_AddElement, Zenon DEF UsageInv
<1>9. diskUsage \in Nat /\ (k \in files => Size(k) = 1) /\ (k \notin files => Size(k) = 0)
  BY <1>5, Zenon DEF UsageInv, Size
<1>10. CASE Stat(t) /\ diskUsage' = diskUsage - Size(k) /\ Goto(t, "rename")
  <2>1. Renaming' = Renaming \cup {k} /\ files' = files /\ k \notin Renaming
    BY <1>4, <1>6, <1>10, Zenon DEF Stat, Goto
  <2>2. files' \ Renaming' = (files \ Renaming) \ {k}
    BY <2>1, Zenon
  <2> QED
    <3>1. CASE k \in files
      BY <1>7, <1>9, <1>10, <2>1, <2>2, <3>1, Zenon DEF UsageInv
    <3>2. CASE k \notin files
      <4>1. diskUsage' = diskUsage
        BY <1>9, <1>10, <3>2
      <4> QED
        BY <1>7, <2>2, <3>2, <4>1, Zenon DEF UsageInv
    <3> QED
      BY <3>1, <3>2, Zenon
<1>11. CASE Stat(t) /\ UNCHANGED diskUsage /\ Ends(t, "error")
  <2>1. op'[t].at = "finish" /\ op[t].at = "stat" /\ \A s \in Threads \ {t} : op'[s] = op[s]
    BY <1>1, <1>11, Zenon DEF Stat, Ends, OpAt
  <2> QED
    BY <1>11, <2>1, UsageSame, Zenon DEF Stat
<1>12. CASE Rename(t)
  <2>1. Renaming' = Renaming \ {k} /\ k \in Renaming
    BY <1>4, <1>6, <1>12 DEF Rename, Goto, Ends
  <2>2. CASE files' = files \cup {k} /\ diskUsage' = diskUsage + 1
    <3>1. files' \ Renaming' = (files \ Renaming) \cup {k}
      BY <2>1, <2>2, Zenon
    <3> QED
      BY <1>8, <2>1, <2>2, <3>1, Zenon DEF UsageInv
  <2>3. CASE files' = files /\ diskUsage' = diskUsage + Size(k)
    <3>1. CASE k \in files
      <4>1. files' \ Renaming' = (files \ Renaming) \cup {k}
        BY <2>1, <2>3, <3>1, Zenon
      <4> QED
        BY <1>8, <1>9, <2>1, <2>3, <3>1, <4>1, Zenon DEF UsageInv
    <3>2. CASE k \notin files
      <4>1. files' \ Renaming' = files \ Renaming
        BY <2>1, <2>3, <3>2, Zenon
      <4>2. diskUsage' = diskUsage
        BY <1>9, <2>3, <3>2
      <4> QED
        BY <1>9, <2>3, <3>2, <4>1, <4>2, Zenon DEF UsageInv
    <3> QED
      BY <3>1, <3>2, Zenon
  <2> QED
    BY <1>12, <2>2, <2>3, Zenon DEF Rename
<1>13. CASE Remove(t)
  <2>1. Renaming' = Renaming /\ k \notin Renaming
    BY <1>4, <1>6, <1>13 DEF Remove, Ends
  <2>2. CASE k \in files /\ files' = files \ {k} /\ diskUsage' = diskUsage - 1
    <3>1. files' \ Renaming' = (files \ Renaming) \ {k}
      BY <2>1, <2>2, Zenon
    <3> QED
      BY <1>7, <2>1, <2>2, <3>1, Zenon DEF UsageInv
  <2>3. CASE UNCHANGED <<files, diskUsage>>
    BY <2>1, <2>3, Zenon DEF UsageInv
  <2> QED
    BY <1>13, <2>2, <2>3, Zenon DEF Remove
<1> QED
  BY <1>10, <1>11, <1>12, <1>13, Zenon DEF Stat

\* fs.diskUsage counts the files exactly while nobody is between the stat and the
\* rename of renameAndUpdateDiskUsage: opMap keeps operations on one key apart,
\* and those on different keys add up.
THEOREM UsageExact ==
  ASSUME IsFiniteSet(Keys)
  PROVE  Spec => []DiskUsageExact
<1>1. Init => StoreInv /\ UsageInv
  <2> SUFFICES ASSUME Init PROVE UsageInv
    BY StoreInvInit, Zenon
  <2>1. Renaming = {}
    BY Zenon DEF Init, Renaming, NoOp, OpAt
  <2> QED
    BY <2>1, Zenon DEF Init, UsageInv
<1>2. StoreInv /\ UsageInv /\ [Next]_vars => StoreInv' /\ UsageInv'
  <2> SUFFICES ASSUME StoreInv, UsageInv, [Next]_vars PROVE UsageInv'
    BY StoreInvNext, Zenon
  <2>1. CASE Crash
    <3>1. Renaming' = {}
      BY <2>1, Zenon DEF Crash, Renaming, NoOp, OpAt
    <3> QED
      BY <2>1, <3>1, Zenon DEF Crash, UsageInv
  <2>2. CASE UNCHANGED vars
    BY <2>2, UsageSame, Zenon DEF vars
  <2>3. ASSUME NEW t \in Threads, Call(t) \/ Step(t) PROVE UsageInv'
    BY <2>3, UsageQuiet, UsageCounts, Zenon
  <2> QED
    BY <2>1, <2>2, <2>3, Zenon DEF Next
<1>3. UsageInv => DiskUsageExact
  <2> SUFFICES ASSUME UsageInv, \A t \in Threads : op[t].at # "rename"
               PROVE  diskUsage = Cardinality(files)
    BY Zenon DEF DiskUsageExact
  <2>1. Renaming = {}
    BY Zenon DEF Renaming
  <2> QED
    BY <2>1, Zenon DEF UsageInv
<1> QED
  BY <1>1, <1>2, <1>3, PTL DEF Spec

-----------------------------------------------------------------------------
(* Types.                                                                  *)

\* What StoreInv does not say of the types
RestInv ==
  /\ dirs \subseteq Dir(Keys)
  /\ diskUsage \in Int
  /\ tries \in [Threads -> 0 .. putMaxRetries]
  /\ crashes \in 0 .. MaxCrashes

\* The steps of the operations keep the types of directories, size and tries.
LEMMA RestStep ==
  ASSUME StoreInv, RestInv, NEW t \in Threads, Call(t) \/ Step(t), UNCHANGED crashes
  PROVE  RestInv'
<1>0. /\ op[t].at # "idle" => op[t].key \in Keys
      /\ batch[t].keys \subseteq Keys
  BY Zenon DEF StoreInv, ThreadInv, OpShape, BatchReady
<1>1. dirs' \subseteq Dir(Keys)
  <2>1. CASE MakeDir(t)
    <3>1. dirs' \subseteq dirs \cup {getDir[op[t].key]} /\ op[t].key \in Keys
      BY <1>0, <2>1, Zenon DEF MakeDir
    <3> QED BY <3>1, Zenon DEF RestInv, Dir
  <2>2. CASE BatchTemps(t)
    <3>1. PICK ks \in SUBSET Keys : dirs' = dirs \cup Dir(ks)
      BY <1>0, <2>2, Zenon DEF BatchTemps
    <3> QED BY <3>1, Zenon DEF RestInv, Dir
  <2>3. CASE ~MakeDir(t) /\ ~BatchTemps(t)
    BY <2>3, Zenon
    DEF Call, Put, Delete, Commit, Step, Begin, Finish, PutAgain, MakeTemp, Stat, Rename, SyncDir,
        Remove, BatchRename, BatchRenamed, BatchSyncDirs, BatchSyncTop, Return, BatchReturn, RestInv
  <2> QED BY <2>1, <2>2, <2>3, Zenon
<1>2. diskUsage' \in Int
  <2>1. CASE Stat(t) \/ Rename(t) \/ Remove(t)
    BY <2>1 DEF Stat, Rename, Remove, Size, RestInv
  <2>2. CASE ~Stat(t) /\ ~Rename(t) /\ ~Remove(t)
    BY <2>2, Zenon
    DEF Call, Put, Delete, Commit, Step, Begin, Finish, PutAgain, MakeDir, MakeTemp, SyncDir,
        BatchTemps, BatchRename, BatchRenamed, BatchSyncDirs, BatchSyncTop, Return, BatchReturn,
        RestInv
  <2> QED BY <2>1, <2>2, Zenon
<1>3. tries' \in [Threads -> 0 .. putMaxRetries]
  <2>1. \/ tries' = tries \/ tries' = [tries EXCEPT ![t] = 1] \/ tries' = [tries EXCEPT ![t] = 0]
        \/ tries[t] < putMaxRetries /\ tries' = [tries EXCEPT ![t] = tries[t] + 1]
    BY Zenon
    DEF Call, Put, Delete, Commit, Step, Begin, Finish, PutAgain, MakeDir, MakeTemp, Stat, Rename,
        SyncDir, Remove, BatchTemps, BatchRename, BatchRenamed, BatchSyncDirs, BatchSyncTop, Return,
        BatchReturn
  <2> QED BY <2>1, FlatFSAssumption DEF RestInv
<1> QED BY <1>1, <1>2, <1>3, Zenon DEF RestInv

\* The files, opMap, the operations and the batches have their types; Put never
\* tries more than putMaxRetries times.
THEOREM FilesTypes ==
  ASSUME IsFiniteSet(Keys)
  PROVE  Spec => []TypeOK
<1>0. \A S \in SUBSET Keys : Cardinality(S) \in Int
  BY FS_Subset, FS_CardinalityType
<1>1. Init => StoreInv /\ RestInv
  <2> SUFFICES ASSUME Init PROVE RestInv
    BY StoreInvInit, Zenon
  <2> QED BY <1>0, FlatFSAssumption DEF Init, RestInv, Dir
<1>2. StoreInv /\ RestInv /\ [Next]_vars => StoreInv' /\ RestInv'
  <2> SUFFICES ASSUME StoreInv, RestInv, [Next]_vars PROVE RestInv'
    BY StoreInvNext, Zenon
  <2>1. CASE Crash
    <3>1. dirs' \subseteq dirs /\ files' \in SUBSET Keys
      BY <2>1, Zenon DEF Crash, StoreInv, FilesInv
    <3>2. diskUsage' \in Int
      BY <1>0, <2>1, <3>1, Zenon DEF Crash
    <3>3. tries' \in [Threads -> 0 .. putMaxRetries] /\ crashes' \in 0 .. MaxCrashes
      BY <2>1, FlatFSAssumption DEF Crash, RestInv
    <3> QED BY <3>1, <3>2, <3>3, Zenon DEF RestInv
  <2>2. CASE UNCHANGED vars
    BY <2>2, Zenon DEF vars, RestInv
  <2> QED BY <2>1, <2>2, RestStep, Zenon DEF Next
<1>3. StoreInv /\ RestInv => TypeOK
  BY Zenon DEF StoreInv, FilesInv, RestInv, TypeOK
<1> QED BY <1>1, <1>2, <1>3, PTL DEF Spec
=============================================================================
