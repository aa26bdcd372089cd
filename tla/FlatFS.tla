------------------------------- MODULE FlatFS -------------------------------
(***************************************************************************)
(* The datastore of the blocks, gxlibs/github.com/ipfs/go-ds-flatfs.       *)
(*                                                                         *)
(* Every key is a file in a directory that the shard function names.  Keys *)
(* are hashes, so that a key has one value and its file is there or not.   *)
(* opMap makes operations on one key exclude each other: who comes while   *)
(* one is under way waits for its result, returns when it succeeded, and   *)
(* tries again when it failed.                                             *)
(*                                                                         *)
(* The file system orders nothing by itself.  A crash may undo any change  *)
(* to a directory that was not synchronised since, and removes a new       *)
(* directory unless the top directory was synchronised.  Files are written *)
(* and synchronised before they are renamed, and are never torn.  The      *)
(* datastore is opened with sync, as "ipfs init" configures it.            *)
(***************************************************************************)
EXTENDS Integers, FiniteSets

CONSTANTS
  Keys,
  Threads,        \* goroutines that use the datastore
  getDir,         \* the shard function: the directory of each key
  None,
  putMaxRetries,  \* how often Put tries while it is out of file descriptors
  IOFails,        \* whether file operations may fail
  Putters, Batchers, Deleters,  \* the threads that call Put, Commit and Delete
  MaxCrashes

ASSUME FlatFSAssumption ==
  /\ None \notin Threads \cup Keys
  /\ DOMAIN getDir = Keys
  /\ putMaxRetries \in Nat \ {0}
  /\ IOFails \in BOOLEAN
  /\ Putters \cup Batchers \cup Deleters = Threads
  /\ MaxCrashes \in Nat

ASSUME NoneIsNoOperation ==
  None \notin [typ : {"put", "rename", "delete"}, key : Keys,
               state : {"called", "effective", "ok", "notfound", "error"}]

VARIABLES
  dirs,       \* the directories that exist
  newDirs,    \* those that a crash may remove
  files,      \* the keys that have a file
  unsynced,   \* those of which a crash may undo the last change
  diskUsage,  \* fs.diskUsage, with every file of size 1 and directories 0
  opMap,      \* the thread whose operation is in opMap under the key
  op,         \* the write operation each thread is in
  tries,      \* the loop counter of Put
  batch,      \* the batch each thread commits
  crashes

vars == <<dirs, newDirs, files, unsynced, diskUsage, opMap, op, tries, batch, crashes>>

OpAt(at, typ, key, res) == [at |-> at, typ |-> typ, key |-> key, res |-> res]
NoOp == OpAt("idle", "none", None, "none")

Results == {"none", "ok", "notfound", "error"}
Ops == [at : {"idle", "begin", "waiting", "dir", "temp", "stat", "rename", "syncDir", "remove",
              "finish", "done"},
        typ : {"none", "put", "rename", "delete"}, key : Keys \cup {None}, res : Results]

Goto(t, here) == op' = [op EXCEPT ![t] = OpAt(here, @.typ, @.key, @.res)]
Ends(t, res) == op' = [op EXCEPT ![t] = OpAt("finish", @.typ, @.key, res)]

NoBatch == [at |-> "idle", keys |-> {}, left |-> {}]
BatchAt(t, here) == batch' = [batch EXCEPT ![t] = [at |-> here, keys |-> @.keys, left |-> @.left]]

Dir(keys) == {getDir[k] : k \in keys}
Size(k) == IF k \in files THEN 1 ELSE 0

\* An open of a datastore whose last write was long ago
Init ==
  /\ files \in SUBSET Keys
  /\ unsynced = {}
  /\ dirs = Dir(files)
  /\ newDirs = {}
  /\ diskUsage = Cardinality(files)
  /\ opMap = [k \in Keys |-> None]
  /\ op = [t \in Threads |-> NoOp]
  /\ tries = [t \in Threads |-> 0]
  /\ batch = [t \in Threads |-> NoBatch]
  /\ crashes = 0

-----------------------------------------------------------------------------
(* opMap.                                                                  *)

\* The first step of each operation
doOp(typ) == CASE typ = "put" -> "dir" [] typ = "rename" -> "stat" [] typ = "delete" -> "remove"

\* A mistake: the operation goes ahead beside the one that is under way.
BeginAnyway(t) ==
  /\ op[t].at = "begin"
  /\ opMap' = [opMap EXCEPT ![op[t].key] = t]
  /\ Goto(t, doOp(op[t].typ))
  /\ UNCHANGED <<dirs, newDirs, files, unsynced, diskUsage, tries, batch>>

Begin(t) ==
  /\ op[t].at = "begin"
  /\ IF opMap[op[t].key] = None
       THEN /\ opMap' = [opMap EXCEPT ![op[t].key] = t]
            /\ Goto(t, doOp(op[t].typ))
       ELSE Goto(t, "waiting") /\ UNCHANGED opMap
  /\ UNCHANGED <<dirs, newDirs, files, unsynced, diskUsage, tries, batch>>

\* Those who wait for this key
Waiters(t) == {s \in Threads : op[s].at = "waiting" /\ op[s].key = op[t].key}

\* A mistake: nobody wakes the waiters.
FinishSilently(t) ==
  /\ op[t].at = "finish"
  /\ opMap' = [opMap EXCEPT ![op[t].key] = None]
  /\ op' = [op EXCEPT ![t] = OpAt("done", @.typ, @.key, @.res)]
  /\ UNCHANGED <<dirs, newDirs, files, unsynced, diskUsage, tries, batch>>

Finish(t) ==
  /\ op[t].at = "finish"
  /\ opMap' = [opMap EXCEPT ![op[t].key] = None]
  /\ op' = [s \in Threads |->
              IF s = t THEN OpAt("done", op[s].typ, op[s].key, op[s].res)
              ELSE IF s \in Waiters(t)
                THEN IF op[t].res = "ok" THEN OpAt("done", op[s].typ, op[s].key, "ok")
                                         ELSE OpAt("begin", op[s].typ, op[s].key, "none")
              ELSE op[s]]
  /\ UNCHANGED <<dirs, newDirs, files, unsynced, diskUsage, tries, batch>>

-----------------------------------------------------------------------------
(* Put and Delete.                                                         *)

Put(t, k) ==
  /\ op[t] = NoOp /\ batch[t] = NoBatch
  /\ op' = [op EXCEPT ![t] = OpAt("begin", "put", k, "none")]
  /\ tries' = [tries EXCEPT ![t] = 1]
  /\ UNCHANGED <<dirs, newDirs, files, unsynced, diskUsage, opMap, batch>>

\* A mistake: the loop is not bounded.
PutAgainForever(t) ==
  /\ op[t].at = "done" /\ op[t].typ = "put" /\ op[t].res = "error"
  /\ tries' = [tries EXCEPT ![t] = @ + 1]
  /\ op' = [op EXCEPT ![t] = OpAt("begin", "put", @.key, "none")]
  /\ UNCHANGED <<dirs, newDirs, files, unsynced, diskUsage, opMap, batch>>

\* "too many open files"
PutAgain(t) ==
  /\ op[t].at = "done" /\ op[t].typ = "put" /\ op[t].res = "error"
  /\ tries[t] < putMaxRetries
  /\ tries' = [tries EXCEPT ![t] = @ + 1]
  /\ op' = [op EXCEPT ![t] = OpAt("begin", "put", @.key, "none")]
  /\ UNCHANGED <<dirs, newDirs, files, unsynced, diskUsage, opMap, batch>>

Delete(t, k) ==
  /\ op[t] = NoOp /\ batch[t] = NoBatch
  /\ op' = [op EXCEPT ![t] = OpAt("begin", "delete", k, "none")]
  /\ UNCHANGED <<dirs, newDirs, files, unsynced, diskUsage, opMap, tries, batch>>

\* The caller has the result.
Return(t) ==
  /\ op[t].at = "done"
  /\ op' = [op EXCEPT ![t] = NoOp]
  /\ tries' = [tries EXCEPT ![t] = 0]
  /\ UNCHANGED <<dirs, newDirs, files, unsynced, diskUsage, opMap, batch>>

\* makeDir, which synchronises the top directory also when the directory exists
MakeDir(t) ==
  /\ op[t].at = "dir"
  /\ \/ /\ dirs' = dirs \cup {getDir[op[t].key]}
        /\ newDirs' = {}
        /\ Goto(t, "temp")
     \/ /\ IOFails
        /\ dirs' \in {dirs, dirs \cup {getDir[op[t].key]}}
        /\ newDirs' = newDirs \cup (dirs' \ dirs)
        /\ Ends(t, "error")
  /\ UNCHANGED <<files, unsynced, diskUsage, opMap, tries, batch>>

\* A temporary file is written, synchronised and closed.
MakeTemp(t) ==
  /\ op[t].at = "temp"
  /\ \/ Goto(t, "stat")
     \/ IOFails /\ Ends(t, "error")
  /\ UNCHANGED <<dirs, newDirs, files, unsynced, diskUsage, opMap, tries, batch>>

\* renameAndUpdateDiskUsage, until the rename
Stat(t) ==
  /\ op[t].at = "stat"
  /\ \/ diskUsage' = diskUsage - Size(op[t].key) /\ Goto(t, "rename")
     \/ IOFails /\ Ends(t, "error") /\ UNCHANGED diskUsage
  /\ UNCHANGED <<dirs, newDirs, files, unsynced, opMap, tries, batch>>

Rename(t) ==
  /\ op[t].at = "rename"
  /\ \/ /\ files' = files \cup {op[t].key}
        /\ unsynced' = unsynced \cup ({op[t].key} \ files)
        /\ diskUsage' = diskUsage + 1
        /\ IF op[t].typ = "put" THEN Goto(t, "syncDir") ELSE Ends(t, "ok")
     \/ /\ IOFails
        /\ diskUsage' = diskUsage + Size(op[t].key)
        /\ Ends(t, "error")
        /\ UNCHANGED <<files, unsynced>>
  /\ UNCHANGED <<dirs, newDirs, opMap, tries, batch>>

Sync(ds) == unsynced' = {k \in unsynced : getDir[k] \notin ds}

\* A mistake: the directory is not synchronised.
SyncDirSkipped(t) ==
  /\ op[t].at = "syncDir"
  /\ Ends(t, "ok")
  /\ UNCHANGED <<dirs, newDirs, files, unsynced, diskUsage, opMap, tries, batch>>

SyncDir(t) ==
  /\ op[t].at = "syncDir"
  /\ \/ Sync({getDir[op[t].key]}) /\ Ends(t, "ok")
     \/ IOFails /\ Ends(t, "error") /\ UNCHANGED unsynced
  /\ UNCHANGED <<dirs, newDirs, files, diskUsage, opMap, tries, batch>>

\* doDelete, which synchronises nothing
Remove(t) ==
  /\ op[t].at = "remove"
  /\ \/ /\ op[t].key \in files
        /\ files' = files \ {op[t].key}
        /\ unsynced' = unsynced \cup {op[t].key}
        /\ diskUsage' = diskUsage - 1
        /\ Ends(t, "ok")
     \/ /\ op[t].key \notin files /\ Ends(t, "notfound")
        /\ UNCHANGED <<files, unsynced, diskUsage>>
     \/ /\ IOFails /\ Ends(t, "error")
        /\ UNCHANGED <<files, unsynced, diskUsage>>
  /\ UNCHANGED <<dirs, newDirs, opMap, tries, batch>>

-----------------------------------------------------------------------------
(* putMany, for the batch of one Commit.                                   *)

Commit(t, ks) ==
  /\ op[t] = NoOp /\ batch[t] = NoBatch
  /\ batch' = [batch EXCEPT ![t] = [at |-> "temps", keys |-> ks, left |-> ks]]
  /\ UNCHANGED <<dirs, newDirs, files, unsynced, diskUsage, opMap, op, tries>>

\* All temporary files are written and synchronised, or an error ends it.
BatchTemps(t) ==
  /\ batch[t].at = "temps"
  /\ \/ /\ dirs' = dirs \cup Dir(batch[t].keys)
        /\ newDirs' = newDirs \cup (dirs' \ dirs)
        /\ BatchAt(t, "renames")
     \/ /\ IOFails
        /\ \E ks \in SUBSET batch[t].keys : dirs' = dirs \cup Dir(ks)
        /\ newDirs' = newDirs \cup (dirs' \ dirs)
        /\ BatchAt(t, "error")
  /\ UNCHANGED <<files, unsynced, diskUsage, opMap, op, tries>>

BatchRename(t) ==
  /\ batch[t].at = "renames" /\ op[t] = NoOp
  /\ \E k \in batch[t].left :
       /\ op' = [op EXCEPT ![t] = OpAt("begin", "rename", k, "none")]
       /\ batch' = [batch EXCEPT ![t] = [at |-> "renames", keys |-> @.keys, left |-> @.left \ {k}]]
  /\ UNCHANGED <<dirs, newDirs, files, unsynced, diskUsage, opMap, tries>>

\* The result of the rename is not looked at.
BatchRenamed(t) ==
  /\ batch[t].at = "renames"
  /\ Return(t)

BatchSyncDirs(t) ==
  /\ batch[t].at = "renames" /\ op[t] = NoOp /\ batch[t].left = {}
  /\ \/ Sync(Dir(batch[t].keys)) /\ BatchAt(t, "syncTop")
     \/ /\ IOFails
        /\ \E ks \in SUBSET batch[t].keys : Sync(Dir(ks))
        /\ BatchAt(t, "error")
  /\ UNCHANGED <<dirs, newDirs, files, diskUsage, opMap, op, tries>>

BatchSyncTop(t) ==
  /\ batch[t].at = "syncTop"
  /\ \/ newDirs' = {} /\ BatchAt(t, "ok")
     \/ IOFails /\ UNCHANGED newDirs /\ BatchAt(t, "error")
  /\ UNCHANGED <<dirs, files, unsynced, diskUsage, opMap, op, tries>>

\* The caller has the result.
BatchReturn(t) ==
  /\ batch[t].at \in {"ok", "error"}
  /\ batch' = [batch EXCEPT ![t] = NoBatch]
  /\ UNCHANGED <<dirs, newDirs, files, unsynced, diskUsage, opMap, op, tries>>

-----------------------------------------------------------------------------
Step(t) ==
  \/ Begin(t) \/ Finish(t) \/ PutAgain(t)
  \/ MakeDir(t) \/ MakeTemp(t) \/ Stat(t) \/ Rename(t) \/ SyncDir(t) \/ Remove(t)
  \/ BatchTemps(t) \/ BatchRename(t) \/ BatchRenamed(t) \/ BatchSyncDirs(t) \/ BatchSyncTop(t)
  \/ Return(t) \/ BatchReturn(t)

\* The machine crashes and the datastore is opened again.  It takes
\* the stored size, which may be out of date, or counts anew as here.
Crash ==
  /\ crashes < MaxCrashes
  /\ \E lost \in SUBSET newDirs, undone \in SUBSET unsynced :
       /\ files' = {k \in (files \ undone) \cup (undone \ files) : getDir[k] \notin lost}
       /\ dirs' = dirs \ lost
  /\ unsynced' = {}
  /\ newDirs' = {}
  /\ diskUsage' = Cardinality(files')
  /\ opMap' = [k \in Keys |-> None]
  /\ op' = [t \in Threads |-> NoOp]
  /\ tries' = [t \in Threads |-> 0]
  /\ batch' = [t \in Threads |-> NoBatch]
  /\ crashes' = crashes + 1

Call(t) ==
  \/ t \in Putters /\ \E k \in Keys : Put(t, k)
  \/ t \in Deleters /\ \E k \in Keys : Delete(t, k)
  \/ t \in Batchers /\ \E ks \in SUBSET Keys : Commit(t, ks)

Next ==
  \/ \E t \in Threads : (Call(t) \/ Step(t)) /\ UNCHANGED crashes
  \/ Crash

\* Goroutines run, and file operations end.  Nobody has to call.
Spec == Init /\ [][Next]_vars /\ \A t \in Threads : WF_vars(Step(t) /\ UNCHANGED crashes)

TypeOK ==
  /\ dirs \subseteq Dir(Keys) /\ newDirs \subseteq dirs
  /\ files \subseteq Keys /\ unsynced \subseteq Keys
  /\ diskUsage \in Int
  /\ opMap \in [Keys -> Threads \cup {None}]
  /\ op \in [Threads -> Ops]
  /\ tries \in [Threads -> 0 .. putMaxRetries]
  /\ batch \in [Threads -> [at : {"idle", "temps", "renames", "syncTop", "ok", "error"},
                            keys : SUBSET Keys, left : SUBSET Keys]]
  /\ crashes \in 0 .. MaxCrashes

\* Operations on a key are counted one after the other: whenever nobody is
\* between the stat and the rename, fs.diskUsage is the size of the files.
\* After a crash it starts from a value stored earlier.
DiskUsageExact ==
  crashes = 0 /\ (\A t \in Threads : op[t].at # "rename") => diskUsage = Cardinality(files)

\* Whoever waits in Begin for another operation on the key goes on eventually.
WaitersWake == \A t \in Threads : op[t].at = "waiting" ~> op[t].at # "waiting"

-----------------------------------------------------------------------------
(* The contract, through the files.                                        *)

\* What a caller can know of an operation
Seen(o) ==
  CASE o.at = "idle" -> None
    [] o.at \in {"begin", "waiting", "dir", "temp", "stat", "rename", "remove"} ->
         [typ |-> o.typ, key |-> o.key, state |-> "called"]
    [] o.at = "syncDir" \/ (o.at = "finish" /\ o.res = "ok") ->
         [typ |-> o.typ, key |-> o.key, state |-> "effective"]
    [] OTHER -> [typ |-> o.typ, key |-> o.key, state |-> o.res]

Limbo == unsynced \cup {k \in files : getDir[k] \in newDirs}

Store == INSTANCE BlockFiles WITH
  present <- files, limbo <- Limbo, pending <- [t \in Threads |-> Seen(op[t])]

\* The files keep the promise of BlockFiles: every operation takes effect at
\* one moment, none that failed is reported as successful unless another one
\* settled the key, and a Put that returned after its own rename is there after
\* a crash.
StoreContract == Store!Contract
=============================================================================
