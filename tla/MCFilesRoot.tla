---------------------------- MODULE MCFilesRoot ----------------------------
(* Two versions of a tree, with one file of their own and one in common.   *)
EXTENDS FilesRoot, TLC

CONSTANTS v1, v2, x, y

MCNodes == {v1, v2, x, y}
MCLinks == v1 :> {x} @@ v2 :> {x, y} @@ x :> {} @@ y :> {}
=============================================================================
