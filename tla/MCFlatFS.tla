------------------------------ MODULE MCFlatFS ------------------------------
(* An instance of FlatFS: all keys in one directory.                        *)
EXTENDS FlatFS

CONSTANT d1

ShardOne == [k \in Keys |-> d1]
=============================================================================
