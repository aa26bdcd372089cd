------------------------------ MODULE MCAdder ------------------------------
(* Two files, the first of two blocks, in a growing directory.               *)
EXTENDS Adder, TLC

CONSTANTS f1, f2, leaf, d0, d1, d2

MCNodes == {f1, f2, leaf, d0, d1, d2}
MCLinks == f1 :> {leaf} @@ f2 :> {} @@ leaf :> {} @@
           d0 :> {} @@ d1 :> {f1} @@ d2 :> {f1, f2}
MCFile == <<f1, f2>>
MCTree == 0 :> d0 @@ 1 :> d1 @@ 2 :> d2
=============================================================================
