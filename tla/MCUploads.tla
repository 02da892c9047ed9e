------------------------------ MODULE MCUploads ------------------------------
(***************************************************************************)
(* Two uploads of a kind with room for one chunk or two after the head,    *)
(* beside comments and readers.                                            *)
(***************************************************************************)
EXTENDS Uploads, TLC

CONSTANTS i1, i2, elsewhere

Caps == [image |-> 2, video |-> 3]
Urls == {{i1}, {i1, i2}, {i2, elsewhere}}
Declarable == {{}, {1}, {3}}
SlotSymmetry == Permutations(Slots)
============================================================================
