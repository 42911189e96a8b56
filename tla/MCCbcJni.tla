------------------------------ MODULE MCCbcJni ------------------------------
(* Values for model checking CbcJni.                                       *)
EXTENDS CbcJni

(* Blocks of three bits: the smallest on which a permutation need not be   *)
(* affine over XOR.                                                        *)
SmallBlocks == 0..7

(* Two permutations that are not affine and not each other's inverse.      *)
SmallCipher ==
    [k \in Keys |->
        IF k = CHOOSE x \in Keys : TRUE
        THEN [b \in SmallBlocks |-> <<3, 6, 0, 5, 7, 1, 4, 2>>[b + 1]]
        ELSE [b \in SmallBlocks |-> <<5, 2, 7, 0, 1, 6, 3, 4>>[b + 1]]]

AesKeySizes   == {16, 24, 32}
SomeKeyLens   == {16, 20, 32}
SomeIVs       == {2, 7}
SomeInputs   == {3, 5}
SomeOutRooms  == {1, 2}
=============================================================================
