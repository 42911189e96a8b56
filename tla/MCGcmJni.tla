------------------------------ MODULE MCGcmJni ------------------------------
(* Values for model checking GcmJni, in the sizes of AES-GCM.              *)
EXTENDS GcmJni

AesKeySizes == {16, 24, 32}
GcmTagLens  == 4..16

(* One unsupported key length; an empty and the two usual nonces; tag      *)
(* sizes below, inside (one not a multiple of 8) and above the range;      *)
(* lengths around one block.                                               *)
SomeKeyLens   == {16, 20}
SomeNonceLens == {0, 12}
SomeMacBits   == {24, 100, 128, 136}
SomeAadLens   == {0, 17}
SomeDataLens  == {0, 15, 17}
SomeOutLens   == {16, 40}
SomeOutOffs   == {0, 8}

(* Every state and argument error is thrown as a std::runtime_error.       *)
ArgumentAndStateErrors ==
    {"InvalidKeySize", "InvalidIVLength", "InvalidTagLength", "InvalidStateTransition"}
=============================================================================
