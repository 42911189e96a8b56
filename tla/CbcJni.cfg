SPECIFICATION Spec
CONSTANTS
    Handles = {h1}
    NoObject = NoObject
    NullArray = NullArray
    Keys = {k1, k2}
    Block <- SmallBlocks
    Cipher <- SmallCipher
    KeySizes <- AesKeySizes
    BlockSize = 16
    KeyLens <- SomeKeyLens
    IVs <- SomeIVs
    Inputs <- SomeInputs
    OutRooms <- SomeOutRooms
    MaxCall = 3
    MaxBlocks = 4
INVARIANTS
    TypeOK
    RoundTrip
PROPERTIES
    ImplementsCbcSpec
CHECK_DEADLOCK FALSE
