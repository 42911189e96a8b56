SPECIFICATION Spec
CONSTANTS
    Handles = {h1}
    NoObject = NoObject
    BlockSize = 16
    KeySizes <- AesKeySizes
    TagLens <- GcmTagLens
    KeyLens <- SomeKeyLens
    NonceLens <- SomeNonceLens
    MacBits <- SomeMacBits
    AadLens <- SomeAadLens
    DataLens <- SomeDataLens
    OutLens <- SomeOutLens
    OutOffs <- SomeOutOffs
    RuntimeErrors <- ArgumentAndStateErrors
    MaxAad = 20
    MaxData = 34
INVARIANT
    WritesInBounds
CHECK_DEADLOCK FALSE
