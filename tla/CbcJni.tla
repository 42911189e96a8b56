------------------------------- MODULE CbcJni -------------------------------
(***************************************************************************)
(* The JNI entry points of src/native/intel/jni/cbc_jni_vaes_f.cpp, the    *)
(* binding between org.bouncycastle.crypto.engines.AESNativeCBC and the    *)
(* engine of module CbcEngine.                                             *)
(*                                                                         *)
(* heap maps every address the allocator may hand out to the object stored *)
(* there, or to NoObject.  An input array is the sequence of blocks at     *)
(* inOff, an output array the number of whole blocks it has behind outOff; *)
(* either may be the null array.                                           *)
(*                                                                         *)
(* "All assertions of length and correctness are done on the java side":   *)
(* the caller passes only refs that makeNative returned non-null and that  *)
(* it did not dispose, passes init a key and an IV of lengths the mode     *)
(* accepts, and calls process only after init.  None of this is checked by *)
(* the code.  Whatever else the caller passes is arbitrary.                *)
(***************************************************************************)
EXTENDS Integers, Sequences, SequencesExt

CONSTANTS
    Handles,       \* addresses the allocator may return
    NoObject,      \* nothing is allocated at an address
    NullArray,     \* a null jbyteArray
    Block, Keys, Cipher, KeySizes, BlockSize,    \* see CbcEngine
    KeyLens,       \* the key sizes the caller passes to makeNative
    IVs,           \* contents of IV arrays
    Inputs,        \* contents of input blocks
    OutRooms,      \* whole blocks behind outOff in the output array
    MaxCall,       \* bound: blocks passed in one call
    MaxBlocks      \* bound: blocks passed since init or reset

Engine == INSTANCE CbcEngine

VARIABLES
    heap,      \* the C++ objects
    jvm,       \* "running", or "aborted" by abortIf
    stream,    \* history: per ref, the direction asked for, and the blocks
               \* passed in and written out since the last init or reset
    last       \* history: the last call

vars == <<heap, jvm, stream, last>>

Live(h) == jvm = "running" /\ heap[h] # NoObject

Called(name, h, arg, value, wrote, room) ==
    [call |-> name, ref |-> h, arg |-> arg, value |-> value,
     wrote |-> wrote, room |-> room]

Restart(h) == [stream EXCEPT ![h].fed = << >>, ![h].got = << >>]

(* abortIf / abortIfNegative: the JVM ends, nothing else changes.      *)
Abort(name, h, arg) ==
    /\ jvm' = "aborted"
    /\ last' = Called(name, h, arg, 0, 0, 0)
    /\ UNCHANGED <<heap, stream>>

------------------------------------------------------------------------------
(* Mutant: an object is made for any key size, instance is never left a    *)
(* nullptr.                                                                *)
Instance_NoDefault(keySize, encryption) ==
    Engine!New([keySize |-> keySize, encrypting |-> encryption,
                path |-> IF encryption THEN "narrow" ELSE "wide"])

(* Mutant: the else branch instantiates the classes of the if branch.      *)
Instance_AlwaysEnc(keySize, encryption) ==
    IF keySize \in KeySizes
    THEN Engine!New([keySize |-> keySize, encrypting |-> TRUE, path |-> "narrow"])
    ELSE NoObject

(* Encryption gets a narrow class, decryption a VAES one; any other key    *)
(* size leaves instance a nullptr.                                         *)
Instance(keySize, encryption) ==
    IF keySize \in KeySizes
    THEN Engine!New([keySize |-> keySize, encrypting |-> encryption,
                     path |-> IF encryption THEN "narrow" ELSE "wide"])
    ELSE NoObject

(* The ref returned is 0 when instance is a nullptr.                       *)
makeNative(h, keySize, encryption) ==
    LET instance == Instance(keySize, encryption)
    IN  /\ jvm = "running"
        /\ heap[h] = NoObject
        /\ heap' = [heap EXCEPT ![h] = instance]
        /\ stream' = [stream EXCEPT ![h] =
                         [encryption |-> encryption, fed |-> << >>, got |-> << >>]]
        /\ last' = Called("makeNative", h, keySize,
                          IF instance = NoObject THEN 0 ELSE 1, 0, 0)
        /\ UNCHANGED jvm

(* The two abortIf come before the call of the engine, whose result, if   *)
(* it has one, is not looked at.                                           *)
init(h, key, iv) ==
    /\ Live(h)
    /\ IF key = NullArray \/ iv = NullArray THEN Abort("init", h, 0)
       ELSE /\ heap' = [heap EXCEPT ![h] = Engine!Init(heap[h], key, iv)]
            /\ stream' = Restart(h)
            /\ last' = Called("init", h, 0, 0, 0, 0)
            /\ UNCHANGED jvm

(* blocks is a jint; in holds at least that many blocks when it is not     *)
(* negative.  Each of the three checks ends the JVM and all three come     *)
(* before the engine is called; which of them fires first leaves the same  *)
(* state.  That the object was given a key (ready) is the caller's part.   *)
process(h, in, blocks, out) ==
    /\ Live(h)
    /\ heap[h].ready
    /\ IF blocks < 0 \/ out = NullArray \/ in = NullArray
       THEN Abort("process", h, blocks)
       ELSE LET result == Engine!ProcessBlock(heap[h], SubSeq(in, 1, blocks))
            IN  /\ Len(stream[h].fed) + blocks <= MaxBlocks
                /\ heap' = [heap EXCEPT ![h] = result.session]
                /\ stream' = [stream EXCEPT ![h].fed = @ \o SubSeq(in, 1, blocks),
                                            ![h].got = @ \o result.out]
                /\ last' = Called("process", h, blocks, blocks * BlockSize,
                                  blocks * BlockSize, out * BlockSize)
                /\ UNCHANGED jvm

getMultiBlockSize(h) ==
    /\ jvm = "running"
    /\ last' = Called("getMultiBlockSize", h, 0, BlockSize, 0, 0)
    /\ UNCHANGED <<heap, jvm, stream>>

getBlockSize(h) ==
    /\ jvm = "running"
    /\ last' = Called("getBlockSize", h, 0, BlockSize, 0, 0)
    /\ UNCHANGED <<heap, jvm, stream>>

dispose(h) ==
    /\ Live(h)
    /\ heap' = [heap EXCEPT ![h] = NoObject]
    /\ last' = Called("dispose", h, 0, 0, 0, 0)
    /\ UNCHANGED <<jvm, stream>>

(* Mutant: the call of the engine's reset is missing.                      *)
reset_LeavesEngine(h) ==
    /\ Live(h)
    /\ stream' = Restart(h)
    /\ last' = Called("reset", h, 0, 0, 0, 0)
    /\ UNCHANGED <<heap, jvm>>

reset(h) ==
    /\ Live(h)
    /\ heap' = [heap EXCEPT ![h] = Engine!Reset(heap[h])]
    /\ stream' = Restart(h)
    /\ last' = Called("reset", h, 0, 0, 0, 0)
    /\ UNCHANGED jvm

------------------------------------------------------------------------------
Init ==
    /\ heap = [h \in Handles |-> NoObject]
    /\ jvm = "running"
    /\ stream = [h \in Handles |->
                    [encryption |-> FALSE, fed |-> << >>, got |-> << >>]]
    /\ last = Called("none", NoObject, 0, 0, 0, 0)

(* What one call may pass: up to MaxCall blocks, or no array at all.       *)
Calls       == BoundedSeq(Inputs, MaxCall)
InputArrays == {NullArray} \cup Calls

Next ==
    \E h \in Handles :
        \/ \E keySize \in KeyLens, encryption \in BOOLEAN :
              makeNative(h, keySize, encryption)
        \/ \E key \in Keys \cup {NullArray}, iv \in IVs \cup {NullArray} :
              init(h, key, iv)
        \/ \E in \in InputArrays, out \in OutRooms \cup {NullArray} :
              \E blocks \in {-1} \cup (IF in = NullArray THEN {0} ELSE {Len(in)}) :
                process(h, in, blocks, out)
        \/ getMultiBlockSize(h)
        \/ getBlockSize(h)
        \/ dispose(h)
        \/ reset(h)

Spec == Init /\ [][Next]_vars

------------------------------------------------------------------------------
Objects ==
    [class : Engine!NarrowClasses \cup Engine!WideClasses, ready : BOOLEAN,
     key : Keys, iv : Block, chain : Block]

TypeOK ==
    /\ heap \in [Handles -> Objects \cup {NoObject}]
    /\ jvm \in {"running", "aborted"}
    /\ stream \in [Handles -> [encryption : BOOLEAN,
                               fed : BoundedSeq(Block, MaxBlocks),
                               got : BoundedSeq(Block, MaxBlocks)]]
    /\ last.value \in Nat /\ last.wrote \in Nat /\ last.room \in Nat

Streams == {h \in Handles : heap[h] # NoObject /\ heap[h].ready}

(* The cipher the caller holds at a ref, as module CbcSpec sees it: the    *)
(* direction it asked makeNative for, the key and IV it passed to init,    *)
(* and what it passed to and got from process since.  A ref for which      *)
(* makeNative returned 0 holds nothing.                                    *)
Promised ==
    [h \in Handles |->
        IF heap[h] = NoObject THEN NoObject
        ELSE [encryption |-> stream[h].encryption,
              keyed |-> heap[h].ready, key |-> heap[h].key, iv |-> heap[h].iv,
              in |-> stream[h].fed, out |-> stream[h].got]]

Promise ==
    INSTANCE CbcSpec WITH Refs <- Handles, NoCipher <- NoObject, cipher <- Promised

(* The binding implements CbcSpec (spec 4.2 and 8).  However the blocks    *)
(* were cut into process calls since the last init or reset, and whether   *)
(* the class makeNative chose chains block by block or works on all blocks *)
(* of a call at once, every step of the binding is a step of a cipher that *)
(* keeps no chaining value at all: its output is the mode, in the          *)
(* direction asked for, of everything passed since the key and IV were     *)
(* set.  Calls that abort, that return a size or that make no object       *)
(* change nothing the caller holds.                                        *)
ImplementsCbcSpec == Promise!Spec

(* The object of AesCBCNarrow.h for the other direction than the caller   *)
(* asked for, of the same key size, given the same key and IV.             *)
Counterpart(h) ==
    Engine!Init(Engine!New([keySize |-> heap[h].class.keySize,
                            encrypting |-> ~stream[h].encryption,
                            path |-> "narrow"]),
                heap[h].key, heap[h].iv)

(* Round trip (spec 8): what the object makeNative chose for one direction *)
(* has written since init or reset, in however many calls, the class       *)
(* AesCBCNarrow.h declares for the other direction takes back, in one      *)
(* call, to what the object was given.                                     *)
RoundTrip ==
    \A h \in Streams :
        stream[h].fed = Engine!ProcessBlock(Counterpart(h), stream[h].got).out

(* process writes only into the output array (spec 4.2: a destination      *)
(* with less than blockCount x 16 bytes is refused).  processBlock gets    *)
(* two pointers and a count, and nothing in the binding compares the count *)
(* with the arrays.                                                        *)
ProcessStaysInArrays == last.wrote <= last.room

=============================================================================
