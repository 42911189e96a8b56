------------------------------- MODULE GcmJni -------------------------------
(***************************************************************************)
(* The JNI entry points of src/native/intel/jni/gcm_jni.cpp, the binding   *)
(* between org.bouncycastle.crypto.modes.AESNativeGCM and the engine of    *)
(* module AeadEngine.                                                      *)
(*                                                                         *)
(* A jlong ref is the address of a C++ object: heap maps every address the *)
(* allocator may hand out to the session stored there, or to NoObject.     *)
(* Java arrays are abstracted to their length; an output position is an    *)
(* offset into an array of that length.  A C++ exception that leaves a JNI *)
(* function without being caught unwinds into the JVM, which ends the      *)
(* process.                                                                *)
(*                                                                         *)
(* The caller is the Java class.  It keeps the contract of the boundary:   *)
(* it passes only refs it got from makeInstance and did not dispose, and   *)
(* offsets inside its arrays.  Everything else it passes is arbitrary.     *)
(*                                                                         *)
(* The engine reports an error by throwing.  The classes it throws are not *)
(* in src/: OutputLengthException and AuthenticationFailure are taken to   *)
(* be the two classes doFinal catches by name, and RuntimeErrors says      *)
(* which of the others are std::runtime_error or derived from it.          *)
(***************************************************************************)
EXTENDS Integers, Sequences

CONSTANTS
    Handles,       \* addresses the allocator may return
    NoObject,      \* nothing is allocated at an address
    BlockSize, KeySizes, TagLens,   \* see AeadEngine
    KeyLens,       \* lengths of key arrays and key sizes the caller passes
    NonceLens,     \* lengths of nonce arrays
    MacBits,       \* values of macSizeInBits
    AadLens,       \* lengths of AAD passed in one call
    DataLens,      \* lengths of input passed to processBytes
    OutLens,       \* lengths of output arrays
    OutOffs,       \* output offsets
    RuntimeErrors, \* the engine errors thrown as std::runtime_error
    MaxAad,        \* bound: AAD bytes of one session
    MaxData        \* bound: data bytes of one session

Engine == INSTANCE AeadEngine

VARIABLES
    heap,      \* the C++ objects
    jvm,       \* "running", or "terminated" by an uncaught C++ exception
    pending,   \* the Java exception pending when the last call returned
    last       \* history: the last call, for the properties

vars == <<heap, jvm, pending, last>>

JavaException == {"none", "OutputLengthException", "InvalidCipherTextException",
                  "IllegalArgumentException"}

Live(h) == jvm = "running" /\ heap[h] # NoObject

(* What is recorded of a call: its name, its ref, one argument, the error  *)
(* the engine raised, the jint returned, the bytes the engine wrote and    *)
(* the bytes the array has behind the offset.                              *)
Called(name, h, arg, result, value, outLen, outOff) ==
    [call |-> name, ref |-> h, arg |-> arg, error |-> result.error,
     value |-> value, wrote |-> result.written, room |-> outLen - outOff]

Nothing == [error |-> "none", written |-> 0]

------------------------------------------------------------------------------
(* How a call ends.                                                        *)

(* No try block: the engine's exception, if any, unwinds through the JNI   *)
(* frame.                                                                  *)
Uncaught(h, result) ==
    /\ heap' = [heap EXCEPT ![h] = result.session]
    /\ jvm' = IF result.error = "none" THEN "running" ELSE "terminated"
    /\ pending' = "none"

(* Mutant: the handler for std::runtime_error is missing.                  *)
Translated_NoRuntimeError(error) ==
    CASE error = "none"                  -> "none"
      [] error = "OutputLengthException" -> "OutputLengthException"
      [] error = "AuthenticationFailure" -> "InvalidCipherTextException"
      [] OTHER                           -> "uncaught"

(* The catch clauses of doFinal: two classes by name, then                 *)
(* std::runtime_error.  An exception of any other class passes them all.   *)
Translated(error) ==
    CASE error = "none"                  -> "none"
      [] error = "OutputLengthException" -> "OutputLengthException"
      [] error = "AuthenticationFailure" -> "InvalidCipherTextException"
      [] error \in RuntimeErrors         -> "IllegalArgumentException"
      [] OTHER                           -> "uncaught"

Caught(h, result) ==
    /\ heap' = [heap EXCEPT ![h] = result.session]
    /\ jvm' = IF Translated(result.error) \in JavaException
                  THEN "running" ELSE "terminated"
    /\ pending' = IF Translated(result.error) \in JavaException
                  THEN Translated(result.error) ELSE "none"

------------------------------------------------------------------------------
(* The JNI functions.                                                      *)

makeInstance(h, keySize) ==
    /\ jvm = "running"
    /\ heap[h] = NoObject
    /\ heap' = [heap EXCEPT ![h] = Engine!Uninitialized]
    /\ last' = Called("makeInstance", h, keySize, Nothing, 1, 0, 0)
    /\ UNCHANGED <<jvm, pending>>

dispose(h) ==
    /\ Live(h)
    /\ heap' = [heap EXCEPT ![h] = NoObject]
    /\ last' = Called("dispose", h, 0, Nothing, 0, 0, 0)
    /\ UNCHANGED <<jvm, pending>>

reset(h) ==
    LET result == Engine!Result(Engine!Reset(heap[h], FALSE), "none", 0)
    IN  /\ Live(h)
        /\ Uncaught(h, result)
        /\ last' = Called("reset", h, IF heap[h].keyed THEN 1 ELSE 0, result, 0, 0, 0)

initNative(h, direction, keyLen, nonceLen, aadLen, macSizeInBits) ==
    LET result == Engine!Init(heap[h], direction, keyLen, nonceLen, aadLen,
                              macSizeInBits \div 8)
    IN  /\ Live(h)
        /\ aadLen <= MaxAad
        /\ Uncaught(h, result)
        /\ last' = Called("initNative", h, macSizeInBits, result, 0, 0, 0)

ProcessAAD(h, name, len) ==
    LET result == Engine!ProcessAADBytes(heap[h], len)
    IN  /\ Live(h)
        /\ heap[h].aadLen + len <= MaxAad
        /\ Uncaught(h, result)
        /\ last' = Called(name, h, len, result, 0, 0, 0)

processAADByte(h)       == ProcessAAD(h, "processAADByte", 1)
processAADBytes(h, len) == ProcessAAD(h, "processAADBytes", len)

(* The pointer is advanced by outOff and the length is that of the whole   *)
(* array.                                                                  *)
processByte(h, outLen, outOff) ==
    LET result == Engine!ProcessByte(heap[h], outLen)
    IN  /\ Live(h)
        /\ heap[h].dataLen + 1 <= MaxData
        /\ Uncaught(h, result)
        /\ last' = Called("processByte", h, 1, result, result.written, outLen, outOff)

(* Mutant: len and outOff change places in the call of the engine.         *)
processBytes_LenForOffset(h, len, outLen, outOff) ==
    LET result == Engine!ProcessBytes(heap[h], outOff, len, outLen)
    IN  /\ Live(h)
        /\ heap[h].dataLen + outOff <= MaxData
        /\ Uncaught(h, result)
        /\ last' = Called("processBytes", h, len, result, result.written, outLen, outOff)

(* Mutant: the pointer is advanced by outOff, as processByte does it, and  *)
(* no offset is passed.                                                    *)
processBytes_AdvancedPointer(h, len, outLen, outOff) ==
    LET result == Engine!ProcessBytes(heap[h], len, 0, outLen)
    IN  /\ Live(h)
        /\ heap[h].dataLen + len <= MaxData
        /\ Uncaught(h, result)
        /\ last' = Called("processBytes", h, len, result, result.written, outLen, outOff)

(* The array, the offset and the length of the whole array are passed on.  *)
processBytes(h, len, outLen, outOff) ==
    LET result == Engine!ProcessBytes(heap[h], len, outOff, outLen)
    IN  /\ Live(h)
        /\ heap[h].dataLen + len <= MaxData
        /\ Uncaught(h, result)
        /\ last' = Called("processBytes", h, len, result, result.written, outLen, outOff)

(* authentic: the tag that ends the input is the tag of what was decrypted.*)
doFinal(h, outLen, outOff, authentic) ==
    LET result == Engine!DoFinal(heap[h], outOff, outLen, authentic)
    IN  /\ Live(h)
        /\ Caught(h, result)
        /\ last' = Called("doFinal", h, 0, result,
                          IF result.error = "none" THEN result.written ELSE 0,
                          outLen, outOff)

getUpdateOutputSize(h, len) ==
    /\ Live(h)
    /\ last' = Called("getUpdateOutputSize", h, len, Nothing,
                      Engine!GetUpdateOutputSize(heap[h], len), 0, 0)
    /\ UNCHANGED <<heap, jvm, pending>>

(* Mutant: the body of the function above, copied and not changed.         *)
getOutputSize_AsksUpdateSize(h, len) ==
    /\ Live(h)
    /\ last' = Called("getOutputSize", h, len, Nothing,
                      Engine!GetUpdateOutputSize(heap[h], len), 0, 0)
    /\ UNCHANGED <<heap, jvm, pending>>

getOutputSize(h, len) ==
    /\ Live(h)
    /\ last' = Called("getOutputSize", h, len, Nothing,
                      Engine!GetOutputSize(heap[h], len), 0, 0)
    /\ UNCHANGED <<heap, jvm, pending>>

(* A new byte[getMacLen()] filled by getMac().  NewByteArray returns null  *)
(* when the JVM has no memory for the array; the null is passed on to      *)
(* GetByteArrayElements and what it returns is written through.            *)
getMac(h, allocated) ==
    /\ Live(h)
    /\ jvm' = IF allocated THEN "running" ELSE "terminated"
    /\ last' = Called("getMac", h, 0, Nothing,
                      IF allocated THEN heap[h].tagLen ELSE 0, 0, 0)
    /\ UNCHANGED <<heap, pending>>

------------------------------------------------------------------------------
Init ==
    /\ heap = [h \in Handles |-> NoObject]
    /\ jvm = "running"
    /\ pending = "none"
    /\ last = Called("none", NoObject, 0, Nothing, 0, 0, 0)

Next ==
    \E h \in Handles :
        \/ \E keySize \in KeyLens : makeInstance(h, keySize)
        \/ dispose(h)
        \/ reset(h)
        \/ \E direction \in BOOLEAN, keyLen \in KeyLens, nonceLen \in NonceLens,
              aadLen \in AadLens, bits \in MacBits :
                initNative(h, direction, keyLen, nonceLen, aadLen, bits)
        \/ processAADByte(h)
        \/ \E len \in AadLens : processAADBytes(h, len)
        \/ \E outLen \in OutLens, outOff \in OutOffs :
              /\ outOff <= outLen
              /\ \/ processByte(h, outLen, outOff)
                 \/ \E len \in DataLens : processBytes(h, len, outLen, outOff)
                 \/ \E authentic \in BOOLEAN : doFinal(h, outLen, outOff, authentic)
        \/ \E len \in DataLens : getUpdateOutputSize(h, len) \/ getOutputSize(h, len)
        \/ \E allocated \in BOOLEAN : getMac(h, allocated)

Spec == Init /\ [][Next]_vars

------------------------------------------------------------------------------
Session ==
    [phase : Engine!Phase, encrypting : BOOLEAN, keyed : BOOLEAN,
     tagLen : {0} \cup TagLens, aadLen : 0..MaxAad, aadBuf : 0..(BlockSize - 1),
     dataLen : 0..MaxData, buf : 0..(2 * BlockSize - 1), emitted : 0..MaxData,
     folded : Seq([kind : {"aad", "ct", "len"}, bytes : 1..BlockSize]),
     used : Seq(1..BlockSize), tag : BOOLEAN]

TypeOK ==
    /\ heap \in [Handles -> Session \cup {NoObject}]
    /\ jvm \in {"running", "terminated"}
    /\ pending \in JavaException
    /\ last.error \in Engine!Error
    /\ last.wrote \in Nat /\ last.room \in Nat /\ last.value \in Nat

(* The session the caller holds at a ref, as module AeadSpec sees it: the  *)
(* lengths it passed and got back, and, once doFinal made a tag, what the  *)
(* engine folded into the hash and the keystream bytes it used.            *)
Promised ==
    [h \in Handles |->
        IF heap[h] = NoObject THEN NoObject
        ELSE LET s == heap[h]
             IN  [phase |-> CASE s.phase = "Uninitialized" -> "idle"
                              [] s.phase \in {"AAD", "Data"} -> "open"
                              [] s.tag -> "sealed"
                              [] OTHER -> "failed",
                  encrypting |-> s.encrypting, tagLen |-> s.tagLen,
                  aad |-> s.aadLen, data |-> s.dataLen, out |-> s.emitted,
                  hashed |-> IF s.tag THEN s.folded ELSE << >>,
                  keystream |-> IF s.tag THEN s.used ELSE << >>]]

Promise ==
    INSTANCE AeadSpec WITH Refs <- Handles, NoSession <- NoObject,
                           session <- Promised, passed <- last.arg

(* The binding implements AeadSpec (spec 4.3 and 8: streaming equivalence  *)
(* and round trip of lengths).  However the AAD and the data were cut into *)
(* initNative, processAADByte(s), processByte(s) and doFinal calls, every  *)
(* step of the binding is a step of a session that has no buffers: text is *)
(* written in order, never a byte that may still be the tag of a           *)
(* decryption, never a block late; a session that made or accepted a tag   *)
(* wrote all of the text, hashed the blocks of the whole message and used  *)
(* the keystream of the whole text.  It is about the carry of partial      *)
(* blocks from call to call in both buffers of the engine.  Calls that end *)
(* the process or return a size change nothing the caller holds.           *)
ImplementsAeadSpec == Promise!Spec

(* The catch clauses of doFinal name between them every class the engine   *)
(* throws: whatever error ends a doFinal becomes a pending Java exception  *)
(* with 0 returned, never the end of the process, and never a success      *)
(* reported with an error raised.                                          *)
DoFinalErrorsReachJava ==
    last.call = "doFinal" =>
        /\ jvm = "running"
        /\ (last.error = "none") = (pending = "none")
        /\ last.error # "none" => last.value = 0

(* Whatever array and offset the caller passes to processBytes or doFinal, *)
(* a call writes only between the offset and the end of the array: the     *)
(* offset reaches the engine as an offset, with the length it belongs to.  *)
BulkWritesInBounds ==
    last.call \in {"processBytes", "doFinal"} => last.wrote <= last.room

(* getUpdateOutputSize and getOutputSize are what a caller sizes its       *)
(* output with: the processBytes of len bytes that follows a               *)
(* getUpdateOutputSize(len) writes no more than the query answered, and    *)
(* the doFinal that follows a getOutputSize(0) no more than that answered, *)
(* whatever the buffers of the session hold at that point.                 *)
SizeQueriesCoverWrites ==
    [][/\ last.call = "getUpdateOutputSize" /\ last'.call = "processBytes"
          /\ last'.ref = last.ref /\ last'.arg = last.arg
              => last'.wrote <= last.value
       /\ last.call = "getOutputSize" /\ last.arg = 0 /\ last'.call = "doFinal"
          /\ last'.ref = last.ref
              => last'.wrote <= last.value]_vars

(* No error of the engine ends the process (spec 7: errors are reported    *)
(* synchronously, none is fatal).  Only doFinal has a try block.           *)
NeverTerminates == jvm = "running"

(* An engine exists only for a key size an implementation supports        *)
(* (spec 4.4: any other yields an absent result, which the binding reports *)
(* as UnsupportedKeySize).  makeInstance never looks at keySize.           *)
UnsupportedKeySizeIsAbsent ==
    last.call = "makeInstance" /\ last.arg \notin KeySizes => last.value = 0

(* No call writes outside the output array.  processByte tells the engine  *)
(* the length of the whole array although the pointer it passes is already *)
(* advanced by outOff.                                                     *)
WritesInBounds == last.wrote <= last.room

=============================================================================
