----------------------------- MODULE AeadEngine -----------------------------
(***************************************************************************)
(* The authenticated counter-mode engine (intel::gcm::GCM / AesGcm) that   *)
(* gcm_jni.cpp drives.  Its source is not part of src/: every operator     *)
(* here is written from section 4.3 of spec.md.                            *)
(*                                                                         *)
(* A session is a record and every engine method an operator from a        *)
(* session and the arguments to a Result: the session afterwards, the      *)
(* error raised ("none" when the method returns) and the bytes written.    *)
(* Bytes are abstracted to counts.  What the cipher did with them is kept  *)
(* in two traces that do not depend on how the input was cut into calls:   *)
(*   folded - the blocks folded into the hash accumulator, in order, each  *)
(*            with its kind and the number of its bytes that are input     *)
(*            (the rest is zero padding);                                  *)
(*   used   - for each successive counter block, the number of keystream   *)
(*            bytes of it that were XORed into output.                     *)
(***************************************************************************)
EXTENDS Integers, Sequences

CONSTANTS
    BlockSize,     \* 16
    KeySizes,      \* {16, 24, 32}
    TagLens        \* 4..16

ASSUME /\ BlockSize \in Nat \ {0}
       /\ TagLens \subseteq 1..BlockSize

Phase == {"Uninitialized", "AAD", "Data", "Finalized"}
Error == {"none", "InvalidKeySize", "InvalidIVLength", "InvalidTagLength",
          "InvalidStateTransition", "OutputLengthException",
          "AuthenticationFailure"}

Uninitialized ==
    [phase |-> "Uninitialized", encrypting |-> FALSE, keyed |-> FALSE,
     tagLen |-> 0, aadLen |-> 0, aadBuf |-> 0, dataLen |-> 0, buf |-> 0,
     emitted |-> 0, folded |-> << >>, used |-> << >>, tag |-> FALSE]

Result(s, error, written) == [session |-> s, error |-> error, written |-> written]
Reject(s, error)          == Result(s, error, 0)

(* n bytes as whole blocks, and a trailing partial block of r bytes.       *)
WholeBlocks(kind, n) == [i \in 1..(n \div BlockSize) |-> [kind |-> kind, bytes |-> BlockSize]]
PartialBlock(kind, r) == IF r = 0 THEN << >> ELSE << [kind |-> kind, bytes |-> r] >>
Bytes(blocks)         == [i \in DOMAIN blocks |-> blocks[i].bytes]

(* A keyed session at the start of its AAD phase.                          *)
Keyed(encrypting, tagLen) ==
    [Uninitialized EXCEPT !.phase = "AAD", !.keyed = TRUE,
                          !.encrypting = encrypting, !.tagLen = tagLen]

(* processAADBytes in the AAD phase: whole blocks are folded, the rest     *)
(* waits in the AAD buffer.                                                *)
AbsorbAAD(s, n) ==
    [s EXCEPT !.folded = @ \o WholeBlocks("aad", s.aadBuf + n),
              !.aadBuf = (s.aadBuf + n) % BlockSize,
              !.aadLen = @ + n]

ProcessAADBytes(s, n) ==
    IF s.phase # "AAD" THEN Reject(s, "InvalidStateTransition")
    ELSE Result(AbsorbAAD(s, n), "none", 0)

InitError(keyLen, nonceLen, tagLen) ==
    IF keyLen \notin KeySizes THEN "InvalidKeySize"
    ELSE IF nonceLen = 0 THEN "InvalidIVLength"
    ELSE IF tagLen \notin TagLens THEN "InvalidTagLength"
    ELSE "none"

Init(s, encrypting, keyLen, nonceLen, aadLen, tagLen) ==
    LET error == InitError(keyLen, nonceLen, tagLen)
    IN  IF error # "none" THEN Reject(s, error)
        ELSE Result(AbsorbAAD(Keyed(encrypting, tagLen), aadLen), "none", 0)

(* The first data call pads and folds what is left of the AAD.             *)
CloseAAD(s) ==
    IF s.phase # "AAD" THEN s
    ELSE [s EXCEPT !.folded = @ \o PartialBlock("aad", s.aadBuf),
                   !.aadBuf = 0, !.phase = "Data"]

(* Mutant: every whole block is processed as it arrives, the tag too.      *)
Holdback_None(s) == 0

(* Bytes of the data buffer that must not be processed yet: the last       *)
(* tagLen bytes of the input of a decryption are the tag, and which bytes  *)
(* are the last is known only at doFinal.                                  *)
Holdback(s) == IF s.encrypting THEN 0 ELSE s.tagLen

(* Mutant: only the bytes of this call are looked at.                      *)
Releasable_IgnoresCarry(s, n) ==
    IF n < Holdback(s) THEN 0
    ELSE ((n - Holdback(s)) \div BlockSize) * BlockSize

(* Bytes that leave the buffer, as whole blocks, when n more arrive.       *)
Releasable(s, n) ==
    IF s.buf + n < Holdback(s) THEN 0
    ELSE ((s.buf + n - Holdback(s)) \div BlockSize) * BlockSize

GetUpdateOutputSize(s, n) == ((s.buf + n) \div BlockSize) * BlockSize

GetOutputSize(s, n) ==
    IF s.encrypting THEN s.buf + n + s.tagLen
    ELSE IF s.buf + n < s.tagLen THEN 0 ELSE s.buf + n - s.tagLen

(* The room the engine has for output.  The binding passes the array, an   *)
(* offset and the length of the whole array; that the engine takes the     *)
(* offset off the length before it compares is read from "destination      *)
(* buffer smaller than required" (spec 7), its source is not in src/.      *)
Room(outOff, outLen) == outLen - outOff

ProcessBytesError(s, n, capacity) ==
    IF s.phase \notin {"AAD", "Data"} THEN "InvalidStateTransition"
    ELSE IF capacity < GetUpdateOutputSize(s, n) THEN "OutputLengthException"
    ELSE "none"

ProcessBytes(s, n, outOff, outLen) ==
    LET error == ProcessBytesError(s, n, Room(outOff, outLen))
        d     == CloseAAD(s)
        out   == Releasable(d, n)
    IN  IF error # "none" THEN Reject(s, error)
        ELSE IF n = 0 THEN Result(s, "none", 0)
        ELSE Result([d EXCEPT !.folded  = @ \o WholeBlocks("ct", out),
                              !.used    = @ \o Bytes(WholeBlocks("ct", out)),
                              !.buf     = d.buf + n - out,
                              !.dataLen = @ + n,
                              !.emitted = @ + out],
                    "none", out)

(* processByte(in, out, outLen) has no offset: out is where it writes.     *)
ProcessByte(s, outLen) == ProcessBytes(s, 1, 0, outLen)

(* The session after a doFinal that got as far as the tag: the rest of the *)
(* data is processed as a partial block, the length block is folded.       *)
Finalize(d, rest) ==
    [d EXCEPT !.folded  = @ \o PartialBlock("ct", rest)
                            \o << [kind |-> "len", bytes |-> BlockSize] >>,
              !.used    = @ \o Bytes(PartialBlock("ct", rest)),
              !.buf     = 0,
              !.emitted = @ + rest,
              !.phase   = "Finalized"]

DoFinal(s, outOff, outLen, authentic) ==
    LET d    == CloseAAD(s)
        rest == d.buf - Holdback(d)
        out  == IF d.encrypting THEN rest + d.tagLen ELSE rest
    IN  IF s.phase \notin {"AAD", "Data"} THEN Reject(s, "InvalidStateTransition")
        ELSE IF rest < 0
             THEN Reject([d EXCEPT !.phase = "Finalized"], "AuthenticationFailure")
        ELSE IF Room(outOff, outLen) < out THEN Reject(s, "OutputLengthException")
        ELSE IF ~d.encrypting /\ ~authentic
             THEN Result(Finalize(d, rest), "AuthenticationFailure", out)
        ELSE Result([Finalize(d, rest) EXCEPT !.tag = TRUE], "none", out)

Reset(s, keepKey) ==
    IF keepKey /\ s.keyed THEN Keyed(s.encrypting, s.tagLen) ELSE Uninitialized

=============================================================================
