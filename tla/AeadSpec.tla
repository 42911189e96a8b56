------------------------------ MODULE AeadSpec ------------------------------
(***************************************************************************)
(* What the authenticated counter-mode binding promises its caller         *)
(* (spec.md 4.3, 7 and 8), with nothing of how it is kept: no buffers, no  *)
(* phases of the engine, no JVM.  A session is the lengths of the AAD and  *)
(* the data passed so far and of the text written so far; when it is       *)
(* sealed, what was hashed and which keystream bytes were used are those   *)
(* of the whole message, however it arrived.  A call that passes bytes     *)
(* adds that many to the session, or leaves the session as it was.         *)
(*                                                                         *)
(* The actions are relations between the session at a ref before a step    *)
(* and after it.                                                           *)
(***************************************************************************)
EXTENDS Integers, Sequences

CONSTANTS
    Refs,        \* the sessions a caller can hold
    NoSession,   \* what a ref holds before Make and after Free
    BlockSize,   \* 16
    TagLens      \* 4..16

VARIABLES
    session,     \* per ref, the session or NoSession
    passed       \* the length, or the tag bits, the caller passed in its last call

Idle ==
    [phase |-> "idle", encrypting |-> FALSE, tagLen |-> 0, aad |-> 0, data |-> 0,
     out |-> 0, hashed |-> << >>, keystream |-> << >>]

(* n bytes as blocks: whole ones and, when n is not a multiple of the      *)
(* block size, a last one padded with zeros.                               *)
Blocks(kind, n) ==
    [i \in 1..((n + BlockSize - 1) \div BlockSize) |->
        [kind |-> kind, bytes |-> IF i * BlockSize <= n THEN BlockSize
                                                         ELSE n % BlockSize]]

(* The data that is text: the last tagLen bytes passed to a decryption are *)
(* the tag.  Negative while fewer bytes than a tag were passed.            *)
Text(m) == IF m.encrypting THEN m.data ELSE m.data - m.tagLen

(* The text that is known to be text: any byte passed to a decryption may  *)
(* yet be one of the last tagLen.                                          *)
Ready(m) == IF Text(m) < 0 THEN 0 ELSE Text(m)

(* The hash of a sealed message (spec 4.3, doFinal): the AAD, the          *)
(* ciphertext, the length block.                                           *)
Hashed(m) ==
    Blocks("aad", m.aad) \o Blocks("ct", Text(m))
        \o << [kind |-> "len", bytes |-> BlockSize] >>

(* One counter block for every block of text, whole or not.                *)
Keystream(m) == [i \in DOMAIN Blocks("ct", Text(m)) |-> Blocks("ct", Text(m))[i].bytes]

------------------------------------------------------------------------------
(* m is the session at a ref before the step, n the session after it.      *)
Make(m, n) == m = NoSession /\ n = Idle

Free(m, n) == m # NoSession /\ n = NoSession

(* reset: the session forgets its key.                                     *)
Forget(m, n) == m # NoSession /\ n = Idle

(* init, in any phase: a direction, a tag of the whole bytes in the bits   *)
(* asked for (spec 6: tagLenBits), and the first AAD.                      *)
Begin(m, n) ==
    /\ m # NoSession /\ n # NoSession
    /\ n.tagLen \in TagLens /\ n.tagLen = passed' \div 8 /\ n.aad \in Nat
    /\ n = [Idle EXCEPT !.phase = "open", !.encrypting = n.encrypting,
                        !.tagLen = n.tagLen, !.aad = n.aad]

Open(m, n) == m # NoSession /\ n # NoSession /\ m.phase = "open"

(* More AAD, as long as no data was passed.                                *)
MoreAad(m, n) ==
    /\ Open(m, n)
    /\ m.data = 0
    /\ n.aad = m.aad + passed'
    /\ n = [m EXCEPT !.aad = n.aad]

(* More data.  Text is written in order and once; none that may be tag is  *)
(* written, and less than a block of what is ready is kept back.           *)
MoreData(m, n) ==
    /\ Open(m, n)
    /\ passed' > 0
    /\ n.data = m.data + passed'
    /\ n.out >= m.out /\ n.out <= Ready(n)
    /\ Ready(n) - n.out < BlockSize
    /\ n = [m EXCEPT !.data = n.data, !.out = n.out]

(* doFinal: all the text is written, the message is hashed as a whole.     *)
Seal(m, n) ==
    /\ Open(m, n)
    /\ Text(m) >= 0
    /\ n = [m EXCEPT !.phase = "sealed", !.out = Text(m),
                     !.hashed = Hashed(m), !.keystream = Keystream(m)]

(* doFinal of a decryption whose tag is not there or not the message's:    *)
(* text written before stays written (spec 4.3 and 7), no tag results.     *)
Fail(m, n) ==
    /\ Open(m, n)
    /\ ~m.encrypting
    /\ n.out >= m.out /\ n.out <= Ready(m)
    /\ n = [m EXCEPT !.phase = "failed", !.out = n.out]

Init == session = [r \in Refs |-> NoSession]

(* A step is a step of one session; every other session is left alone.    *)
(* A call that fails, or that only answers, changes no session.            *)
Next ==
    \/ UNCHANGED session
    \/ \E r \in Refs :
          LET m == session[r]
              n == session'[r]
          IN  /\ \/ Make(m, n) \/ Free(m, n) \/ Forget(m, n) \/ Begin(m, n)
                 \/ MoreAad(m, n) \/ MoreData(m, n) \/ Seal(m, n) \/ Fail(m, n)
              /\ \A q \in Refs \ {r} : session'[q] = session[q]

Spec == Init /\ [][Next]_<<session, passed>>

=============================================================================
