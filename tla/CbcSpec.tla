------------------------------- MODULE CbcSpec -------------------------------
(***************************************************************************)
(* What the chained-block binding promises its caller (spec.md 4.2 and 8), *)
(* with nothing of how it is kept: no chaining value, no classes, no JVM.  *)
(* A cipher is the direction it was made for, the key and IV it was given, *)
(* every block passed to it since, and every block it has written.  What   *)
(* is written is always the mode applied to all that was passed.           *)
(***************************************************************************)
EXTENDS Integers, Sequences, Bitwise

CONSTANTS
    Refs,        \* the ciphers a caller can hold
    NoCipher,    \* what a ref holds before Make and after Free
    Block,       \* 0 .. 2^w - 1
    Keys,        \* the keys
    Cipher,      \* Cipher[k][p]: the block p encrypted under key k
    Calls        \* the block sequences one call may pass

VARIABLE cipher  \* per ref: NoCipher, or the record of a cipher

(* A cipher just made: no key yet.                                         *)
Made(encryption) ==
    [encryption |-> encryption, keyed |-> FALSE, key |-> CHOOSE k \in Keys : TRUE,
     iv |-> 0, in |-> << >>, out |-> << >>]

(* The mode, block i from block i - 1: the ciphertext of a block is the    *)
(* primitive applied to the block XOR the ciphertext before it, the IV     *)
(* before the first.                                                       *)
Ciphertext(k, iv, plain) ==
    LET c[i \in 0..Len(plain)] ==
            IF i = 0 THEN iv ELSE Cipher[k][plain[i] ^^ c[i - 1]]
    IN  [i \in 1..Len(plain) |-> c[i]]

Plaintext(k, iv, ct) ==
    [i \in 1..Len(ct) |->
        (CHOOSE p \in Block : Cipher[k][p] = ct[i])
            ^^ (IF i = 1 THEN iv ELSE ct[i - 1])]

Mode(c, in) ==
    IF c.encryption THEN Ciphertext(c.key, c.iv, in) ELSE Plaintext(c.key, c.iv, in)

------------------------------------------------------------------------------
(* The actions say how the cipher at r after a step relates to the cipher  *)
(* before it; every other cipher is left alone.                            *)
Step(r, after) == cipher' = [cipher EXCEPT ![r] = after]

Holds(r)     == cipher[r] # NoCipher
StillHolds(r) == Holds(r) /\ cipher'[r] # NoCipher

Make(r) ==
    /\ ~Holds(r) /\ cipher'[r] # NoCipher
    /\ Step(r, Made(cipher'[r].encryption))

(* A key and an IV start a message.                                        *)
Start(r) ==
    /\ StillHolds(r)
    /\ cipher'[r].key \in Keys /\ cipher'[r].iv \in Block
    /\ Step(r, [cipher[r] EXCEPT !.keyed = TRUE, !.key = cipher'[r].key,
                                 !.iv = cipher'[r].iv, !.in = << >>, !.out = << >>])

(* More blocks of the message: the output grows to the mode of the whole.  *)
Extend(r) ==
    /\ StillHolds(r) /\ cipher[r].keyed
    /\ \E blocks \in Calls : cipher'[r].in = cipher[r].in \o blocks
    /\ Step(r, [cipher[r] EXCEPT !.in = cipher'[r].in,
                                 !.out = Mode(cipher[r], cipher'[r].in)])

(* The same key and IV start another message.                              *)
Restart(r) ==
    /\ Holds(r)
    /\ Step(r, [cipher[r] EXCEPT !.in = << >>, !.out = << >>])

Free(r) ==
    /\ Holds(r)
    /\ Step(r, NoCipher)

Init == cipher = [r \in Refs |-> NoCipher]

Next == \E r \in Refs : Make(r) \/ Start(r) \/ Extend(r) \/ Restart(r) \/ Free(r)

Spec == Init /\ [][Next]_cipher

=============================================================================
