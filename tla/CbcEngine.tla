------------------------------ MODULE CbcEngine ------------------------------
(***************************************************************************)
(* The chained-block mode engine (intel::cbc::CBCLike) that                *)
(* cbc_jni_vaes_f.cpp drives.  AesCBCNarrow.h declares its narrow classes; *)
(* the bodies are not part of src/ and every operator that says what a     *)
(* method does is written from section 4.2 of spec.md.  How init refuses a *)
(* key or an IV of a wrong length is in neither: the binding has no path   *)
(* for it, and Init is defined for the lengths the mode accepts.           *)
(*                                                                         *)
(* A block is a number of a few bits and XOR is XOR.  The block primitive  *)
(* is a constant: one permutation of the blocks for each key.              *)
(***************************************************************************)
EXTENDS Integers, Sequences, Bitwise, Functions

CONSTANTS
    Block,       \* 0 .. 2^w - 1
    Keys,        \* the keys
    Cipher,      \* Cipher[k][p]: the block p encrypted under key k
    KeySizes     \* {16, 24, 32}

ASSUME \A k \in Keys : Cipher[k] \in Bijection(Block, Block)

EncryptBlock(k, p) == Cipher[k][p]
DecryptBlock(k, c) == CHOOSE p \in Block : Cipher[k][p] = c

(* The classes AesCBCNarrow.h declares: one per key size and direction,    *)
(* each overriding processBlock(in, blocks, out).  This binding makes      *)
(* objects of the three that encrypt.                                      *)
NarrowClasses == [keySize : KeySizes, encrypting : BOOLEAN, path : {"narrow"}]
(* The decryption classes of AesCBCDecryptVaesF.h.                         *)
WideClasses   == [keySize : KeySizes, encrypting : {FALSE}, path : {"wide"}]

(* A new object of a class: no key yet.                                    *)
New(class) ==
    [class |-> class, ready |-> FALSE, key |-> CHOOSE k \in Keys : TRUE,
     iv |-> 0, chain |-> 0]

(* A key of a size in KeySizes and an IV of one block: the key schedule is *)
(* expanded and the chain starts at the IV.                                *)
Init(s, key, iv) == [s EXCEPT !.ready = TRUE, !.key = key, !.iv = iv, !.chain = iv]

(* One block at a time: ciphertext = Encrypt(plaintext XOR chain), and the *)
(* ciphertext is the next chain.                                           *)
RECURSIVE EncryptFrom(_, _, _)
EncryptFrom(k, chain, in) ==
    IF in = << >> THEN << >>
    ELSE LET c == EncryptBlock(k, in[1] ^^ chain)
         IN  << c >> \o EncryptFrom(k, c, Tail(in))

(* One block at a time: plaintext = Decrypt(ciphertext) XOR chain, and the *)
(* ciphertext is the next chain.                                           *)
RECURSIVE DecryptFrom(_, _, _)
DecryptFrom(k, chain, in) ==
    IF in = << >> THEN << >>
    ELSE << DecryptBlock(k, in[1]) ^^ chain >> \o DecryptFrom(k, in[1], Tail(in))

(* All blocks of a call at once: the mask of a block is the ciphertext     *)
(* block before it in the input.                                           *)
DecryptWide(k, chain, in) ==
    [i \in DOMAIN in |->
        DecryptBlock(k, in[i]) ^^ (IF i = 1 THEN chain ELSE in[i - 1])]

Transform(s, in) ==
    IF s.class.encrypting THEN EncryptFrom(s.key, s.chain, in)
    ELSE IF s.class.path = "wide" THEN DecryptWide(s.key, s.chain, in)
    ELSE DecryptFrom(s.key, s.chain, in)

(* The chain a call leaves: the last ciphertext block it saw.              *)
NextChain(s, in, out) ==
    IF in = << >> THEN s.chain
    ELSE IF s.class.encrypting THEN out[Len(out)] ELSE in[Len(in)]

ProcessBlock(s, in) ==
    LET out == Transform(s, in)
    IN  [session |-> [s EXCEPT !.chain = NextChain(s, in, out)], out |-> out]

Reset(s) == [s EXCEPT !.chain = s.iv]

=============================================================================
