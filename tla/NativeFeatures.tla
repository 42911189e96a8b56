--------------------------- MODULE NativeFeatures ---------------------------
(***************************************************************************)
(* The capability detector of src/native_c/arm/jni/native_features.c.      *)
(*                                                                         *)
(* cpu_info is one process-wide record.  probe_system() fills it the first *)
(* time any feature query runs; the queries are static JNI methods, so any *)
(* number of Java threads may be inside them at once, and the C code has   *)
(* neither a lock nor an atomic.  Every load and store of a field of       *)
(* cpu_info is therefore a step of its own, taken in program order.        *)
(*                                                                         *)
(* The stores are plain stores to distinct bytes of a static struct.  With *)
(* Memory = "sc" each reaches the other threads as it is executed.  With   *)
(* Memory = "relaxed" the compiler and the ARM memory system are free to   *)
(* let them reach the other threads late and in any order: a store waits   *)
(* in pending, its thread sees it at once, and the others when it drains.  *)
(***************************************************************************)
EXTENDS Naturals, Sequences, FiniteSets, SequencesExt, TLC

CONSTANTS
    Threads,    \* the Java threads that call feature queries
    Platform,   \* which branch of #ifdef __APPLE__ was compiled
    Hardware,   \* the machines the library may be loaded on
    Queries,    \* the feature queries the threads call
    Memory      \* "sc" or "relaxed": when a store reaches the other threads

Feature   == {"aes", "sha256", "sha512", "sha3", "neon", "arm64"}
Field     == Feature \cup {"loaded", "le"}
(* What the operating system can be asked: one sysctl name per feature on  *)
(* Apple, the hwcap word and uname() elsewhere.                            *)
OsCall    == Feature \cup {"uname"}
(* A machine: what it really has, its byte order, and the OS calls that    *)
(* fail on it.                                                             *)
Machine   == [has : [Feature -> BOOLEAN], le : BOOLEAN, fails : SUBSET OsCall]

ASSUME /\ Platform \in {"apple", "linux"}
       /\ Memory \in {"sc", "relaxed"}
       /\ Hardware \subseteq Machine
       /\ Threads # {}

VARIABLES
    hw,          \* the machine of this process; never changes
    cpu_info,    \* static struct cpuid_info cpu_info
    pending,     \* per thread, its stores no other thread can see yet
    pc,          \* where each thread is
    at,          \* its position in the stores of the probe, or the operands of &&
    query,       \* the feature query it is executing
    settled,     \* history: a full probe had returned when its query began
    probed,      \* history: some probe_system() has run to its end
    answers      \* history: the values every query has returned

vars == <<hw, cpu_info, pending, pc, at, query, settled, probed, answers>>

------------------------------------------------------------------------------
(* probe_system()                                                          *)

Store(field, value) == [field |-> field, value |-> value]

(* Mutant: buffer[0] is compared with the character '1'.                   *)
has_feature_ComparesChar(h, name) == FALSE

(* sysctlbyname() succeeded and the first byte of what it wrote is 1.      *)
has_feature(h, name) == name \notin h.fails /\ h.has[name]

(* The flags, one sysctl name each; sha3 is asked under FEAT_SHA512.       *)
has_features(h) ==
    << Store("aes",    has_feature(h, "aes")),
       Store("sha256", has_feature(h, "sha256")),
       Store("sha512", has_feature(h, "sha512")),
       Store("sha3",   has_feature(h, "sha512")),
       Store("neon",   has_feature(h, "neon")),
       Store("arm64",  has_feature(h, "arm64")),
       Store("le",     h.le) >>

(* Mutant: the record is cleared inside the probe before it is filled.     *)
probe_system_apple_ClearsFirst(h) ==
    << Store("loaded", TRUE), Store("aes", FALSE), Store("neon", FALSE) >>
        \o has_features(h)

probe_system_apple(h) == << Store("loaded", TRUE) >> \o has_features(h)

(* Mutant: cpu_info.neon is set before uname() is asked and taken back     *)
(* when the call fails.                                                    *)
UnameStores_NeonAssumed(h) ==
    << Store("neon", TRUE) >> \o
    IF "uname" \in h.fails THEN << Store("neon", FALSE) >>
    ELSE IF h.has["arm64"] THEN << Store("arm64", TRUE) >>
    ELSE << >>

(* Mutant: the aarch64 branch forgets cpu_info.neon = true.                *)
UnameStores_NoNeon(h) ==
    IF "uname" \in h.fails THEN << Store("neon", FALSE) >>
    ELSE IF h.has["arm64"] THEN << Store("arm64", TRUE) >>
    ELSE << >>

UnameStores(h) ==
    IF "uname" \in h.fails THEN << Store("neon", FALSE) >>
    ELSE IF h.has["arm64"] THEN << Store("arm64", TRUE), Store("neon", TRUE) >>
    ELSE << >>

(* hwcaps & HWCAP_x converted to bool is "bit x is set"; the kernel sets   *)
(* the bit exactly when the CPU has the feature.  sha3bit is the bit that  *)
(* cpu_info.sha3 is taken from.                                            *)
HwcapStores(h, sha3bit) ==
    << Store("loaded", TRUE),
       Store("aes",    h.has["aes"]),
       Store("sha256", h.has["sha256"]),
       Store("sha512", h.has["sha512"]),
       Store("sha3",   h.has[sha3bit]),
       Store("le",     h.le) >>

(* Mutant: sha3 is taken from the SHA512 bit, as the Apple branch does.    *)
probe_system_linux_Sha3FromSha512(h) == HwcapStores(h, "sha512") \o UnameStores(h)

probe_system_linux(h) == HwcapStores(h, "sha3") \o UnameStores(h)

ProbeStores(h) ==
    IF Platform = "apple" THEN probe_system_apple(h) ELSE probe_system_linux(h)

------------------------------------------------------------------------------
(* The feature queries.  One that reads cpu_info calls probe_system()      *)
(* first and returns the && of its operands, read left to right; the       *)
(* others return a constant without probing.                               *)

Reads(fields) == [probes |-> TRUE,  operands |-> fields, constant |-> TRUE]
Const(value)  == [probes |-> FALSE, operands |-> << >>,  constant |-> value]

nativeCBC          == Reads(<<"aes", "neon">>)
nativeCBCPC        == Const(FALSE)
nativeCFB          == Reads(<<"aes", "neon">>)
nativeCFBPC        == Const(FALSE)
nativeCTR          == Reads(<<"aes", "neon">>)
nativeCTRPC        == Const(FALSE)
nativeAES          == Reads(<<"aes", "neon">>)
nativeGCM          == Reads(<<"aes", "neon">>)
nativeGCMSIV       == Const(FALSE)
nativeGCMSIVPC     == Const(FALSE)
nativeRand         == Const(FALSE)
nativeSeed         == Const(FALSE)
nativeSHA256       == Reads(<<"neon", "sha256">>)
nativeSHA224       == Reads(<<"neon", "sha256">>)
nativeSHA384       == Reads(<<"neon", "sha512">>)
nativeSHA512       == Reads(<<"neon", "sha512">>)
nativeMulAcc       == Const(TRUE)
nativeCCM          == Reads(<<"aes", "neon">>)
nativeSHA3         == Reads(<<"sha3", "neon">>)
nativeSHAKE        == Reads(<<"sha3", "neon">>)
nativeGCMPC        == Const(FALSE)
nativeCCMPC        == Const(FALSE)
nativeRSA          == Const(FALSE)
nativeSlhDSASha256 == Const(FALSE)

NativeFeature ==
    [ nativeCBC |-> nativeCBC,       nativeCBCPC |-> nativeCBCPC,
      nativeCFB |-> nativeCFB,       nativeCFBPC |-> nativeCFBPC,
      nativeCTR |-> nativeCTR,       nativeCTRPC |-> nativeCTRPC,
      nativeAES |-> nativeAES,       nativeGCM |-> nativeGCM,
      nativeGCMSIV |-> nativeGCMSIV, nativeGCMSIVPC |-> nativeGCMSIVPC,
      nativeRand |-> nativeRand,     nativeSeed |-> nativeSeed,
      nativeSHA256 |-> nativeSHA256, nativeSHA224 |-> nativeSHA224,
      nativeSHA384 |-> nativeSHA384, nativeSHA512 |-> nativeSHA512,
      nativeMulAcc |-> nativeMulAcc, nativeCCM |-> nativeCCM,
      nativeSHA3 |-> nativeSHA3,     nativeSHAKE |-> nativeSHAKE,
      nativeGCMPC |-> nativeGCMPC,   nativeCCMPC |-> nativeCCMPC,
      nativeRSA |-> nativeRSA,       nativeSlhDSASha256 |-> nativeSlhDSASha256 ]

ASSUME Queries \subseteq DOMAIN NativeFeature

------------------------------------------------------------------------------
Init ==
    /\ hw \in Hardware
    /\ cpu_info = [f \in Field |-> FALSE]
    /\ pending = [t \in Threads |-> << >>]
    /\ pc = [t \in Threads |-> "idle"]
    /\ at = [t \in Threads |-> 1]
    /\ query = [t \in Threads |-> CHOOSE q \in Queries : TRUE]
    /\ settled = [t \in Threads |-> FALSE]
    /\ probed = FALSE
    /\ answers = [q \in Queries |-> {}]

Goto(t, label, position) ==
    /\ pc' = [pc EXCEPT ![t] = label]
    /\ at' = [at EXCEPT ![t] = position]

(* A Java thread enters the JNI function of query q.                       *)
Call(t, q) ==
    /\ pc[t] = "idle"
    /\ query' = [query EXCEPT ![t] = q]
    /\ settled' = [settled EXCEPT ![t] = probed]
    /\ Goto(t, IF NativeFeature[q].probes THEN "probe_system" ELSE "result", 1)
    /\ UNCHANGED <<hw, cpu_info, pending, probed, answers>>

(* What a load by thread t returns: its own last store to the field if it *)
(* is still pending, what is in memory otherwise.                          *)
Visible(t) == pending[t] @@ cpu_info

(* if (!cpu_info.loaded)                                                   *)
CheckLoaded(t) ==
    /\ pc[t] = "probe_system"
    /\ Goto(t, IF Visible(t).loaded THEN "result" ELSE "store", 1)
    /\ UNCHANGED <<hw, cpu_info, pending, query, settled, probed, answers>>

(* A store of thread t is executed.                                        *)
Write(t, s) ==
    \/ /\ Memory = "sc"
       /\ cpu_info' = [cpu_info EXCEPT ![s.field] = s.value]
       /\ UNCHANGED pending
    \/ /\ Memory = "relaxed"
       /\ pending' = [pending EXCEPT ![t] = (s.field :> s.value) @@ @]
       /\ UNCHANGED cpu_info

(* The next assignment to a field of cpu_info; after the last one          *)
(* probe_system() returns into the query.                                  *)
StoreField(t) ==
    LET stores == ProbeStores(hw)
        last   == at[t] = Len(stores)
    IN  /\ pc[t] = "store"
        /\ Write(t, stores[at[t]])
        /\ probed' = (probed \/ (last /\ Memory = "sc"))
        /\ IF last THEN Goto(t, "result", 1) ELSE Goto(t, "store", at[t] + 1)
        /\ UNCHANGED <<hw, query, settled, answers>>

(* The memory system, not a line of the code: one pending store of thread *)
(* t reaches memory.  The probe of t is in memory when t has left it and   *)
(* nothing of it is pending.                                               *)
Drain(t, f) ==
    /\ f \in DOMAIN pending[t]
    /\ cpu_info' = [cpu_info EXCEPT ![f] = pending[t][f]]
    /\ pending' = [pending EXCEPT ![t] = Restrict(@, DOMAIN @ \ {f})]
    /\ probed' = (probed \/ (pc[t] # "store" /\ DOMAIN pending[t] = {f}))
    /\ UNCHANGED <<hw, pc, at, query, settled, answers>>

Return(t, value) ==
    /\ answers' = [answers EXCEPT ![query[t]] = @ \cup {value}]
    /\ Goto(t, "idle", 1)
    /\ settled' = [settled EXCEPT ![t] = FALSE]
    /\ UNCHANGED <<hw, cpu_info, pending, query, probed>>

(* return JNI_TRUE / JNI_FALSE of a query that does not read cpu_info.     *)
ReturnConstant(t) ==
    /\ pc[t] = "result"
    /\ ~NativeFeature[query[t]].probes
    /\ Return(t, NativeFeature[query[t]].constant)

(* One operand of  a && b ? JNI_TRUE : JNI_FALSE  is loaded: a false one   *)
(* ends the evaluation, the last true one too.                             *)
LoadOperand(t) ==
    LET operands == NativeFeature[query[t]].operands
        value    == Visible(t)[operands[at[t]]]
    IN  /\ pc[t] = "result"
        /\ NativeFeature[query[t]].probes
        /\ \/ /\ value /\ at[t] < Len(operands)
              /\ Goto(t, "result", at[t] + 1)
              /\ UNCHANGED <<hw, cpu_info, pending, query, settled, probed,
                             answers>>
           \/ /\ ~value \/ at[t] = Len(operands)
              /\ Return(t, value)

Progress(t) ==
    CheckLoaded(t) \/ StoreField(t) \/ ReturnConstant(t) \/ LoadOperand(t)

Reach(t) == \E f \in Field : Drain(t, f)

Next == \E t \in Threads : (\E q \in Queries : Call(t, q)) \/ Progress(t) \/ Reach(t)

(* A thread inside a JNI function keeps running: the code never blocks.    *)
(* A pending store reaches memory: no store is held back for ever.         *)
Fairness == \A t \in Threads : WF_vars(Progress(t)) /\ WF_vars(Reach(t))

Spec     == Init /\ [][Next]_vars
FairSpec == Spec /\ Fairness

------------------------------------------------------------------------------
(* cpu_info after one whole probe_system() on machine h, and what query q  *)
(* returns from it.                                                        *)
Probed(h) ==
    FoldLeft(LAMBDA info, s : [info EXCEPT ![s.field] = s.value],
             [f \in Field |-> FALSE], ProbeStores(h))

Detected(h, q) ==
    IF NativeFeature[q].probes
    THEN \A i \in DOMAIN NativeFeature[q].operands :
             Probed(h)[NativeFeature[q].operands[i]]
    ELSE NativeFeature[q].constant

(* The threads as module Detector sees them: a thread is asking from the   *)
(* call of a query to its return.                                          *)
Asking ==
    [t \in Threads |->
        [busy |-> pc[t] # "idle", question |-> query[t], settled |-> settled[t]]]

Promise ==
    INSTANCE Detector WITH Callers <- Threads, Questions <- Queries,
                           Record <- Detected, machine <- hw, known <- probed,
                           asking <- Asking, given <- answers

(* The detector implements Detector (spec 3 and 4.1: the record is created *)
(* lazily and concurrent first probes converge).  Whatever threads are     *)
(* inside probe_system() and however their stores and loads interleave, a  *)
(* query returns what it returns from the record of one whole probe, or    *)
(* JNI_FALSE; and JNI_FALSE for a capability the probe detects is returned *)
(* only by a query that was called before the first whole probe was in     *)
(* memory.  Threads still storing after that store what is already there.  *)
ImplementsDetector == Promise!Spec

(* The record is "never mutated after" it was created (spec 3): once one   *)
(* whole probe is in memory no step changes a field of cpu_info.  Nothing  *)
(* keeps a second thread from running probe_system() after the first, or   *)
(* a thread that entered it early from storing late; the record stays as   *)
(* it is only because every store of a probe writes the value the field    *)
(* has at the end of a probe: a flag that is set and taken back, or        *)
(* cleared and then filled, shows through.                                 *)
NotMutatedOnceProbed == [][probed => cpu_info' = cpu_info]_vars

(* What the name of a query promises about the machine.  Every query that  *)
(* reads cpu_info guards a NEON code path.                                 *)
Promises(q) ==
    IF ~NativeFeature[q].probes THEN {}
    ELSE {"neon"} \cup
         CASE q \in {"nativeSHA256", "nativeSHA224"} -> {"sha256"}
           [] q \in {"nativeSHA384", "nativeSHA512"} -> {"sha512"}
           [] q \in {"nativeSHA3", "nativeSHAKE"}    -> {"sha3"}
           [] OTHER                                  -> {"aes"}

(* probe_system() "always returns the same record": a query never gives    *)
(* two different answers in one process.  probe_system() sets              *)
(* cpu_info.loaded before it stores the flags, so a second thread can skip *)
(* the probe and read flags that are not stored yet.                       *)
AnswersAgree == \A q \in Queries : Cardinality(answers[q]) <= 1

(* A query answers JNI_TRUE only on a machine that has what it stands for: *)
(* the race in probe_system() and its error paths may hide a capability    *)
(* but never invent one (the caller would run an illegal instruction).     *)
NoFalsePositive ==
    \A q \in Queries : TRUE \in answers[q] => \A f \in Promises(q) : hw.has[f]

(* What the machine lets the probe find out: on Apple what the sysctl name *)
(* the probe asks for f answers (for sha3 that of sha512, see              *)
(* NoFalsePositive), elsewhere the hwcap bit, and uname() for AArch64.     *)
Detectable(f) ==
    /\ hw.has[f]
    /\ IF Platform = "apple"
       THEN LET asked == IF f = "sha3" THEN "sha512" ELSE f
            IN  hw.has[asked] /\ asked \notin hw.fails
       ELSE f \in {"neon", "arm64"} => hw.has["arm64"] /\ "uname" \notin hw.fails

WouldAnswer(q) == \A i \in DOMAIN NativeFeature[q].operands :
                      cpu_info[NativeFeature[q].operands[i]]

(* The false answers of the race are transient: once a thread has set      *)
(* cpu_info.loaded, cpu_info comes to a state in which every query whose   *)
(* capability the probe can detect answers JNI_TRUE.                       *)
LoadedLeadsToDetected ==
    cpu_info.loaded ~>
        \A q \in Queries : NativeFeature[q].probes
                           /\ (\A f \in Promises(q) : Detectable(f))
                           => WouldAnswer(q)

=============================================================================
