# TLA+ models of the Bouncy Castle LTS native layer

This directory holds TLA+ specifications of the native code under `src/`,
the TLC configurations that check them, and `PROJECT.json`, which lists
every run, the source lines each definition models, the findings and the
hazards. Run a configuration with

    tlc -workers 2 -config <file>.cfg <MC module>

## 1. The system

`src/` is the native side of four Java classes.

| Part | Source | What it is |
|---|---|---|
| Capability detector (ARM) | `src/native_c/arm/jni/native_features.c` | a process-wide record `cpu_info`, `probe_system()` that fills it once, and 24 static JNI queries `NativeFeatures.nativeXXX` |
| AEAD binding | `src/native/intel/jni/gcm_jni.cpp` | the twelve JNI functions of `AESNativeGCM`, each a cast of a `jlong` to `intel::gcm::GCM *` and one call |
| AEAD engine | not in `src/` (spec.md 4.3) | `intel::gcm::AesGcm`: the session state machine Uninitialized, AAD phase, data phase, Finalized |
| CBC binding | `src/native/intel/jni/cbc_jni_vaes_f.cpp` | the seven JNI functions of `AESNativeCBC`; `makeNative` picks one of six engine classes |
| CBC engine | `src/native/intel/cbc/AesCBCNarrow.h` (declarations only; spec.md 4.2) | `CBCNarrow` and `AesCBC{128,192,256}{Enc,Dec}` |
| Factory, block primitive, `jniutil` | not in `src/` | construction, AES rounds, array marshalling |

### State

* `cpu_info`: eight booleans (`loaded`, `aes`, `sha256`, `sha512`, `sha3`,
  `neon`, `arm64`, `le`), static, all false at load, shared by every thread.
* One C++ engine object per `jlong` ref, owned by one Java object; inside
  it the session of spec.md 3 (phase, direction, tag length, byte counters,
  the AAD and data carry buffers, the hash accumulator, the counter).
* The JVM: a Java exception may be left pending by a JNI function; a C++
  exception that leaves a JNI function ends the process.

### Operations and how the parts interact

* Any Java thread calls a feature query; the query calls `probe_system()`
  and then reads one or two fields of `cpu_info`. Nothing orders the
  threads.
* The Java cipher classes call `makeInstance`/`makeNative`, then `init`,
  the `process*` functions, `doFinal`, `reset`, `dispose`. One session is
  used by one thread at a time (spec.md 5), so a session's calls are
  sequential, but their order and arguments are the caller's.
* The answers of the detector decide whether the Java side loads the
  native engines at all.

### What is hard here

1. `probe_system()` is unsynchronised and sets `loaded` first.
2. The probe can fail half way (`uname`, one `sysctlbyname`).
3. Only `doFinal` catches the engine's exceptions.
4. Each binding function tells the engine the capacity of the output in
   its own way.
5. AAD and data arrive in arbitrary chunks; partial blocks are carried
   from call to call; on decryption the tag is the end of the data and is
   known to be the end only at `doFinal`.
6. Calls out of phase order, and invalid sizes at every boundary
   (`macSizeInBits / 8`, key length, empty nonce).
7. The stores of the probe are plain stores: the hardware may make them
   visible to other threads in another order than the program's.
8. `getMac` allocates a Java array and does not test the result.
9. A `doFinal` that fails authentication has written text before it
   fails, and returns 0.
10. The bindings get pointers, offsets and counts: what the engine is not
    told (the room behind `outOff` in `processByte` and `process`, the
    length of any input array, the key size an object was made for) it
    cannot check.

`PROJECT.json` lists them as hazards, each at its line.

## 2. Modules

| Module | Models | Kind |
|---|---|---|
| `NativeFeatures` | `native_features.c` | from the source |
| `Detector` | what the detector promises its callers | abstract, spec.md 3, 4.1, 5 |
| `MCNativeFeatures` | machines, queries and symmetry for TLC | |
| `GcmJni` | `gcm_jni.cpp` | from the source |
| `AeadEngine` | the engine `gcm_jni.cpp` calls | from spec.md 4.3 |
| `AeadSpec` | what an AEAD session promises its caller | abstract, spec.md 4.3, 7, 8 |
| `MCGcmJni` | argument sets for TLC | |
| `CbcJni` | `cbc_jni_vaes_f.cpp` | from the source |
| `CbcEngine` | the classes `AesCBCNarrow.h` declares and the VAES decryption classes | classes from the source, behaviour from spec.md 4.2 |
| `CbcSpec` | what a CBC cipher promises its caller | abstract, spec.md 4.2, 8 |
| `MCCbcJni` | blocks, cipher and argument sets for TLC | |

Each of the three detailed modules is shown to implement its abstract one:
it defines the abstract module's variables as functions of its own
(`Promised`, `Asking`), instantiates the abstract module with them
(`Promise == INSTANCE ... WITH ...`) and states `Promise!Spec` as a property
(`ImplementsDetector`, `ImplementsAeadSpec`, `ImplementsCbcSpec`). The
actions of the abstract modules are relations between the state before and
after a step, so that TLC decides them on a transition of the detailed
module without enumerating anything.

### NativeFeatures

`cpu_info` is the variable of that name. `probe_system_linux(h)` and
`probe_system_apple(h)` are the sequences of stores the two branches of
`#ifdef __APPLE__` perform on machine `h`, in program order, `loaded`
first. `hwcaps & HWCAP_X` assigned to a `bool` is "the machine has X";
`has_feature` is true when the sysctl succeeds and reports 1. The `uname`
branch is `UnameStores`: failure stores `neon = false`, a machine name that
starts with `aarch64` stores `arm64` and `neon`, anything else stores
nothing.

A thread is at `idle`, `probe_system` (about to test `loaded`), `store`
(inside the `if`, about to perform store number `at`) or `result` (about to
load operand number `at` of the `&&`). The actions are `Call`,
`CheckLoaded`, `StoreField`, `LoadOperand` and `ReturnConstant`; each is
one memory access, which is what an unsynchronised C program exposes to
other threads. The 24 queries are data: `Reads(<<a, b>>)` for those that
probe and return `a && b` (short-circuit: a false first operand returns
without the second load), `Const(v)` for those that return a constant
without probing.

`answers`, `settled` and `probed` are history variables;
no action reads them to decide what to do. `pc` and `at` are the program
counter of a thread; they stand for the order of the statements and have
no variable of the C code behind them.

Memory. `cpu_info` is a static struct of plain `bool`s; the code has no
atomic, no barrier and no lock. The constant `Memory` chooses what that
means. With `"sc"` a store is in memory when it is executed. With
`"relaxed"` a store goes to `pending[t]`, the stores of thread `t` that no
other thread sees yet; `t` itself reads `Visible(t)`, its pending stores
over memory; `Drain(t, f)` moves the pending store to field `f` into
memory, in any order and at any later time, also after `t` has returned.
`Drain` and `Reach` are steps of the memory system and translate no line
of the source; they say what a compiler and the ARM memory system may do
with plain stores to distinct locations. `probed` then means that a whole probe is in memory,
not only that it has returned.

`Detector` is the detector without fields, stores or positions: a machine,
whether the record is known, who is asking what, and the answers given.
An answer is the machine's (`Record`), or "not available" to a caller that
began to ask before the record was known. The refinement mapping takes
`known` to `probed`, `Record(m, q)` to `Detected(m, q)`, the answer of the
query over `Probed(m)`, which is `cpu_info` after one whole probe of
machine `m`, and `asking` to the thread's position and `settled`.

### GcmJni over AeadEngine

`heap` maps each address to the engine object there or to `NoObject`.
Every JNI function is one action of the same name. Arrays are their
lengths. What the binding itself decides is modelled from its source:

* which functions have a `try` block: `Caught` (doFinal) leaves a Java
  exception pending and returns 0; `Uncaught` (all others) ends the
  process when the engine throws;
* `Translated`: the three `catch` clauses. Two name a class
  (`OutputLengthException`, `CipherTextException`), the third catches
  `std::runtime_error`; an exception of any other class passes all three
  and ends the process as in a function without `try`;
* what the engine is told of the output: `processBytes` and `doFinal`
  pass the array, `outOff` and `out.length()`, and the model passes the
  offset and the length on as they are; `processByte` passes
  `out.uvalue() + outOff` and `out.length()`, so the engine gets the
  length of the whole array and no offset;
* `initNative` passes `macSizeInBits / 8`; `reset` passes `false`;
  `makeInstance` ignores `keySize` ("TODO add key size implementations"):
  an object exists for every key size and an unsupported one is rejected
  only by `initNative`, which has no `try` block;
* `getMac` does not test what `NewByteArray` returns: when the allocation
  fails it goes on with a null array and an exception pending, which the
  model takes as the end of the process.

The caller is nondeterministic within the contract of the boundary: it uses
only refs it got and has not disposed, and offsets inside its arrays.

`AeadEngine` gives the engine as pure operators from a session and
arguments to a result (session, error, bytes written). Bytes are counts.
Two traces record what the cipher did, independent of chunking: `folded`,
the blocks folded into the hash with the number of input bytes in each,
and `used`, the keystream bytes consumed of each counter block. Readings of
spec.md that the model fixes:

* decryption holds back the last `tagLen` bytes of its input until
  `doFinal` (`Holdback`), so the data buffer of a decrypting session holds
  up to `tagLen + 15` bytes; spec.md 3 says "0–15 bytes", which can hold
  for encryption only;
* the AAD passed to `init` is absorbed like a first `processAADBytes`;
* a `processBytes` of zero bytes changes nothing, not even the phase;
* a rejected call leaves the session as it was (spec.md 7);
* the engine takes the offset off the length before it compares the room
  with what it is about to write (`Room`); `BulkWritesInBounds` holds
  under this reading and says that the binding hands the engine the
  offset and the length that belong together;
* the engine reports an error by throwing, `OutputLengthException` and
  `AuthenticationFailure` as the two classes `doFinal` catches by name.
  Which class the state and argument errors have is not in `src/`: the
  constant `RuntimeErrors` names those that are `std::runtime_error`, and
  the runs take all four (`InvalidKeySize`, `InvalidIVLength`,
  `InvalidTagLength`, `InvalidStateTransition`) to be, the one class
  besides the two that the binding provides for;
* `reset(keepKey)` is written in spec.md 4.3 for `keepKey` true only. The
  binding passes `false`, which the model reads as "the key is not kept":
  the session is Uninitialized and needs an `initNative`; in `AeadSpec`
  that is `Forget`. If the engine's flag means something else, what a
  caller may do after `reset` differs from the model; no finding rests on
  it.

`AeadSpec` is a session without buffers or phases of the engine: the
lengths of the AAD and the data passed so far, the length of the text
written so far and, once sealed, what was hashed and which keystream bytes
were used, both computed from the two lengths of the whole message
(`Hashed`, `Keystream`). `MoreData` says what streaming may do: text is
written in order and once, never a byte that may still be tag, and less
than a block of what is ready is kept back. `Seal` says that `doFinal`
writes the rest and that the message was hashed and encrypted as if it had
arrived in one piece. The mapping `Promised` of `GcmJni` reads the lengths
from the session's counters, `out` from the bytes it has emitted, and
`hashed` and `keystream` from the traces `folded` and `used` of a session
that has produced its tag. `passed` is the length the caller passed in its
last call (`last.arg`): `MoreAad` and `MoreData` add exactly that many
bytes to the session, `Begin` gives the session a tag of the whole bytes
in the bits asked for, and a call that fails or only answers leaves every
session as it was.

### CbcJni over CbcEngine

Every JNI function is one action of the same name. `makeNative` follows
the two `switch` statements: a narrow class for encryption, a VAES ("wide")
class for decryption, and a null ref (no object) for any other key size.
`init` and `process` perform their `abortIf` checks before the one
engine call (`Abort`: the JVM ends). The checks of one function are one
disjunction: each ends the process and leaves the same state, so their
order among themselves is not in the model. `process` passes the block
count and two pointers; the model records what is written (`blocks * 16`)
and what the output array has behind `outOff`.

An input array is the sequence of blocks at `inOff`; blocks are numbers of
three bits, XOR is `^^` of the community module `Bitwise`, and the block
primitive is the constant `Cipher`, a permutation of the blocks per key
(`DecryptBlock` is its inverse). `CbcEngine` defines the mode twice:
`EncryptFrom` and `DecryptFrom` go block by block, recursively, and are
the reference; `DecryptWide` computes every block of a call from the input
alone, as the VAES classes do. `makeNative` makes narrow objects for
encryption and VAES objects for decryption; the three narrow decryption
classes of the header are never made by this binding, and the model uses
them as the counterpart of `RoundTrip`. `ProcessBlock` applies the transformation of
the object's class to one call and leaves `NextChain`, the last ciphertext
block, for the next call. `stream` is a history variable: the direction
asked of `makeNative` and the blocks passed and written since the last
`init` or `reset`.

`CbcSpec` is a cipher without a chaining value or classes: direction, key,
IV, the blocks passed and the blocks written, where the blocks written
are always `Mode` of all the blocks passed (`Ciphertext` by one recursion
over the whole message, `Plaintext` from each ciphertext block and the one
before it). The mapping `Promised` of `CbcJni` takes key and IV from the
engine object and the rest from `stream`.

The caller's part, which the code does not check ("All assertions of
length and correctness are done on the java side"): it calls `process`
only after `init` (spec.md 4.2 gives no meaning to it before), and it
passes `init` a key of 16, 24 or 32 bytes and an IV of one block. `init`
of the binding has no `try` block and looks at no result; how
`CBCLike::init` refuses another length is not in `src/`, and the model
makes no statement about it. `init` accepts the three key lengths
whatever the class of the object, as spec.md 4.2 states it.

## 3. Runs

| Run | Configuration | Result | States |
|---|---|---|---|
| `probe_linux` | `NativeFeatures_linux.cfg` | passes | 0.9 M |
| `probe_linux_three` | `NativeFeatures_linux_three.cfg` | passes | 0.5 M |
| `probe_linux_race` | `NativeFeatures_linux_race.cfg` | `AnswersAgree` violated | |
| `probe_linux_relaxed` | `NativeFeatures_linux_relaxed.cfg` | passes | 1.4 M |
| `probe_apple` | `NativeFeatures_apple.cfg` | passes | 1.6 M |
| `probe_apple_sha3` | `NativeFeatures_apple_sha3.cfg` | `NoFalsePositive` violated | |
| `gcm_sessions` | `GcmJni.cfg` | passes | 0.3 M |
| `gcm_uncaught` | `GcmJni_terminates.cfg` | `NeverTerminates` violated | |
| `gcm_keySize` | `GcmJni_keySize.cfg` | `UnsupportedKeySizeIsAbsent` violated | |
| `gcm_processByte_room` | `GcmJni_processByte.cfg` | `WritesInBounds` violated | |
| `cbc_streams` | `CbcJni.cfg` | passes | 8 k |
| `cbc_room` | `CbcJni_room.cfg` | `ProcessStaysInArrays` violated | |

### What the properties say

* `ImplementsDetector` (`probe_linux`, `probe_linux_three`, `probe_apple`,
  `probe_linux_relaxed`): every behaviour of two or three threads running queries
  and probes store by store is a behaviour of `Detector`. An answer is
  "not available" or the machine's; once a whole probe is in memory, a
  query that begins gets the machine's answer, although threads that
  passed the `loaded` test earlier may still be storing. It holds because
  every probe stores the same values and no field passes through a value
  other than its initial and its final one: a probe that set `neon` before
  asking `uname()` and took it back on failure, or one that cleared a
  field before filling it, breaks it. `probe_apple` checks it for
  `has_features()` with every `sysctlbyname` failing in turn;
  `probe_linux_relaxed` for the Linux probe when its stores reach memory
  in any order; `probe_linux_three` with a third thread, which can ask
  while two others are inside the probe. Under relaxed memory "after a probe has returned" would
  not do as the meaning of `known`: the stores of the thread that returned
  may still be pending, and a query of another thread reads `loaded` and
  a stale flag, as in `probe_linux_race`.
* `NotMutatedOnceProbed` (action property, `probe_linux`): once a whole
  probe is in memory no step changes a field of `cpu_info` (spec.md 3:
  "never mutated after"). Threads do store after that, a second probe or
  the rest of one that began early; the record stays as it is because
  every store writes the value the field ends with.
* `NoFalsePositive`: a query answers `JNI_TRUE` only on a machine that has
  the instructions the query stands for, whichever OS call fails. It is
  about which bit or name each field is filled from, not about the race.
  Holds on Linux; fails on Apple for `nativeSHA3`, whose field is filled
  from the name of SHA-512. The machine that shows it has SHA-512 and no
  SHA-3 instructions; where the two extensions always come together the
  defect is a wrong name without an observable effect.
* `LoadedLeadsToDetected` (liveness, `probe_linux` and `probe_apple`):
  once `loaded` is set, `cpu_info` reaches the state in which every
  detectable capability is reported, on every machine of the run: the
  `JNI_FALSE` of the race is transient, and a failing OS call hides only
  what it was asked for. Detectable is what the operating system tells
  the probe: the hwcap bit and, for `neon` and `arm64`, a `uname()` that
  works and names AArch64; on Apple the sysctl name the probe asks, which
  for `sha3` is the name of `sha512` (see `NoFalsePositive`).
* `AnswersAgree`: no query ever gives two answers. Violated: both threads
  call the same query (`nativeSHA3` in TLC's trace); thread 1 sets
  `loaded` and stores the first flags; thread 2 skips the probe, loads
  the first operand of the query (`sha3`, not stored yet) and returns
  `JNI_FALSE`; thread 1 finishes and returns `JNI_TRUE`.
  A process can thus settle on the Java implementation in one class and
  the native one in another, or cache "no hardware AES" for its lifetime.
* `ImplementsAeadSpec` (`gcm_sessions`): every behaviour of the binding
  over the buffering engine is a behaviour of `AeadSpec`, with valid and
  invalid arguments and arrays that are too short. A call adds to the
  session the bytes the caller passed, or nothing. However AAD and
  data are split over byte and bulk calls, text is written once and in
  order, no byte that may be tag is written as text, less than a block of
  releasable text is held back, a new `initNative` in the middle of a
  message starts from nothing, and a session that produced a tag folded
  the blocks and used the keystream bytes of the whole message.
* `DoFinalErrorsReachJava`: the three `catch` clauses of `doFinal` cover
  every class the engine throws (`RuntimeErrors`): `doFinal` ends with an
  exception pending exactly when the engine raised an error, returns 0
  then, and never ends the process.
* `BulkWritesInBounds`: `processBytes` and `doFinal` write only between
  `outOff` and the end of the array, given an engine that takes the
  offset off the length it is passed.
* `SizeQueriesCoverWrites` (action property): the `processBytes` of `len`
  bytes that follows a `getUpdateOutputSize(len)` writes at most what the
  query answered, the `doFinal` that follows a `getOutputSize(0)` at most
  what that answered, whatever the buffers hold at that point.
* `ImplementsCbcSpec`: every behaviour of the binding over the engine
  classes is a behaviour of `CbcSpec`: after every call the blocks written
  since `init` or `reset` are the mode, in the direction asked of
  `makeNative`, applied to all blocks passed, from the IV. It covers the
  carry of the chain between calls, `reset`, re-`init`, and the agreement
  of the wide decryption with the definition of the mode (spec.md 8).
* `TypeOK` (`gcm_sessions`, `cbc_streams`): the type invariant of each
  binding. In `cbc_streams` it includes that
  the count `process` returns is never negative: `abortIfNegative` stands
  before the cast of `blocks` to `uint32_t`; in `gcm_sessions` that the
  data buffer of a decrypting session stays below two blocks.
* `RoundTrip`: what the object `makeNative` chose has written in several
  calls is taken back to its input, in one call, by the narrow class of
  `AesCBCNarrow.h` for the other direction and the same key size.
* `NeverTerminates`, `WritesInBounds`, `ProcessStaysInArrays`: what
  spec.md 7, memory safety and spec.md 4.2 require of every function; each
  is violated, see the findings in `PROJECT.json`. The shortest trace of
  `NeverTerminates` is an `initNative` with an empty nonce; a key of 20
  bytes, a tag of 3 or 17 bytes and any call out of phase end the same
  way.
* `UnsupportedKeySizeIsAbsent`: spec.md 4.4 has no engine for a key size
  other than 16, 24 or 32. Violated: `makeInstance(20)` returns a ref.

Each property of a passing run has a mutant in `PROJECT.json`: a faulty
variant of a modelled definition (defined just before it, named
`<definition>_<fault>`) under which TLC finds the property violated.

### Bounds

| Constant | Value | Why it is enough |
|---|---|---|
| `Threads` | 2 | the race needs a writer and a reader |
| `Threads` (`probe_linux_three`) | 3, with `nativeGCM` and `nativeSHA3` | two threads inside the probe while a third asks; two queries that share `neon` and differ in the other field |
| `Hardware` | every feature set with `crypto => neon => arm64`, at most one failing OS call | all paths of both probes; one failure per call site |
| `Hardware` (`probe_linux_relaxed`) | the machines that have every feature, `uname` failing or not | every store of the probe changes a field, so every order of draining is visible |
| `Queries` | `nativeGCM`, `nativeSHA256`, `nativeSHA3`, `nativeMulAcc` | one per expression that occurs in the 24 queries, plus a constant |
| `Queries` (`probe_apple`) | `nativeGCM`, `nativeSHA512`, `nativeSHA3` | the AES family, and the two queries whose fields `has_features()` fills from the same sysctl name |
| `Queries` (`probe_linux_relaxed`) | `nativeGCM` | a query of two loads (`aes && neon`), one of them the field the `uname` branch stores last |
| `Handles` | 1 | sessions share no state (spec.md 5) |
| `BlockSize`, `KeySizes`, `TagLens` | 16, {16,24,32}, 4..16 | AES-GCM |
| `KeyLens` | {16, 20} | a valid and an invalid length |
| `NonceLens` | {0, 12} | rejected and fast path |
| `MacBits` | {24, 100, 128, 136} | below range, truncating, full, above range |
| `AadLens` | {0, 17} with `processAADByte` | crosses a block boundary with a carry |
| `DataLens` | {0, 15, 17} with `processByte` | no-op, below a block, above a block |
| `OutLens`, `OutOffs` | {16, 40}, {0, 8} | room for a block or not, with and without offset |
| `MaxAad`, `MaxData` | 20, 34 | total bytes of one session: two data blocks and a partial one, which lets a decrypting session hold a full tag and release a block |

| `Block`, `Cipher` | 0..7, two fixed permutations | three bits are the least on which a permutation need not be affine over XOR, so that a misplaced XOR changes the result |
| `Keys`, `IVs`, `Inputs` | 2, {2, 7}, {3, 5} | re-keying and distinct IVs; two inputs that differ, so that a block masked with the wrong predecessor shows |
| `KeyLens` (CBC) | {16, 20, 32} | key sizes asked of `makeNative`: two classes and none |
| `MaxCall`, `MaxBlocks` | 3, 4 | a call of several blocks after a call of one, and the reverse |
| `OutRooms` | {1, 2} blocks | room for the call or not |

`probe_linux_three` and `probe_linux_relaxed` use `SYMMETRY` over
`Threads`; `probe_linux` and `probe_apple` check a liveness property and
do not.

### Fairness

`probe_linux` and `probe_apple` (`FairSpec`) assume weak fairness of
`Progress(t)` for every thread: a thread inside a JNI function keeps executing. The C code has no
lock, wait or loop there, so a running thread is never blocked by another.
`Fairness` also has weak fairness of `Reach(t)`: a pending store reaches
memory eventually, which every cache-coherent machine guarantees; under
`Memory = "sc"`, as in these runs, nothing is ever pending. No fairness is
assumed of `Call`: threads may stop calling. The liveness property is not
run under relaxed memory: with the drains the graph of even one machine is
beyond what TLC's liveness check finishes in minutes.

### Deadlock

The `GcmJni` and `CbcJni` runs set `CHECK_DEADLOCK FALSE`: after an
uncaught exception (`GcmJni`) or an abort (`CbcJni`) the process is gone
and no action is enabled. `NativeFeatures` cannot stop
and is checked for deadlock.

## 4. Not modelled

* AES rounds, key schedule, GHASH arithmetic, counter increment and wrap,
  constant-time comparison: data transformations; the models keep byte
  counts only. Tampering is the Boolean `authentic` of `doFinal`.
* `jniutil::JavaByteArray` and `JavaByteArrayCritical`: not in `src/`. An
  array is its length (GCM) or its blocks (CBC). `process` wraps the
  output array before the input array ("Always wrap output array first"),
  so the input is released first; what that means when both are the same
  Java array and the JVM hands out copies depends on the wrappers and is
  listed as a hazard without a property.
* Overlapping input and output ranges in `process`, and the order of
  loads and stores inside `processBlock`: the body is not in `src/` and
  spec.md does not describe it.
* Use of a ref after `dispose`, and ref 0 passed to `init`, `process` or
  `reset`: the Java classes own the refs and are not in `src/`; the
  model's caller keeps the contract.
* Reads past the end of an input array: the bindings pass no input
  length, the Java classes check the range, and the models' inputs are
  the bytes or blocks the caller passes.
* A key or an IV of a length the chained-block mode does not accept
  (`InvalidKeySize`, `InvalidIVLength` of spec.md 4.2): the binding
  neither checks the lengths nor handles a refusal, and how the engine
  refuses is not in `src/`. The model's caller passes valid lengths.
* A key of another length than the one a CBC object was made for. The
  header shows one class per key size, each overriding `processBlock`
  only; what such an object does with the schedule of another size is in
  the bodies. The model follows spec.md 4.2 (`init` accepts the three
  lengths) and its claims hold under that reading.
* The narrowing of the `size_t` that `processBlock` returns to `jint`: it
  changes the value from 2^27 blocks on, more than a Java array holds.
* The content of the tag `getMac` copies; only its length is modelled.
* The factory's Java half. `makeInstance` and `makeNative` are modelled
  in the bindings. A composition of the detector with the bindings is not
  modelled: the detector in `src/` is the ARM build, the bindings are the
  Intel build, and the code that asks the one before it loads the other
  is Java that is not in `src/`.
* Liveness under relaxed memory (see Fairness): without symmetry the
  graph of the one machine and one query of `probe_linux_relaxed` has more
  than 2.5 million states and TLC's liveness check of it does not end in
  ten minutes. That a pending store reaches memory is the fairness
  assumption itself (`WF_vars(Reach(t))`); what the property would add
  over the run under `"sc"` is small.
* The contents of AEAD messages. The engine is not in `src/`; the binding
  passes pointers and lengths and never looks at a byte. What the binding
  can get wrong is in the lengths, the offsets, the order of calls and
  the errors, which the count-level model keeps; `hashed` and `keystream`
  of `AeadSpec` show that a sealed message is the same whatever its
  splits.

## 5. Plan

Every line of `src/` that is code is modelled, and each of the three
components whose source is there is checked against an abstract
specification, the detector on both platforms also for liveness. The
hazards that `PROJECT.json` lists without a property all end in code that
is not in `src/`: the Java classes that own the refs and check the ranges,
the wrappers of `jniutil`, and the bodies of the engines. Modelling them
from anything but their source would be guessing; the notes of the
hazards say what each would need. What follows when that source is added:

1. `init` of the chained-block binding has no `try` block either. Whether
   `CBCLike::init` throws is not visible in `src/`; if the engine's source
   is added, the run that `gcm_uncaught` is for the AEAD binding follows
   for this one.
2. The wrappers of `jniutil`, once their source is there: the order of
   acquire and release in `process`, and input and output in one array.
3. The Java classes `AESNativeGCM` and `AESNativeCBC`: the caller of the
   models becomes a module of its own, and use after `dispose`, ref 0 and
   `getMac` before `doFinal` become properties of the composition.
4. The engine bodies: the contents of AEAD messages, and a key of one
   size in an object of another.
