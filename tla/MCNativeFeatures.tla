-------------------------- MODULE MCNativeFeatures --------------------------
(* Values for model checking NativeFeatures.                               *)
EXTENDS NativeFeatures, TLC

(* On real hardware the crypto extensions are AdvSIMD instructions and     *)
(* AdvSIMD is part of AArch64.                                             *)
Plausible(has) ==
    /\ has["neon"] => has["arm64"]
    /\ \A f \in {"aes", "sha256", "sha512", "sha3"} : has[f] => has["neon"]

(* Every plausible machine, with at most one failing OS call.  All are     *)
(* little-endian: no query reads cpu_info.le.                              *)
MachinesFailing(calls) ==
    [has : {h \in [Feature -> BOOLEAN] : Plausible(h)},
     le : {TRUE},
     fails : {{}} \cup {{c} : c \in calls}]

LinuxMachines == MachinesFailing({"uname"})
AppleMachines == MachinesFailing(Feature \ {"sha3"})

(* One query of each family: AES, SHA-2, SHA-3, and the two constants.     *)
FamilyQueries == {"nativeGCM", "nativeSHA256", "nativeSHA3", "nativeMulAcc"}
Symmetry == Permutations(Threads)
(* For the relaxed memory: the machine that has everything, with uname()   *)
(* working and failing, and one query that reads two fields.               *)
FullMachines == { m \in LinuxMachines : \A f \in Feature : m.has[f] }
OneQuery     == {"nativeGCM"}
(* For three threads: a query of the AES family and one of another.       *)
TwoQueries   == {"nativeGCM", "nativeSHA3"}
(* For the Apple probe: the AES family, and the two queries whose fields   *)
(* has_features() fills from the same sysctl name.                         *)
AppleQueries == {"nativeGCM", "nativeSHA512", "nativeSHA3"}
=============================================================================
