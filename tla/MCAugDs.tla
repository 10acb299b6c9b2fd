------------------------------- MODULE MCAugDs -------------------------------
(* Small instances of AugDs: two processes, two modules.                    *)
EXTENDS AugDs, TLC

CONSTANTS p1, p2, t1, t2, mA, mB, f1, f2, v1, v2

\* Each thread in a process of its own, or both in one.
OwnProcess    == t1 :> p1 @@ t2 :> p2
SharedProcess == t1 :> p1 @@ t2 :> p1

\* A lens with one file each, or one lens only.
FilePerModule == f1 :> mA @@ f2 :> mB
OneFile       == f1 :> mA

\* Versions are alike; so are the processes (with their threads) and, where
\* both are there, the modules (with their files).
SwapProcs      == p1 :> p2 @@ p2 :> p1 @@ t1 :> t2 @@ t2 :> t1
SwapMods       == mA :> mB @@ mB :> mA @@ f1 :> f2 @@ f2 :> f1
SymmetricProcs == Permutations({v1, v2}) \cup {SwapProcs}
SymmetricMods  == Permutations({v1, v2}) \cup {SwapMods}
SymmetricAll   == SymmetricProcs \cup SymmetricMods

AllFaults == {"init", "load", "apply", "put", "rename", "files", "exists", "open",
              "copy", "unlink"}
=============================================================================
