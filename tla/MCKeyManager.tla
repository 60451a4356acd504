---------------------------- MODULE MCKeyManager ----------------------------
(***************************************************************************)
(* Small instances of KeyManager: three server processes over one store.   *)
(***************************************************************************)
EXTENDS KeyManager, TLC

CONSTANTS p1, p2, p3, k1, k2, k3

MCProcesses == {p1, p2, p3}
MCKeys == {k1, k2, k3}

AnyRow == {None, k1, Corrupt}

\* k1 may be in the store from the start, so it is not interchangeable.
Symmetry == Permutations(MCProcesses) \cup Permutations(MCKeys \ {k1})
=============================================================================
