--------------------------- MODULE MCAtomicWrite ---------------------------
(* Small instances of AtomicWrite: a longer text may be left under a       *)
(* shorter one.                                                            *)
EXTENDS AtomicWrite, TLC

CONSTANTS short, long

MCLength == (short :> 1) @@ (long :> 2)

MCSymmetry == {p @@ q : p \in Permutations(Writers), q \in Permutations(Inodes)}
=============================================================================
