----------------------------- MODULE MCMolecule -----------------------------
(* Small instances of Molecule for TLC.                                    *)
EXTENDS Molecule, TLC

\* Atoms of one kind are interchangeable (safety runs only).
AtomSymmetry == Permutations(Hydrogens) \cup Permutations(Oxygens)
=============================================================================
