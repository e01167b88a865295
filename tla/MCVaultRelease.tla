--------------------------- MODULE MCVaultRelease ---------------------------
(* Instances of VaultRelease for TLC.                                       *)
EXTENDS VaultRelease, TLC

\* Build runs are ordered by their ids, so they are no symmetry set.
Permuted == Permutations(Page) \cup Permutations(Path) \cup Permutations(Release)
=============================================================================
