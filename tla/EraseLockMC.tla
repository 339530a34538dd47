----------------------------- MODULE EraseLockMC -----------------------------
(* EraseLock for TLC: the goroutines and the PINs of a kind are alike.       *)
EXTENDS EraseLock, TLC

Symmetry == Permutations(Workers) \cup Permutations(RandomPins)

=============================================================================
