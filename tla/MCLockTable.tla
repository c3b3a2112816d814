----------------------------- MODULE MCLockTable -----------------------------
(***************************************************************************)
(* LockTable on small instances.  Keys and goroutines are interchangeable, *)
(* so the safety runs use them as symmetry sets.                           *)
(***************************************************************************)
EXTENDS LockTable, TLC

Symmetric == Permutations(Key) \union Permutations(Call)
=============================================================================
