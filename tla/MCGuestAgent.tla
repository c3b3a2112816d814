---------------------------- MODULE MCGuestAgent ----------------------------
(***************************************************************************)
(* GuestAgent on small instances.                                          *)
(***************************************************************************)
EXTENDS GuestAgent, TLC

CONSTANTS r1, r2

AnyAdversity == [x \in Adversity |-> 1]

\* Two adversities in all.
Twice == FoldFunction(+, 0, spent') <= 2

Either == Permutations({r1, r2})
=============================================================================
