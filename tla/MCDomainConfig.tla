--------------------------- MODULE MCDomainConfig ---------------------------
(***************************************************************************)
(* DomainConfig on small instances.                                        *)
(***************************************************************************)
EXTENDS DomainConfig, TLC

CONSTANTS r1, r2

AnyTwo == [r \in Req |-> Op]

AnyAdversity == [a \in Adversity |-> 1]

Either == Permutations({r1, r2})
=============================================================================
