----------------------------- MODULE MCAdmission -----------------------------
(***************************************************************************)
(* Admission on small instances.                                           *)
(***************************************************************************)
EXTENDS Admission, TLC

CONSTANTS r1, r2, r3, a, b, t, u1, u2

Creates(n, x) == [op |-> "Create", name |-> n, uuid |-> x, source |-> t, vcpu |-> 1]
Clones(from, n) == [op |-> "CloneImage", name |-> n, uuid |-> u1, source |-> from, vcpu |-> 1]
Destroys(n) == [op |-> "Destroy", name |-> n, uuid |-> u1, source |-> t, vcpu |-> 1]

\* A Create, one that asks for too many vCPUs, for more than there are, or
\* for the copy of a domain's image; another with the same name, UUID or
\* both, or with the UUID another had; a Destroy or two; a CloneImage in the way.
CreateCreateDestroy ==
  r1 :> {Creates(a, u1), [Creates(a, u1) EXCEPT !.vcpu = 2], [Creates(a, u1) EXCEPT !.vcpu = 3],
         [Creates(b, u2) EXCEPT !.source = a], Creates(b, u1)}
  @@ r2 :> {Creates(a, u1), Creates(a, u2), Creates(b, u1), Clones(t, a), Destroys(a)}
  @@ r3 :> {Destroys(a), Clones(a, b)}

AnyAdversity == [x \in Adversity |-> 1]
=============================================================================
