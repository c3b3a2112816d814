----------------------------- MODULE MCCapacity -----------------------------
(***************************************************************************)
(* Capacity on small instances.                                            *)
(***************************************************************************)
EXTENDS Capacity, TLC

CONSTANTS v1, v2, v3, other, d1, d2, new, bad

\* A host with little memory left, one with much, and two containers.
Meminfo(total, free, cached, buffers, available) ==
  [total |-> total, free |-> free, cached |-> cached, buffers |-> buffers,
   available |-> available]
Hosts == {Meminfo(12, 2, 3, 1, 5), Meminfo(15, 9, 2, 2, 12)}
Containers == {Meminfo(4, 3, 5, 2, 9)}
AnyMemInfo == Hosts \union Containers
AnyPool == [running : BOOLEAN, available : {4, 5}] \ {[running |-> FALSE, available |-> 4]}
TwoNetworks == <<{v1, v2}, {v3}>>
AnyAsked == [name : {d1, d2, new, bad}, vcpu : {-1, 0, 1, 3}, memory : {0, 1, 2, 3, 6, 9},
             network : {0, 1, 2}]
Either == Permutations({d1, d2})
=============================================================================
