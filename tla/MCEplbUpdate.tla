------------------------------ MODULE MCEplbUpdate ------------------------------
(* Three ranks with two slots, four experts: two of them have a replica, or *)
(* one has two.                                                            *)
EXTENDS EplbUpdate

Place(s0, s1) == [r \in 0 .. 2 |-> [s \in 0 .. 1 |-> IF s = 0 THEN s0[r + 1] ELSE s1[r + 1]]]

\* The same for both layers, with the ranks in another order.
Layers2(p) == [l \in 0 .. 1 |-> [r \in 0 .. 2 |-> p[(r + l) % 3]]]

MCInitial == Layers2(Place(<<0, 0, 1>>, <<1, 2, 3>>))

\* The first placement, one in which rank 0 changes both its experts and every
\* rank gives one away, and one to reject: an expert is lost and another is on
\* a rank twice.
MCPolicy ==
    {Layers2(p) : p \in {Place(<<0, 0, 1>>, <<1, 2, 3>>), Place(<<2, 0, 1>>, <<3, 1, 0>>), Place(<<0, 0, 1>>, <<1, 0, 3>>)}}
=============================================================================
