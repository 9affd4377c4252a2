--------------------------- MODULE MCMooncakePull ---------------------------
(* Small instances of MooncakePull for TLC. *)
EXTENDS MooncakePull, TLC

\* Requests, blocks and workers are interchangeable.
Symmetry == Permutations(Req) \cup Permutations(PBlock) \cup Permutations(DBlock)
            \cup Permutations(Worker)

=============================================================================
