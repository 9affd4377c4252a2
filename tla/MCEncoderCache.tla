---------------------------- MODULE MCEncoderCache ----------------------------
(* Small instances of EncoderCache for TLC. *)
EXTENDS EncoderCache, TLC

CONSTANTS h1, h2, h3

\* Two outputs that exclude each other in a tier of two slots.
SizeTwo == (h1 :> 2) @@ (h2 :> 1)
FeaturesTwo == {<<h1, h2>>, <<h2, h2>>}

\* Three outputs, two of which fit in a tier.
SizeThree == (h1 :> 1) @@ (h2 :> 1) @@ (h3 :> 1)
FeaturesThree == {<<h1, h2>>, <<h3>>}

\* Request ids are interchangeable.
Symmetry == Permutations(Req)
=============================================================================
