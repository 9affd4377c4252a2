--------------------------- MODULE MCAscendStoreSave ---------------------------
(* Small instances of AscendStoreSave for TLC. *)
EXTENDS AscendStoreSave, TLC

CONSTANTS r1, r2, a, b, c

\* Two requests that take blocks from each other.
PromptTwo == (r1 :> <<a, b>>) @@ (r2 :> <<c>>)

\* Two requests of one chunk each.
PromptShort == (r1 :> <<a>>) @@ (r2 :> <<c>>)

\* Blocks are interchangeable.
Symmetry == Permutations(Block)
=============================================================================
