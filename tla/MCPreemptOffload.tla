-------------------------- MODULE MCPreemptOffload --------------------------
(* Small instances of PreemptOffload for TLC. *)
EXTENDS PreemptOffload, TLC

CONSTANTS a, b, c, h1, h2, h3, ua, ub, uc

\* Two requests with a common first block; b's second block is full too.
TwoSharing == [r \in {a, b} |-> IF r = a THEN <<h1, ua>> ELSE <<h1, h2>>]

\* Three requests with a common first block, one of them of that block only:
\* two can be preempted in one pass and share the block they are storing.
OneShort == [r \in {a, b, c} |-> IF r = a THEN <<h1, ua>>
                                 ELSE IF r = b THEN <<h1, ub>> ELSE <<h1>>]

\* Three requests with a common first block and a private second one.
ThreeSharing == [r \in {a, b, c} |-> IF r = a THEN <<h1, ua>>
                                     ELSE IF r = b THEN <<h1, ub>> ELSE <<h1, uc>>]

\* Two long requests with a common first block, and a short one that can take
\* the CPU block of that first block away from the cache.
Chains == [r \in {a, b, c} |-> IF r = a THEN <<h1, h2, ua>>
                               ELSE IF r = b THEN <<h1, h3, ub>> ELSE <<uc>>]

\* GPU blocks are handed out in no particular order.
GpuSymmetry == Permutations(Gpu)

=============================================================================
