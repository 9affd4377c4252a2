------------------------ MODULE PreemptOffloadProofs ------------------------
(***************************************************************************)
(* What holds of PreemptOffload for any number of requests, blocks and     *)
(* workers: types, the accounting of both block pools, and which requests  *)
(* may have an offload state; and, with enable_offload_prefix_caching off, *)
(* its default, that the CPU pool holds blocks for offload states and for  *)
(* nothing else.  First the inductive invariant and the accounting: what   *)
(* taking, sharing and releasing blocks does to the two pools; then every  *)
(* action; then the theorems.                                              *)
(***************************************************************************)
EXTENDS PreemptOffload, TLAPS, FiniteSetTheorems

\* First-order steps go to Zenon; those with arithmetic or sequences name SMT.
USE Zenon

\* UsesOf for any dictionary f of states.
Places(f, R, c) == UNION {{r} \X {i \in DOMAIN f[r].cpu : f[r].cpu[i] = c} : r \in R}

\* Requests whose block table, or whose restore, holds the GPU block g.
Holders(g) == {r \in Req : g \in TableOf(r)}
Loaders(g) == {r \in Req : g \in LoadTargets(r)}

\* A GPU block is counted once for every table and once for every restore.
GpuExact == \A g \in Gpu : gref[g] = Cardinality(Holders(g)) + Cardinality(Loaders(g))

\* Nobody computes past its table or past its contents, and a request that is
\* not scheduled has no table.
Fits(r) ==
    /\ status[r] \in {"new", "running", "preempted"} => computed[r] <= Len(table[r])
    /\ Len(table[r]) <= Len(Blocks[r]) /\ Len(st[r].cpu) <= Len(Blocks[r])
    /\ status[r] \in {"new", "preempted", "done"} => table[r] = <<>>

TableOK == \A r \in Req : Fits(r)

\* What is not in the dictionary holds nothing.
DeadIsEmpty ==
    \A r \in Req : ~st[r].live => st[r].cpu = <<>> /\ st[r].load = {}

\* A restore is sent to the workers when the pass that prepared it ends.
LoadPhase ==
    \A r \in Req : st[r].live =>
        /\ st[r].lev # NoEvent => st[r].load # {}
        /\ st[r].load # {} /\ st[r].lev = NoEvent => pass = "waiting"

\* Every store event carries a state born after the previous event.
Counters ==
    /\ storeCtr <= born /\ born <= MaxPreempt
    /\ \A r \in Req : st[r].live =>
          /\ st[r].born < born
          /\ st[r].sev = NoEvent /\ ~st[r].ready => storeCtr <= st[r].born

IInv == /\ TypeOK /\ TableOK /\ DeadIsEmpty /\ StateMeansStopped /\ LoadPhase
        /\ Counters /\ RefCovers /\ GpuExact

-----------------------------------------------------------------------------
(* Records and copies *)

\* The state of a request that has none.
LEMMA NoStateIs ==
    /\ NoState \in StateType /\ ~NoState.live /\ NoState.cpu = <<>> /\ NoState.load = {}
    /\ Len(NoState.cpu) = 0 /\ DOMAIN NoState.cpu = {} /\ NoState.lev = NoEvent
  BY ONLY TRUE DEF NoState, StateType, NoEvent

\* Components of a copy.
LEMMA PairIs ==
    ASSUME NEW A, NEW B, NEW p \in A \X B
    PROVE  p[1] \in A /\ p[2] \in B
  BY SMT

LEMMA SecondIs ==
    ASSUME NEW a, NEW b
    PROVE  <<a, b>>[1] = a /\ <<a, b>>[2] = b
  BY SMT

\* The blocks a forward fills have contents, where the table is no longer than those.
LEMMA FilledTyped ==
    ASSUME NEW A, NEW B, NEW s \in Seq(A), NEW b \in Seq(B), NEW n \in Nat, Len(s) <= Len(b)
    PROVE  {<<s[i], b[i]>> : i \in n + 1 .. Len(s)} \in SUBSET (A \X B)
<1> SUFFICES ASSUME NEW i \in n + 1 .. Len(s) PROVE s[i] \in A /\ b[i] \in B
  BY SMT
<1>1. i \in 1 .. Len(s) /\ i \in 1 .. Len(b)
  BY SMT
<1> QED BY <1>1, SMT

\* A pass hands out well-formed copies.
LEMMA PassTyped ==
    ASSUME TypeOK
    PROVE  /\ PassStores \in SUBSET (Gpu \X Cpu) /\ Unsent \in SUBSET Req
           /\ UNION {st[r].load : r \in Unloaded} \in SUBSET (Cpu \X Gpu)
           /\ Unloaded \in SUBSET Req
<1>1. \A r \in Req : st[r].store \in SUBSET (Gpu \X Cpu) /\ st[r].load \in SUBSET (Cpu \X Gpu)
  BY DEF TypeOK, StateType
<1>2. PassStores \in SUBSET (Gpu \X Cpu) /\ Unsent \in SUBSET Req
  BY ONLY <1>1, Zenon DEF PassStores, Unsent
<1>3. /\ UNION {st[r].load : r \in Unloaded} \in SUBSET (Cpu \X Gpu)
      /\ Unloaded \in SUBSET Req
  BY ONLY <1>1, Zenon DEF Unloaded
<1> QED BY <1>2, <1>3

-----------------------------------------------------------------------------
(* Counting *)

\* A place of c in R is a request of R and a position of its state.
LEMMA PlacesMember ==
    ASSUME NEW f, NEW R, NEW c, NEW p
    PROVE  p \in Places(f, R, c) <=>
              \E r \in R : \E i \in DOMAIN f[r].cpu : f[r].cpu[i] = c /\ p = <<r, i>>
  BY ONLY TRUE DEF Places

\* States without CPU blocks have no places.
LEMMA PlacesNone ==
    ASSUME NEW f, NEW R, NEW c, \A r \in R : DOMAIN f[r].cpu = {}
    PROVE  Places(f, R, c) = {}
  BY SMT DEF Places

\* Places depend on nothing but the CPU blocks of the states that have any.
LEMMA PlacesSame ==
    ASSUME NEW f, NEW h, NEW R, NEW Q \in SUBSET R, NEW c,
           \A r \in Q : f[r].cpu = h[r].cpu,
           \A r \in R \ Q : f[r].cpu = <<>>
    PROVE  Places(f, R, c) = Places(h, Q, c)
<1>1. \A r \in R \ Q : DOMAIN f[r].cpu = {}
  BY SMT
<1>2. ASSUME NEW p
      PROVE  p \in Places(f, R, c) <=> p \in Places(h, Q, c)
  <2>1. ASSUME p \in Places(f, R, c) PROVE p \in Places(h, Q, c)
    <3>1. PICK r \in R : \E i \in DOMAIN f[r].cpu : f[r].cpu[i] = c /\ p = <<r, i>>
      BY ONLY <2>1, PlacesMember
    <3>2. r \in Q
      BY <1>1, <3>1
    <3> QED BY <3>1, <3>2, PlacesMember, SMT
  <2>2. ASSUME p \in Places(h, Q, c) PROVE p \in Places(f, R, c)
    <3>1. PICK r \in Q : \E i \in DOMAIN h[r].cpu : h[r].cpu[i] = c /\ p = <<r, i>>
      BY ONLY <2>2, PlacesMember
    <3> QED BY <3>1, PlacesMember, SMT
  <2> QED BY <2>1, <2>2
<1> QED BY <1>2

\* A new state adds its own places only.
LEMMA PlacesAdd ==
    ASSUME NEW f, NEW h, NEW r \in Req, NEW c, NEW S,
           \A q \in Req \ {r} : h[q].cpu = f[q].cpu,
           \A i \in DOMAIN h[r].cpu : h[r].cpu[i] = c => i \in S
    PROVE  Places(h, Req, c) \subseteq Places(f, Req, c) \cup ({r} \X S)
<1> SUFFICES ASSUME NEW p \in Places(h, Req, c)
             PROVE  p \in Places(f, Req, c) \cup ({r} \X S)
  OBVIOUS
<1>1. PICK q \in Req : \E i \in DOMAIN h[q].cpu : h[q].cpu[i] = c /\ p = <<q, i>>
  BY ONLY PlacesMember
<1>2. CASE q = r
  BY <1>1, <1>2, SMT
<1>3. CASE q # r
  BY <1>1, <1>3, PlacesMember, SMT
<1> QED BY <1>2, <1>3

\* Finitely many requests with finite states name a block finitely often.
LEMMA PlacesFinite ==
    ASSUME NEW f, NEW R, IsFiniteSet(R), NEW c,
           \A r \in R : f[r].cpu \in Seq(Cpu)
    PROVE  IsFiniteSet(Places(f, R, c))
<1> DEFINE At(r) == {r} \X {i \in DOMAIN f[r].cpu : f[r].cpu[i] = c}
           T == {At(r) : r \in R}
           g == [r \in R |-> At(r)]
<1>1. g \in Surjection(R, T)
  BY DEF Surjection
<1>2. IsFiniteSet(T)
  BY <1>1, FS_Surjection
<1>3. ASSUME NEW r \in R PROVE IsFiniteSet(At(r))
  <2>1. DOMAIN f[r].cpu = 1 .. Len(f[r].cpu) /\ Len(f[r].cpu) \in Nat
    BY SMT
  <2>2. IsFiniteSet(1 .. Len(f[r].cpu))
    BY ONLY <2>1, FS_Interval
  <2>3. IsFiniteSet({i \in DOMAIN f[r].cpu : f[r].cpu[i] = c})
    BY <2>1, <2>2, FS_Subset
  <2> QED BY <2>3, FS_Singleton, FS_Product
<1>4. \A U \in T : IsFiniteSet(U)
  BY <1>3
<1> QED BY <1>2, <1>4, FS_UNION DEF Places

\* The places of all requests are those of R and those of the others.
LEMMA PlacesSplit ==
    ASSUME NEW f, NEW R \in SUBSET Req, NEW c,
           \A r \in Req : f[r].cpu \in Seq(Cpu)
    PROVE  /\ Cardinality(Places(f, R, c)) \in Nat
           /\ Cardinality(Places(f, Req \ R, c)) \in Nat
           /\ Cardinality(Places(f, Req, c))
                 = Cardinality(Places(f, R, c)) + Cardinality(Places(f, Req \ R, c))
<1> DEFINE A == Places(f, R, c)
           B == Places(f, Req \ R, c)
<1>1. IsFiniteSet(R) /\ IsFiniteSet(Req \ R)
  BY SetAssumption, FS_Subset
<1>2. IsFiniteSet(A) /\ IsFiniteSet(B)
  BY <1>1, PlacesFinite
<1>3. Places(f, Req, c) = A \cup B
  BY ONLY PlacesMember
<1>4. A \cap B = {}
  BY ONLY PlacesMember
<1> HIDE DEF A, B
<1>5. Cardinality(A \cup B) = Cardinality(A) + Cardinality(B) - Cardinality(A \cap B)
  BY <1>2, FS_Union
<1>6. Cardinality(A \cap B) = 0
  BY <1>4, FS_EmptySet
<1>7. Cardinality(A) \in Nat /\ Cardinality(B) \in Nat
  BY <1>2, FS_CardinalityType
<1> QED BY ONLY <1>3, <1>5, <1>6, <1>7 DEF A, B

\* Releasing the states in R keeps every count above the places that remain.
LEMMA ReleaseCovers ==
    ASSUME TypeOK, RefCovers, NEW R \in SUBSET Req, NEW f,
           \A r \in R : f[r].cpu = <<>>,
           \A r \in Req \ R : f[r].cpu = st[r].cpu
    PROVE  /\ Untouch(R) \in [Cpu -> Nat]
           /\ \A c \in Cpu : Untouch(R)[c] >= Cardinality(Places(f, Req, c))
<1>1. \A r \in Req : st[r].cpu \in Seq(Cpu)
  BY DEF TypeOK, StateType
<1> SUFFICES ASSUME NEW c \in Cpu
             PROVE  /\ Untouch(R)[c] \in Nat
                    /\ Untouch(R)[c] >= Cardinality(Places(f, Req, c))
  BY DEF Untouch
<1>2. Places(f, Req, c) = Places(st, Req \ R, c)
  BY PlacesSame, SMT
<1>3. /\ Cardinality(Places(st, R, c)) \in Nat
      /\ Cardinality(Places(st, Req \ R, c)) \in Nat
      /\ Cardinality(Places(st, Req, c))
            = Cardinality(Places(st, R, c)) + Cardinality(Places(st, Req \ R, c))
  BY <1>1, PlacesSplit
<1>4. Untouch(R)[c] = ref[c] - Cardinality(Places(st, R, c))
  BY DEF Untouch, UsesOf, Places
<1>5. ref[c] \in Nat /\ ref[c] >= Cardinality(Places(st, Req, c))
  BY DEF TypeOK, RefCovers, UsesOf, Places
<1> QED BY ONLY <1>2, <1>3, <1>4, <1>5

\* Any other change of the states that leaves their CPU blocks keeps the places.
LEMMA SameCover ==
    ASSUME RefCovers, NEW f, \A r \in Req : f[r].cpu = st[r].cpu
    PROVE  \A c \in Cpu : ref[c] >= Cardinality(Places(f, Req, c))
<1> SUFFICES ASSUME NEW c \in Cpu PROVE ref[c] >= Cardinality(Places(f, Req, c))
  OBVIOUS
<1>1. Places(f, Req, c) = Places(st, Req, c)
  BY PlacesSame, SMT
<1> QED BY <1>1 DEF RefCovers, UsesOf, Places

\* Holders and loaders of a block are finitely many.
LEMMA GpuFinite ==
    ASSUME NEW g
    PROVE  /\ IsFiniteSet(Holders(g)) /\ IsFiniteSet(Loaders(g))
           /\ Cardinality(Holders(g)) \in Nat /\ Cardinality(Loaders(g)) \in Nat
<1>1. Holders(g) \in SUBSET Req /\ Loaders(g) \in SUBSET Req
  BY DEF Holders, Loaders
<1> QED BY <1>1, SetAssumption, FS_Subset, FS_CardinalityType

\* Nobody holds a free block.
LEMMA FreeIsUnheld ==
    ASSUME GpuExact, NEW g \in FreeGpu
    PROVE  Holders(g) = {} /\ Loaders(g) = {}
<1>1. g \in Gpu /\ gref[g] = 0
  BY DEF FreeGpu
<1>2. 0 = Cardinality(Holders(g)) + Cardinality(Loaders(g))
  BY <1>1 DEF GpuExact
<1>3. Cardinality(Holders(g)) = 0 /\ Cardinality(Loaders(g)) = 0
  BY ONLY <1>2, GpuFinite
<1> QED BY <1>3, GpuFinite, FS_EmptySet

-----------------------------------------------------------------------------
(* The accounting of the GPU pool, step by step *)

\* A free block appended to a table has one holder.
LEMMA GpuGrow ==
    ASSUME TypeOK, GpuExact, NEW r \in Req, NEW g \in FreeGpu,
           table' = [table EXCEPT ![r] = Append(@, g)],
           gref' = [gref EXCEPT ![g] = 1],
           st' = st
    PROVE  GpuExact'
<1>1. g \in Gpu /\ gref \in [Gpu -> Nat] /\ table \in [Req -> Seq(Gpu)]
  BY DEF FreeGpu, TypeOK
<1>2. TableOf(r)' = TableOf(r) \cup {g}
  <2> DEFINE t == table[r]  u == table'[r]
  <2>1. t \in Seq(Gpu) /\ u = Append(t, g)
    BY <1>1
  <2> HIDE DEF t, u
  <2>2. /\ DOMAIN u = 1 .. Len(t) + 1 /\ DOMAIN t = 1 .. Len(t) /\ Len(t) \in Nat
        /\ u[Len(t) + 1] = g /\ \A i \in 1 .. Len(t) : u[i] = t[i]
    BY ONLY <2>1, <1>1
  <2>3. {u[i] : i \in DOMAIN u} = {t[i] : i \in DOMAIN t} \cup {g}
    BY ONLY <2>2
  <2> QED BY <2>3 DEF TableOf, t, u
<1>3. \A q \in Req \ {r} : TableOf(q)' = TableOf(q)
  BY <1>1 DEF TableOf
<1>4. \A q \in Req : LoadTargets(q)' = LoadTargets(q)
  BY DEF LoadTargets
<1> SUFFICES ASSUME NEW x \in Gpu
             PROVE  gref'[x] = Cardinality(Holders(x)') + Cardinality(Loaders(x)')
  BY DEF GpuExact
<1>5. Loaders(x)' = Loaders(x)
  BY <1>4 DEF Loaders
<1>6. CASE x = g
  <2>1. Holders(x)' = {r}
    BY <1>2, <1>3, <1>6, FreeIsUnheld, SMT DEF Holders
  <2>2. Loaders(x)' = {}
    BY <1>5, <1>6, FreeIsUnheld
  <2>3. gref'[x] = 1
    BY <1>1, <1>6
  <2>4. Cardinality({r}) = 1 /\ Cardinality({}) = 0
    BY FS_Singleton, FS_EmptySet
  <2> QED BY ONLY <2>1, <2>2, <2>3, <2>4
<1>7. CASE x # g
  <2>1. Holders(x)' = Holders(x)
    BY <1>2, <1>3, <1>7 DEF Holders
  <2>2. gref'[x] = gref[x]
    BY <1>1, <1>7
  <2> QED BY <2>1, <2>2, <1>5 DEF GpuExact
<1> QED BY <1>6, <1>7

\* A table given back has one holder less for each of its blocks.
LEMMA GpuRelease ==
    ASSUME TypeOK, GpuExact, NEW r \in Req, ReleaseTable(r),
           \A q \in Req : st'[q].load = st[q].load
    PROVE  GpuExact' /\ gref' \in [Gpu -> Nat]
<1>1. gref \in [Gpu -> Nat] /\ table \in [Req -> Seq(Gpu)]
  BY DEF TypeOK
<1>2. TableOf(r)' = {}
  BY <1>1, SMT DEF TableOf, ReleaseTable
<1>3. \A q \in Req \ {r} : TableOf(q)' = TableOf(q)
  BY <1>1 DEF TableOf, ReleaseTable
<1>4. \A q \in Req : LoadTargets(q)' = LoadTargets(q)
  BY DEF LoadTargets
<1> SUFFICES ASSUME NEW x \in Gpu
             PROVE  /\ gref'[x] = Cardinality(Holders(x)') + Cardinality(Loaders(x)')
                    /\ gref'[x] \in Nat
  BY DEF GpuExact, ReleaseTable
<1>5. Loaders(x)' = Loaders(x)
  BY <1>4 DEF Loaders
<1>6. Holders(x)' = Holders(x) \ {r}
  BY <1>2, <1>3 DEF Holders
<1>7. r \in Holders(x) <=> x \in TableOf(r)
  BY DEF Holders
<1>8. Cardinality(Holders(x) \ {r}) = IF x \in TableOf(r) THEN Cardinality(Holders(x)) - 1
                                      ELSE Cardinality(Holders(x))
  BY <1>7, GpuFinite, FS_RemoveElement
<1>9. gref'[x] = IF x \in TableOf(r) THEN gref[x] - 1 ELSE gref[x]
  BY DEF ReleaseTable
<1>10. /\ Cardinality(Holders(x)) \in Nat /\ Cardinality(Loaders(x)) \in Nat
       /\ gref[x] = Cardinality(Holders(x)) + Cardinality(Loaders(x))
  BY GpuFinite DEF GpuExact
<1>11. gref'[x] = Cardinality(Holders(x) \ {r}) + Cardinality(Loaders(x))
  BY ONLY <1>8, <1>9, <1>10
<1>12. Cardinality(Holders(x) \ {r}) \in Nat
  BY GpuFinite, FS_RemoveElement, FS_CardinalityType
<1> QED BY ONLY <1>5, <1>6, <1>10, <1>11, <1>12

\* A request without blocks takes a table and pins some of its blocks.
LEMMA GpuTake ==
    ASSUME TypeOK, GpuExact, NEW r \in Req, NEW k, NEW t, NEW pin,
           TableOf(r) = {}, LoadTargets(r) = {}, TakeTable(r, k, t, pin),
           LoadTargets(r)' = pin,
           \A q \in Req \ {r} : st'[q].load = st[q].load
    PROVE  GpuExact' /\ gref' \in [Gpu -> Nat]
<1> DEFINE held == {t[i] : i \in DOMAIN t}
<1>1. gref \in [Gpu -> Nat] /\ table \in [Req -> Seq(Gpu)]
  BY DEF TypeOK
<1>2. TableOf(r)' = held
  BY <1>1 DEF TableOf, TakeTable
<1>3. \A q \in Req \ {r} : TableOf(q)' = TableOf(q) /\ LoadTargets(q)' = LoadTargets(q)
  BY <1>1 DEF TableOf, TakeTable, LoadTargets
<1>4. \A x \in Gpu : gref'[x] = gref[x] + (IF x \in held THEN 1 ELSE 0)
                                       + (IF x \in pin THEN 1 ELSE 0)
  BY DEF TakeTable
<1> HIDE DEF held
<1> SUFFICES ASSUME NEW x \in Gpu
             PROVE  /\ gref'[x] = Cardinality(Holders(x)') + Cardinality(Loaders(x)')
                    /\ gref'[x] \in Nat
  BY DEF GpuExact, TakeTable
<1>5. Holders(x)' = IF x \in held THEN Holders(x) \cup {r} ELSE Holders(x)
  BY <1>2, <1>3, SMT DEF Holders
<1>6. Loaders(x)' = IF x \in pin THEN Loaders(x) \cup {r} ELSE Loaders(x)
  BY <1>3, SMT DEF Loaders
<1>7. r \notin Holders(x) /\ r \notin Loaders(x)
  BY DEF Holders, Loaders
<1>8. /\ Cardinality(Holders(x) \cup {r}) = Cardinality(Holders(x)) + 1
      /\ Cardinality(Loaders(x) \cup {r}) = Cardinality(Loaders(x)) + 1
  BY <1>7, GpuFinite, FS_AddElement
<1>9. /\ Cardinality(Holders(x)) \in Nat /\ Cardinality(Loaders(x)) \in Nat
      /\ gref[x] = Cardinality(Holders(x)) + Cardinality(Loaders(x))
  BY GpuFinite DEF GpuExact
<1>10. Cardinality(Holders(x)') = Cardinality(Holders(x)) + (IF x \in held THEN 1 ELSE 0)
  BY ONLY <1>5, <1>8, <1>9
<1>11. Cardinality(Loaders(x)') = Cardinality(Loaders(x)) + (IF x \in pin THEN 1 ELSE 0)
  BY ONLY <1>6, <1>8, <1>9
<1> QED BY ONLY <1>4, <1>9, <1>10, <1>11

\* Restores that end are unpinned, and an aborted request gives its table back.
LEMMA GpuEndLoads ==
    ASSUME TypeOK, GpuExact, NEW R \in SUBSET Req, EndLoads(R),
           \A q \in R : st'[q].load = {},
           \A q \in Req \ R : st'[q].load = st[q].load
    PROVE  GpuExact' /\ gref' \in [Gpu -> Nat]
<1> DEFINE aborted == {r \in R : status[r] = "aborting"}
<1>1. gref \in [Gpu -> Nat] /\ table \in [Req -> Seq(Gpu)]
  BY DEF TypeOK
<1>2. \A q \in Req : TableOf(q)' = IF q \in aborted THEN {} ELSE TableOf(q)
  <2>1. \A q \in Req : table'[q] = IF q \in aborted THEN <<>> ELSE table[q]
    BY DEF EndLoads
  <2> HIDE DEF aborted
  <2> QED BY ONLY <2>1 DEF TableOf
<1>3. \A q \in Req : LoadTargets(q)' = IF q \in R THEN {} ELSE LoadTargets(q)
  BY DEF LoadTargets
<1> SUFFICES ASSUME NEW x \in Gpu
             PROVE  /\ gref'[x] = Cardinality(Holders(x)') + Cardinality(Loaders(x)')
                    /\ gref'[x] \in Nat
  BY DEF GpuExact, EndLoads
<1> DEFINE A == {r \in R : x \in LoadTargets(r)}
           B == {r \in aborted : x \in TableOf(r)}
<1>4. gref'[x] = gref[x] - Cardinality(A) - Cardinality(B)
  BY DEF EndLoads
<1>5. Holders(x)' = Holders(x) \ B /\ Holders(x) \cap B = B
  BY <1>2 DEF Holders
<1>6. Loaders(x)' = Loaders(x) \ A /\ Loaders(x) \cap A = A
  BY <1>3 DEF Loaders
<1> HIDE DEF A, B
<1>7. /\ Cardinality(Holders(x)') = Cardinality(Holders(x)) - Cardinality(B)
      /\ Cardinality(Holders(x)') \in Nat
  BY <1>5, GpuFinite, FS_Difference, FS_CardinalityType
<1>8. /\ Cardinality(Loaders(x)') = Cardinality(Loaders(x)) - Cardinality(A)
      /\ Cardinality(Loaders(x)') \in Nat
  BY <1>6, GpuFinite, FS_Difference, FS_CardinalityType
<1>9. /\ IsFiniteSet(A) /\ IsFiniteSet(B)
      /\ Cardinality(A) \in Nat /\ Cardinality(B) \in Nat
  <2>1. A \in SUBSET Loaders(x) /\ B \in SUBSET Holders(x)
    BY <1>5, <1>6
  <2> QED BY <2>1, GpuFinite, FS_Subset, FS_CardinalityType
<1>10. /\ Cardinality(Holders(x)) \in Nat /\ Cardinality(Loaders(x)) \in Nat
       /\ gref[x] = Cardinality(Holders(x)) + Cardinality(Loaders(x))
  BY GpuFinite DEF GpuExact
<1> QED BY ONLY <1>4, <1>7, <1>8, <1>9, <1>10

\* A change that touches neither pool nor states keeps the CPU accounting.
LEMMA CoverUnchanged ==
    ASSUME RefCovers, ref' = ref, st' = st
    PROVE  RefCovers'
  BY SMT DEF RefCovers, UsesOf

\* A step that touches no table and no restore keeps the GPU accounting.
LEMMA GpuUnchanged ==
    ASSUME GpuExact, gref' = gref, table' = table, \A q \in Req : st'[q].load = st[q].load
    PROVE  GpuExact'
<1>1. \A q \in Req : TableOf(q)' = TableOf(q) /\ LoadTargets(q)' = LoadTargets(q)
  BY DEF TableOf, LoadTargets
<1>2. \A g \in Gpu : Holders(g)' = Holders(g) /\ Loaders(g)' = Loaders(g)
  BY <1>1 DEF Holders, Loaders
<1> QED BY <1>2 DEF GpuExact

-----------------------------------------------------------------------------
(* The CPU blocks of a new state *)

\* The sets _create_preempt_state counts with are finite.
LEMMA CountsFinite ==
    ASSUME TypeOK, NEW r \in Req, NEW new
    PROVE  /\ IsFiniteSet(Missing(r)) /\ Cardinality(Missing(r)) \in Nat
           /\ \A S \in SUBSET (1 .. computed[r]) : IsFiniteSet(S) /\ Cardinality(S) \in Nat
           /\ \A i : Turn(r, new, i) \in Nat
           /\ \A i \in Fresh(r, new) : i \in Nat /\ Turn(r, new, i) >= 1
           /\ Fresh(r, new) \in SUBSET (1 .. computed[r])
<1>1. computed[r] \in Nat
  BY DEF TypeOK
<1>2. IsFiniteSet(1 .. computed[r])
  BY ONLY <1>1, FS_Interval
<1>3. \A S \in SUBSET (1 .. computed[r]) : IsFiniteSet(S) /\ Cardinality(S) \in Nat
  BY <1>2, FS_Subset, FS_CardinalityType
<1>4. Missing(r) \in SUBSET (1 .. computed[r]) /\ Fresh(r, new) \in SUBSET (1 .. computed[r])
  BY DEF Missing, Fresh
<1>5. ASSUME NEW i PROVE {j \in Fresh(r, new) : j <= i} \in SUBSET (1 .. computed[r])
  BY <1>4
<1>6. \A i : Turn(r, new, i) \in Nat
  BY <1>3, <1>5 DEF Turn
<1>7. ASSUME NEW i \in Fresh(r, new) PROVE i \in Nat /\ Turn(r, new, i) >= 1
  <2> DEFINE T == {j \in Fresh(r, new) : j <= i}
  <2>1. i \in Nat /\ i \in T
    BY ONLY <1>1, <1>4
  <2>2. IsFiniteSet(T) /\ Cardinality(T) \in Nat
    BY <1>3, <1>5
  <2>3. Cardinality(T) # 0
    BY <2>1, <2>2, FS_EmptySet
  <2> QED BY ONLY <2>1, <2>2, <2>3 DEF Turn
<1> QED BY <1>3, <1>4, <1>6, <1>7

\* No two fresh blocks have the same turn.
LEMMA TurnInjective ==
    ASSUME TypeOK, NEW r \in Req, NEW new,
           NEW i \in Fresh(r, new), NEW j \in Fresh(r, new), i < j
    PROVE  Turn(r, new, i) # Turn(r, new, j)
<1> DEFINE S == {k \in Fresh(r, new) : k <= i}
           T == {k \in Fresh(r, new) : k <= j}
<1>1. i \in Nat /\ j \in Nat /\ \A k \in Fresh(r, new) : k \in Nat
  BY CountsFinite
<1>2. S \in SUBSET T /\ j \in T /\ j \notin S
  <2>1. \A k \in Fresh(r, new) : k <= i => k <= j
    BY <1>1, SMT
  <2>2. j <= j /\ ~(j <= i)
    BY <1>1, SMT
  <2> QED BY <2>1, <2>2
<1>3. T \in SUBSET (1 .. computed[r])
  BY CountsFinite
<1>4. IsFiniteSet(T)
  BY <1>3, CountsFinite
<1>5. Cardinality(S) # Cardinality(T)
  <2> HIDE DEF S, T
  <2> QED BY <1>2, <1>4, FS_Subset
<1> QED BY <1>5 DEF Turn

\* A block the iterator serves, or that was found by hash, is a CPU block.
LEMMA CpuForType ==
    ASSUME TypeOK, NEW r \in Req, NEW new \in NewBlocks(Cardinality(Missing(r))),
           NEW i \in Served(r, new)
    PROVE  /\ CpuFor(r, new, i) \in Cpu
           /\ i \in Fresh(r, new) => /\ CpuFor(r, new, i) = new[Turn(r, new, i)]
                                     /\ Turn(r, new, i) \in DOMAIN new
           /\ i \notin Fresh(r, new) => Hash(r, i) \in Hashed
<1> DEFINE n == Cardinality(Missing(r))
<1>1. n \in Nat /\ Turn(r, new, i) \in Nat
  BY CountsFinite
<1>2. new \in [1 .. n -> FreeCpu] /\ FreeCpu \subseteq Cpu
  BY DEF NewBlocks, FreeCpu
<1>3. i \in 1 .. computed[r] /\ Turn(r, new, i) <= n
  BY DEF Served
<1>4. CASE i \in Fresh(r, new)
  <2>1. Turn(r, new, i) \in 1 .. n
    BY <1>1, <1>3, <1>4, CountsFinite, SMT
  <2> QED BY <1>2, <1>4, <2>1 DEF CpuFor
<1>5. CASE i \notin Fresh(r, new)
  <2>1. Hash(r, i) # NoHash
    BY <1>3, <1>5 DEF Fresh
  <2>2. Hash(r, i) \in Hashed
    BY <2>1 DEF Hash
  <2>3. CachedAfter(new, Hash(r, i)) # NoBlock \/ pending[Hash(r, i)] # NoBlock
    BY <1>3, <1>5 DEF Fresh
  <2>4. cached[Hash(r, i)] \in Cpu \cup {NoBlock} /\ pending[Hash(r, i)] \in Cpu \cup {NoBlock}
    BY <2>2 DEF TypeOK
  <2> QED BY <1>5, <2>2, <2>3, <2>4 DEF CpuFor, CachedAfter
<1> QED BY <1>4, <1>5

\* Taking CPU blocks keeps the types of the pool and takes no reference away.
LEMMA TakeTypes ==
    ASSUME TypeOK, NEW r \in Req, NEW new \in NewBlocks(Cardinality(Missing(r))),
           TakeCpuBlocks(r, new)
    PROVE  /\ ref' \in [Cpu -> Nat] /\ \A c \in Cpu : ref'[c] >= ref[c]
           /\ older' \subseteq Cpu \X Cpu
           /\ cached' \in [Hashed -> Cpu \cup {NoBlock}]
           /\ bhash' \in [Cpu -> Hashed \cup {NoHash}]
           /\ pending' \in [Hashed -> Cpu \cup {NoBlock}]
<1> DEFINE touched(c) == {i \in Served(r, new) \ Fresh(r, new) : CpuFor(r, new, i) = c}
           marks == {<<Hash(r, i), CpuFor(r, new, i)>> : i \in FreshHashed(r, new)}
<1>1. /\ ref \in [Cpu -> Nat] /\ older \subseteq Cpu \X Cpu
      /\ cached \in [Hashed -> Cpu \cup {NoBlock}]
      /\ bhash \in [Cpu -> Hashed \cup {NoHash}]
      /\ pending \in [Hashed -> Cpu \cup {NoBlock}]
  BY DEF TypeOK
<1>2. \A m \in marks : m[1] \in Hashed /\ m[2] \in Cpu
  <2> SUFFICES ASSUME NEW i \in FreshHashed(r, new)
               PROVE  Hash(r, i) \in Hashed /\ CpuFor(r, new, i) \in Cpu
    BY SMT
  <2>1. i \in Served(r, new) /\ Hash(r, i) # NoHash
    BY DEF FreshHashed
  <2> QED BY <2>1, CpuForType DEF Hash
<1>3. /\ ref' = [c \in Cpu |-> (IF c \in Taken(new) THEN 1 ELSE ref[c]) + Cardinality(touched(c))]
      /\ older' = {p \in older : ref'[p[1]] = 0 /\ ref'[p[2]] = 0}
      /\ cached' = [h \in Hashed |-> CachedAfter(new, h)]
      /\ bhash' = [c \in Cpu |-> IF \E m \in marks : m[2] = c
                                 THEN (CHOOSE m \in marks : m[2] = c)[1]
                                 ELSE HashAfter(new, c)]
      /\ pending' = [h \in Hashed |-> IF \E m \in marks : m[1] = h
                                      THEN (CHOOSE m \in marks : m[1] = h)[2]
                                      ELSE pending[h]]
  BY DEF TakeCpuBlocks
<1>4. \A c : Cardinality(touched(c)) \in Nat
  <2> SUFFICES ASSUME NEW c PROVE Cardinality(touched(c)) \in Nat
    OBVIOUS
  <2>1. touched(c) \in SUBSET (1 .. computed[r])
    BY DEF Served
  <2> QED BY <2>1, CountsFinite
<1>5. \A c \in Taken(new) : c \in Cpu /\ ref[c] = 0
  <2>1. new \in [1 .. Cardinality(Missing(r)) -> FreeCpu]
    BY DEF NewBlocks
  <2> QED BY <2>1 DEF Taken, FreeCpu
<1> HIDE DEF touched, marks
<1>6. ref' \in [Cpu -> Nat] /\ \A c \in Cpu : ref'[c] >= ref[c]
  BY ONLY <1>1, <1>3, <1>4, <1>5
<1>7. older' \subseteq Cpu \X Cpu
  BY <1>1, <1>3
<1>8. cached' \in [Hashed -> Cpu \cup {NoBlock}]
  BY <1>1, <1>3 DEF CachedAfter
<1>9. bhash' \in [Cpu -> Hashed \cup {NoHash}]
  BY <1>1, <1>2, <1>3 DEF HashAfter
<1>10. pending' \in [Hashed -> Cpu \cup {NoBlock}]
  BY <1>1, <1>2, <1>3
<1> QED BY <1>6, <1>7, <1>8, <1>9, <1>10

\* The blocks of a new state are counted: the new ones because get_new_blocks
\* counts each once and no two positions get the same, the shared ones by touch.
LEMMA TakeCovers ==
    ASSUME TypeOK, RefCovers, NEW r \in Req,
           NEW new \in NewBlocks(Cardinality(Missing(r))),
           TakeCpuBlocks(r, new), Served(r, new) = 1 .. computed[r],
           st' = [st EXCEPT ![r] = NewState(r, new)]
    PROVE  RefCovers'
<1> SUFFICES ASSUME NEW c \in Cpu PROVE ref'[c] >= Cardinality(Places(st', Req, c))
  BY DEF RefCovers, UsesOf, Places
<1> DEFINE I == {i \in 1 .. computed[r] : CpuFor(r, new, i) = c}
           F == I \cap Fresh(r, new)
           T == {i \in Served(r, new) \ Fresh(r, new) : CpuFor(r, new, i) = c}
           P == {r} \X I
           Old == Places(st, Req, c)
<1>1. I = F \cup T /\ I \in SUBSET (1 .. computed[r])
  OBVIOUS
<1>2. /\ IsFiniteSet(I) /\ IsFiniteSet(F) /\ IsFiniteSet(T)
      /\ Cardinality(I) \in Nat /\ Cardinality(F) \in Nat /\ Cardinality(T) \in Nat
  <2>1. F \in SUBSET (1 .. computed[r]) /\ T \in SUBSET (1 .. computed[r])
    OBVIOUS
  <2> QED BY <1>1, <2>1, CountsFinite
<1>3. Cardinality(I) <= Cardinality(F) + Cardinality(T)
  <2> HIDE DEF I, F, T
  <2>1. Cardinality(F \cup T) = Cardinality(F) + Cardinality(T) - Cardinality(F \cap T)
    BY <1>2, FS_Union
  <2>2. Cardinality(F \cap T) \in Nat
    BY <1>2, FS_Intersection, FS_CardinalityType, ZenonT(60)
  <2> QED BY ONLY <1>1, <1>2, <2>1, <2>2
<1>4. IsFiniteSet(P) /\ Cardinality(P) = Cardinality(I)
  <2> HIDE DEF I
  <2>1. IsFiniteSet({r}) /\ Cardinality({r}) = 1
    BY FS_Singleton
  <2>2. IsFiniteSet({r} \X I) /\ Cardinality({r} \X I) = Cardinality({r}) * Cardinality(I)
    BY <1>2, <2>1, FS_Product
  <2> QED BY ONLY <1>2, <2>1, <2>2
<1>5. IsFiniteSet(Old) /\ Cardinality(Old) \in Nat
  <2>1. \A q \in Req : st[q].cpu \in Seq(Cpu)
    BY DEF TypeOK, StateType
  <2> QED BY <2>1, SetAssumption, PlacesFinite, FS_CardinalityType
<1>6. Places(st', Req, c) \subseteq Old \cup P
  <2>1. st'[r].cpu = [j \in 1 .. computed[r] |-> CpuFor(r, new, j)]
    BY DEF NewState, NoState, TypeOK
  <2>2. \A i \in DOMAIN st'[r].cpu : st'[r].cpu[i] = c => i \in I
    BY <2>1
  <2>3. \A q \in Req \ {r} : st'[q].cpu = st[q].cpu
    BY DEF TypeOK
  <2> HIDE DEF I
  <2> QED BY <2>2, <2>3, PlacesAdd
<1>7. /\ Cardinality(Places(st', Req, c)) \in Nat
      /\ Cardinality(Places(st', Req, c)) <= Cardinality(Old) + Cardinality(I)
  <2> HIDE DEF I, P, Old
  <2>1. IsFiniteSet(Old \cup P)
        /\ Cardinality(Old \cup P) = Cardinality(Old) + Cardinality(P) - Cardinality(Old \cap P)
    BY <1>4, <1>5, FS_Union
  <2>2. Cardinality(Old \cap P) \in Nat
    BY <1>5, FS_Intersection, FS_CardinalityType
  <2>3. Cardinality(Places(st', Req, c)) <= Cardinality(Old \cup P)
        /\ Cardinality(Places(st', Req, c)) \in Nat
    BY <1>6, <2>1, FS_Subset, FS_CardinalityType
  <2> QED BY ONLY <1>2, <1>4, <1>5, <2>1, <2>2, <2>3
<1>8. ref'[c] = (IF c \in Taken(new) THEN 1 ELSE ref[c]) + Cardinality(T)
  BY DEF TakeCpuBlocks
<1>9. ref[c] \in Nat /\ ref[c] >= Cardinality(Old)
  BY DEF TypeOK, RefCovers, UsesOf, Places
<1>10. new \in [1 .. Cardinality(Missing(r)) -> FreeCpu]
       /\ \A k \in 1 .. Cardinality(Missing(r)) : Rank(new[k]) = k - 1
  BY DEF NewBlocks
<1>11. \A i \in F : /\ CpuFor(r, new, i) = c /\ new[Turn(r, new, i)] = c
                    /\ Turn(r, new, i) \in DOMAIN new
  BY CpuForType, ZenonT(60)
<1>12. CASE c \in Taken(new)
  <2>1. ref[c] = 0
    BY <1>10, <1>12 DEF Taken, FreeCpu
  <2>2. Cardinality(F) <= 1
    <3>1. ASSUME NEW i \in F, NEW j \in F PROVE i = j
      <4>1. Turn(r, new, i) = Turn(r, new, j)
        <5>1. Rank(c) = Turn(r, new, i) - 1 /\ Rank(c) = Turn(r, new, j) - 1
          BY <1>10, <1>11
        <5> QED BY <5>1, CountsFinite, SMT
      <4>2. i \in Nat /\ j \in Nat
        BY CountsFinite
      <4>3. ~(i < j) /\ ~(j < i)
        BY <4>1, TurnInjective
      <4> QED BY ONLY <4>2, <4>3
    <3>2. ASSUME F = {} PROVE Cardinality(F) <= 1
      <4> HIDE DEF F
      <4>1. Cardinality(F) = 0
        BY <3>2, FS_EmptySet
      <4> QED BY ONLY <4>1
    <3>3. ASSUME NEW i \in F PROVE Cardinality(F) <= 1
      <4>1. F = {i}
        BY <3>1
      <4> HIDE DEF F
      <4>2. Cardinality({i}) = 1
        BY FS_Singleton, ZenonT(60)
      <4> QED BY ONLY <4>1, <4>2
    <3> QED BY <3>2, <3>3
  <2> HIDE DEF F, I, T, Old
  <2> QED BY ONLY <1>2, <1>3, <1>5, <1>7, <1>8, <1>9, <1>12, <2>1, <2>2
<1>13. CASE c \notin Taken(new)
  <2>1. F = {}
    BY <1>11, <1>13 DEF Taken
  <2>2. Cardinality(F) = 0
    BY <2>1, FS_EmptySet
  <2> HIDE DEF F, I, T, Old
  <2>3. ref'[c] = ref[c] + Cardinality(T)
    BY <1>8, <1>13
  <2>4. Cardinality(I) <= Cardinality(T)
    BY ONLY <1>2, <1>3, <2>2
  <2> QED BY ONLY <1>2, <1>5, <1>7, <1>9, <2>3, <2>4
<1> QED BY <1>12, <1>13

-----------------------------------------------------------------------------
(* The running loop *)

\* allocate_slots for a running request takes a block nobody holds.
LEMMA GrowInv ==
    ASSUME IInv, NEW r \in Req, Grow(r)
    PROVE  IInv'
<1> USE DEF IInv
<1>1. PICK g \in FreeGpu :
         /\ table' = [table EXCEPT ![r] = Append(@, g)]
         /\ gref' = [gref EXCEPT ![g] = 1]
         /\ glabel' = [glabel EXCEPT ![g] = NoHash]
  BY DEF Grow
<1>2. /\ g \in Gpu /\ pass # "waiting" /\ Wants(r)
      /\ pass' = (IF pass = "idle" THEN "running" ELSE pass)
      /\ grown' = grown \cup {r}
      /\ UNCHANGED <<status, computed, poolVars, mgrVars, wrkVars>>
  BY <1>1 DEF Grow, FreeGpu
<1>3. TypeOK'
  BY <1>1, <1>2, SMT DEF TypeOK, Pass, poolVars, mgrVars, wrkVars
<1>4. TableOK'
  <2>1. /\ status[r] = "running" /\ Len(table[r]) = computed[r]
        /\ computed[r] < Len(Blocks[r]) /\ table \in [Req -> Seq(Gpu)]
    BY <1>2 DEF Wants, TypeOK
  <2>2. Len(table'[r]) = Len(table[r]) + 1 /\ Len(table[r]) \in Nat
    BY ONLY <1>1, <1>2, <2>1
  <2>3. Len(Blocks[r]) \in Nat /\ computed[r] \in Nat
    BY ContentAssumption, SMT DEF TypeOK
  <2>4. \A q \in Req \ {r} : table'[q] = table[q]
    BY <1>1, <2>1
  <2> QED BY <1>2, <2>1, <2>2, <2>3, <2>4, SMT DEF TableOK, Fits, mgrVars
<1>5. DeadIsEmpty' /\ StateMeansStopped' /\ LoadPhase' /\ Counters'
  BY <1>2 DEF DeadIsEmpty, StateMeansStopped, LoadPhase, Counters, mgrVars
<1>6. RefCovers'
  BY <1>2, CoverUnchanged DEF poolVars, mgrVars
<1>7. GpuExact'
  BY <1>1, <1>2, GpuGrow DEF mgrVars
<1> QED BY <1>3, <1>4, <1>5, <1>6, <1>7

\* So does a waiting request's first block, and such a request has no state.
LEMMA AdmitInv ==
    ASSUME IInv, NEW r \in Req, Admit(r)
    PROVE  IInv'
<1> USE DEF IInv
<1>1. PICK g \in FreeGpu :
         /\ table' = [table EXCEPT ![r] = <<g>>]
         /\ gref' = [gref EXCEPT ![g] = 1]
         /\ glabel' = [glabel EXCEPT ![g] = NoHash]
  BY DEF Admit
<1>2. /\ g \in Gpu /\ status[r] = "new"
      /\ status' = [status EXCEPT ![r] = "running"]
      /\ pass' = "waiting" /\ grown' = grown \cup {r}
      /\ UNCHANGED <<computed, poolVars, mgrVars, wrkVars>>
  BY <1>1 DEF Admit, FreeGpu
<1>3. TypeOK'
  BY <1>1, <1>2, SMT DEF TypeOK, Pass, Status, poolVars, mgrVars, wrkVars
<1>4. table[r] = <<>>
  BY <1>2 DEF TableOK, Fits
<1>5. TableOK'
  <2>1. table'[r] = <<g>> /\ Len(table'[r]) = 1 /\ \A q \in Req \ {r} : table'[q] = table[q]
    BY <1>1 DEF TypeOK
  <2>2. computed[r] = 0
    BY <1>2, <1>4, SMT DEF TableOK, Fits, TypeOK
  <2>3. Len(Blocks[r]) >= 1
    BY ONLY ContentAssumption
  <2>4. status'[r] = "running" /\ \A q \in Req \ {r} : status'[q] = status[q]
    BY <1>2 DEF TypeOK
  <2>5. computed' = computed /\ st' = st
    BY <1>2 DEF mgrVars
  <2>6. \A q \in Req \ {r} : Fits(q)'
    BY <2>1, <2>4, <2>5 DEF TableOK, Fits
  <2>7. Fits(r)'
    BY <2>1, <2>2, <2>3, <2>4, <2>5, SMT DEF TableOK, Fits
  <2> QED BY <2>6, <2>7 DEF TableOK, Fits
<1>6. ~st[r].live
  BY <1>2 DEF StateMeansStopped
<1>7. DeadIsEmpty' /\ LoadPhase' /\ Counters'
  BY <1>2 DEF DeadIsEmpty, LoadPhase, Counters, mgrVars
<1>8. StateMeansStopped'
  BY <1>2, <1>6 DEF StateMeansStopped, mgrVars, TypeOK
<1>9. RefCovers'
  BY <1>2, CoverUnchanged DEF poolVars, mgrVars
<1>10. GpuExact'
  <2>1. table' = [table EXCEPT ![r] = Append(@, g)]
    BY ONLY <1>1, <1>4
  <2> QED BY <1>1, <1>2, <2>1, GpuGrow DEF mgrVars
<1> QED BY <1>3, <1>5, <1>7, <1>8, <1>9, <1>10

-----------------------------------------------------------------------------
(* Preemptions *)

\* The parts of the invariant that a victim's release of its table touches.
LEMMA VictimTables ==
    ASSUME TypeOK, TableOK, NEW v \in Req, ReleaseTable(v), NEW s \in Status,
           status' = [status EXCEPT ![v] = s],
           \A q \in Req \ {v} : st'[q] = st[q],
           Len(st'[v].cpu) <= Len(Blocks[v])
    PROVE  /\ TableOK'
           /\ table' \in [Req -> Seq(Gpu)] /\ computed' \in [Req -> Nat]
           /\ status' \in [Req -> Status]
<1>1. /\ table \in [Req -> Seq(Gpu)] /\ computed \in [Req -> Nat]
      /\ status \in [Req -> Status]
  BY DEF TypeOK
<1>2. /\ table' = [table EXCEPT ![v] = <<>>]
      /\ computed' = [computed EXCEPT ![v] = 0]
  BY DEF ReleaseTable
<1>3. \A q \in Req \ {v} : Fits(q)'
  BY <1>1, <1>2 DEF TableOK, Fits
<1>4. Fits(v)'
  <2>1. table'[v] = <<>> /\ computed'[v] = 0 /\ Len(table'[v]) = 0
    BY <1>1, <1>2
  <2>2. Len(Blocks[v]) \in Nat
    BY ONLY ContentAssumption
  <2> QED BY <2>1, <2>2, SMT DEF Fits
<1>5. <<>> \in Seq(Gpu) /\ 0 \in Nat
  BY SMT
<1> QED BY <1>1, <1>2, <1>3, <1>4, <1>5 DEF TableOK

\* update_state_before_preempt declines: only GPU blocks are released.
LEMMA PreemptSkippedInv ==
    ASSUME IInv, NEW v \in Req, PreemptSkipped(v)
    PROVE  IInv'
<1> USE DEF IInv
<1>1. /\ ~st[v].live /\ pass # "waiting" /\ pass' = "evicted" /\ grown' = grown \ {v}
      /\ status' = [status EXCEPT ![v] = "done"] /\ ReleaseTable(v)
      /\ UNCHANGED <<glabel, poolVars, mgrVars, wrkVars>>
  BY DEF PreemptSkipped, Victim, ReturnToPrefill
<1>2. st' = st
  BY <1>1 DEF mgrVars
<1>3. GpuExact' /\ gref' \in [Gpu -> Nat]
  BY <1>1, <1>2, GpuRelease
<1>4. /\ TableOK' /\ table' \in [Req -> Seq(Gpu)] /\ computed' \in [Req -> Nat]
      /\ status' \in [Req -> Status]
  <2>1. "done" \in Status /\ Len(st'[v].cpu) <= Len(Blocks[v])
    BY <1>2 DEF Status, TableOK, Fits
  <2> QED BY <1>1, <1>2, <2>1, VictimTables
<1>5. TypeOK'
  BY <1>1, <1>3, <1>4 DEF TypeOK, Pass, poolVars, mgrVars, wrkVars
<1>6. DeadIsEmpty' /\ LoadPhase' /\ Counters'
  BY <1>1 DEF DeadIsEmpty, LoadPhase, Counters, mgrVars
<1>7. StateMeansStopped'
  BY <1>1, <1>2 DEF StateMeansStopped, TypeOK
<1>8. RefCovers'
  BY <1>1, <1>2, CoverUnchanged DEF poolVars
<1> QED BY <1>3, <1>4, <1>5, <1>6, <1>7, <1>8

\* A victim lost to StopIteration: the counts that stay raised cover more.
LEMMA PreemptRaisedInv ==
    ASSUME IInv, NEW v \in Req, PreemptRaised(v)
    PROVE  IInv'
<1> USE DEF IInv
<1>1. /\ ~st[v].live /\ pass # "waiting" /\ pass' = "evicted" /\ grown' = grown \ {v}
      /\ status' = [status EXCEPT ![v] = "done"] /\ ReleaseTable(v)
      /\ UNCHANGED <<glabel, st, storeCtr, loadCtr, evBlocks, evReqs, counts, born, wrkVars>>
  BY DEF PreemptRaised, Victim, ReturnToPrefill
<1>2. PICK new \in NewBlocks(Cardinality(Missing(v))) : TakeCpuBlocks(v, new)
  BY DEF PreemptRaised
<1>3. /\ ref' \in [Cpu -> Nat] /\ \A c \in Cpu : ref'[c] >= ref[c]
      /\ older' \subseteq Cpu \X Cpu
      /\ cached' \in [Hashed -> Cpu \cup {NoBlock}]
      /\ bhash' \in [Cpu -> Hashed \cup {NoHash}]
      /\ pending' \in [Hashed -> Cpu \cup {NoBlock}]
  BY <1>2, TakeTypes
<1>4. GpuExact' /\ gref' \in [Gpu -> Nat]
  BY <1>1, GpuRelease
<1>5. /\ TableOK' /\ table' \in [Req -> Seq(Gpu)] /\ computed' \in [Req -> Nat]
      /\ status' \in [Req -> Status]
  <2>1. "done" \in Status /\ Len(st'[v].cpu) <= Len(Blocks[v])
    BY <1>1 DEF Status, TableOK, Fits
  <2> QED BY <1>1, <2>1, VictimTables, ZenonT(60)
<1>6. TypeOK'
  BY <1>1, <1>3, <1>4, <1>5 DEF TypeOK, Pass, wrkVars
<1>7. DeadIsEmpty' /\ LoadPhase' /\ Counters'
  BY <1>1 DEF DeadIsEmpty, LoadPhase, Counters
<1>8. StateMeansStopped'
  BY <1>1 DEF StateMeansStopped, TypeOK
<1>9. RefCovers'
  <2> SUFFICES ASSUME NEW c \in Cpu PROVE ref'[c] >= Cardinality(Places(st, Req, c))
    BY <1>1, SMT DEF RefCovers, UsesOf, Places
  <2>1. ref[c] >= Cardinality(Places(st, Req, c)) /\ ref[c] \in Nat
    BY DEF RefCovers, UsesOf, Places, TypeOK
  <2>2. Cardinality(Places(st, Req, c)) \in Nat
    BY SetAssumption, PlacesFinite, FS_CardinalityType DEF TypeOK, StateType
  <2>3. ref'[c] >= ref[c] /\ ref'[c] \in Nat
    BY <1>3
  <2> QED BY ONLY <2>1, <2>2, <2>3
<1> QED BY <1>4, <1>5, <1>6, <1>7, <1>8, <1>9

\* The record _create_preempt_state builds is a PreemptedRequestState.
LEMMA StateMade ==
    ASSUME NEW b \in Nat, NEW c \in Seq(Cpu), NEW d \in SUBSET (Gpu \X Cpu), NEW y \in BOOLEAN
    PROVE  [NoState EXCEPT !.live = TRUE, !.born = b, !.cpu = c, !.store = d, !.ready = y]
              \in StateType
  BY DEF NoState, StateType

\* A victim whose blocks are preserved gets a state and stops.
LEMMA PreemptOffloadedInv ==
    ASSUME IInv, NEW v \in Req, PreemptOffloaded(v)
    PROVE  IInv'
<1> USE DEF IInv
<1>1. /\ ~st[v].live /\ status[v] = "running" /\ pass # "waiting" /\ pass' = "evicted" /\ grown' = grown \ {v}
      /\ born < MaxPreempt /\ born' = born + 1
      /\ status' = [status EXCEPT ![v] = "preempted"] /\ ReleaseTable(v)
      /\ UNCHANGED <<glabel, storeCtr, loadCtr, evBlocks, evReqs, counts, wrkVars>>
  BY DEF PreemptOffloaded, Victim
<1>2. PICK new \in NewBlocks(Cardinality(Missing(v))) :
         /\ Served(v, new) = 1 .. computed[v]
         /\ TakeCpuBlocks(v, new)
         /\ st' = [st EXCEPT ![v] = NewState(v, new)]
  BY DEF PreemptOffloaded
<1> DEFINE s == NewState(v, new)
<1>3. /\ s.live = TRUE /\ s.born = born /\ s.sev = NoEvent /\ s.lev = NoEvent /\ s.load = {}
      /\ s.finished = FALSE /\ s.ready \in BOOLEAN
      /\ s.cpu = [i \in 1 .. computed[v] |-> CpuFor(v, new, i)]
      /\ s.store = {<<table[v][i], CpuFor(v, new, i)>> : i \in Fresh(v, new)}
  BY DEF NewState, NoState
<1>4. \A i \in 1 .. computed[v] : CpuFor(v, new, i) \in Cpu
  BY <1>2, CpuForType
<1>5. /\ computed[v] \in Nat /\ s.cpu \in Seq(Cpu) /\ Len(s.cpu) = computed[v]
  <2>1. computed[v] \in Nat
    BY DEF TypeOK
  <2>2. s.cpu \in [1 .. computed[v] -> Cpu]
    BY <1>3, <1>4, ZenonT(60)
  <2> HIDE DEF s
  <2> QED BY ONLY <2>1, <2>2
<1>6. s.store \subseteq Gpu \X Cpu
  <2>1. \A i \in 1 .. computed[v] : table[v][i] \in Gpu
    BY <1>1, SMT DEF TableOK, Fits, TypeOK
  <2> QED BY ONLY <1>3, <1>4, <2>1 DEF Fresh
<1>7. s \in StateType
  <2> DEFINE c == [i \in 1 .. computed[v] |-> CpuFor(v, new, i)]
             d == {<<table[v][i], CpuFor(v, new, i)>> : i \in Fresh(v, new)}
             y == \A i \in 1 .. computed[v] :
                     i \notin Fresh(v, new) /\ CachedAfter(new, Hash(v, i)) # NoBlock
  <2>1. c \in Seq(Cpu) /\ d \in SUBSET (Gpu \X Cpu) /\ born \in Nat
    BY <1>3, <1>5, <1>6 DEF TypeOK
  <2>2. y \in BOOLEAN
    OBVIOUS
  <2>3. s = [NoState EXCEPT !.live = TRUE, !.born = born, !.cpu = c, !.store = d, !.ready = y]
    BY DEF NewState
  <2> HIDE DEF s, c, d, y
  <2> QED BY <2>1, <2>2, <2>3, StateMade
<1>8. st'[v] = s /\ (\A q \in Req \ {v} : st'[q] = st[q]) /\ st' \in [Req -> StateType]
  BY <1>2, <1>7 DEF TypeOK
<1> HIDE DEF s
<1>9. GpuExact' /\ gref' \in [Gpu -> Nat]
  <2>1. \A q \in Req : st'[q].load = st[q].load
    BY <1>1, <1>3, <1>8 DEF DeadIsEmpty
  <2> QED BY <1>1, <2>1, GpuRelease
<1>10. /\ TableOK' /\ table' \in [Req -> Seq(Gpu)] /\ computed' \in [Req -> Nat]
       /\ status' \in [Req -> Status]
  <2>1. "preempted" \in Status /\ Len(st'[v].cpu) <= Len(Blocks[v])
    <3>1. computed[v] <= Len(table[v]) /\ Len(table[v]) <= Len(Blocks[v])
      BY <1>1 DEF TableOK, Fits
    <3>2. Len(table[v]) \in Nat /\ Len(Blocks[v]) \in Nat
      <4>1. table[v] \in Seq(Gpu)
        BY DEF TypeOK
      <4> QED BY ONLY <4>1, ContentAssumption
    <3> QED BY ONLY <1>5, <1>8, <3>1, <3>2 DEF Status
  <2> QED BY <1>1, <1>8, <2>1, VictimTables, ZenonT(60)
<1>11. TypeOK'
  <2>1. /\ ref' \in [Cpu -> Nat] /\ older' \subseteq Cpu \X Cpu
        /\ cached' \in [Hashed -> Cpu \cup {NoBlock}]
        /\ bhash' \in [Cpu -> Hashed \cup {NoHash}]
        /\ pending' \in [Hashed -> Cpu \cup {NoBlock}]
    BY <1>2, TakeTypes
  <2>2. pass' \in Pass /\ grown' \subseteq Req
    BY <1>1 DEF TypeOK, Pass
  <2>3. born' \in Nat
    <3>1. born \in Nat /\ born' = born + 1
      BY <1>1 DEF TypeOK
    <3> QED BY ONLY <3>1
  <2> QED BY <1>1, <1>8, <1>9, <1>10, <2>1, <2>2, <2>3, ZenonT(60) DEF TypeOK, wrkVars
<1>12. DeadIsEmpty' /\ LoadPhase'
  BY <1>1, <1>3, <1>8, ZenonT(60) DEF DeadIsEmpty, LoadPhase
<1>13. Counters'
  <2>1. /\ storeCtr \in Nat /\ born \in Nat /\ MaxPreempt \in Nat
        /\ \A r \in Req : st[r].born \in Nat
    BY BoundAssumption DEF TypeOK, StateType
  <2>2. storeCtr' <= born' /\ born' <= MaxPreempt
    BY <1>1, <2>1, SMT DEF Counters
  <2>3. \A r \in Req \ {v} : st[r].live => st[r].born < born'
    <3>1. born' = born + 1 /\ \A r \in Req : st[r].live => st[r].born < born
      BY <1>1 DEF Counters
    <3> QED BY ONLY <2>1, <3>1
  <2>4. st'[v].born < born' /\ storeCtr' <= st'[v].born
    BY <1>1, <1>3, <1>8, <2>1, SMT DEF Counters
  <2> QED BY <1>1, <1>8, <2>2, <2>3, <2>4 DEF Counters
<1>14. StateMeansStopped'
  BY <1>1, <1>3, <1>8, ZenonT(60) DEF StateMeansStopped, TypeOK
<1>15. RefCovers'
  BY <1>2, TakeCovers
<1> QED BY <1>9, <1>10, <1>11, <1>12, <1>13, <1>14, <1>15

-----------------------------------------------------------------------------
(* Resumptions *)

\* The GPU prefix cache has at most all blocks of the request.
LEMMA LocalHitBound ==
    ASSUME NEW r \in Req
    PROVE  /\ LocalHit(r) \in Nat /\ LocalHit(r) <= Len(Blocks[r])
           /\ Len(Blocks[r]) \in Nat
           /\ NextLen(r) \in Nat /\ LocalHit(r) <= NextLen(r) /\ NextLen(r) <= Len(Blocks[r])
<1> DEFINE n == Len(Blocks[r])
           S == {k \in 1 .. n : \A i \in 1 .. k :
                     Blocks[r][i] \in Hashed /\ \E g \in Gpu : glabel[g] = Blocks[r][i]}
<1>1. n \in Nat
  BY ONLY ContentAssumption
<1>2. IsFiniteSet(1 .. n) /\ Cardinality(1 .. n) = n
  <2>1. /\ IsFiniteSet(1 .. n) /\ n - 1 + 1 = n /\ (1 > n => n = 0)
        /\ Cardinality(1 .. n) = IF 1 > n THEN 0 ELSE n - 1 + 1
    <3> HIDE DEF n
    <3> QED BY ONLY <1>1, FS_Interval
  <2> HIDE DEF n
  <2> QED BY <2>1
<1>3. S \in SUBSET (1 .. n)
  OBVIOUS
<1>4. Cardinality(S) \in Nat /\ Cardinality(S) <= n
  BY ONLY <1>2, <1>3, FS_Subset, FS_CardinalityType
<1>5. LocalHit(r) = Cardinality(S)
  BY DEF LocalHit
<1> HIDE DEF S
<1> QED BY ONLY <1>1, <1>4, <1>5 DEF NextLen

\* A table allocate_slots builds is a sequence of GPU blocks.
LEMMA TablesType ==
    ASSUME NEW r \in Req, NEW k \in Nat, NEW n \in Nat, NEW t \in Tables(r, k, n)
    PROVE  t \in Seq(Gpu) /\ Len(t) = n /\ DOMAIN t = 1 .. n /\ t \in [1 .. n -> Gpu]
<1>1. t \in [1 .. n -> Gpu]
  BY DEF Tables
<1> QED BY ONLY <1>1

\* Releasing states keeps the CPU accounting of the ones that stay.
LEMMA FreeCovers ==
    ASSUME TypeOK, RefCovers, NEW R \in SUBSET Req, NEW ord, FreeBlocks(R, ord),
           \A q \in R : st'[q].cpu = <<>>,
           \A q \in Req \ R : st'[q].cpu = st[q].cpu
    PROVE  RefCovers' /\ ref' \in [Cpu -> Nat] /\ older' \subseteq Cpu \X Cpu
<1>1. ref' = Untouch(R)
  BY DEF FreeBlocks
<1>2. ref' \in [Cpu -> Nat] /\ \A c \in Cpu : ref'[c] >= Cardinality(Places(st', Req, c))
  BY <1>1, ReleaseCovers
<1>3. RefCovers'
  BY <1>2 DEF RefCovers, UsesOf, Places
<1>4. older' \subseteq Cpu \X Cpu
  BY DEF FreeBlocks, TypeOK, FreeCpu
<1> QED BY <1>2, <1>3, <1>4

\* A restore: update_state_after_alloc pins the new blocks of the table.
LEMMA ResumeWithLoadInv ==
    ASSUME IInv, NEW r \in Req, ResumeWithLoad(r)
    PROVE  IInv'
<1> USE DEF IInv
<1> DEFINE k == LocalHit(r)
           n == Len(st[r].cpu)
           cpu == st[r].cpu
<1>1. /\ status[r] = "preempted" /\ st[r].live /\ st[r].ready /\ k < n
      /\ status' = [status EXCEPT ![r] = "loading"] /\ pass' = "waiting"
      /\ UNCHANGED <<computed, grown, poolVars, pending, storeCtr, loadCtr,
                     evBlocks, evReqs, counts, born, wrkVars>>
  BY DEF ResumeWithLoad
<1>2. PICK t \in Tables(r, k, n) :
         /\ TakeTable(r, k, t, {t[i] : i \in k + 1 .. n})
         /\ st' = [st EXCEPT ![r].load = {<<st[r].cpu[i], t[i]>> : i \in k + 1 .. n}]
  BY DEF ResumeWithLoad
<1> DEFINE load == {<<cpu[i], t[i]>> : i \in k + 1 .. n}
           pin == {t[i] : i \in k + 1 .. n}
<1>3. /\ k \in Nat /\ n \in Nat /\ n <= Len(Blocks[r]) /\ cpu \in Seq(Cpu)
      /\ t \in Seq(Gpu) /\ Len(t) = n /\ t \in [1 .. n -> Gpu]
  <2>1. k \in Nat /\ cpu \in Seq(Cpu)
    BY LocalHitBound DEF TypeOK, StateType
  <2>2. n \in Nat /\ n <= Len(Blocks[r])
    BY <2>1, SMT DEF TableOK, Fits
  <2> QED BY ONLY <2>1, <2>2, TablesType
<1>4. \A i \in k + 1 .. n : i \in 1 .. n /\ cpu[i] \in Cpu /\ t[i] \in Gpu
  BY ONLY <1>3
<1>5. load \in SUBSET (Cpu \X Gpu) /\ load # {}
  <2>1. n \in k + 1 .. n
    BY ONLY <1>1, <1>3
  <2>2. <<cpu[n], t[n]>> \in load
    BY <2>1
  <2> HIDE DEF k, n, cpu
  <2>3. \A p \in load : p \in Cpu \X Gpu
    BY ONLY <1>4
  <2> QED BY <2>2, <2>3
<1>6. {p[2] : p \in load} = pin
  <2> HIDE DEF k, n, cpu
  <2>1. \A p \in load : \E i \in k + 1 .. n : p[2] = t[i]
    BY SMT
  <2>2. \A i \in k + 1 .. n : <<cpu[i], t[i]>> \in load /\ <<cpu[i], t[i]>>[2] = t[i]
    OBVIOUS
  <2> HIDE DEF load
  <2>3. ASSUME NEW x \in {p[2] : p \in load} PROVE x \in pin
    BY <2>1
  <2>4. ASSUME NEW x \in pin PROVE x \in {p[2] : p \in load}
    <3>1. PICK i \in k + 1 .. n : x = t[i]
      OBVIOUS
    <3> QED BY <2>2, <3>1
  <2> HIDE DEF pin
  <2> QED BY <2>3, <2>4
<1> HIDE DEF load
<1>7. /\ st'[r] = [st[r] EXCEPT !.load = load]
      /\ \A q \in Req \ {r} : st'[q] = st[q]
  BY <1>2 DEF load, TypeOK
<1>8. /\ st'[r] \in StateType /\ st'[r].load = load /\ st'[r].cpu = st[r].cpu
      /\ st'[r].live /\ st'[r].ready /\ st'[r].lev = st[r].lev /\ st'[r].sev = st[r].sev
      /\ st'[r].born = st[r].born /\ ~st'[r].finished
  <2>1. st[r] \in StateType
    BY DEF TypeOK
  <2>2. st'[r] \in StateType /\ st'[r].load = load
    BY <1>5, <1>7, <2>1 DEF StateType
  <2>3. /\ st'[r].cpu = st[r].cpu /\ st'[r].live = st[r].live /\ st'[r].ready = st[r].ready
        /\ st'[r].lev = st[r].lev /\ st'[r].sev = st[r].sev /\ st'[r].born = st[r].born
        /\ st'[r].finished = st[r].finished
    BY <1>7, <2>1 DEF StateType
  <2>4. ~st[r].finished
    BY <1>1, ZenonT(60) DEF StateMeansStopped
  <2> QED BY <1>1, <2>2, <2>3, <2>4, ZenonT(60)
<1>9. table[r] = <<>> /\ st[r].load = {} /\ st[r].lev = NoEvent
  BY <1>1 DEF TableOK, Fits, StateMeansStopped, LoadPhase
<1>10. GpuExact' /\ gref' \in [Gpu -> Nat]
  <2>1. TableOf(r) = {} /\ LoadTargets(r) = {}
    BY ONLY <1>9 DEF TableOf, LoadTargets
  <2>2. LoadTargets(r)' = pin
    BY <1>6, <1>8 DEF LoadTargets
  <2> QED BY <1>2, <1>7, <2>1, <2>2, GpuTake, ZenonT(60)
<1>11. table'[r] = t /\ (\A q \in Req \ {r} : table'[q] = table[q])
       /\ table' \in [Req -> Seq(Gpu)] /\ glabel' \in [Gpu -> Hashed \cup {NoHash}]
  BY <1>2, <1>3 DEF TakeTable, TypeOK
<1>12. TypeOK'
  BY <1>1, <1>2, <1>8, <1>7, <1>10, <1>11, ZenonT(60) DEF TypeOK, Status, Pass, poolVars, wrkVars
<1>13. TableOK'
  <2>1. \A q \in Req \ {r} : Fits(q)'
    BY <1>1, <1>7, <1>11 DEF TableOK, Fits, TypeOK
  <2>2. computed[r] <= 0 /\ computed[r] \in Nat
    BY <1>1, <1>9, ZenonT(60) DEF TableOK, Fits, TypeOK
  <2>3. status'[r] = "loading"
    BY <1>1 DEF TypeOK
  <2>4. Fits(r)'
    BY <1>1, <1>3, <1>8, <1>11, <2>2, <2>3 DEF Fits
  <2> QED BY <2>1, <2>4 DEF TableOK
<1>14. DeadIsEmpty' /\ LoadPhase'
  BY <1>1, <1>5, <1>7, <1>8, <1>9, ZenonT(60) DEF DeadIsEmpty, LoadPhase
<1>15. StateMeansStopped'
  BY <1>1, <1>5, <1>7, <1>8, ZenonT(60) DEF StateMeansStopped, TypeOK
<1>16. Counters'
  BY <1>1, <1>7, <1>8 DEF Counters
<1>17. RefCovers'
  <2>1. \A q \in Req : st'[q].cpu = st[q].cpu
    BY <1>7, <1>8
  <2>2. \A c \in Cpu : ref[c] >= Cardinality(Places(st', Req, c))
    BY <2>1, SameCover
  <2> QED BY <1>1, <2>2 DEF RefCovers, UsesOf, Places, poolVars
<1> QED BY <1>10, <1>12, <1>13, <1>14, <1>15, <1>16, <1>17

\* A state that is dropped leaves the dictionary, the others stay.
LEMMA Dropped ==
    ASSUME TypeOK, NEW R \in SUBSET Req, st' = DropStates(R)
    PROVE  /\ st' \in [Req -> StateType]
           /\ \A q \in Req \ R : st'[q] = st[q]
           /\ \A q \in R : ~st'[q].live /\ st'[q].cpu = <<>> /\ st'[q].load = {}
<1>1. NoState \in StateType
  BY ONLY TRUE DEF NoState, StateType
<1>2. ~NoState.live /\ NoState.cpu = <<>> /\ NoState.load = {}
  BY DEF NoState
<1> HIDE DEF NoState
<1>3. st \in [Req -> StateType]
  BY DEF TypeOK
<1>4. \A q \in Req : st'[q] = IF q \in R THEN NoState ELSE st[q]
  BY DEF DropStates
<1>5. st' \in [Req -> StateType]
  BY <1>1, <1>3 DEF DropStates
<1> QED BY <1>2, <1>4, <1>5

\* What dropping the state of a preempted request preserves.
LEMMA DropUnneededKeeps ==
    ASSUME IInv, NEW r \in Req, DropUnneeded(r), storeCtr' = storeCtr, born' = born,
           NEW s \in Status, status' = [status EXCEPT ![r] = s],
           pass' = "waiting"
    PROVE  /\ st' \in [Req -> StateType] /\ ref' \in [Cpu -> Nat]
           /\ older' \subseteq Cpu \X Cpu
           /\ table[r] = <<>> /\ computed[r] = 0 /\ st[r].load = {}
           /\ \A q \in Req : st'[q].load = st[q].load
           /\ \A q \in Req \ {r} : st'[q] = st[q]
           /\ Len(st'[r].cpu) = 0
           /\ RefCovers' /\ DeadIsEmpty' /\ LoadPhase' /\ Counters' /\ StateMeansStopped'
<1> USE DEF IInv
<1>1. status[r] = "preempted" /\ st' = DropStates({r}) /\ FreeBlocks({r}, BirthOrder)
  BY DEF DropUnneeded
<1>2. /\ st' \in [Req -> StateType]
      /\ \A q \in Req \ {r} : st'[q] = st[q]
      /\ ~st'[r].live /\ st'[r].cpu = <<>> /\ st'[r].load = {}
  BY <1>1, Dropped
<1>3. RefCovers' /\ ref' \in [Cpu -> Nat] /\ older' \subseteq Cpu \X Cpu
  <2>1. {r} \in SUBSET Req /\ \A q \in {r} : st'[q].cpu = <<>>
    BY <1>2
  <2>2. \A q \in Req \ {r} : st'[q].cpu = st[q].cpu
    BY <1>2
  <2>3. FreeBlocks({r}, BirthOrder)
    BY <1>1
  <2> QED BY <2>1, <2>2, <2>3, FreeCovers
<1>4. table[r] = <<>> /\ computed[r] = 0
  BY <1>1, SMT DEF TableOK, Fits, TypeOK
<1>5. st[r].load = {}
  BY <1>1 DEF StateMeansStopped, DeadIsEmpty
<1>6. DeadIsEmpty' /\ LoadPhase' /\ Counters'
  BY <1>2 DEF DeadIsEmpty, LoadPhase, Counters
<1>7. StateMeansStopped'
  BY <1>2 DEF StateMeansStopped, TypeOK
<1> QED BY <1>2, <1>3, <1>4, <1>5, <1>6, <1>7

\* A resumption from the GPU prefix cache drops the CPU copy first.
LEMMA ResumeLocalInv ==
    ASSUME IInv, NEW r \in Req, ResumeLocal(r)
    PROVE  IInv'
<1> USE DEF IInv
<1> DEFINE k == LocalHit(r)
           n == NextLen(r)
<1>1. /\ DropUnneeded(r) /\ computed' = [computed EXCEPT ![r] = k]
      /\ grown' = IF n > k THEN grown \cup {r} ELSE grown
      /\ status' = [status EXCEPT ![r] = "running"] /\ pass' = "waiting"
      /\ UNCHANGED <<bhash, cached, pending, storeCtr, loadCtr,
                     evBlocks, evReqs, counts, born, wrkVars>>
  BY DEF ResumeLocal
<1>2. PICK t \in Tables(r, k, n) : TakeTable(r, k, t, {})
  BY DEF ResumeLocal
<1>3. /\ k \in Nat /\ n \in Nat /\ k <= n /\ n <= Len(Blocks[r])
      /\ Len(Blocks[r]) \in Nat
  BY LocalHitBound
<1>4. t \in Seq(Gpu) /\ Len(t) = n
  BY <1>3, TablesType
<1>5. /\ st' \in [Req -> StateType] /\ ref' \in [Cpu -> Nat]
      /\ older' \subseteq Cpu \X Cpu
      /\ table[r] = <<>> /\ computed[r] = 0 /\ st[r].load = {}
      /\ \A q \in Req : st'[q].load = st[q].load
      /\ \A q \in Req \ {r} : st'[q] = st[q]
      /\ Len(st'[r].cpu) = 0
      /\ RefCovers' /\ DeadIsEmpty' /\ LoadPhase' /\ Counters' /\ StateMeansStopped'
  <2>1. "running" \in Status
    BY DEF Status
  <2> QED BY <1>1, <2>1, DropUnneededKeeps
<1> HIDE DEF k, n
<1>6. GpuExact' /\ gref' \in [Gpu -> Nat]
  <2>1. TableOf(r) = {} /\ LoadTargets(r) = {} /\ LoadTargets(r)' = {}
    <3>1. DOMAIN <<>> = {}
      BY SMT
    <3> QED BY <1>5, <3>1 DEF TableOf, LoadTargets
  <2> QED BY <1>2, <1>5, <2>1, GpuTake, ZenonT(60)
<1>7. table'[r] = t /\ (\A q \in Req \ {r} : table'[q] = table[q])
      /\ table' \in [Req -> Seq(Gpu)] /\ glabel' \in [Gpu -> Hashed \cup {NoHash}]
  BY <1>2, <1>4 DEF TakeTable, TypeOK
<1>8. TypeOK'
  BY <1>1, <1>3, <1>5, <1>6, <1>7 DEF TypeOK, Status, Pass, wrkVars
<1>9. TableOK'
  <2>1. \A q \in Req \ {r} : Fits(q)'
    BY <1>1, <1>5, <1>7 DEF TableOK, Fits, TypeOK
  <2>2. computed'[r] = k /\ status'[r] = "running"
    BY <1>1 DEF TypeOK
  <2>3. Fits(r)'
    BY ONLY <1>3, <1>4, <1>5, <1>7, <2>2 DEF Fits
  <2> QED BY <2>1, <2>3 DEF TableOK
<1> QED BY <1>5, <1>6, <1>8, <1>9

\* The copy is dropped even when no table can be allocated in this pass.
LEMMA ResumeNoRoomInv ==
    ASSUME IInv, NEW r \in Req, ResumeNoRoom(r)
    PROVE  IInv'
<1> USE DEF IInv
<1>1. /\ DropUnneeded(r) /\ pass' = "waiting"
      /\ UNCHANGED <<status, table, computed, grown, gpuVars, bhash, cached,
                     pending, storeCtr, loadCtr, evBlocks, evReqs, counts, born, wrkVars>>
  BY DEF ResumeNoRoom
<1>2. status' = [status EXCEPT ![r] = status[r]] /\ status[r] \in Status
  BY <1>1 DEF TypeOK
<1>3. /\ st' \in [Req -> StateType] /\ ref' \in [Cpu -> Nat]
      /\ older' \subseteq Cpu \X Cpu
      /\ \A q \in Req : st'[q].load = st[q].load
      /\ \A q \in Req \ {r} : st'[q] = st[q]
      /\ Len(st'[r].cpu) = 0
      /\ RefCovers' /\ DeadIsEmpty' /\ LoadPhase' /\ Counters' /\ StateMeansStopped'
  BY <1>1, <1>2, DropUnneededKeeps
<1>4. GpuExact'
  BY <1>1, <1>3, GpuUnchanged DEF gpuVars
<1>5. TypeOK'
  BY <1>1, <1>3 DEF TypeOK, Pass, gpuVars, wrkVars
<1>6. TableOK'
  <2>1. \A q \in Req \ {r} : Fits(q)'
    BY <1>1, <1>3 DEF TableOK, Fits
  <2>2. Fits(r)'
    <3>1. /\ Fits(r) /\ status' = status /\ table' = table /\ computed' = computed
          /\ Len(st'[r].cpu) = 0
      BY <1>1, <1>3 DEF TableOK
    <3>2. Len(Blocks[r]) \in Nat
      BY ONLY ContentAssumption
    <3> HIDE DEF IInv
    <3> QED BY ONLY <3>1, <3>2 DEF Fits
  <2> QED BY <2>1, <2>2 DEF TableOK
<1> QED BY <1>3, <1>4, <1>5, <1>6

-----------------------------------------------------------------------------
(* The initial state *)

\* Nothing is allocated at the start.
LEMMA InitInv == Init => IInv
<1> SUFFICES ASSUME Init PROVE IInv
  OBVIOUS
<1>1. NoState \in StateType
  BY NoStateIs
<1>2. TypeOK
  <2>1. 0 \in Nat /\ <<>> \in Seq(Gpu) /\ <<>> \in Seq(StepType) /\ <<>> \in Seq(ReportType)
    BY SMT
  <2>2. "new" \in Status /\ "idle" \in Pass
    BY DEF Status, Pass
  <2> QED BY <1>1, <2>1, <2>2, ZenonT(60) DEF Init, TypeOK, NoBlock
<1>3. TableOK /\ DeadIsEmpty /\ StateMeansStopped /\ LoadPhase
  <2>1. \A r \in Req : 0 <= 0 /\ 0 <= Len(Blocks[r])
    BY ONLY ContentAssumption
  <2>2. Len(<<>>) = 0
    BY SMT
  <2>3. /\ computed = [r \in Req |-> 0] /\ table = [r \in Req |-> <<>>]
        /\ st = [r \in Req |-> NoState]
    BY DEF Init
  <2> HIDE DEF NoState, Init
  <2> QED BY <2>1, <2>2, <2>3, NoStateIs, ZenonT(60)
             DEF TableOK, Fits, DeadIsEmpty, StateMeansStopped, LoadPhase
<1>4. Counters
  <2>1. storeCtr = 0 /\ born = 0 /\ st = [r \in Req |-> NoState]
    BY DEF Init
  <2>2. storeCtr <= born /\ born <= MaxPreempt
    BY ONLY <2>1, BoundAssumption
  <2> QED BY <2>1, <2>2, NoStateIs DEF Counters
<1>5. RefCovers
  <2> SUFFICES ASSUME NEW c \in Cpu PROVE ref[c] >= Cardinality(Places(st, Req, c))
    BY DEF RefCovers, UsesOf, Places
  <2>1. Places(st, Req, c) = {}
    <3>1. \A r \in Req : DOMAIN st[r].cpu = {}
      BY NoStateIs DEF Init
    <3> QED BY <3>1, PlacesNone
  <2>2. ref[c] = 0
    BY DEF Init
  <2> QED BY ONLY <2>1, <2>2, FS_EmptySet
<1>6. GpuExact
  <2> SUFFICES ASSUME NEW g \in Gpu
               PROVE  gref[g] = Cardinality(Holders(g)) + Cardinality(Loaders(g))
    BY DEF GpuExact
  <2>1. Holders(g) = {} /\ Loaders(g) = {}
    <3>1. \A r \in Req : DOMAIN <<>> = {} /\ st[r].load = {} /\ table[r] = <<>>
      <4>1. DOMAIN <<>> = {}
        BY SMT
      <4> QED BY <4>1, NoStateIs DEF Init
    <3> QED BY <3>1 DEF Holders, Loaders, TableOf, LoadTargets
  <2>2. gref[g] = 0
    BY DEF Init
  <2>3. Cardinality({}) = 0 /\ 0 = 0 + 0
    BY ONLY FS_EmptySet
  <2> QED BY <2>1, <2>2, <2>3
<1> QED BY <1>2, <1>3, <1>4, <1>5, <1>6 DEF IInv

-----------------------------------------------------------------------------
(* The end of a pass *)

\* A pass that stores anything has a store event left to name it.
LEMMA EventLeft ==
    ASSUME TypeOK, Counters, PassStores # {}
    PROVE  storeCtr \in Event /\ storeCtr + 1 <= born
<1>1. PICK r \in Req : st[r].live /\ st[r].sev = NoEvent /\ ~st[r].ready
  BY DEF PassStores, Unsent
<1>2. /\ storeCtr \in Nat /\ born \in Nat /\ MaxPreempt \in Nat /\ st[r].born \in Nat
  BY BoundAssumption DEF TypeOK, StateType
<1>3. storeCtr <= st[r].born /\ st[r].born < born /\ born <= MaxPreempt
  BY <1>1 DEF Counters
<1> QED BY ONLY <1>2, <1>3 DEF Event

\* The metadata of a pass is well formed.
LEMMA StepTyped ==
    ASSUME TypeOK, TableOK, Counters
    PROVE  Step \in StepType
<1> DEFINE sev == IF PassStores # {} THEN storeCtr ELSE NoEvent
           load == UNION {st[r].load : r \in Unloaded}
           writes == UNION {NewContents(r) : r \in grown}
<1>1. sev \in Event \cup {NoEvent}
  BY EventLeft
<1>2. PassStores \in SUBSET (Gpu \X Cpu)
  BY PassTyped
<1>3. load \in SUBSET (Cpu \X Gpu) /\ Unloaded \in SUBSET Req
  BY PassTyped
<1>4. writes \in SUBSET (Gpu \X Content)
  <2> SUFFICES ASSUME NEW r \in grown PROVE NewContents(r) \in SUBSET (Gpu \X Content)
    OBVIOUS
  <2>0. r \in Req
    BY DEF TypeOK
  <2>1. /\ table[r] \in Seq(Gpu) /\ computed[r] \in Nat /\ Blocks[r] \in Seq(Content)
        /\ Len(table[r]) <= Len(Blocks[r])
    BY <2>0, ContentAssumption DEF TypeOK, TableOK, Fits
  <2> QED BY ONLY <2>1, FilledTyped DEF NewContents
<1>5. Step = [sev |-> sev, store |-> PassStores, load |-> load, lreqs |-> Unloaded,
              writes |-> writes]
  BY DEF Step
<1> HIDE DEF sev, load, writes
<1> QED BY <1>1, <1>2, <1>3, <1>4, <1>5 DEF StepType

\* build_connector_meta names the events and moves no block.
LEMMA BuildConnectorMetaInv ==
    ASSUME IInv, BuildConnectorMeta
    PROVE  IInv'
<1> USE DEF IInv
<1>1. /\ inbox' = [w \in Worker |-> Append(inbox[w], Step)]
      /\ loadCtr' = IF Unloaded # {} THEN loadCtr + 1 ELSE loadCtr
      /\ computed' = [r \in Req |-> IF r \in grown THEN Len(table[r]) ELSE computed[r]]
      /\ grown' = {} /\ pass' = "idle"
      /\ UNCHANGED <<status, table, gref, poolVars, counts, born, cdata, gdata,
                     reports, recvSeen>>
  BY DEF BuildConnectorMeta
<1>2. IF PassStores # {}
      THEN /\ evBlocks' = [evBlocks EXCEPT ![storeCtr] = PassStores]
           /\ evReqs' = [evReqs EXCEPT ![storeCtr] = Unsent]
           /\ storeCtr' = storeCtr + 1
           /\ pending' = [h \in Hashed |-> NoBlock]
      ELSE UNCHANGED <<evBlocks, evReqs, storeCtr, pending>>
  BY DEF BuildConnectorMeta
<1>3. Step \in StepType
  BY StepTyped
<1>4. ASSUME NEW r \in Req
      PROVE  /\ st'[r] \in StateType
             /\ st'[r].live = st[r].live /\ st'[r].born = st[r].born /\ st'[r].cpu = st[r].cpu
             /\ st'[r].load = st[r].load /\ st'[r].ready = st[r].ready
             /\ st'[r].finished = st[r].finished
             /\ st'[r].sev = (IF PassStores # {} /\ r \in Unsent THEN storeCtr ELSE st[r].sev)
             /\ st'[r].lev = (IF r \in Unloaded THEN loadCtr ELSE st[r].lev)
  <2> DEFINE e == IF PassStores # {} /\ r \in Unsent THEN storeCtr ELSE st[r].sev
             l == IF r \in Unloaded THEN loadCtr ELSE st[r].lev
  <2>1. st'[r] = [st[r] EXCEPT !.sev = e, !.lev = l]
    BY DEF BuildConnectorMeta
  <2>2. st[r] \in StateType
    BY DEF TypeOK
  <2>3. e \in Event \cup {NoEvent} /\ l \in Nat \cup {NoEvent}
    BY <2>2, EventLeft DEF TypeOK, StateType
  <2> HIDE DEF e, l
  <2>4. st'[r] \in StateType /\ st'[r].sev = e /\ st'[r].lev = l
    BY <2>1, <2>2, <2>3 DEF StateType
  <2>5. /\ st'[r].live = st[r].live /\ st'[r].born = st[r].born /\ st'[r].cpu = st[r].cpu
        /\ st'[r].load = st[r].load /\ st'[r].ready = st[r].ready
        /\ st'[r].finished = st[r].finished
    BY <2>1, <2>2 DEF StateType
  <2> QED BY <2>4, <2>5 DEF e, l
<1>5. st' \in [Req -> StateType]
  <2>1. DOMAIN st' = Req /\ st' = [q \in Req |-> st'[q]]
    BY DEF BuildConnectorMeta
  <2> QED BY <1>4, <2>1
<1>6. glabel' \in [Gpu -> Hashed \cup {NoHash}]
  <2> DEFINE new(g) == {p \in Step.writes : p[1] = g /\ p[2] \in Hashed}
  <2>1. glabel' = [g \in Gpu |-> IF new(g) # {} THEN (CHOOSE p \in new(g) : TRUE)[2] ELSE glabel[g]]
    BY DEF BuildConnectorMeta
  <2>2. \A g \in Gpu : new(g) # {} => (CHOOSE p \in new(g) : TRUE)[2] \in Hashed
    OBVIOUS
  <2> HIDE DEF new
  <2> QED BY <2>1, <2>2 DEF TypeOK
<1>7. TypeOK'
  <2>1. inbox' \in [Worker -> Seq(StepType)]
    BY <1>1, <1>3, SMT DEF TypeOK
  <2>2. /\ evBlocks' \in [Event -> SUBSET (Gpu \X Cpu)] /\ evReqs' \in [Event -> SUBSET Req]
        /\ storeCtr' \in Nat /\ pending' \in [Hashed -> Cpu \cup {NoBlock}]
    <3>1. CASE PassStores # {}
      <4>1. PassStores \in SUBSET (Gpu \X Cpu) /\ Unsent \in SUBSET Req
        BY PassTyped
      <4>2. storeCtr \in Event
        BY <3>1, EventLeft
      <4>3. /\ evBlocks' = [evBlocks EXCEPT ![storeCtr] = PassStores]
            /\ evReqs' = [evReqs EXCEPT ![storeCtr] = Unsent]
            /\ storeCtr' = storeCtr + 1 /\ pending' = [h \in Hashed |-> NoBlock]
        BY <1>2, <3>1
      <4>4. storeCtr' \in Nat
        <5>1. storeCtr \in Nat
          BY DEF TypeOK
        <5> QED BY ONLY <4>3, <5>1
      <4> QED BY <4>1, <4>2, <4>3, <4>4 DEF TypeOK
    <3>2. CASE PassStores = {}
      BY <1>2, <3>2 DEF TypeOK
    <3> QED BY <3>1, <3>2
  <2>3. computed' \in [Req -> Nat] /\ loadCtr' \in Nat
    <3>1. table \in [Req -> Seq(Gpu)] /\ computed \in [Req -> Nat] /\ loadCtr \in Nat
      BY DEF TypeOK
    <3>2. (\A r \in Req : Len(table[r]) \in Nat) /\ loadCtr + 1 \in Nat
      BY ONLY <3>1
    <3> QED BY <1>1, <3>1, <3>2
  <2> QED BY <1>1, <1>5, <1>6, <2>1, <2>2, <2>3, ZenonT(60) DEF TypeOK, Pass, poolVars
<1>8. TableOK'
  <2> SUFFICES ASSUME NEW r \in Req PROVE Fits(r)'
    BY DEF TableOK
  <2>1. Len(table[r]) \in Nat /\ computed[r] \in Nat
    BY SMT DEF TypeOK
  <2>2. computed'[r] = Len(table[r]) \/ computed'[r] = computed[r]
    BY <1>1
  <2> QED BY <1>1, <1>4, <2>1, <2>2, SMT DEF TableOK, Fits
<1>9. DeadIsEmpty'
  BY <1>4 DEF DeadIsEmpty
<1>10. StateMeansStopped'
  BY <1>1, <1>4 DEF StateMeansStopped
<1>11. LoadPhase'
  <2> SUFFICES ASSUME NEW r \in Req, st[r].live
               PROVE  /\ st'[r].lev # NoEvent => st'[r].load # {}
                      /\ st'[r].load # {} => st'[r].lev # NoEvent
    BY <1>4 DEF LoadPhase
  <2>1. loadCtr # NoEvent
    BY SMT DEF TypeOK, NoEvent
  <2>2. r \in Unloaded <=> st[r].load # {} /\ st[r].lev = NoEvent
    BY DEF Unloaded
  <2> QED BY <1>4, <2>1, <2>2 DEF LoadPhase
<1>12. Counters'
  <2>1. storeCtr \in Nat /\ \A r \in Req : st[r].born \in Nat
    BY DEF TypeOK, StateType
  <2>2. CASE PassStores # {}
    <3>1. storeCtr # NoEvent
      BY ONLY <2>1 DEF NoEvent
    <3>2. \A r \in Req : st[r].live => ~(st'[r].sev = NoEvent /\ ~st'[r].ready)
      BY <1>4, <2>2, <3>1 DEF Unsent
    <3> QED BY <1>1, <1>2, <1>4, <2>2, <3>2, EventLeft DEF Counters
  <2>3. CASE PassStores = {}
    BY <1>1, <1>2, <1>4, <2>3 DEF Counters
  <2> QED BY <2>2, <2>3
<1>13. RefCovers'
  <2>1. \A c \in Cpu : ref[c] >= Cardinality(Places(st', Req, c))
    BY <1>4, SameCover
  <2> QED BY <1>1, <2>1 DEF RefCovers, UsesOf, Places, poolVars
<1>14. GpuExact'
  BY <1>1, <1>4, GpuUnchanged
<1> QED BY <1>7, <1>8, <1>9, <1>10, <1>11, <1>12, <1>13, <1>14

-----------------------------------------------------------------------------
(* Workers, reports, ends of requests *)

\* A copy writes values of the type its sources have.
LEMMA WrittenType ==
    ASSUME NEW T, NEW pairs, NEW x, NEW old \in T, \A p \in pairs : p[2] \in T
    PROVE  Written(pairs, x, old) \in T
<1>1. (\E p \in pairs : p[1] = x) =>
         /\ (CHOOSE p \in pairs : p[1] = x) \in pairs
         /\ (CHOOSE p \in pairs : p[1] = x)[2] \in T
  OBVIOUS
<1> QED BY <1>1 DEF Written

\* A worker copies and computes; nothing the scheduler holds changes.
LEMMA ExecuteInv ==
    ASSUME IInv, NEW w \in Worker, Execute(w)
    PROVE  IInv'
<1> USE DEF IInv
<1> DEFINE s == Head(inbox[w])
           Data == Content \cup {Junk}
<1>1. /\ inbox[w] # <<>>
      /\ cdata' = [cdata EXCEPT ![w] = CpuAfter(w, s)]
      /\ gdata' = [gdata EXCEPT ![w] = GpuAfter(w, s)]
      /\ reports' = [reports EXCEPT ![w] =
            IF s.sev = NoEvent /\ s.lreqs = {} THEN @
            ELSE Append(@, [sev |-> s.sev, recv |-> s.lreqs])]
      /\ inbox' = [inbox EXCEPT ![w] = Tail(@)]
      /\ UNCHANGED <<schedVars, gpuVars, poolVars, mgrVars, recvSeen>>
  BY DEF Execute
<1>2. s \in StepType /\ Tail(inbox[w]) \in Seq(StepType)
  <2>1. inbox[w] \in Seq(StepType) /\ inbox[w] # <<>>
    BY <1>1 DEF TypeOK
  <2> QED BY ONLY <2>1
<1> HIDE DEF s
<1>3. /\ s.sev \in Event \cup {NoEvent} /\ s.store \in SUBSET (Gpu \X Cpu)
      /\ s.load \in SUBSET (Cpu \X Gpu) /\ s.lreqs \in SUBSET Req
      /\ s.writes \in SUBSET (Gpu \X Content)
  BY <1>2 DEF StepType
<1>4. cdata[w] \in [Cpu -> Data] /\ gdata[w] \in [Gpu -> Data]
  BY DEF TypeOK
<1>5. CpuAfter(w, s) \in [Cpu -> Data]
  <2> DEFINE copies == {<<p[2], gdata[w][p[1]]>> : p \in s.store}
  <2>1. \A p \in copies : p[2] \in Data
    <3> SUFFICES ASSUME NEW p \in s.store PROVE <<p[2], gdata[w][p[1]]>>[2] \in Data
      OBVIOUS
    <3>1. p[1] \in Gpu
      BY <1>3, PairIs
    <3> HIDE DEF Data
    <3> QED BY <1>4, <3>1, SecondIs
  <2> HIDE DEF copies, Data
  <2>2. \A c \in Cpu : Written(copies, c, cdata[w][c]) \in Data
    BY <1>4, <2>1, WrittenType
  <2> QED BY <2>2 DEF CpuAfter, copies
<1>6. GpuAfter(w, s) \in [Gpu -> Data]
  <2> DEFINE copies == {<<p[2], CpuAfter(w, s)[p[1]]>> : p \in s.load}
  <2>1. \A p \in copies : p[2] \in Data
    <3> SUFFICES ASSUME NEW p \in s.load PROVE <<p[2], CpuAfter(w, s)[p[1]]>>[2] \in Data
      OBVIOUS
    <3>1. p[1] \in Cpu
      BY <1>3, PairIs
    <3> HIDE DEF Data
    <3> QED BY <1>5, <3>1, SecondIs
  <2>2. \A p \in s.writes : p[2] \in Data
    BY <1>3
  <2> HIDE DEF copies, Data
  <2>3. \A g \in Gpu : Written(copies, g, gdata[w][g]) \in Data
    BY <1>4, <2>1, WrittenType
  <2>4. \A g \in Gpu : Written(s.writes, g, Written(copies, g, gdata[w][g])) \in Data
    BY <2>2, <2>3, WrittenType
  <2> QED BY <2>4 DEF GpuAfter, copies
<1>7. TypeOK'
  <2>1. cdata' \in [Worker -> [Cpu -> Data]] /\ gdata' \in [Worker -> [Gpu -> Data]]
    BY <1>1, <1>5, <1>6 DEF TypeOK
  <2>2. inbox' \in [Worker -> Seq(StepType)]
    BY <1>1, <1>2, ZenonT(60) DEF TypeOK
  <2>3. reports' \in [Worker -> Seq(ReportType)]
    <3>1. [sev |-> s.sev, recv |-> s.lreqs] \in ReportType
      BY <1>3 DEF ReportType
    <3>2. reports \in [Worker -> Seq(ReportType)] /\ reports[w] \in Seq(ReportType)
      BY DEF TypeOK
    <3>3. Append(reports[w], [sev |-> s.sev, recv |-> s.lreqs]) \in Seq(ReportType)
      BY ONLY <3>1, <3>2
    <3> QED BY <1>1, <3>2, <3>3
  <2> QED BY <1>1, <2>1, <2>2, <2>3
         DEF TypeOK, schedVars, gpuVars, poolVars, mgrVars
<1>8. TableOK' /\ DeadIsEmpty' /\ StateMeansStopped' /\ LoadPhase' /\ Counters'
  BY <1>1 DEF TableOK, Fits, DeadIsEmpty, StateMeansStopped, LoadPhase, Counters,
              schedVars, mgrVars
<1>9. RefCovers'
  BY <1>1, CoverUnchanged DEF poolVars, mgrVars
<1>10. GpuExact'
  BY <1>1, GpuUnchanged DEF schedVars, gpuVars, mgrVars
<1> QED BY <1>7, <1>8, <1>9, <1>10

\* request_finished frees a ready state, marks one still being stored.
LEMMA RequestFinishedInv ==
    ASSUME IInv, NEW r \in Req, RequestFinished(r)
    PROVE  IInv'
<1> USE DEF IInv
<1>1. /\ pass = "idle" /\ status[r] \in {"running", "preempted", "loading"}
      /\ UNCHANGED <<grown, pass, glabel, bhash, cached, pending, storeCtr,
                     loadCtr, evBlocks, evReqs, counts, born, wrkVars>>
  BY DEF RequestFinished
<1>2. \/ /\ st[r].live /\ st[r].lev = NoEvent /\ st[r].ready
         /\ FreeBlocks({r}, BirthOrder) /\ st' = DropStates({r})
      \/ /\ ~(st[r].live /\ st[r].lev = NoEvent /\ st[r].ready)
         /\ st' = [st EXCEPT ![r].finished = @ \/ (st[r].live /\ st[r].lev = NoEvent)]
         /\ UNCHANGED <<ref, older>>
  BY DEF RequestFinished
<1>3. st[r].live /\ st[r].load # {} => st[r].lev # NoEvent
  BY <1>1 DEF LoadPhase
<1>4. /\ st' \in [Req -> StateType]
      /\ \A q \in Req \ {r} : st'[q] = st[q]
      /\ \A q \in Req : st'[q].load = st[q].load
      /\ \/ ~st'[r].live /\ st'[r].cpu = <<>>
         \/ /\ ~(st[r].live /\ st[r].lev = NoEvent /\ st[r].ready)
            /\ st'[r].live = st[r].live /\ st'[r].cpu = st[r].cpu
            /\ st'[r].born = st[r].born /\ st'[r].sev = st[r].sev /\ st'[r].lev = st[r].lev
            /\ st'[r].ready = st[r].ready
            /\ st[r].live /\ st[r].lev = NoEvent => st'[r].finished
            /\ st[r].live /\ st[r].lev # NoEvent => st'[r].finished = st[r].finished
      /\ RefCovers' /\ ref' \in [Cpu -> Nat] /\ older' \subseteq Cpu \X Cpu
  <2>1. CASE /\ st[r].live /\ st[r].lev = NoEvent /\ st[r].ready
             /\ FreeBlocks({r}, BirthOrder) /\ st' = DropStates({r})
    <3>1. /\ st' \in [Req -> StateType]
          /\ \A q \in Req \ {r} : st'[q] = st[q]
          /\ ~st'[r].live /\ st'[r].cpu = <<>> /\ st'[r].load = {}
      BY <2>1, Dropped
    <3>2. st[r].load = {}
      BY <1>3, <2>1
    <3>3. RefCovers' /\ ref' \in [Cpu -> Nat] /\ older' \subseteq Cpu \X Cpu
      <4>1. {r} \in SUBSET Req /\ \A q \in {r} : st'[q].cpu = <<>>
        BY <3>1
      <4>2. \A q \in Req \ {r} : st'[q].cpu = st[q].cpu
        BY <3>1
      <4>3. FreeBlocks({r}, BirthOrder)
        BY <2>1
      <4> QED BY <4>1, <4>2, <4>3, FreeCovers
    <3> QED BY <3>1, <3>2, <3>3
  <2>2. CASE /\ ~(st[r].live /\ st[r].lev = NoEvent /\ st[r].ready)
             /\ st' = [st EXCEPT ![r].finished = @ \/ (st[r].live /\ st[r].lev = NoEvent)]
             /\ UNCHANGED <<ref, older>>
    <3> DEFINE f == st[r].finished \/ (st[r].live /\ st[r].lev = NoEvent)
    <3>1. st \in [Req -> StateType] /\ st[r] \in StateType
      BY DEF TypeOK
    <3>2. st'[r] = [st[r] EXCEPT !.finished = f] /\ \A q \in Req \ {r} : st'[q] = st[q]
      BY <2>2, <3>1
    <3>3. f \in BOOLEAN /\ (st[r].live /\ st[r].lev = NoEvent => f = TRUE)
          /\ (st[r].live /\ st[r].lev # NoEvent => f = st[r].finished)
      BY <3>1 DEF StateType
    <3> HIDE DEF f
    <3>4. st'[r] \in StateType /\ st'[r].finished = f
      BY <3>1, <3>2, <3>3 DEF StateType
    <3>5. /\ st'[r].live = st[r].live /\ st'[r].cpu = st[r].cpu /\ st'[r].load = st[r].load
          /\ st'[r].born = st[r].born /\ st'[r].sev = st[r].sev /\ st'[r].lev = st[r].lev
          /\ st'[r].ready = st[r].ready
      BY <3>1, <3>2 DEF StateType
    <3>6. st' \in [Req -> StateType]
      BY <2>2, <3>1, <3>2, <3>4
    <3>7. RefCovers'
      <4>1. \A q \in Req : st'[q].cpu = st[q].cpu
        BY <3>2, <3>5
      <4>2. \A c \in Cpu : ref[c] >= Cardinality(Places(st', Req, c))
        BY <4>1, SameCover
      <4> QED BY <2>2, <4>2 DEF RefCovers, UsesOf, Places
    <3>8. ref' \in [Cpu -> Nat] /\ older' \subseteq Cpu \X Cpu
      BY <2>2 DEF TypeOK
    <3> QED BY <2>2, <3>2, <3>3, <3>4, <3>5, <3>6, <3>7, <3>8
  <2> QED BY <1>2, <2>1, <2>2
<1>5. Len(st'[r].cpu) <= Len(Blocks[r])
  <2>1. \A q \in Req : Len(st[q].cpu) <= Len(Blocks[q]) /\ 0 <= Len(Blocks[q])
    <3>1. \A q \in Req : 0 <= Len(Blocks[q])
      BY ONLY ContentAssumption
    <3> QED BY <3>1 DEF TableOK, Fits
  <2> QED BY <1>4, <2>1
<1>6. /\ GpuExact' /\ TableOK' /\ gref' \in [Gpu -> Nat] /\ table' \in [Req -> Seq(Gpu)]
      /\ computed' \in [Req -> Nat] /\ status' \in [Req -> Status]
      /\ \A q \in Req \ {r} : status'[q] = status[q]
      /\ status'[r] = (IF status[r] = "loading" THEN "aborting" ELSE "done")
  <2>1. CASE status[r] = "loading"
    <3>1. status' = [status EXCEPT ![r] = "aborting"] /\ UNCHANGED <<gref, table, computed>>
      BY <2>1 DEF RequestFinished
    <3>2. GpuExact'
      BY <1>4, <3>1, GpuUnchanged
    <3>3. TableOK'
      BY <1>4, <1>5, <3>1 DEF TableOK, Fits, TypeOK
    <3> QED BY <2>1, <3>1, <3>2, <3>3 DEF TypeOK, Status
  <2>2. CASE status[r] # "loading"
    <3>1. status' = [status EXCEPT ![r] = "done"] /\ ReleaseTable(r)
      BY <2>2 DEF RequestFinished
    <3>2. GpuExact' /\ gref' \in [Gpu -> Nat]
      BY <1>4, <3>1, GpuRelease
    <3>3. "done" \in Status
      BY DEF Status
    <3>4. /\ TableOK' /\ table' \in [Req -> Seq(Gpu)] /\ computed' \in [Req -> Nat]
          /\ status' \in [Req -> Status]
      BY <1>4, <1>5, <3>1, <3>3, VictimTables, ZenonT(60)
    <3>5. status'[r] = "done" /\ \A q \in Req \ {r} : status'[q] = status[q]
      BY <3>1 DEF TypeOK
    <3> QED BY <2>2, <3>2, <3>4, <3>5
  <2> QED BY <2>1, <2>2
<1>7. TypeOK'
  BY <1>1, <1>4, <1>6 DEF TypeOK, wrkVars
<1>8. DeadIsEmpty' /\ LoadPhase' /\ Counters'
  <2>1. CASE ~st'[r].live /\ st'[r].cpu = <<>>
    <3>1. st'[r].load = {}
      <4>1. CASE st[r].live /\ st[r].lev = NoEvent /\ st[r].ready
        BY <1>2, <4>1, Dropped
      <4>2. CASE ~(st[r].live /\ st[r].lev = NoEvent /\ st[r].ready)
        <5>1. st[r] \in StateType /\ st \in [Req -> StateType]
          BY DEF TypeOK
        <5>2. st' = [st EXCEPT ![r].finished = @ \/ (st[r].live /\ st[r].lev = NoEvent)]
          BY <1>2, <4>2
        <5>3. st'[r].live = st[r].live
          BY ONLY <5>1, <5>2, r \in Req DEF StateType
        <5> QED BY <1>4, <2>1, <5>3 DEF DeadIsEmpty
      <4> QED BY <4>1, <4>2
    <3> QED BY <1>1, <1>4, <2>1, <3>1, ZenonT(60) DEF DeadIsEmpty, LoadPhase, Counters
  <2>2. CASE /\ st'[r].live = st[r].live /\ st'[r].cpu = st[r].cpu
             /\ st'[r].born = st[r].born /\ st'[r].sev = st[r].sev /\ st'[r].lev = st[r].lev
             /\ st'[r].ready = st[r].ready
    <3>1. DeadIsEmpty'
      BY <1>4, <2>2 DEF DeadIsEmpty
    <3>2. LoadPhase'
      BY <1>1, <1>4, <2>2 DEF LoadPhase
    <3>3. Counters'
      BY <1>1, <1>4, <2>2 DEF Counters
    <3> QED BY <3>1, <3>2, <3>3
  <2> QED BY <1>4, <2>1, <2>2
<1>9. StateMeansStopped'
  <2>1. \A q \in Req \ {r} : st'[q] = st[q] /\ status'[q] = status[q]
    BY <1>4, <1>6
  <2>2. ASSUME st'[r].live
        PROVE  \/ status'[r] \in {"loading", "aborting"} /\ st'[r].ready /\ st'[r].load # {}
                  /\ ~st'[r].finished
               \/ /\ status'[r] = "done" /\ st'[r].finished /\ ~st'[r].ready
                  /\ st'[r].load = {}
    <3>1. /\ st[r].live /\ ~(st[r].lev = NoEvent /\ st[r].ready)
          /\ st'[r].ready = st[r].ready /\ st'[r].load = st[r].load
          /\ st[r].lev = NoEvent => st'[r].finished
          /\ st[r].lev # NoEvent => st'[r].finished = st[r].finished
      BY <1>4, <2>2
    <3>2. CASE status[r] = "preempted"
      <4>1. st[r].load = {}
        BY <3>1, <3>2 DEF StateMeansStopped
      <4>2. st[r].lev = NoEvent
        BY <3>1, <4>1 DEF LoadPhase
      <4> QED BY <1>6, <3>1, <3>2, <4>1, <4>2
    <3>3. CASE status[r] = "loading"
      <4>1. st[r].ready /\ st[r].load # {} /\ ~st[r].finished
        BY <3>1, <3>3 DEF StateMeansStopped
      <4>2. status'[r] = "aborting" /\ st[r].lev # NoEvent
        BY <1>6, <3>1, <3>3, <4>1, ZenonT(60)
      <4> QED BY <3>1, <4>1, <4>2
    <3>4. CASE status[r] = "running"
      BY <3>1, <3>4 DEF StateMeansStopped
    <3> QED BY <1>1, <3>2, <3>3, <3>4
  <2> QED BY <2>1, <2>2 DEF StateMeansStopped
<1> QED BY <1>4, <1>6, <1>7, <1>8, <1>9

\* Requests whose load is over, and whose state is released, are requests.
LEMMA ReportTyped ==
    ASSUME TypeOK, NEW w \in Worker, reports[w] # <<>>
    PROVE  /\ Head(reports[w]) \in ReportType /\ Tail(reports[w]) \in Seq(ReportType)
           /\ Received(w) \in SUBSET Req /\ Released(w) \in SUBSET Req
           /\ \A r \in Received(w) : st[r].live => r \in Released(w)
           /\ Completes(w) => /\ Head(reports[w]).sev \in Event
                              /\ evReqs[Head(reports[w]).sev] \in SUBSET Req
           /\ \A r \in Released(w) : r \in Received(w) \/ (st[r].live /\ st[r].finished)
<1>1. Head(reports[w]) \in ReportType /\ Tail(reports[w]) \in Seq(ReportType)
  BY SMT DEF TypeOK
<1>2. Head(reports[w]).sev \in Event \cup {NoEvent} /\ Head(reports[w]).recv \in SUBSET Req
  BY <1>1 DEF ReportType
<1>3. Received(w) \in SUBSET Req
  BY <1>2 DEF Received
<1>4. Completes(w) => /\ Head(reports[w]).sev \in Event
                      /\ evReqs[Head(reports[w]).sev] \in SUBSET Req
  BY <1>2 DEF Completes, TypeOK
<1> QED BY <1>1, <1>3, <1>4 DEF Released

\* The cache and the hashes after a store event.
LEMMA CacheStoredType ==
    ASSUME TypeOK, NEW e \in Event, CacheStored(e)
    PROVE  /\ cached' \in [Hashed -> Cpu \cup {NoBlock}]
           /\ bhash' \in [Cpu -> Hashed \cup {NoHash}]
<1> DEFINE blocks == {p[2] : p \in evBlocks[e]}
           insert == {c \in blocks : bhash[c] # NoHash /\ cached[bhash[c]] = NoBlock}
           twins == {c \in blocks : bhash[c] # NoHash /\ cached[bhash[c]] \notin {NoBlock, c}}
<1>1. evBlocks[e] \in SUBSET (Gpu \X Cpu)
  BY DEF TypeOK
<1>2. insert \subseteq Cpu
  BY <1>1
<1>3. /\ cached' = [h \in Hashed |-> IF \E c \in insert : bhash[c] = h
                                     THEN CHOOSE c \in insert : bhash[c] = h
                                     ELSE cached[h]]
      /\ bhash' = [c \in Cpu |-> IF c \in twins THEN NoHash ELSE bhash[c]]
  BY DEF CacheStored
<1> HIDE DEF insert, twins
<1>4. \A h \in Hashed : (\E c \in insert : bhash[c] = h)
                        => (CHOOSE c \in insert : bhash[c] = h) \in Cpu
  BY <1>2
<1> QED BY <1>3, <1>4 DEF TypeOK

\* A restore that is over leaves tables and labels well formed.
LEMMA EndLoadsTypes ==
    ASSUME TypeOK, TableOK, NEW R \in SUBSET Req, EndLoads(R),
           \A q \in Req : Len(st'[q].cpu) <= Len(Blocks[q])
    PROVE  /\ TableOK' /\ glabel' \in [Gpu -> Hashed \cup {NoHash}]
           /\ status' \in [Req -> Status] /\ computed' \in [Req -> Nat]
           /\ table' \in [Req -> Seq(Gpu)]
           /\ \A q \in Req \ R : status'[q] = status[q]
<1> DEFINE aborted == {r \in R : status[r] = "aborting"}
           loaded(r, g) == \E i \in DOMAIN table[r] :
                               table[r][i] = g /\ Blocks[r][i] \in Hashed
           label(g) == LET r == CHOOSE r \in R \ aborted : loaded(r, g)
                       IN Blocks[r][CHOOSE i \in DOMAIN table[r] :
                                       table[r][i] = g /\ Blocks[r][i] \in Hashed]
<1>1. /\ glabel' = [g \in Gpu |-> IF \E r \in R \ aborted : loaded(r, g)
                                  THEN label(g) ELSE glabel[g]]
      /\ status' = [r \in Req |-> IF r \in aborted THEN "done"
                                  ELSE IF r \in R THEN "running" ELSE status[r]]
      /\ computed' = [r \in Req |-> IF r \in R \ aborted THEN Len(table[r]) ELSE computed[r]]
      /\ table' = [r \in Req |-> IF r \in aborted THEN <<>> ELSE table[r]]
  BY DEF EndLoads
<1>2. ASSUME NEW g \in Gpu, \E r \in R \ aborted : loaded(r, g)
      PROVE  label(g) \in Hashed
  <2> DEFINE r == CHOOSE r \in R \ aborted : loaded(r, g)
  <2>1. loaded(r, g)
    BY <1>2
  <2> HIDE DEF r
  <2>2. Blocks[r][CHOOSE i \in DOMAIN table[r] :
                     table[r][i] = g /\ Blocks[r][i] \in Hashed] \in Hashed
    BY <2>1
  <2> QED BY <2>2 DEF r
<1> HIDE DEF label, loaded
<1>3. glabel' \in [Gpu -> Hashed \cup {NoHash}]
  BY <1>1, <1>2 DEF TypeOK
<1>4. /\ status' \in [Req -> Status] /\ computed' \in [Req -> Nat]
      /\ table' \in [Req -> Seq(Gpu)]
  <2>1. /\ status \in [Req -> Status] /\ computed \in [Req -> Nat] /\ table \in [Req -> Seq(Gpu)]
    BY DEF TypeOK
  <2>2. (\A r \in Req : Len(table[r]) \in Nat) /\ <<>> \in Seq(Gpu)
    BY ONLY <2>1
  <2>3. "done" \in Status /\ "running" \in Status
    BY DEF Status
  <2>4. status' \in [Req -> Status]
    BY <1>1, <2>1, <2>3
  <2>5. computed' \in [Req -> Nat] /\ table' \in [Req -> Seq(Gpu)]
    BY <1>1, <2>1, <2>2
  <2> QED BY <2>4, <2>5
<1>5. TableOK'
  <2> SUFFICES ASSUME NEW r \in Req PROVE Fits(r)'
    BY DEF TableOK
  <2>1. Len(table[r]) \in Nat /\ Len(Blocks[r]) \in Nat
    BY ONLY ContentAssumption DEF TypeOK
  <2>2. Fits(r) /\ Len(st'[r].cpu) <= Len(Blocks[r])
    BY DEF TableOK
  <2>3. CASE r \notin R
    <3>1. status'[r] = status[r] /\ computed'[r] = computed[r] /\ table'[r] = table[r]
      BY <1>1, <2>3, ZenonT(60)
    <3> QED BY <2>2, <3>1 DEF Fits
  <2>4. CASE r \in R \ aborted
    <3>1. status'[r] = "running" /\ computed'[r] = Len(table[r]) /\ table'[r] = table[r]
      BY <1>1, <2>4
    <3>2. Len(table[r]) <= Len(table[r])
      BY ONLY <2>1
    <3>3. "running" \notin {"new", "preempted", "done"}
      BY ONLY TRUE
    <3> QED BY <2>2, <3>1, <3>2, <3>3 DEF Fits
  <2>5. CASE r \in aborted
    <3>1. status'[r] = "done" /\ table'[r] = <<>>
      BY <1>1, <2>5
    <3>2. Len(<<>>) <= Len(Blocks[r]) /\ "done" \notin {"new", "running", "preempted"}
      BY ONLY <2>1
    <3> QED BY <2>2, <3>1, <3>2 DEF Fits
  <2> QED BY <2>3, <2>4, <2>5
<1> QED BY <1>1, <1>3, <1>4, <1>5

\* update_connector_output: restores end, stores make ready or free.
LEMMA UpdateConnectorOutputInv ==
    ASSUME IInv, NEW w \in Worker, UpdateConnectorOutput(w)
    PROVE  IInv'
<1> USE DEF IInv
<1> DEFINE rep == Head(reports[w])
           R == Received(w)
           L == Released(w)
           stored == IF Completes(w) THEN evReqs[rep.sev] ELSE {}
<1>1. /\ pass = "idle" /\ reports[w] # <<>>
      /\ recvSeen' = [r \in Req |-> IF r \in R THEN {}
                                    ELSE IF r \in rep.recv THEN recvSeen[r] \cup {w}
                                    ELSE recvSeen[r]]
      /\ EndLoads(R)
      /\ st' = [r \in Req |-> IF r \in L THEN NoState
                              ELSE IF r \in stored /\ st[r].live
                              THEN [st[r] EXCEPT !.ready = TRUE]
                              ELSE st[r]]
      /\ reports' = [reports EXCEPT ![w] = Tail(@)]
      /\ UNCHANGED <<grown, pass, pending, storeCtr, loadCtr, born, inbox, cdata, gdata>>
  BY DEF UpdateConnectorOutput
<1>2. IF Completes(w)
      THEN /\ CacheStored(rep.sev)
           /\ evBlocks' = [evBlocks EXCEPT ![rep.sev] = {}]
           /\ evReqs' = [evReqs EXCEPT ![rep.sev] = {}]
           /\ counts' = [counts EXCEPT ![rep.sev] = 0]
      ELSE /\ counts' = [e \in Event |-> IF e = rep.sev THEN counts[e] + 1 ELSE counts[e]]
           /\ UNCHANGED <<cached, bhash, evBlocks, evReqs>>
  BY DEF UpdateConnectorOutput
<1>3. PICK ord \in ReleaseOrders(w) : FreeBlocks(L, ord)
  BY DEF UpdateConnectorOutput
<1>4. /\ rep \in ReportType /\ Tail(reports[w]) \in Seq(ReportType)
      /\ R \in SUBSET Req /\ L \in SUBSET Req
      /\ \A r \in R : st[r].live => r \in L
      /\ Completes(w) => rep.sev \in Event
      /\ \A r \in L : r \in R \/ (st[r].live /\ st[r].finished)
      /\ \A r \in stored : st[r].live /\ st[r].finished => r \in L
  <2>1. \A r \in stored : st[r].live /\ st[r].finished => r \in L
    BY DEF Released
  <2> QED BY <1>1, <2>1, ReportTyped
<1> HIDE DEF rep, R, L, stored
<1>5. NoState \in StateType /\ ~NoState.live /\ NoState.cpu = <<>> /\ NoState.load = {}
  BY NoStateIs
<1>6. ASSUME NEW r \in L
      PROVE  st'[r] \in StateType /\ ~st'[r].live /\ st'[r].cpu = <<>> /\ st'[r].load = {}
  BY <1>1, <1>4, <1>5, <1>6
<1>7. ASSUME NEW r \in Req \ L
      PROVE  /\ st'[r] \in StateType
             /\ st'[r].live = st[r].live /\ st'[r].born = st[r].born /\ st'[r].cpu = st[r].cpu
             /\ st'[r].load = st[r].load /\ st'[r].finished = st[r].finished
             /\ st'[r].sev = st[r].sev /\ st'[r].lev = st[r].lev
             /\ st'[r].ready = st[r].ready \/ (st'[r].ready /\ r \in stored)
  <2>1. st[r] \in StateType
    BY DEF TypeOK
  <2>2. CASE r \in stored /\ st[r].live
    <3>1. st'[r] = [st[r] EXCEPT !.ready = TRUE]
      BY <1>1, <2>2
    <3> QED BY <2>1, <2>2, <3>1, ZenonT(60) DEF StateType
  <2>3. CASE ~(r \in stored /\ st[r].live)
    <3>1. st'[r] = st[r]
      BY <1>1, <2>3
    <3> QED BY <2>1, <3>1
  <2> QED BY <2>2, <2>3
<1>8. st' \in [Req -> StateType]
  <2>1. st' = [q \in Req |-> st'[q]]
    BY <1>1
  <2> QED BY <1>6, <1>7, <2>1
<1>9. RefCovers' /\ ref' \in [Cpu -> Nat] /\ older' \subseteq Cpu \X Cpu
  BY <1>3, <1>4, <1>6, <1>7, FreeCovers, ZenonT(60)
<1>10. /\ \A q \in R : st'[q].load = {}
       /\ \A q \in Req \ R : st'[q].load = st[q].load
  <2>1. ASSUME NEW q \in R PROVE st'[q].load = {}
    <3>1. CASE q \in L
      BY <1>6, <3>1
    <3>2. CASE q \notin L
      BY <1>4, <1>7, <3>2 DEF DeadIsEmpty
    <3> QED BY <3>1, <3>2
  <2>2. ASSUME NEW q \in Req \ R PROVE st'[q].load = st[q].load
    <3>1. CASE q \in L
      <4>1. st[q].live /\ st[q].finished
        BY <1>4, <2>2, <3>1
      <4>2. st[q].load = {}
        BY <2>2, <4>1 DEF StateMeansStopped
      <4> QED BY <1>6, <3>1, <4>2
    <3>2. CASE q \notin L
      BY <1>7, <3>2
    <3> QED BY <3>1, <3>2
  <2> QED BY <2>1, <2>2
<1>11. GpuExact' /\ gref' \in [Gpu -> Nat]
  BY <1>1, <1>4, <1>10, GpuEndLoads
<1>12. /\ TableOK' /\ glabel' \in [Gpu -> Hashed \cup {NoHash}]
       /\ status' \in [Req -> Status] /\ computed' \in [Req -> Nat]
       /\ table' \in [Req -> Seq(Gpu)]
       /\ \A q \in Req \ R : status'[q] = status[q]
  <2>1. \A q \in Req : Len(st'[q].cpu) <= Len(Blocks[q])
    <3>1. \A q \in L : Len(st'[q].cpu) <= Len(Blocks[q])
      <4>1. \A q \in Req : Len(<<>>) <= Len(Blocks[q])
        <5>1. \A q \in Req : Blocks[q] \in Seq(Content)
          BY ContentAssumption
        <5> QED BY ONLY <5>1
      <4> QED BY <1>4, <1>6, <4>1
    <3>2. \A q \in Req \ L : Len(st'[q].cpu) <= Len(Blocks[q])
      BY <1>7 DEF TableOK, Fits
    <3> QED BY <3>1, <3>2
  <2> QED BY <1>1, <1>4, <2>1, EndLoadsTypes
<1>13. /\ cached' \in [Hashed -> Cpu \cup {NoBlock}] /\ bhash' \in [Cpu -> Hashed \cup {NoHash}]
       /\ evBlocks' \in [Event -> SUBSET (Gpu \X Cpu)] /\ evReqs' \in [Event -> SUBSET Req]
       /\ counts' \in [Event -> Nat]
  <2> DEFINE e == rep.sev
  <2>1. /\ evBlocks \in [Event -> SUBSET (Gpu \X Cpu)] /\ evReqs \in [Event -> SUBSET Req]
        /\ counts \in [Event -> Nat] /\ cached \in [Hashed -> Cpu \cup {NoBlock}]
        /\ bhash \in [Cpu -> Hashed \cup {NoHash}]
    BY DEF TypeOK
  <2>2. CASE Completes(w)
    <3>1. /\ CacheStored(e) /\ evBlocks' = [evBlocks EXCEPT ![e] = {}]
          /\ evReqs' = [evReqs EXCEPT ![e] = {}] /\ counts' = [counts EXCEPT ![e] = 0]
          /\ e \in Event
      BY <1>2, <1>4, <2>2
    <3> HIDE DEF e
    <3> QED BY <2>1, <3>1, CacheStoredType
  <2>3. CASE ~Completes(w)
    <3>1. /\ counts' = [d \in Event |-> IF d = e THEN counts[d] + 1 ELSE counts[d]]
          /\ cached' = cached /\ bhash' = bhash /\ evBlocks' = evBlocks /\ evReqs' = evReqs
      BY <1>2, <2>3
    <3> HIDE DEF e
    <3>2. counts' \in [Event -> Nat]
      BY ONLY <2>1, <3>1
    <3> QED BY <2>1, <3>1, <3>2
  <2> QED BY <2>2, <2>3
<1>14. recvSeen' \in [Req -> SUBSET Worker] /\ reports' \in [Worker -> Seq(ReportType)]
  BY <1>1, <1>4 DEF TypeOK
<1>15. TypeOK'
  BY <1>1, <1>8, <1>9, <1>11, <1>12, <1>13, <1>14 DEF TypeOK
<1>16. DeadIsEmpty' /\ LoadPhase'
  <2>1. \A r \in Req : st'[r].live => st[r].live /\ r \notin L
    BY <1>6, <1>7
  <2>2. DeadIsEmpty'
    BY <1>6, <1>7 DEF DeadIsEmpty
  <2>3. LoadPhase'
    BY <1>1, <1>7, <2>1, SMT DEF LoadPhase
  <2> QED BY <2>2, <2>3
<1>17. Counters'
  <2> SUFFICES ASSUME NEW r \in Req, st'[r].live
               PROVE  /\ st'[r].born < born
                      /\ st'[r].sev = NoEvent /\ ~st'[r].ready => storeCtr <= st'[r].born
    BY <1>1 DEF Counters
  <2>1. r \notin L
    BY <1>6
  <2> QED BY <1>7, <2>1 DEF Counters
<1>18. StateMeansStopped'
  <2> SUFFICES ASSUME NEW r \in Req, st'[r].live
               PROVE  \/ status'[r] = "preempted" /\ st'[r].load = {} /\ ~st'[r].finished
                      \/ status'[r] \in {"loading", "aborting"} /\ st'[r].ready
                            /\ st'[r].load # {} /\ ~st'[r].finished
                      \/ status'[r] = "done" /\ st'[r].load = {}
                            /\ st'[r].finished /\ ~st'[r].ready
    BY DEF StateMeansStopped
  <2>1. r \notin L
    BY <1>6
  <2>2. st[r].live /\ r \notin R /\ status'[r] = status[r]
    BY <1>4, <1>7, <1>12, <2>1
  <2>3. CASE st'[r].ready = st[r].ready
    BY <1>7, <2>1, <2>2, <2>3 DEF StateMeansStopped
  <2>4. CASE st'[r].ready /\ r \in stored
    <3>1. ~st[r].finished
      BY <1>4, <2>1, <2>2, <2>4
    <3> QED BY <1>7, <2>1, <2>2, <2>4, <3>1 DEF StateMeansStopped
  <2> QED BY <1>7, <2>1, <2>3, <2>4
<1> QED BY <1>9, <1>11, <1>12, <1>15, <1>16, <1>17, <1>18

\* reset_cache runs when no transfer is pending and releases every state.
LEMMA ResetCacheInv ==
    ASSUME IInv, ResetCache
    PROVE  IInv'
<1> USE DEF IInv
<1>1. /\ ~HasPendingTransfers /\ st' = DropStates(Live) /\ FreeBlocks(Live, BirthOrder)
      /\ pending' = [h \in Hashed |-> NoBlock]
      /\ \/ cached' = [h \in Hashed |-> NoBlock] /\ bhash' = [c \in Cpu |-> NoHash]
         \/ UNCHANGED <<cached, bhash>>
      /\ UNCHANGED <<schedVars, gpuVars, storeCtr, loadCtr, evBlocks, evReqs, counts,
                     born, wrkVars>>
  BY DEF ResetCache
<1>2. Live \in SUBSET Req /\ \A q \in Req : q \in Live <=> st[q].live
  BY DEF Live
<1>3. /\ st' \in [Req -> StateType]
      /\ \A q \in Req \ Live : st'[q] = st[q]
      /\ \A q \in Live : ~st'[q].live /\ st'[q].cpu = <<>> /\ st'[q].load = {}
  BY <1>1, <1>2, Dropped
<1>4. \A q \in Req : ~st'[q].live /\ st'[q].cpu = <<>> /\ st'[q].load = {}
  BY <1>2, <1>3 DEF DeadIsEmpty
<1>5. RefCovers' /\ ref' \in [Cpu -> Nat] /\ older' \subseteq Cpu \X Cpu
  <2>1. /\ \A q \in Live : st'[q].cpu = <<>>
        /\ \A q \in Req \ Live : st'[q].cpu = st[q].cpu
    BY <1>3
  <2>2. FreeBlocks(Live, BirthOrder)
    BY <1>1
  <2> QED BY <1>2, <2>1, <2>2, FreeCovers
<1>6. \A q \in Req : st'[q].load = st[q].load
  BY <1>1, <1>2, <1>4 DEF HasPendingTransfers, DeadIsEmpty
<1>7. GpuExact'
  BY <1>1, <1>6, GpuUnchanged DEF schedVars, gpuVars
<1>8. TypeOK'
  <2>1. /\ cached' \in [Hashed -> Cpu \cup {NoBlock}]
        /\ bhash' \in [Cpu -> Hashed \cup {NoHash}]
        /\ pending' \in [Hashed -> Cpu \cup {NoBlock}]
    BY <1>1 DEF TypeOK
  <2> QED BY <1>1, <1>3, <1>5, <2>1, ZenonT(60) DEF TypeOK, schedVars, gpuVars, wrkVars
<1>9. TableOK'
  <2> SUFFICES ASSUME NEW r \in Req PROVE Fits(r)'
    BY DEF TableOK
  <2>1. Len(st'[r].cpu) <= Len(Blocks[r])
    BY ONLY <1>4, ContentAssumption
  <2> QED BY <1>1, <2>1 DEF TableOK, Fits, schedVars
<1>10. DeadIsEmpty' /\ StateMeansStopped' /\ LoadPhase'
  BY <1>4 DEF DeadIsEmpty, StateMeansStopped, LoadPhase
<1>11. Counters'
  BY <1>1, <1>4 DEF Counters
<1> QED BY <1>5, <1>7, <1>8, <1>9, <1>10, <1>11

-----------------------------------------------------------------------------
(* Theorems *)

\* Every step of the scheduler, of a worker and of the manager preserves the
\* inductive invariant, and so does a step that changes nothing.
LEMMA NextInv == IInv /\ [Next]_vars => IInv'
<1> SUFFICES ASSUME IInv, [Next]_vars PROVE IInv'
  OBVIOUS
<1>1. ASSUME NEW r \in Req, Grow(r) PROVE IInv'
  BY <1>1, GrowInv
<1>2. ASSUME NEW r \in Req, Admit(r) PROVE IInv'
  BY <1>2, AdmitInv
<1>3. ASSUME NEW r \in Req, PreemptOffloaded(r) PROVE IInv'
  BY <1>3, PreemptOffloadedInv
<1>4. ASSUME NEW r \in Req, PreemptSkipped(r) PROVE IInv'
  BY <1>4, PreemptSkippedInv
<1>5. ASSUME NEW r \in Req, PreemptRaised(r) PROVE IInv'
  BY <1>5, PreemptRaisedInv
<1>6. ASSUME NEW r \in Req, ResumeWithLoad(r) PROVE IInv'
  BY <1>6, ResumeWithLoadInv
<1>7. ASSUME NEW r \in Req, ResumeLocal(r) PROVE IInv'
  BY <1>7, ResumeLocalInv
<1>8. ASSUME NEW r \in Req, ResumeNoRoom(r) PROVE IInv'
  BY <1>8, ResumeNoRoomInv
<1>9. ASSUME NEW r \in Req, RequestFinished(r) PROVE IInv'
  BY <1>9, RequestFinishedInv
<1>10. ASSUME NEW w \in Worker, Execute(w) PROVE IInv'
  BY <1>10, ExecuteInv
<1>11. ASSUME NEW w \in Worker, UpdateConnectorOutput(w) PROVE IInv'
  BY <1>11, UpdateConnectorOutputInv
<1>12. CASE BuildConnectorMeta
  BY <1>12, BuildConnectorMetaInv
<1>13. CASE ResetCache
  BY <1>13, ResetCacheInv
<1>14. CASE UNCHANGED vars
  <2>1. UNCHANGED <<schedVars, gpuVars, poolVars, mgrVars, wrkVars>>
    BY <1>14 DEF vars
  <2>2. TypeOK'
    BY <2>1 DEF IInv, TypeOK, schedVars, gpuVars, poolVars, mgrVars, wrkVars
  <2>3. TableOK' /\ DeadIsEmpty' /\ StateMeansStopped' /\ LoadPhase' /\ Counters'
    BY <2>1 DEF IInv, TableOK, Fits, DeadIsEmpty, StateMeansStopped, LoadPhase, Counters,
                schedVars, mgrVars
  <2>4. RefCovers'
    BY <2>1, CoverUnchanged DEF IInv, poolVars, mgrVars
  <2>5. GpuExact'
    BY <2>1, GpuUnchanged DEF IInv, schedVars, gpuVars, mgrVars
  <2> QED BY <2>2, <2>3, <2>4, <2>5 DEF IInv
<1> QED BY <1>1, <1>2, <1>3, <1>4, <1>5, <1>6, <1>7, <1>8, <1>9, <1>10, <1>11, <1>12,
           <1>13, <1>14 DEF Next

\* The inductive invariant holds in every reachable state.
THEOREM Invariant == Spec => []IInv
<1>1. Init => IInv
  BY InitInv
<1>2. IInv /\ [Next]_vars => IInv'
  BY NextInv
<1> QED BY ONLY <1>1, <1>2, PTL DEF Spec

\* Every variable keeps its type; in particular neither block pool ever frees a
\* block more often than it was taken.
THEOREM TypeCorrect == Spec => []TypeOK
<1>1. IInv => TypeOK
  BY DEF IInv
<1> QED BY ONLY <1>1, Invariant, PTL

\* A CPU block named by an offload state is never free for get_new_blocks:
\* touch(), the shared pending hashes, aborts, restores and the lost exception
\* of _create_preempt_state all keep its count up.
THEOREM CountsCover == Spec => []RefCovers
<1>1. IInv => RefCovers
  BY DEF IInv
<1> QED BY ONLY <1>1, Invariant, PTL

\* A request that has an offload state does not run, and a state that outlives
\* its request waits for its store.
THEOREM StatesAreStopped == Spec => []StateMeansStopped
<1>1. IInv => StateMeansStopped
  BY DEF IInv
<1> QED BY ONLY <1>1, Invariant, PTL

\* Every GPU block is counted once for each block table that has it and once for
\* each restore under way into it: update_state_after_alloc and the end of the
\* load keep touch() and free_blocks() in balance.
THEOREM GpuCountsExact == Spec => []GpuExact
<1>1. IInv => GpuExact
  BY DEF IInv
<1> QED BY ONLY <1>1, Invariant, PTL

-----------------------------------------------------------------------------
(* Without CPU prefix caching *)

\* Without hashes every computed block needs a CPU block of its own, and gets the
\* one at its position.
LEMMA AllFresh ==
    ASSUME ~PrefixCaching, TypeOK, NEW r \in Req, NEW new
    PROVE  /\ computed[r] \in Nat
           /\ Missing(r) = 1 .. computed[r] /\ Fresh(r, new) = 1 .. computed[r]
           /\ Cardinality(Missing(r)) = computed[r]
           /\ Served(r, new) = 1 .. computed[r]
           /\ \A i \in 1 .. computed[r] : Turn(r, new, i) = i
<1> DEFINE n == computed[r]
<1>1. n \in Nat
  BY DEF TypeOK
<1>2. Missing(r) = 1 .. n /\ Fresh(r, new) = 1 .. n
  BY DEF Missing, Fresh, Hash
<1>3. \A m \in Nat : Cardinality(1 .. m) = m
  <2>1. \A m \in Nat : Cardinality(1 .. m) = IF 1 > m THEN 0 ELSE m - 1 + 1
    BY ONLY FS_Interval
  <2> QED BY ONLY <2>1
<1>4. ASSUME NEW i \in 1 .. n PROVE Turn(r, new, i) = i
  <2>1. {j \in 1 .. n : j <= i} = 1 .. i
    BY ONLY <1>1
  <2>2. {j \in Fresh(r, new) : j <= i} = 1 .. i
    BY <1>2, <2>1
  <2>3. Turn(r, new, i) = Cardinality(1 .. i)
    BY <2>2 DEF Turn
  <2>4. i \in Nat
    BY ONLY <1>1
  <2> QED BY <1>3, <2>3, <2>4
<1>5. Cardinality(Missing(r)) = n
  BY <1>1, <1>2, <1>3
<1>6. Served(r, new) = 1 .. n
  <2>1. \A i \in 1 .. n : Turn(r, new, i) <= Cardinality(Missing(r))
    BY ONLY <1>1, <1>4, <1>5
  <2> QED BY <2>1 DEF Served
<1> QED BY <1>1, <1>2, <1>4, <1>5, <1>6

\* A step that leaves the pool and the CPU blocks of every state keeps the balance.
LEMMA ExactSame ==
    ASSUME NothingLeaked, ref' = ref, \A r \in Req : st'[r].cpu = st[r].cpu
    PROVE  NothingLeaked'
<1> SUFFICES ASSUME NEW c \in Cpu PROVE ref[c] = Cardinality(Places(st', Req, c))
  BY DEF NothingLeaked, UsesOf, Places
<1>1. Places(st', Req, c) = Places(st, Req, c)
  <2>1. Req \in SUBSET Req /\ (\A r \in Req : st'[r].cpu = st[r].cpu)
    OBVIOUS
  <2>2. \A r \in Req \ Req : st'[r].cpu = <<>>
    OBVIOUS
  <2> QED BY ONLY <2>1, <2>2, PlacesSame
<1> QED BY <1>1 DEF NothingLeaked, UsesOf, Places

\* free_blocks gives back exactly what the released states held.
LEMMA ExactRelease ==
    ASSUME TypeOK, NothingLeaked, NEW R \in SUBSET Req, NEW ord, FreeBlocks(R, ord),
           \A q \in R : st'[q].cpu = <<>>,
           \A q \in Req \ R : st'[q].cpu = st[q].cpu
    PROVE  NothingLeaked'
<1>1. \A r \in Req : st[r].cpu \in Seq(Cpu)
  BY DEF TypeOK, StateType
<1> SUFFICES ASSUME NEW c \in Cpu PROVE ref'[c] = Cardinality(Places(st', Req, c))
  BY DEF NothingLeaked, UsesOf, Places
<1>2. Places(st', Req, c) = Places(st, Req \ R, c)
  <2>1. Req \ R \in SUBSET Req /\ (\A r \in Req \ R : st'[r].cpu = st[r].cpu)
    OBVIOUS
  <2>2. \A r \in Req \ (Req \ R) : st'[r].cpu = <<>>
    OBVIOUS
  <2> QED BY ONLY <2>1, <2>2, PlacesSame
<1>3. /\ Cardinality(Places(st, R, c)) \in Nat
      /\ Cardinality(Places(st, Req \ R, c)) \in Nat
      /\ Cardinality(Places(st, Req, c))
            = Cardinality(Places(st, R, c)) + Cardinality(Places(st, Req \ R, c))
  BY <1>1, PlacesSplit
<1>4. ref'[c] = ref[c] - Cardinality(Places(st, R, c))
  BY DEF FreeBlocks, Untouch, UsesOf, Places
<1>5. ref[c] = Cardinality(Places(st, Req, c))
  BY DEF NothingLeaked, UsesOf, Places
<1> QED BY ONLY <1>2, <1>3, <1>4, <1>5

\* get_new_blocks takes one block for each position of the new state, no more.
LEMMA ExactTake ==
    ASSUME ~PrefixCaching, IInv, NothingLeaked, NEW v \in Req, PreemptOffloaded(v)
    PROVE  NothingLeaked'
<1> DEFINE n == computed[v]
<1>1. PICK new \in NewBlocks(Cardinality(Missing(v))) :
         TakeCpuBlocks(v, new) /\ st' = [st EXCEPT ![v] = NewState(v, new)]
  BY DEF PreemptOffloaded
<1>2. /\ TypeOK /\ n \in Nat /\ Cardinality(Missing(v)) = n /\ Fresh(v, new) = 1 .. n
      /\ Served(v, new) = 1 .. n /\ \A i \in 1 .. n : Turn(v, new, i) = i
  BY AllFresh DEF IInv
<1>3. new \in [1 .. n -> FreeCpu]
  BY <1>2 DEF NewBlocks
<1>4. st'[v].cpu = [i \in 1 .. n |-> CpuFor(v, new, i)]
  BY <1>1, <1>2 DEF NewState, NoState, TypeOK
<1>5. \A i \in 1 .. n : CpuFor(v, new, i) = new[i]
  BY <1>2 DEF CpuFor
<1>6. \A q \in Req \ {v} : st'[q].cpu = st[q].cpu
  BY <1>1, <1>2 DEF TypeOK
<1>7. st[v].cpu = <<>>
  BY DEF PreemptOffloaded, IInv, DeadIsEmpty
<1>8. RefCovers'
  <2>1. PreemptOffloaded(v) /\ IInv
    OBVIOUS
  <2> QED BY <2>1, PreemptOffloadedInv DEF IInv
<1> SUFFICES ASSUME NEW c \in Cpu PROVE ref'[c] <= Cardinality(Places(st', Req, c))
  <2>1. \A c \in Cpu : ref'[c] \in Nat
    BY PreemptOffloadedInv DEF IInv, TypeOK
  <2>2. \A c \in Cpu : Cardinality(Places(st', Req, c)) \in Nat
    <3>1. \A q \in Req : st'[q].cpu \in Seq(Cpu)
      BY PreemptOffloadedInv DEF IInv, TypeOK, StateType
    <3> QED BY <3>1, SetAssumption, PlacesFinite, FS_CardinalityType
  <2>3. \A c \in Cpu : ref'[c] >= Cardinality(Places(st', Req, c))
    BY <1>8 DEF RefCovers, UsesOf, Places
  <2>4. \A c \in Cpu : ref'[c] = Cardinality(Places(st', Req, c))
    BY <2>1, <2>2, <2>3, SMT
  <2> QED BY <2>4 DEF NothingLeaked, UsesOf, Places
<1>9. IsFiniteSet(Places(st', Req, c)) /\ Cardinality(Places(st', Req, c)) \in Nat
  <2>1. \A q \in Req : st'[q].cpu \in Seq(Cpu)
    BY PreemptOffloadedInv DEF IInv, TypeOK, StateType
  <2> QED BY <2>1, SetAssumption, PlacesFinite, FS_CardinalityType
<1>10. ref'[c] = IF c \in Taken(new) THEN 1 ELSE ref[c]
  <2> DEFINE T == {i \in Served(v, new) \ Fresh(v, new) : CpuFor(v, new, i) = c}
  <2>1. T = {}
    BY <1>2
  <2>2. Cardinality(T) = 0
    BY <2>1, FS_EmptySet
  <2>3. ref'[c] = (IF c \in Taken(new) THEN 1 ELSE ref[c]) + Cardinality(T)
    BY <1>1 DEF TakeCpuBlocks
  <2>4. ref[c] \in Nat
    BY <1>2 DEF TypeOK
  <2> HIDE DEF T
  <2> QED BY ONLY <2>2, <2>3, <2>4
<1>11. CASE c \in Taken(new)
  <2>1. PICK k \in 1 .. n : new[k] = c
    BY <1>3, <1>11 DEF Taken
  <2>2. <<v, k>> \in Places(st', Req, c)
    BY <1>4, <1>5, <2>1, PlacesMember, ZenonT(60)
  <2>3. Cardinality(Places(st', Req, c)) # 0
    BY <1>9, <2>2, FS_EmptySet
  <2>4. ref'[c] = 1
    BY <1>10, <1>11
  <2>5. ref'[c] <= Cardinality(Places(st', Req, c))
    <3> DEFINE a == ref'[c]
               b == Cardinality(Places(st', Req, c))
    <3>1. a = 1 /\ b \in Nat /\ b # 0
      BY <1>9, <2>3, <2>4
    <3> HIDE DEF a, b
    <3>2. a <= b
      BY ONLY <3>1
    <3> QED BY <3>2 DEF a, b
  <2> QED BY <2>5
<1>12. CASE c \notin Taken(new)
  <2>1. Places(st, Req, c) \subseteq Places(st', Req, c)
    <3> SUFFICES ASSUME NEW p \in Places(st, Req, c) PROVE p \in Places(st', Req, c)
      OBVIOUS
    <3>1. PICK q \in Req : \E i \in DOMAIN st[q].cpu : st[q].cpu[i] = c /\ p = <<q, i>>
      BY ONLY PlacesMember
    <3>2. q # v
      BY ONLY <1>7, <3>1
    <3> QED BY ONLY <1>6, <3>1, <3>2, PlacesMember
  <2>2. Cardinality(Places(st, Req, c)) <= Cardinality(Places(st', Req, c))
    BY <1>9, <2>1, FS_Subset
  <2>3. ref[c] = Cardinality(Places(st, Req, c))
    BY DEF NothingLeaked, UsesOf, Places
  <2> QED BY <1>10, <1>12, <2>2, <2>3
<1> QED BY <1>11, <1>12

\* One step of any actor keeps the balance.
LEMMA NextExact ==
    ASSUME ~PrefixCaching
    PROVE  IInv /\ NothingLeaked /\ [Next]_vars => NothingLeaked'
<1> SUFFICES ASSUME IInv, NothingLeaked, [Next]_vars PROVE NothingLeaked'
  OBVIOUS
<1>0. TypeOK /\ StateMeansStopped /\ DeadIsEmpty
  BY DEF IInv
<1>1. ASSUME NEW r \in Req, Grow(r) PROVE NothingLeaked'
  BY <1>1, ExactSame DEF Grow, poolVars, mgrVars
<1>2. ASSUME NEW r \in Req, Admit(r) PROVE NothingLeaked'
  BY <1>2, ExactSame DEF Admit, poolVars, mgrVars
<1>3. ASSUME NEW r \in Req, PreemptOffloaded(r) PROVE NothingLeaked'
  BY <1>3, ExactTake
<1>4. ASSUME NEW r \in Req, PreemptSkipped(r) PROVE NothingLeaked'
  BY <1>4, ExactSame DEF PreemptSkipped, poolVars, mgrVars
<1>5. ASSUME NEW r \in Req, PreemptRaised(r) PROVE FALSE
  <2>1. PICK new : Served(r, new) # 1 .. computed[r]
    BY <1>5 DEF PreemptRaised
  <2> QED BY <1>0, <2>1, AllFresh
<1>6. ASSUME NEW r \in Req, ResumeWithLoad(r) PROVE NothingLeaked'
  <2>1. ref' = ref
    BY <1>6 DEF ResumeWithLoad, poolVars
  <2>2. PICK l : st' = [st EXCEPT ![r].load = l]
    BY <1>6 DEF ResumeWithLoad
  <2>3. \A q \in Req : st[q] \in StateType
    BY <1>0 DEF TypeOK
  <2>4. \A q \in Req : st'[q].cpu = st[q].cpu
    BY <1>0, <2>2, <2>3 DEF TypeOK, StateType
  <2> QED BY <2>1, <2>4, ExactSame
<1>7. ASSUME NEW r \in Req, DropUnneeded(r) PROVE NothingLeaked'
  <2>1. st' = DropStates({r}) /\ FreeBlocks({r}, BirthOrder)
    BY <1>7 DEF DropUnneeded
  <2>2. {r} \in SUBSET Req /\ \A q \in {r} : st'[q].cpu = <<>>
    <3>1. {r} \in SUBSET Req
      OBVIOUS
    <3>2. st'[r].cpu = <<>>
      BY <1>0, <2>1, <3>1, Dropped
    <3> QED BY <3>1, <3>2
  <2>3. \A q \in Req \ {r} : st'[q].cpu = st[q].cpu
    <3>1. {r} \in SUBSET Req
      OBVIOUS
    <3>2. \A q \in Req \ {r} : st'[q] = st[q]
      BY <1>0, <2>1, <3>1, Dropped
    <3> QED BY <3>2
  <2> QED BY <1>0, <2>1, <2>2, <2>3, ExactRelease
<1>8. ASSUME NEW r \in Req, RequestFinished(r) PROVE NothingLeaked'
  <2>1. CASE FreeBlocks({r}, BirthOrder) /\ st' = DropStates({r})
    <3>1. {r} \in SUBSET Req /\ \A q \in {r} : st'[q].cpu = <<>>
      <4>1. {r} \in SUBSET Req
        OBVIOUS
      <4>2. st'[r].cpu = <<>>
        BY <1>0, <2>1, <4>1, Dropped
      <4> QED BY <4>1, <4>2
    <3>2. \A q \in Req \ {r} : st'[q].cpu = st[q].cpu
      <4>1. \A q \in Req \ {r} : st'[q] = st[q]
        BY <1>0, <2>1, <3>1, Dropped
      <4> QED BY <4>1
    <3> QED BY <1>0, <2>1, <3>1, <3>2, ExactRelease, ZenonT(60)
  <2>2. CASE /\ st' = [st EXCEPT ![r].finished = @ \/ (st[r].live /\ st[r].lev = NoEvent)]
             /\ UNCHANGED <<ref, older>>
    <3>1. \A q \in Req : st[q] \in StateType
      BY <1>0 DEF TypeOK
    <3>2. \A q \in Req : st'[q].cpu = st[q].cpu
      BY <1>0, <2>2, <3>1 DEF TypeOK, StateType
    <3> QED BY <2>2, <3>2, ExactSame
  <2> QED BY <1>8, <2>1, <2>2 DEF RequestFinished
<1>9. ASSUME NEW w \in Worker, Execute(w) PROVE NothingLeaked'
  BY <1>9, ExactSame DEF Execute, poolVars, mgrVars
<1>10. ASSUME NEW w \in Worker, UpdateConnectorOutput(w) PROVE NothingLeaked'
  <2> DEFINE L == Released(w)
  <2>1. PICK ord : FreeBlocks(L, ord)
    BY <1>10 DEF UpdateConnectorOutput
  <2>2. PICK S : st' = [r \in Req |-> IF r \in L THEN NoState
                                      ELSE IF r \in S /\ st[r].live
                                      THEN [st[r] EXCEPT !.ready = TRUE]
                                      ELSE st[r]]
    BY <1>10 DEF UpdateConnectorOutput
  <2>3. L \in SUBSET Req
    BY <1>0, <1>10, ReportTyped DEF UpdateConnectorOutput
  <2> HIDE DEF L
  <2>4. NoState.cpu = <<>> /\ \A q \in Req : st[q] \in StateType
    BY <1>0 DEF TypeOK, NoState
  <2>5. \A q \in L : st'[q].cpu = <<>>
    BY <2>2, <2>3, <2>4
  <2>6. \A q \in Req \ L : st'[q].cpu = st[q].cpu
    BY <2>2, <2>4 DEF StateType
  <2> QED BY <1>0, <2>1, <2>3, <2>5, <2>6, ExactRelease
<1>11. ASSUME BuildConnectorMeta PROVE NothingLeaked'
  <2>1. ref' = ref
    BY <1>11 DEF BuildConnectorMeta, poolVars
  <2>2. \A q \in Req : \E e, l : st'[q] = [st[q] EXCEPT !.sev = e, !.lev = l]
    BY <1>11 DEF BuildConnectorMeta
  <2>3. \A q \in Req : st[q] \in StateType
    BY <1>0 DEF TypeOK
  <2>4. \A q \in Req : st'[q].cpu = st[q].cpu
    BY <2>2, <2>3 DEF StateType
  <2> QED BY <2>1, <2>4, ExactSame
<1>12. ASSUME ResetCache PROVE NothingLeaked'
  <2>1. st' = DropStates(Live) /\ FreeBlocks(Live, BirthOrder) /\ Live \in SUBSET Req
    BY <1>12 DEF ResetCache, Live
  <2>2. \A q \in Live : st'[q].cpu = <<>>
    BY <1>0, <2>1, Dropped
  <2>3. \A q \in Req \ Live : st'[q].cpu = st[q].cpu
    BY <1>0, <2>1, Dropped
  <2> QED BY <1>0, <2>1, <2>2, <2>3, ExactRelease
<1>13. ASSUME UNCHANGED vars PROVE NothingLeaked'
  BY <1>13, ExactSame DEF vars, poolVars, mgrVars
<1>14. ASSUME NEW r \in Req, ResumeLocal(r) \/ ResumeNoRoom(r) PROVE NothingLeaked'
  BY <1>7, <1>14 DEF ResumeLocal, ResumeNoRoom
<1> QED BY <1>1, <1>2, <1>3, <1>4, <1>5, <1>6, <1>8, <1>9, <1>10, <1>11, <1>12, <1>13,
           <1>14 DEF Next

\* "The connector skips offload for that request": with prefix caching off, a
\* preemption that is not offloaded, an abort and a restore leave no CPU block
\* behind, so the pool never shrinks.
THEOREM NoLeakWithoutPrefixCaching ==
    ASSUME ~PrefixCaching
    PROVE  Spec => []NothingLeaked
<1>1. Init => NothingLeaked
  <2> SUFFICES ASSUME Init, NEW c \in Cpu PROVE ref[c] = Cardinality(Places(st, Req, c))
    BY DEF NothingLeaked, UsesOf, Places
  <2>1. ref[c] = 0 /\ \A r \in Req : st[r].cpu = <<>>
    BY DEF Init, NoState
  <2>2. Places(st, Req, c) = {}
    BY ONLY <2>1, PlacesMember
  <2> QED BY <2>1, <2>2, FS_EmptySet
<1>2. IInv /\ NothingLeaked /\ [Next]_vars => NothingLeaked'
  BY NextExact
<1> QED BY ONLY <1>1, <1>2, Invariant, PTL DEF Spec

=============================================================================
