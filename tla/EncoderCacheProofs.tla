-------------------------- MODULE EncoderCacheProofs --------------------------
(***************************************************************************)
(* The books of the encoder cache manager balance, for any hashes,         *)
(* requests, sizes, policies and lag: which entries there are (Accounted,  *)
(* AllocatesNew) and how many slots they take (CheckInvariant,             *)
(* AllocateFits).                                                          *)
(***************************************************************************)
EXTENDS EncoderCache, TLAPS, FiniteSetTheorems

\* A turn, or NoTurn.
TurnType == [req : Req \cup {NoReq}, first : Nat \ {0}, input : Nat \ {0},
             todo : SUBSET Nat, dups : SUBSET Nat, closed : BOOLEAN]

\* The types the argument uses.
Typed ==
    /\ refs \in [Hash -> SUBSET Req]
    /\ request_cached_ids \in [Req -> SUBSET Nat]
    /\ npu_cache \subseteq Hash /\ cpu_cache \subseteq Hash
    /\ mm \in [Req -> Seq(Hash)]
    /\ running \in Seq(Req) /\ waiting \subseteq Req
    /\ computed \in [Req -> Nat] /\ req_index \in Nat \ {0}
    /\ turn \in TurnType

\* The inputs a turn plans to allocate, and the further ones that share their
\* hashes, are inputs of the request; the planned hashes are in no tier.
Planned ==
    turn.req # NoReq =>
        /\ turn.todo \subseteq DOMAIN mm[turn.req]
        /\ turn.dups \subseteq DOMAIN mm[turn.req]
        /\ HashesOf(turn.req, turn.dups) \subseteq HashesOf(turn.req, turn.todo)
        /\ HashesOf(turn.req, turn.todo) \cap cached = {}

IInv == Typed /\ Accounted /\ Planned

\* No turn outlives its pass.
BetweenPasses == pass = "none" => turn = NoTurn

\* The counters agree with the entries, and no tier is overbooked.
Counted == CheckInvariant /\ npu_num_free_slots \in Nat /\ cpu_num_free_slots \in Nat

\* What Accounted speaks of.
bookVars == <<cached, refs, request_cached_ids, npu_cache, cpu_cache,
              npu_freeable, cpu_freeable, mm>>

-----------------------------------------------------------------------------
(* Sums of slots *)

\* Slots counts a finite set of embeddings.
LEMMA SlotsAre ==
    ASSUME NEW S \in SUBSET Hash
    PROVE  /\ IsFiniteSet(Embeddings(S))
           /\ Slots[S] = Cardinality(Embeddings(S)) /\ Slots[S] \in Nat
<1>1. Embeddings(S) \in SUBSET (Hash \X (1 .. CpuCacheSize))
  BY SizeAssumption DEF Embeddings
<1>2. IsFiniteSet(1 .. CpuCacheSize) /\ IsFiniteSet(Hash)
  BY SizeAssumption, FS_Interval
<1>3. IsFiniteSet(Hash \X (1 .. CpuCacheSize))
  BY <1>2, FS_Product, Zenon
<1>4. IsFiniteSet(Embeddings(S))
  BY <1>1, <1>3, FS_Subset, Zenon
<1>5. Slots[S] = Cardinality(Embeddings(S))
  BY Zenon DEF Slots
<1> QED BY <1>4, <1>5, FS_CardinalityType, Zenon

\* No hash has no slots, one hash has those of its size.
LEMMA SlotsOfFew ==
    /\ Slots[{}] = 0
    /\ \A h \in Hash : Slots[{h}] = Size[h]
<1>1. Slots[{}] = 0
  <2>1. Embeddings({}) = {} /\ {} \in SUBSET Hash
    BY Zenon DEF Embeddings
  <2> QED BY <2>1, SlotsAre, FS_EmptySet, Zenon
<1>2. ASSUME NEW h \in Hash PROVE Slots[{h}] = Size[h]
  <2>1. {h} \in SUBSET Hash /\ Size[h] \in Nat \ {0}
    BY SizeAssumption, Zenon
  <2>2. Embeddings({h}) = {h} \X (1 .. Size[h])
    BY Zenon DEF Embeddings
  <2>3. /\ IsFiniteSet({h}) /\ Cardinality({h}) = 1 /\ IsFiniteSet(1 .. Size[h])
        /\ Cardinality(1 .. Size[h]) = Size[h]
    <3>1. IsFiniteSet(1 .. Size[h]) /\ Cardinality(1 .. Size[h]) = IF 1 > Size[h] THEN 0 ELSE Size[h] - 1 + 1
      <4>1. 1 \in Int /\ Size[h] \in Int
        BY <2>1
      <4> QED BY <4>1, FS_Interval, Zenon
    <3>2. Cardinality(1 .. Size[h]) = Size[h]
      BY <2>1, <3>1
    <3> QED BY <3>1, <3>2, FS_Singleton, Zenon
  <2>4. Cardinality({h} \X (1 .. Size[h])) = Cardinality({h}) * Cardinality(1 .. Size[h])
    BY <2>3, FS_Product, Zenon
  <2>5. Cardinality({h} \X (1 .. Size[h])) = Size[h]
    BY <2>1, <2>3, <2>4
  <2> QED BY <2>1, <2>2, <2>5, SlotsAre, Zenon
<1> QED BY <1>1, <1>2, Zenon

\* The slots of sets that share no hash add up.
LEMMA SlotsAdd ==
    ASSUME NEW A \in SUBSET Hash, NEW B \in SUBSET Hash, A \cap B = {}
    PROVE  Slots[A \cup B] = Slots[A] + Slots[B]
<1>1. Embeddings(A \cup B) = Embeddings(A) \cup Embeddings(B)
  BY Zenon DEF Embeddings
<1>2. Embeddings(A) \cap Embeddings(B) = {}
  BY DEF Embeddings
<1>3. A \cup B \in SUBSET Hash
  BY Zenon
<1>4. Cardinality(Embeddings(A) \cup Embeddings(B)) =
         Cardinality(Embeddings(A)) + Cardinality(Embeddings(B)) - Cardinality(Embeddings(A) \cap Embeddings(B))
  BY SlotsAre, FS_Union, Zenon
<1>5. Cardinality({}) = 0
  BY FS_EmptySet, Zenon
<1>6. /\ Slots[A] = Cardinality(Embeddings(A)) /\ Slots[B] = Cardinality(Embeddings(B))
      /\ Slots[A] \in Nat /\ Slots[B] \in Nat
      /\ Slots[A \cup B] = Cardinality(Embeddings(A \cup B))
  BY <1>3, SlotsAre, Zenon
<1>7. Slots[A \cup B] = Slots[A] + Slots[B] - 0
  BY <1>1, <1>2, <1>4, <1>5, <1>6, Zenon
<1> QED BY <1>6, <1>7

\* What is taken out of a set is missing in its sum.
LEMMA SlotsLess ==
    ASSUME NEW A \in SUBSET Hash, NEW B \in SUBSET A
    PROVE  /\ Slots[A \ B] = Slots[A] - Slots[B]
           /\ Slots[A] \in Nat /\ Slots[B] \in Nat /\ Slots[B] =< Slots[A]
<1>1. /\ A \ B \in SUBSET Hash /\ B \in SUBSET Hash /\ (A \ B) \cap B = {}
      /\ (A \ B) \cup B = A
  BY Zenon
<1>2. Slots[A] = Slots[A \ B] + Slots[B]
  BY <1>1, SlotsAdd, Zenon
<1>3. Slots[A] \in Nat /\ Slots[B] \in Nat /\ Slots[A \ B] \in Nat
  BY <1>1, SlotsAre, Zenon
<1> QED BY <1>2, <1>3

-----------------------------------------------------------------------------
(* Manager operations *)

\* Nothing on the books, nothing to show.
LEMMA BooksUnchanged ==
    ASSUME Accounted, UNCHANGED bookVars
    PROVE  Accounted'
<1>1. /\ cached' = cached /\ refs' = refs /\ request_cached_ids' = request_cached_ids
      /\ npu_cache' = npu_cache /\ cpu_cache' = cpu_cache
      /\ npu_freeable' = npu_freeable /\ cpu_freeable' = cpu_freeable /\ mm' = mm
  BY Zenon DEF bookVars
<1> QED BY <1>1, Zenon DEF Accounted, HashesOf

\* A hit records one more input and one more reference; whether the entry stays
\* on the CPU, was on the NPU or is promoted at the expense of entries nobody
\* holds, the books balance, and no new entry appears.
LEMMA HitBooks ==
    ASSUME Typed, Accounted, NEW r \in Req, NEW i \in DOMAIN mm[r],
           CheckAndUpdateCache(r, i), mm' = mm
    PROVE  /\ Accounted' /\ cached' \subseteq cached
           /\ refs' \in [Hash -> SUBSET Req]
           /\ request_cached_ids' \in [Req -> SUBSET Nat]
           /\ npu_cache' \subseteq Hash /\ cpu_cache' = cpu_cache
<1> DEFINE h == mm[r][i]
<1>1. /\ h \in Hash /\ h \in cached /\ i \in Nat
      /\ request_cached_ids' = [request_cached_ids EXCEPT ![r] = @ \cup {i}]
      /\ refs' = [refs EXCEPT ![h] = @ \cup {r}]
      /\ cpu_cache' = cpu_cache
  BY DEF CheckAndUpdateCache, Typed
<1>2. /\ refs' \in [Hash -> SUBSET Req] /\ request_cached_ids' \in [Req -> SUBSET Nat]
      /\ refs'[h] = refs[h] \cup {r} /\ \A x \in Hash \ {h} : refs'[x] = refs[x]
      /\ request_cached_ids'[r] = request_cached_ids[r] \cup {i}
      /\ \A q \in Req \ {r} : request_cached_ids'[q] = request_cached_ids[q]
  BY <1>1, Zenon DEF Typed
<1>3. \A q \in Req : request_cached_ids'[q] \subseteq DOMAIN mm'[q]
  BY <1>2, Zenon DEF Accounted
<1>4. \A x \in Hash : refs'[x] = {q \in Req : x \in HashesOf(q, request_cached_ids[q])'}
  <2> SUFFICES ASSUME NEW x \in Hash, NEW q \in Req
               PROVE  q \in refs'[x] <=> x \in HashesOf(q, request_cached_ids[q])'
    BY <1>2, Zenon DEF Typed
  <2>1. q \in refs[x] <=> x \in HashesOf(q, request_cached_ids[q])
    BY Zenon DEF Accounted
  <2>2. CASE q = r
    BY <1>1, <1>2, <2>1, <2>2 DEF HashesOf
  <2>3. CASE q # r
    BY <1>1, <1>2, <2>1, <2>3 DEF HashesOf
  <2> QED BY <2>2, <2>3, Zenon
<1>5. CASE r \in refs[h]
  <2>1. refs' = refs
    BY <1>1, <1>2, <1>5 DEF Typed
  <2>2. /\ cached' = cached /\ npu_cache' = npu_cache
        /\ npu_freeable' = npu_freeable /\ cpu_freeable' = cpu_freeable
    BY <1>5, Zenon DEF CheckAndUpdateCache, npuVars, h
  <2> HIDE DEF h
  <2>3. /\ cached' = npu_cache' \cup cpu_cache'
        /\ \A x \in Hash : refs'[x] # {} => x \in cached'
    BY <1>1, <1>2, <2>1, <2>2, Zenon DEF Accounted
  <2>4. /\ npu_freeable' = {x \in npu_cache' : refs'[x] = {}}
        /\ cpu_freeable' = {x \in cpu_cache' : refs'[x] = {}}
    BY <1>1, <2>1, <2>2, Zenon DEF Accounted
  <2> QED BY <1>1, <1>2, <1>3, <1>4, <2>1, <2>2, <2>3, <2>4, Zenon DEF Accounted, Typed
<1>6. CASE r \notin refs[h]
  <2>1. /\ cpu_freeable' = cpu_freeable \ {h}
        /\ \/ h \in npu_cache /\ NpuHit(h)
           \/ h \notin npu_cache /\ \E E \in SUBSET npu_freeable : Promote(h, E)
           \/ h \notin npu_cache /\ CpuGet(h)
    BY <1>6, Zenon DEF CheckAndUpdateCache
  <2> HIDE DEF h
  <2>2. cpu_freeable' = {x \in cpu_cache' : refs'[x] = {}}
    BY <1>1, <1>2, <2>1, Zenon DEF Accounted, Typed
  <2>3. CASE h \in npu_cache /\ NpuHit(h)
    <3>1. npu_freeable' = npu_freeable \ {h} /\ cached' = cached /\ npu_cache' = npu_cache
      BY <2>3, Zenon DEF NpuHit
    <3>2. npu_freeable' = {x \in npu_cache' : refs'[x] = {}}
      BY <1>1, <1>2, <3>1, Zenon DEF Accounted, Typed
    <3>3. /\ cached' = npu_cache' \cup cpu_cache'
          /\ \A x \in Hash : refs'[x] # {} => x \in cached'
      BY <1>1, <1>2, <3>1, Zenon DEF Accounted
    <3> QED BY <1>1, <1>2, <1>3, <1>4, <2>2, <3>1, <3>2, <3>3, Zenon DEF Accounted, Typed
  <2>4. CASE h \notin npu_cache /\ \E E \in SUBSET npu_freeable : Promote(h, E)
    <3>1. PICK E \in SUBSET npu_freeable : Promote(h, E)
      BY <2>4, Zenon
    <3>2. /\ npu_cache' = (npu_cache \ E) \cup {h} /\ npu_freeable' = npu_freeable \ E
          /\ cached' = cached \ (E \ cpu_cache)
      BY <3>1, Zenon DEF Promote
    <3>3. h \in cpu_cache /\ h \notin npu_freeable /\ \A x \in E : x \in npu_cache /\ refs[x] = {}
      BY <1>1, <2>4, <3>1, Zenon DEF Accounted
    <3>4. cached' = npu_cache' \cup cpu_cache' /\ cached' \subseteq cached
      BY <1>1, <3>2, <3>3 DEF Accounted
    <3>5. npu_freeable' = {x \in npu_cache' : refs'[x] = {}}
      BY <1>1, <1>2, <3>2, <3>3 DEF Accounted, Typed
    <3>6. \A x \in Hash : refs'[x] # {} => x \in cached'
      BY <1>1, <1>2, <3>2, <3>3 DEF Accounted
    <3> QED BY <1>1, <1>2, <1>3, <1>4, <2>2, <3>2, <3>4, <3>5, <3>6, Zenon DEF Accounted, Typed
  <2>5. CASE h \notin npu_cache /\ CpuGet(h)
    <3>1. npu_freeable' = npu_freeable /\ cached' = cached /\ npu_cache' = npu_cache
      BY <2>5, Zenon DEF CpuGet, npuVars
    <3>2. npu_freeable' = {x \in npu_cache' : refs'[x] = {}}
      BY <1>1, <1>2, <2>5, <3>1 DEF Accounted, Typed
    <3>3. /\ cached' = npu_cache' \cup cpu_cache'
          /\ \A x \in Hash : refs'[x] # {} => x \in cached'
      BY <1>1, <1>2, <3>1, Zenon DEF Accounted
    <3> QED BY <1>1, <1>2, <1>3, <1>4, <2>2, <3>1, <3>2, <3>3, Zenon DEF Accounted, Typed
  <2> QED BY <2>1, <2>3, <2>4, <2>5, Zenon
<1> QED BY <1>5, <1>6, Zenon

\* can_allocate evicts entries nobody holds, and forgets those that are not on
\* the NPU either.
LEMMA EvictBooks ==
    ASSUME Typed, Accounted, NEW h \in Hash, NEW n, CanAllocate(h, n), mm' = mm
    PROVE  /\ Accounted' /\ cached' \subseteq cached
           /\ refs' = refs /\ request_cached_ids' = request_cached_ids
           /\ npu_cache' = npu_cache /\ cpu_cache' \subseteq Hash
<1>1. PICK E \in SUBSET cpu_freeable :
         /\ cpu_cache' = cpu_cache \ E /\ cpu_freeable' = cpu_freeable \ E
         /\ cached' = cached \ (E \ npu_cache)
  BY Zenon DEF CanAllocate, Evictions
<1>2. /\ refs' = refs /\ request_cached_ids' = request_cached_ids
      /\ npu_cache' = npu_cache /\ npu_freeable' = npu_freeable
  BY Zenon DEF CanAllocate, npuVars
<1>3. \A x \in E : x \in cpu_cache /\ refs[x] = {}
  BY <1>1, Zenon DEF Accounted
<1>4. cached' = npu_cache' \cup cpu_cache' /\ \A x \in Hash : refs'[x] # {} => x \in cached'
  BY <1>1, <1>2, <1>3, Zenon DEF Accounted
<1>5. /\ npu_freeable' = {x \in npu_cache' : refs'[x] = {}}
      /\ cpu_freeable' = {x \in cpu_cache' : refs'[x] = {}}
  BY <1>1, <1>2, <1>3, Zenon DEF Accounted
<1>6. /\ \A r \in Req : request_cached_ids'[r] \subseteq DOMAIN mm'[r]
      /\ \A x \in Hash : refs'[x] = {r \in Req : x \in HashesOf(r, request_cached_ids[r])'}
  BY <1>2, Zenon DEF Accounted, HashesOf
<1> QED BY <1>1, <1>2, <1>4, <1>5, <1>6, Zenon DEF Accounted, Typed

\* allocate enters hashes that were in no tier, held by the request, and the
\* further inputs with these hashes.
LEMMA AllocateBooks ==
    ASSUME Typed, Accounted, NEW r \in Req, NEW ids, NEW dups,
           ids \subseteq DOMAIN mm[r], dups \subseteq DOMAIN mm[r],
           HashesOf(r, dups) \subseteq HashesOf(r, ids), HashesOf(r, ids) \cap cached = {},
           Allocate(r, ids, dups), mm' = mm
    PROVE  /\ Accounted' /\ refs' \in [Hash -> SUBSET Req]
           /\ request_cached_ids' \in [Req -> SUBSET Nat]
           /\ npu_cache' = npu_cache /\ cpu_cache' \subseteq Hash
<1> DEFINE H == HashesOf(r, ids)
<1>1. /\ cached' = cached \cup H
      /\ refs' = [h \in Hash |-> IF h \in H THEN refs[h] \cup {r} ELSE refs[h]]
      /\ request_cached_ids' = [request_cached_ids EXCEPT ![r] = @ \cup ids \cup dups]
      /\ cpu_cache' = cpu_cache \cup H
      /\ cpu_freeable' = cpu_freeable
      /\ npu_cache' = npu_cache /\ npu_freeable' = npu_freeable
  BY Zenon DEF Allocate, npuVars
<1>2. H \subseteq Hash /\ ids \subseteq Nat /\ dups \subseteq Nat
  BY DEF HashesOf, Typed
<1>3. H \cap cached = {}
  BY Zenon
<1>4. HashesOf(r, ids \cup dups) = H
  BY Zenon DEF HashesOf
<1> HIDE DEF H
<1>5. /\ refs' \in [Hash -> SUBSET Req] /\ request_cached_ids' \in [Req -> SUBSET Nat]
      /\ \A x \in Hash : refs'[x] = IF x \in H THEN refs[x] \cup {r} ELSE refs[x]
      /\ request_cached_ids'[r] = request_cached_ids[r] \cup ids \cup dups
      /\ \A q \in Req \ {r} : request_cached_ids'[q] = request_cached_ids[q]
  BY <1>1, <1>2, Zenon DEF Typed
<1>6. \A q \in Req : request_cached_ids'[q] \subseteq DOMAIN mm'[q]
  BY <1>5, Zenon DEF Accounted
<1>7. \A x \in Hash : refs'[x] = {q \in Req : x \in HashesOf(q, request_cached_ids[q])'}
  <2> SUFFICES ASSUME NEW x \in Hash, NEW q \in Req
               PROVE  q \in refs'[x] <=> x \in HashesOf(q, request_cached_ids[q])'
    BY <1>5, Zenon DEF Typed
  <2>1. q \in refs[x] <=> x \in HashesOf(q, request_cached_ids[q])
    BY Zenon DEF Accounted
  <2>2. CASE q = r
    <3>1. x \in HashesOf(r, request_cached_ids[r])' <=>
             x \in HashesOf(r, request_cached_ids[r]) \/ x \in HashesOf(r, ids \cup dups)
      BY <1>5, Zenon DEF HashesOf
    <3> QED BY <1>4, <1>5, <2>1, <2>2, <3>1, Zenon
  <2>3. CASE q # r
    BY <1>5, <2>1, <2>3, Zenon DEF HashesOf
  <2> QED BY <2>2, <2>3, Zenon
<1>8. cached' = npu_cache' \cup cpu_cache' /\ \A x \in Hash : refs'[x] # {} => x \in cached'
  BY <1>1, <1>5, Zenon DEF Accounted
<1>9. /\ npu_freeable' = {x \in npu_cache' : refs'[x] = {}}
      /\ cpu_freeable' = {x \in cpu_cache' : refs'[x] = {}}
  <2>1. \A x \in npu_cache \cup cpu_cache : x \notin H /\ refs'[x] = refs[x]
    BY <1>3, <1>5, Zenon DEF Accounted, Typed
  <2>2. \A x \in H : refs'[x] # {}
    BY <1>2, <1>5, Zenon
  <2> QED BY <1>1, <2>1, <2>2, Zenon DEF Accounted
<1> QED BY <1>1, <1>2, <1>5, <1>6, <1>7, <1>8, <1>9, Zenon DEF Accounted, Typed

\* free_encoder_input, for any set of inputs: what it takes off the list of a
\* request it takes off the references, unless another input keeps the hash,
\* and the entries nobody holds any more become reclaimable.  The requests that
\* the scheduler forgets at the same time hold nothing any more.
LEMMA FreeBooks ==
    ASSUME Typed, Accounted, NEW ids, FreeEncoderInputs(ids),
           \A r \in Req : \/ mm'[r] = mm[r]
                          \/ mm'[r] = <<>> /\ request_cached_ids'[r] = {}
    PROVE  /\ Accounted' /\ cached' = cached /\ refs' \in [Hash -> SUBSET Req]
           /\ request_cached_ids' \in [Req -> SUBSET Nat]
           /\ npu_cache' = npu_cache /\ cpu_cache' = cpu_cache
<1> DEFINE kept(r) == request_cached_ids[r] \ ids[r]
           released(r) == HashesOf(r, request_cached_ids[r] \cap ids[r]) \ HashesOf(r, kept(r))
           left(h) == {r \in refs[h] : h \notin released(r)}
           freed == {h \in Hash : refs[h] # {} /\ left(h) = {}}
<1>1. /\ request_cached_ids' = [r \in Req |-> kept(r)]
      /\ refs' = [h \in Hash |-> left(h)]
      /\ cpu_freeable' = cpu_freeable \cup ((freed \cap cpu_cache) \ cpu_freeable)
      /\ npu_freeable' = npu_freeable \cup ((freed \cap npu_cache) \ npu_freeable)
      /\ cached' = cached /\ npu_cache' = npu_cache /\ cpu_cache' = cpu_cache
  BY Zenon DEF FreeEncoderInputs
<1>2. /\ refs' \in [Hash -> SUBSET Req] /\ request_cached_ids' \in [Req -> SUBSET Nat]
      /\ \A r \in Req : request_cached_ids'[r] = kept(r)
      /\ \A h \in Hash : refs'[h] = left(h)
  BY <1>1, Zenon DEF Typed
<1>3. \A r \in Req : request_cached_ids'[r] \subseteq DOMAIN mm'[r]
  BY <1>2, Zenon DEF Accounted
<1>4. \A x \in Hash : refs'[x] = {q \in Req : x \in HashesOf(q, request_cached_ids[q])'}
  <2> SUFFICES ASSUME NEW x \in Hash, NEW q \in Req
               PROVE  q \in refs'[x] <=> x \in HashesOf(q, request_cached_ids[q])'
    BY <1>2, Zenon DEF Typed
  <2>1. q \in refs[x] <=> x \in HashesOf(q, request_cached_ids[q])
    BY Zenon DEF Accounted
  <2>2. HashesOf(q, request_cached_ids[q])' = HashesOf(q, kept(q))
    BY <1>2 DEF HashesOf
  <2>3. x \in HashesOf(q, request_cached_ids[q]) <=>
           \/ x \in HashesOf(q, kept(q))
           \/ x \in HashesOf(q, request_cached_ids[q] \cap ids[q])
    BY Zenon DEF HashesOf
  <2>4. q \in refs'[x] <=> q \in refs[x] /\ x \notin released(q)
    BY <1>2, Zenon
  <2> QED BY <2>1, <2>2, <2>3, <2>4, Zenon
<1> HIDE DEF kept, released, left
<1>5. \A h \in Hash : refs'[h] \subseteq refs[h]
  BY <1>2, Zenon DEF left
<1>6. /\ npu_freeable' = {x \in npu_cache' : refs'[x] = {}}
      /\ cpu_freeable' = {x \in cpu_cache' : refs'[x] = {}}
  <2>1. \A x \in Hash : x \in freed <=> refs[x] # {} /\ refs'[x] = {}
    BY <1>2, Zenon
  <2> QED BY <1>1, <1>5, <2>1, Zenon DEF Accounted, Typed
<1>7. cached' = npu_cache' \cup cpu_cache' /\ \A x \in Hash : refs'[x] # {} => x \in cached'
  BY <1>1, <1>5, Zenon DEF Accounted
<1> QED BY <1>1, <1>2, <1>3, <1>4, <1>6, <1>7, Zenon DEF Accounted

-----------------------------------------------------------------------------
(* The counters of the manager *)

\* What is reclaimable is in its tier, and a tier holds hashes.
LEMMA TiersTyped ==
    ASSUME Typed, Accounted
    PROVE  /\ npu_cache \in SUBSET Hash /\ cpu_cache \in SUBSET Hash
           /\ npu_freeable \in SUBSET npu_cache /\ cpu_freeable \in SUBSET cpu_cache
           /\ npu_freeable \in SUBSET Hash /\ cpu_freeable \in SUBSET Hash
  BY Zenon DEF Typed, Accounted

\* The counters do not depend on anything else.
LEMMA CountsUnchanged ==
    ASSUME Counted, UNCHANGED <<npuVars, cpuVars>>
    PROVE  Counted'
  BY Zenon DEF Counted, CheckInvariant, npuVars, cpuVars

\* Taking one hash out of a set, if it is there.
LEMMA SlotsWithoutOne ==
    ASSUME NEW A \in SUBSET Hash, NEW h \in Hash
    PROVE  Slots[A \ {h}] = Slots[A] - (IF h \in A THEN Size[h] ELSE 0)
<1>1. CASE h \in A
  <2>1. {h} \in SUBSET A
    BY <1>1, Zenon
  <2>2. Slots[A \ {h}] = Slots[A] - Slots[{h}]
    BY <2>1, SlotsLess, Zenon
  <2> QED BY <1>1, <2>2, SlotsOfFew, Zenon
<1>2. CASE h \notin A
  <2>1. A \ {h} = A
    BY <1>2, Zenon
  <2>2. Slots[A] = Slots[A] - 0
    BY SlotsAre
  <2> QED BY <1>2, <2>1, <2>2, Zenon
<1> QED BY <1>1, <1>2, Zenon

\* Max and Min of two numbers are numbers, Max is at least the first.
LEMMA MaxMinOfTwo ==
    ASSUME NEW a \in Int, NEW b \in Int
    PROVE  Min({a, b}) \in Int /\ Max({a, b}) \in Int /\ Max({a, b}) >= a
<1>1. \E x \in {a, b} : \A y \in {a, b} : x >= y
  <2>1. CASE a >= b
    BY <2>1
  <2>2. CASE b >= a
    BY <2>2
  <2> QED BY <2>1, <2>2
<1>2. \E x \in {a, b} : \A y \in {a, b} : x =< y
  <2>1. CASE a =< b
    BY <2>1
  <2>2. CASE b =< a
    BY <2>2
  <2> QED BY <2>1, <2>2
<1>3. Max({a, b}) \in {a, b} /\ \A y \in {a, b} : Max({a, b}) >= y
  BY <1>1, Zenon DEF Max
<1>4. Min({a, b}) \in {a, b}
  BY <1>2, Zenon DEF Min
<1> QED BY <1>3, <1>4, Zenon

\* should_promote makes room for the entry.
LEMMA PromoteFits ==
    ASSUME Typed, Accounted, Counted, NEW h \in Hash, NEW E \in SUBSET npu_freeable, ShouldPromote(h, E)
    PROVE  Size[h] =< npu_num_free_slots + Slots[E]
<1>1. Size[h] \in Nat /\ npu_num_free_slots \in Nat /\ Watermark \in Int
  BY SizeAssumption DEF Counted
<1>2. Slots[E] \in Nat /\ Slots[npu_freeable] \in Int
  <2>1. npu_freeable \in SUBSET Hash
    BY TiersTyped, Zenon
  <2>2. Slots[E] \in Nat /\ Slots[npu_freeable] \in Nat
    BY <2>1, SlotsLess, Zenon
  <2> QED BY <2>2
<1>3. CASE Size[h] =< npu_num_free_slots
  BY <1>1, <1>2, <1>3
<1>4. CASE ~(Size[h] =< npu_num_free_slots)
  <2> DEFINE a == Size[h] - npu_num_free_slots
             b == Min({Watermark - npu_num_free_slots, Slots[npu_freeable]})
  <2>1. E \in Evictions(npu_freeable, Max({a, b}))
    BY <1>4, Zenon DEF ShouldPromote
  <2>2. Slots[E] >= Max({a, b})
    BY <2>1, Zenon DEF Evictions
  <2>3. a \in Int /\ Watermark - npu_num_free_slots \in Int
    BY <1>1
  <2>4. b \in Int
    BY <1>2, <2>3, MaxMinOfTwo, Zenon
  <2>5. Max({a, b}) \in Int /\ Max({a, b}) >= a
    BY <2>3, <2>4, MaxMinOfTwo, Zenon
  <2> HIDE DEF b
  <2> QED BY <1>1, <1>2, <2>2, <2>5
<1> QED BY <1>3, <1>4, Zenon

\* A hit takes what it finds reclaimable off that counter; a promotion moves the
\* slots of the entries it evicts to the free ones and takes its own.
LEMMA HitCounts ==
    ASSUME Typed, Accounted, Counted, NEW r \in Req, NEW i \in DOMAIN mm[r], CheckAndUpdateCache(r, i)
    PROVE  Counted' /\ cpu_num_free_slots' = cpu_num_free_slots
<1>1. PICK h : h = mm[r][i]
  BY Zenon
<1>2. h \in Hash
  BY <1>1 DEF Typed
<1>3. /\ cpu_cache' = cpu_cache /\ cpu_num_free_slots' = cpu_num_free_slots
      /\ \/ UNCHANGED <<npuVars, cpu_freeable, cpu_num_freeable_slots>>
         \/ /\ cpu_freeable' = cpu_freeable \ {h}
            /\ cpu_num_freeable_slots' = cpu_num_freeable_slots - (IF h \in cpu_freeable THEN Size[h] ELSE 0)
            /\ \/ NpuHit(h)
               \/ h \notin npu_cache /\ \E E \in SUBSET npu_freeable : ShouldPromote(h, E) /\ Promote(h, E)
               \/ CpuGet(h)
  BY <1>1, Zenon DEF CheckAndUpdateCache
<1>4. /\ npu_cache \in SUBSET Hash /\ cpu_cache \in SUBSET Hash
      /\ npu_freeable \in SUBSET npu_cache /\ npu_freeable \in SUBSET Hash /\ cpu_freeable \in SUBSET Hash
  BY TiersTyped, Zenon
<1>5. /\ Slots[cpu_cache] + cpu_num_free_slots = CpuCacheSize
      /\ cpu_num_freeable_slots = cpu_num_free_slots + Slots[cpu_freeable]
      /\ Slots[npu_cache] + npu_num_free_slots = CacheSize
      /\ npu_num_freeable_slots = npu_num_free_slots + Slots[npu_freeable]
      /\ npu_num_free_slots \in Nat /\ cpu_num_free_slots \in Nat
  BY Zenon DEF Counted, CheckInvariant
<1>6. /\ Slots[npu_cache] \in Nat /\ Slots[npu_freeable] \in Nat /\ Slots[cpu_freeable] \in Nat
      /\ Size[h] \in Nat
  BY <1>2, <1>4, SlotsAre, SizeAssumption, Zenon
<1>7. CASE UNCHANGED <<npuVars, cpu_freeable, cpu_num_freeable_slots>>
  BY <1>3, <1>7, CountsUnchanged, Zenon DEF cpuVars
<1>8. CASE /\ cpu_freeable' = cpu_freeable \ {h}
           /\ cpu_num_freeable_slots' = cpu_num_freeable_slots - (IF h \in cpu_freeable THEN Size[h] ELSE 0)
           /\ \/ NpuHit(h)
              \/ h \notin npu_cache /\ \E E \in SUBSET npu_freeable : ShouldPromote(h, E) /\ Promote(h, E)
              \/ CpuGet(h)
  <2>1. cpu_num_freeable_slots' = cpu_num_free_slots' + Slots[cpu_freeable']
    <3>1. Slots[cpu_freeable'] = Slots[cpu_freeable] - (IF h \in cpu_freeable THEN Size[h] ELSE 0)
      BY <1>2, <1>4, <1>8, SlotsWithoutOne, Zenon
    <3> QED BY <1>3, <1>5, <1>6, <1>8, <3>1
  <2>2. CASE NpuHit(h)
    <3>1. /\ npu_freeable' = npu_freeable \ {h}
          /\ npu_num_freeable_slots' = npu_num_freeable_slots - (IF h \in npu_freeable THEN Size[h] ELSE 0)
          /\ npu_cache' = npu_cache /\ npu_num_free_slots' = npu_num_free_slots
      BY <2>2, Zenon DEF NpuHit
    <3>2. Slots[npu_freeable'] = Slots[npu_freeable] - (IF h \in npu_freeable THEN Size[h] ELSE 0)
      BY <1>2, <1>4, <3>1, SlotsWithoutOne, Zenon
    <3>3. npu_num_freeable_slots' = npu_num_free_slots' + Slots[npu_freeable']
      BY <1>5, <1>6, <3>1, <3>2
    <3> QED BY <1>3, <1>5, <2>1, <3>1, <3>3, Zenon DEF Counted, CheckInvariant
  <2>3. CASE CpuGet(h)
    BY <1>3, <1>5, <2>1, <2>3, Zenon DEF CpuGet, npuVars, Counted, CheckInvariant
  <2>4. ASSUME h \notin npu_cache, NEW E \in SUBSET npu_freeable, ShouldPromote(h, E), Promote(h, E)
        PROVE  Counted'
    <3>1. /\ npu_cache' = (npu_cache \ E) \cup {h} /\ npu_freeable' = npu_freeable \ E
          /\ npu_num_free_slots' = npu_num_free_slots + Slots[E] - Size[h]
          /\ npu_num_freeable_slots' = npu_num_freeable_slots - Size[h]
      BY <2>4, Zenon DEF Promote
    <3>2. Size[h] =< npu_num_free_slots + Slots[E]
      BY <1>2, <2>4, PromoteFits, Zenon
    <3>3. Slots[npu_freeable'] = Slots[npu_freeable] - Slots[E] /\ Slots[E] \in Nat
      BY <1>4, <3>1, SlotsLess, Zenon
    <3>4. Slots[npu_cache'] = Slots[npu_cache] - Slots[E] + Size[h]
      <4>1. E \in SUBSET npu_cache
        BY <1>4, Zenon
      <4>2. Slots[npu_cache \ E] = Slots[npu_cache] - Slots[E]
        BY <1>4, <4>1, SlotsLess, Zenon
      <4>3. npu_cache \ E \in SUBSET Hash /\ {h} \in SUBSET Hash /\ (npu_cache \ E) \cap {h} = {}
        BY <1>2, <1>4, <2>4, Zenon
      <4>4. Slots[npu_cache'] = Slots[npu_cache \ E] + Slots[{h}]
        BY <3>1, <4>3, SlotsAdd, Zenon
      <4> QED BY <1>2, <4>2, <4>4, SlotsOfFew, Zenon
    <3>5. /\ npu_num_free_slots' \in Nat
          /\ Slots[npu_cache'] + npu_num_free_slots' = CacheSize
          /\ npu_num_freeable_slots' = npu_num_free_slots' + Slots[npu_freeable']
      BY <1>5, <1>6, <3>1, <3>2, <3>3, <3>4
    <3> QED BY <1>3, <1>5, <2>1, <3>5, Zenon DEF Counted, CheckInvariant
  <2> QED BY <1>3, <1>8, <2>2, <2>3, <2>4, Zenon
<1> QED BY <1>3, <1>7, <1>8, Zenon

\* can_allocate leaves the slots free that it was asked for.
LEMMA EvictCounts ==
    ASSUME Typed, Accounted, Counted, NEW h \in Hash, NEW n \in Nat, CanAllocate(h, n)
    PROVE  Counted' /\ Size[h] + n =< cpu_num_free_slots'
<1>1. PICK E \in Evictions(cpu_freeable, Size[h] + n - cpu_num_free_slots) :
         /\ cpu_cache' = cpu_cache \ E /\ cpu_freeable' = cpu_freeable \ E
         /\ cpu_num_free_slots' = cpu_num_free_slots + Slots[E]
  BY Zenon DEF CanAllocate
<1>2. UNCHANGED npuVars /\ cpu_num_freeable_slots' = cpu_num_freeable_slots
  BY Zenon DEF CanAllocate
<1>3. E \in SUBSET cpu_freeable /\ Slots[E] >= Size[h] + n - cpu_num_free_slots
  BY <1>1, Zenon DEF Evictions
<1>4. /\ cpu_cache \in SUBSET Hash /\ cpu_freeable \in SUBSET Hash /\ E \in SUBSET cpu_cache
  BY <1>3, TiersTyped, Zenon
<1>5. /\ Slots[cpu_cache'] = Slots[cpu_cache] - Slots[E] /\ Slots[cpu_freeable'] = Slots[cpu_freeable] - Slots[E]
      /\ Slots[E] \in Nat /\ Slots[cpu_cache] \in Nat /\ Slots[cpu_freeable] \in Nat
  BY <1>1, <1>3, <1>4, SlotsLess, Zenon
<1>6. /\ Slots[cpu_cache] + cpu_num_free_slots = CpuCacheSize
      /\ cpu_num_freeable_slots = cpu_num_free_slots + Slots[cpu_freeable]
      /\ cpu_num_free_slots \in Nat /\ Size[h] \in Nat
  BY SizeAssumption, Zenon DEF Counted, CheckInvariant
<1>7. /\ Slots[cpu_cache'] + cpu_num_free_slots' = CpuCacheSize
      /\ cpu_num_freeable_slots' = cpu_num_free_slots' + Slots[cpu_freeable']
      /\ cpu_num_free_slots' \in Nat /\ Size[h] + n =< cpu_num_free_slots'
  BY <1>1, <1>2, <1>3, <1>5, <1>6
<1> QED BY <1>2, <1>7, Zenon DEF Counted, CheckInvariant, npuVars

\* allocate takes the slots of hashes that were in no tier.
LEMMA AllocateCounts ==
    ASSUME Typed, Accounted, Counted, NEW r \in Req, NEW ids, NEW dups,
           ids \subseteq DOMAIN mm[r], HashesOf(r, ids) \cap cached = {},
           Slots[HashesOf(r, ids)] =< cpu_num_free_slots, Allocate(r, ids, dups)
    PROVE  Counted'
<1>1. PICK H : H = HashesOf(r, ids)
  BY Zenon
<1>2. H \in SUBSET Hash
  BY <1>1 DEF HashesOf, Typed
<1>3. /\ cpu_cache' = cpu_cache \cup H /\ cpu_num_free_slots' = cpu_num_free_slots - Slots[H]
      /\ cpu_num_freeable_slots' = cpu_num_freeable_slots - Slots[H]
      /\ UNCHANGED <<cpu_freeable, npuVars>>
  BY <1>1, Zenon DEF Allocate
<1>4. cpu_cache \in SUBSET Hash /\ cpu_freeable \in SUBSET Hash /\ cpu_cache \cap H = {}
  BY <1>1, TiersTyped, Zenon DEF Accounted
<1>5. /\ Slots[cpu_cache'] = Slots[cpu_cache] + Slots[H] /\ Slots[cpu_cache] \in Nat /\ Slots[H] \in Nat
      /\ Slots[cpu_freeable] \in Nat
  BY <1>2, <1>3, <1>4, SlotsAdd, SlotsAre, Zenon
<1>6. /\ Slots[cpu_cache] + cpu_num_free_slots = CpuCacheSize
      /\ cpu_num_freeable_slots = cpu_num_free_slots + Slots[cpu_freeable]
      /\ cpu_num_free_slots \in Nat /\ Slots[H] =< cpu_num_free_slots
  BY <1>1, Zenon DEF Counted, CheckInvariant
<1>7. /\ Slots[cpu_cache'] + cpu_num_free_slots' = CpuCacheSize
      /\ cpu_num_freeable_slots' = cpu_num_free_slots' + Slots[cpu_freeable']
      /\ cpu_num_free_slots' \in Nat
  BY <1>3, <1>5, <1>6
<1> QED BY <1>3, <1>7, Zenon DEF Counted, CheckInvariant, npuVars

\* free_encoder_input makes the slots reclaimable of the entries that become so.
LEMMA FreeCounts ==
    ASSUME Typed, Accounted, Counted, NEW ids, FreeEncoderInputs(ids)
    PROVE  Counted' /\ cpu_num_free_slots' = cpu_num_free_slots
<1>1. PICK cpu \in SUBSET (cpu_cache \ cpu_freeable), npu \in SUBSET (npu_cache \ npu_freeable) :
         /\ cpu_freeable' = cpu_freeable \cup cpu
         /\ cpu_num_freeable_slots' = cpu_num_freeable_slots + Slots[cpu]
         /\ npu_freeable' = npu_freeable \cup npu
         /\ npu_num_freeable_slots' = npu_num_freeable_slots + Slots[npu]
  <2> DEFINE kept(r) == request_cached_ids[r] \ ids[r]
             released(r) == HashesOf(r, request_cached_ids[r] \cap ids[r]) \ HashesOf(r, kept(r))
             left(h) == {r \in refs[h] : h \notin released(r)}
             freed == {h \in Hash : refs[h] # {} /\ left(h) = {}}
             c == (freed \cap cpu_cache) \ cpu_freeable
             n == (freed \cap npu_cache) \ npu_freeable
  <2>1. /\ cpu_freeable' = cpu_freeable \cup c
        /\ cpu_num_freeable_slots' = cpu_num_freeable_slots + Slots[c]
        /\ npu_freeable' = npu_freeable \cup n
        /\ npu_num_freeable_slots' = npu_num_freeable_slots + Slots[n]
    BY Zenon DEF FreeEncoderInputs
  <2>2. c \in SUBSET (cpu_cache \ cpu_freeable) /\ n \in SUBSET (npu_cache \ npu_freeable)
    <3> HIDE DEF freed
    <3> QED BY Zenon
  <2> HIDE DEF c, n
  <2> QED BY <2>1, <2>2, Zenon
<1>2. UNCHANGED <<npu_cache, cpu_cache, npu_num_free_slots, cpu_num_free_slots>>
  BY Zenon DEF FreeEncoderInputs
<1>3. /\ cpu \in SUBSET Hash /\ npu \in SUBSET Hash /\ cpu_freeable \cap cpu = {} /\ npu_freeable \cap npu = {}
      /\ cpu_freeable \in SUBSET Hash /\ npu_freeable \in SUBSET Hash
  BY TiersTyped, Zenon
<1>4. /\ Slots[cpu_freeable'] = Slots[cpu_freeable] + Slots[cpu] /\ Slots[npu_freeable'] = Slots[npu_freeable] + Slots[npu]
      /\ Slots[cpu_freeable] \in Nat /\ Slots[npu_freeable] \in Nat /\ Slots[cpu] \in Nat /\ Slots[npu] \in Nat
  BY <1>1, <1>3, SlotsAdd, SlotsAre, Zenon
<1>5. /\ cpu_num_freeable_slots = cpu_num_free_slots + Slots[cpu_freeable]
      /\ npu_num_freeable_slots = npu_num_free_slots + Slots[npu_freeable]
      /\ npu_num_free_slots \in Nat /\ cpu_num_free_slots \in Nat
  BY Zenon DEF Counted, CheckInvariant
<1>6. /\ cpu_num_freeable_slots' = cpu_num_free_slots' + Slots[cpu_freeable']
      /\ npu_num_freeable_slots' = npu_num_free_slots' + Slots[npu_freeable']
  BY <1>1, <1>2, <1>4, <1>5
<1> QED BY <1>2, <1>6, Zenon DEF Counted, CheckInvariant

-----------------------------------------------------------------------------
(* The steps of a pass *)

\* Without a turn no request is looked at.
LEMMA NoTurnReq == NoTurn.req = NoReq
  BY DEF NoTurn

\* Without a request being scheduled nothing is planned.
LEMMA NoTurnPlans ==
    /\ NoTurn \in TurnType
    /\ turn' = NoTurn => Planned'
  BY DEF NoTurn, TurnType, Planned

\* A turn begins with nothing planned.
LEMMA TurnPlans ==
    ASSUME NEW r \in Req, NEW n \in Nat
    PROVE  /\ Turn(r, n) \in TurnType
           /\ turn' = Turn(r, n) => Planned'
<1>1. Turn(r, n) = [req |-> r, first |-> n + 1, input |-> n + 1,
                    todo |-> {}, dups |-> {}, closed |-> FALSE]
  BY Zenon DEF Turn
<1>2. n + 1 \in Nat \ {0}
  OBVIOUS
<1> QED BY <1>1, <1>2 DEF TurnType, Planned, HashesOf

\* Sequences over a set are closed under concatenation.
LEMMA ConcatType ==
    ASSUME NEW S, NEW s \in Seq(S), NEW t \in Seq(S)
    PROVE  s \o t \in Seq(S)
  OBVIOUS

\* Removing an element leaves a sequence.
LEMMA WithoutType ==
    ASSUME NEW S, NEW s \in Seq(S), NEW p \in 1 .. Len(s)
    PROVE  Without(s, p) \in Seq(S)
<1>1. SubSeq(s, 1, p - 1) \in Seq(S)
  OBVIOUS
<1>2. SubSeq(s, p + 1, Len(s)) \in Seq(S)
  OBVIOUS
<1> QED BY <1>1, <1>2, ConcatType, Zenon DEF Without

\* Arrivals concern an id that no request holds.
LEMMA ArriveInv ==
    ASSUME IInv, NEW r \in Req, Arrive(r)
    PROVE  IInv'
<1> USE DEF IInv
<1>1. PICK f \in Features : mm' = [mm EXCEPT ![r] = f]
  BY Zenon DEF Arrive
<1>2. /\ mm[r] = <<>> /\ waiting' = waiting \cup {r}
      /\ UNCHANGED <<managerVars, policy, running, computed, sent, finished, passVars, workerVars>>
  BY Zenon DEF Arrive
<1>3. f \in Seq(Hash)
  BY NameAssumption, Zenon
<1>4. /\ mm' \in [Req -> Seq(Hash)] /\ \A q \in Req \ {r} : mm'[q] = mm[q]
  BY <1>1, <1>3, Zenon DEF Typed
<1>5. request_cached_ids[r] = {}
  BY <1>2 DEF Accounted
<1>6. Typed'
  BY <1>2, <1>4, Zenon DEF Typed, managerVars, refVars, npuVars, cpuVars, passVars
<1>7. Accounted'
  <2>1. /\ cached' = cached /\ refs' = refs /\ request_cached_ids' = request_cached_ids
        /\ npu_cache' = npu_cache /\ cpu_cache' = cpu_cache
        /\ npu_freeable' = npu_freeable /\ cpu_freeable' = cpu_freeable
    BY <1>2, Zenon DEF managerVars, refVars, npuVars, cpuVars
  <2>2. \A q \in Req : HashesOf(q, request_cached_ids[q])' = HashesOf(q, request_cached_ids[q])
    BY <1>4, <1>5, <2>1, Zenon DEF HashesOf
  <2>3. \A q \in Req : request_cached_ids'[q] \subseteq DOMAIN mm'[q]
    BY <1>4, <1>5, <2>1, Zenon DEF Accounted
  <2> QED BY <2>1, <2>2, <2>3, Zenon DEF Accounted
<1>8. Planned'
  <2>1. turn' = turn /\ cached' = cached
    BY <1>2, Zenon DEF managerVars, refVars, passVars
  <2>2. CASE turn.req # r
    <3>1. turn.req # NoReq => mm'[turn.req] = mm[turn.req]
      BY <1>4, <2>2, Zenon DEF Typed, TurnType
    <3> QED BY <2>1, <3>1 DEF Planned, HashesOf
  <2>3. CASE turn.req = r
    <3>1. r # NoReq
      BY NameAssumption, Zenon
    <3>2. turn.todo = {} /\ turn.dups = {}
      BY <1>2, <2>3, <3>1 DEF Planned
    <3> QED BY <2>1, <3>2, Zenon DEF Planned, HashesOf
  <2> QED BY <2>2, <2>3, Zenon
<1> QED BY <1>6, <1>7, <1>8, Zenon

\* These steps leave the books alone and end a turn, if they touch it at all.
LEMMA IdleInv ==
    ASSUME IInv, BeginPass \/ NoNewTokens \/ NoVictim \/ Execute \/ ResetWorker
    PROVE  IInv'
<1> USE DEF IInv
<1>1. /\ UNCHANGED <<managerVars, mm, running, waiting, computed>>
      /\ turn' = turn \/ turn' = NoTurn
      /\ req_index' \in {req_index, req_index + 1, Len(running) + 1}
  BY Zenon DEF BeginPass, NoNewTokens, NoVictim, Execute, ResetWorker, requestVars, passVars
<1>2. UNCHANGED bookVars
  BY <1>1, Zenon DEF bookVars, managerVars, refVars, npuVars, cpuVars
<1>3. Typed'
  <2>1. req_index' \in Nat \ {0}
    BY <1>1 DEF Typed
  <2> QED BY <1>1, <1>2, <2>1, NoTurnPlans, Zenon DEF Typed, bookVars
<1>4. Planned'
  <2>1. CASE turn' = turn
    BY <1>2, <2>1 DEF Planned, HashesOf, bookVars
  <2> QED BY <1>1, <2>1, NoTurnPlans, Zenon
<1> QED BY <1>2, <1>3, <1>4, BooksUnchanged, Zenon

\* So do these, which begin one.
LEMMA VisitInv ==
    ASSUME IInv, VisitRunning \/ VisitWaiting
    PROVE  IInv'
<1> USE DEF IInv
<1>1. UNCHANGED <<managerVars, mm, running, waiting, computed>>
  BY Zenon DEF VisitRunning, VisitWaiting, requestVars
<1>2. UNCHANGED bookVars
  BY <1>1, Zenon DEF bookVars, managerVars, refVars, npuVars, cpuVars
<1>3. /\ \/ turn' = NoTurn
         \/ \E r \in Req, n \in Nat : turn' = Turn(r, n)
      /\ req_index' \in {req_index, req_index + 1}
  <2>1. CASE VisitRunning
    <3>1. running[req_index] \in Req /\ computed[running[req_index]] \in Nat
      BY <2>1 DEF VisitRunning, Typed
    <3> QED BY <2>1, <3>1, Zenon DEF VisitRunning
  <2>2. CASE VisitWaiting
    <3>1. PICK r \in waiting : \E n \in 0 .. (IF PrefixCaching THEN Len(mm[r]) ELSE 0) : turn' = Turn(r, n)
      BY <2>2, Zenon DEF VisitWaiting
    <3>2. PICK n \in 0 .. (IF PrefixCaching THEN Len(mm[r]) ELSE 0) : turn' = Turn(r, n)
      BY <3>1, Zenon
    <3>3. r \in Req /\ n \in Nat
      BY DEF Typed
    <3> QED BY <2>2, <3>2, <3>3, Zenon DEF VisitWaiting
  <2> QED BY <2>1, <2>2, Zenon
<1>4. /\ Planned'
      /\ turn' \in TurnType
  BY <1>3, NoTurnPlans, TurnPlans, Zenon
<1>5. req_index' \in Nat \ {0}
  BY <1>3 DEF Typed
<1>6. Typed'
  BY <1>1, <1>2, <1>4, <1>5, Zenon DEF Typed, bookVars
<1> QED BY <1>2, <1>4, <1>6, BooksUnchanged, Zenon

\* A turn that moves on keeps its type.
LEMMA TurnMoves ==
    ASSUME turn \in TurnType, NEW i \in Nat \ {0}
    PROVE  /\ [turn EXCEPT !.input = i] \in TurnType
           /\ \A j \in Nat : /\ [turn EXCEPT !.input = i, !.todo = @ \cup {j}] \in TurnType
                             /\ [turn EXCEPT !.input = i, !.dups = @ \cup {j}] \in TurnType
  BY Zenon DEF TurnType

\* So does one that is closed.
LEMMA TurnCloses ==
    ASSUME turn \in TurnType
    PROVE  [turn EXCEPT !.closed = TRUE] \in TurnType
  BY Zenon DEF TurnType

\* An input is a duplicate of a planned one, a hit, or is planned after room was
\* made for it.
LEMMA TryInputInv ==
    ASSUME IInv, TryInput
    PROVE  IInv'
<1> USE DEF IInv
<1> DEFINE r == turn.req
           i == turn.input
           h == mm[r][i]
<1>1. /\ r # NoReq /\ i =< Len(mm[r])
      /\ UNCHANGED <<requestVars, pass, req_index>>
  BY Zenon DEF TryInput
<1>2. r \in Req /\ i \in Nat \ {0} /\ i + 1 \in Nat \ {0} /\ turn \in TurnType
  BY <1>1 DEF Typed, TurnType
<1>3. i \in DOMAIN mm[r] /\ h \in Hash
  BY <1>1, <1>2 DEF Typed
<1>4. mm' = mm /\ running' = running /\ waiting' = waiting /\ computed' = computed
  BY <1>1, Zenon DEF requestVars
<1>5. CASE /\ h \in HashesOf(r, turn.todo)
           /\ turn' = [turn EXCEPT !.input = i + 1, !.dups = @ \cup {i}]
           /\ UNCHANGED managerVars
  <2>1. UNCHANGED bookVars
    BY <1>4, <1>5, Zenon DEF bookVars, managerVars, refVars, npuVars, cpuVars
  <2>2. /\ turn' \in TurnType /\ turn'.req = r /\ turn'.todo = turn.todo
        /\ turn'.dups = turn.dups \cup {i}
    BY <1>2, <1>5, TurnMoves, Zenon DEF TurnType
  <2>3. Typed'
    BY <1>1, <1>4, <2>1, <2>2, Zenon DEF Typed, bookVars
  <2>4. Planned'
    <3>1. HashesOf(r, turn.dups \cup {i}) \subseteq HashesOf(r, turn.todo)
      BY <1>1, <1>5, Zenon DEF Planned, HashesOf
    <3>2. /\ turn.todo \subseteq DOMAIN mm[r] /\ turn.dups \cup {i} \subseteq DOMAIN mm[r]
          /\ HashesOf(r, turn.todo) \cap cached = {}
      BY <1>1, <1>3, Zenon DEF Planned
    <3>3. mm' = mm /\ cached' = cached
      BY <2>1, Zenon DEF bookVars
    <3> QED BY <2>2, <3>1, <3>2, <3>3 DEF Planned, HashesOf
  <2> QED BY <2>1, <2>3, <2>4, BooksUnchanged, Zenon
<1>6. CASE CheckAndUpdateCache(r, i) /\ turn' = [turn EXCEPT !.input = i + 1]
  <2>1. /\ Accounted' /\ cached' \subseteq cached
        /\ refs' \in [Hash -> SUBSET Req]
        /\ request_cached_ids' \in [Req -> SUBSET Nat]
        /\ npu_cache' \subseteq Hash /\ cpu_cache' = cpu_cache
    BY <1>2, <1>3, <1>4, <1>6, HitBooks, Zenon
  <2>2. /\ turn' \in TurnType /\ turn'.req = r /\ turn'.todo = turn.todo
        /\ turn'.dups = turn.dups
    BY <1>2, <1>6, TurnMoves, Zenon DEF TurnType
  <2>3. Typed'
    BY <1>1, <1>4, <2>1, <2>2, Zenon DEF Typed
  <2>4. Planned'
    BY <1>1, <1>4, <2>1, <2>2, Zenon DEF Planned, HashesOf
  <2> QED BY <2>1, <2>3, <2>4, Zenon
<1>7. CASE /\ h \notin cached /\ CanAllocate(h, Slots[HashesOf(r, turn.todo)])
           /\ turn' = [turn EXCEPT !.input = i + 1, !.todo = @ \cup {i}]
  <2>1. /\ Accounted' /\ cached' \subseteq cached
        /\ refs' = refs /\ request_cached_ids' = request_cached_ids
        /\ npu_cache' = npu_cache /\ cpu_cache' \subseteq Hash
    BY <1>3, <1>4, <1>7, EvictBooks, Zenon
  <2>2. /\ turn' \in TurnType /\ turn'.req = r /\ turn'.todo = turn.todo \cup {i}
        /\ turn'.dups = turn.dups
    BY <1>2, <1>7, TurnMoves, Zenon DEF TurnType
  <2>3. Typed'
    BY <1>1, <1>4, <2>1, <2>2, Zenon DEF Typed
  <2>4. Planned'
    <3>1. /\ turn.todo \cup {i} \subseteq DOMAIN mm[r] /\ turn.dups \subseteq DOMAIN mm[r]
          /\ HashesOf(r, turn.dups) \subseteq HashesOf(r, turn.todo)
          /\ HashesOf(r, turn.todo) \cap cached = {}
      BY <1>1, <1>3, Zenon DEF Planned
    <3>2. HashesOf(r, turn.todo \cup {i}) = HashesOf(r, turn.todo) \cup {h}
      BY Zenon DEF HashesOf
    <3>3. HashesOf(r, turn.todo \cup {i}) \cap cached' = {}
      BY <1>7, <2>1, <3>1, <3>2, Zenon
    <3> QED BY <1>4, <2>2, <3>1, <3>2, <3>3 DEF Planned, HashesOf
  <2> QED BY <2>1, <2>3, <2>4, Zenon
<1> HIDE DEF IInv
<1> QED BY <1>5, <1>6, <1>7, Zenon DEF TryInput

\* A scheduled request allocates what its turn planned.
LEMMA ScheduledInv ==
    ASSUME IInv, Scheduled
    PROVE  IInv'
<1> USE DEF IInv
<1> DEFINE r == turn.req
<1>1. /\ r # NoReq /\ Allocate(r, turn.todo, turn.dups) /\ turn' = NoTurn /\ mm' = mm
      /\ \/ req_index' = req_index + 1 /\ UNCHANGED <<running, waiting>>
         \/ running' = Append(running, r) /\ waiting' = waiting \ {r} /\ UNCHANGED req_index
  BY Zenon DEF Scheduled
<1>2. r \in Req
  BY <1>1, Zenon DEF Typed, TurnType
<1>3. /\ Accounted' /\ refs' \in [Hash -> SUBSET Req]
      /\ request_cached_ids' \in [Req -> SUBSET Nat]
      /\ npu_cache' = npu_cache /\ cpu_cache' \subseteq Hash
  BY <1>1, <1>2, AllocateBooks, Zenon DEF Planned
<1>4. computed' \in [Req -> Nat]
  <2>1. PICK n \in {turn.input - 1, turn.input - 1 - 1} :
           n >= turn.first - 1 /\ computed' = [computed EXCEPT ![r] = n]
    BY Zenon DEF Scheduled
  <2>2. n \in Nat
    BY <2>1 DEF Typed, TurnType
  <2> QED BY <2>1, <2>2, Zenon DEF Typed
<1>5. running' \in Seq(Req) /\ waiting' \subseteq Req /\ req_index' \in Nat \ {0}
  <2>1. running \in Seq(Req) /\ waiting \subseteq Req /\ req_index \in Nat \ {0}
    BY Zenon DEF Typed
  <2>2. Append(running, r) \in Seq(Req) /\ req_index + 1 \in Nat \ {0}
    BY <1>2, <2>1
  <2> QED BY <1>1, <2>1, <2>2, Zenon
<1>6. Typed'
  BY <1>1, <1>3, <1>4, <1>5, NoTurnPlans, Zenon DEF Typed
<1> QED BY <1>1, <1>3, <1>6, NoTurnPlans, Zenon

-----------------------------------------------------------------------------
(* Releases, and the theorem *)

\* free releases every input of a request, which may leave the scheduler with
\* it (finished, aborted, or sent back to P).
LEMMA ReleaseBooks ==
    ASSUME Typed, Accounted, NEW v \in Req, Free(v),
           mm' = mm \/ mm' = [mm EXCEPT ![v] = <<>>]
    PROVE  /\ Accounted' /\ cached' = cached /\ refs' \in [Hash -> SUBSET Req]
           /\ request_cached_ids' \in [Req -> SUBSET Nat]
           /\ npu_cache' = npu_cache /\ cpu_cache' = cpu_cache
           /\ mm' \in [Req -> Seq(Hash)] /\ \A q \in Req \ {v} : mm'[q] = mm[q]
<1> DEFINE ids == [NoInputs EXCEPT ![v] = request_cached_ids[v]]
<1>1. FreeEncoderInputs(ids)
  BY Zenon DEF Free
<1>2. request_cached_ids'[v] = {}
  <2>1. request_cached_ids' = [r \in Req |-> request_cached_ids[r] \ ids[r]]
    BY <1>1, Zenon DEF FreeEncoderInputs
  <2>2. ids[v] = request_cached_ids[v]
    BY Zenon DEF NoInputs
  <2> QED BY <2>1, <2>2, Zenon
<1>3. mm' \in [Req -> Seq(Hash)]
  <2>1. <<>> \in Seq(Hash)
    OBVIOUS
  <2> QED BY <2>1, Zenon DEF Typed
<1>4. \A q \in Req \ {v} : mm'[q] = mm[q]
  BY Zenon DEF Typed
<1>5. \A q \in Req : mm'[q] = mm[q] \/ (mm'[q] = <<>> /\ request_cached_ids'[q] = {})
  <2>1. mm'[v] = mm[v] \/ mm'[v] = <<>>
    BY Zenon DEF Typed
  <2> SUFFICES ASSUME NEW q \in Req
               PROVE  mm'[q] = mm[q] \/ (mm'[q] = <<>> /\ request_cached_ids'[q] = {})
    BY Zenon
  <2>2. CASE q = v
    BY <1>2, <2>1, <2>2, Zenon
  <2>3. CASE q # v
    BY <1>4, <2>3, Zenon
  <2> QED BY <2>2, <2>3, Zenon
<1> HIDE DEF ids
<1> QED BY <1>1, <1>3, <1>4, <1>5, FreeBooks, Zenon

\* A victim releases everything.  If it is the request being scheduled its turn
\* is over; otherwise the plan of the turn stands.
LEMMA PreemptOneInv ==
    ASSUME IInv, PreemptOne
    PROVE  IInv'
<1> USE DEF IInv
<1> DEFINE r == turn.req
<1>1. PICK p \in 1 .. Len(running), fate \in Fates :
         /\ running' = Without(running, p)
         /\ Free(running[p])
         /\ computed' = [computed EXCEPT ![running[p]] = 0]
         /\ \/ waiting' = waiting \cup {running[p]} /\ UNCHANGED <<mm, finished>>
            \/ Forget(running[p]) /\ UNCHANGED waiting
         /\ turn' = IF running[p] = r THEN NoTurn ELSE [turn EXCEPT !.closed = TRUE]
         /\ req_index' = IF running[p] # r THEN req_index - (IF p < req_index THEN 1 ELSE 0)
                         ELSE IF policy = "priority" /\ fate = "waits" THEN req_index
                         ELSE Len(running)
  BY Zenon DEF PreemptOne
<1> DEFINE v == running[p]
<1>2. v \in Req /\ r # NoReq /\ turn \in TurnType /\ running \in Seq(Req)
  <2>1. r # NoReq
    BY Zenon DEF PreemptOne
  <2> QED BY <2>1 DEF Typed
<1>3. mm' = mm \/ mm' = [mm EXCEPT ![v] = <<>>]
  BY <1>1, Zenon DEF Forget
<1>4. /\ Accounted' /\ cached' = cached /\ refs' \in [Hash -> SUBSET Req]
      /\ request_cached_ids' \in [Req -> SUBSET Nat]
      /\ npu_cache' = npu_cache /\ cpu_cache' = cpu_cache
      /\ mm' \in [Req -> Seq(Hash)] /\ \A q \in Req \ {v} : mm'[q] = mm[q]
  BY <1>1, <1>2, <1>3, ReleaseBooks, Zenon
<1>5. running' \in Seq(Req)
  BY <1>1, <1>2, WithoutType, Zenon
<1>6. req_index' \in Nat \ {0}
  <2>1. Len(running) \in Nat \ {0} /\ p \in Nat \ {0} /\ req_index \in Nat \ {0}
    BY <1>2 DEF Typed
  <2>2. req_index - (IF p < req_index THEN 1 ELSE 0) \in Nat \ {0}
    BY <2>1
  <2> QED BY <1>1, <2>1, <2>2, Zenon
<1>7. computed' \in [Req -> Nat] /\ waiting' \subseteq Req
  BY <1>1, <1>2, Zenon DEF Typed
<1>8. turn' \in TurnType
  BY <1>1, <1>2, TurnCloses, NoTurnPlans, Zenon
<1>9. Typed'
  BY <1>4, <1>5, <1>6, <1>7, <1>8, Zenon DEF Typed
<1>10. Planned'
  <2>1. CASE v = r
    BY <1>1, <2>1, NoTurnPlans, Zenon
  <2>2. CASE v # r
    <3>1. turn' = [turn EXCEPT !.closed = TRUE]
      BY <1>1, <2>2, Zenon
    <3>2. turn'.req = r /\ turn'.todo = turn.todo /\ turn'.dups = turn.dups
      BY <1>2, <3>1, Zenon DEF TurnType
    <3>3. r \in Req /\ mm'[r] = mm[r]
      BY <1>2, <1>4, <2>2, Zenon DEF TurnType
    <3>4. /\ HashesOf(r, turn.todo)' = HashesOf(r, turn.todo)
          /\ HashesOf(r, turn.dups)' = HashesOf(r, turn.dups)
      BY <3>2, <3>3, Zenon DEF HashesOf
    <3>5. /\ turn.todo \subseteq DOMAIN mm[r] /\ turn.dups \subseteq DOMAIN mm[r]
          /\ HashesOf(r, turn.dups) \subseteq HashesOf(r, turn.todo)
          /\ HashesOf(r, turn.todo) \cap cached = {}
      BY <1>2, Zenon DEF Planned
    <3> QED BY <1>4, <3>2, <3>3, <3>4, <3>5, Zenon DEF Planned
  <2> QED BY <2>1, <2>2, Zenon
<1> QED BY <1>4, <1>9, <1>10, Zenon

\* A waiting request without blocks releases what its turn had taken.
LEMMA NoBlocksInv ==
    ASSUME IInv, NoBlocks
    PROVE  IInv'
<1> USE DEF IInv
<1>1. /\ turn.req # NoReq /\ Free(turn.req) /\ turn' = NoTurn
      /\ UNCHANGED <<mm, running, waiting, computed, req_index>>
  BY Zenon DEF NoBlocks, requestVars
<1>2. turn.req \in Req
  BY <1>1, Zenon DEF Typed, TurnType
<1>3. /\ Accounted' /\ cached' = cached /\ refs' \in [Hash -> SUBSET Req]
      /\ request_cached_ids' \in [Req -> SUBSET Nat]
      /\ npu_cache' = npu_cache /\ cpu_cache' = cpu_cache
      /\ mm' \in [Req -> Seq(Hash)]
  BY <1>1, <1>2, ReleaseBooks, Zenon
<1>4. Typed'
  BY <1>1, <1>3, NoTurnPlans, Zenon DEF Typed
<1> QED BY <1>1, <1>3, <1>4, NoTurnPlans, Zenon

\* The end of a pass releases the inputs that are computed.
LEMMA EndPassInv ==
    ASSUME IInv, EndPass
    PROVE  IInv'
<1> USE DEF IInv
<1> DEFINE ids == [r \in Req |-> IF r \in Members THEN 1 .. computed[r] ELSE {}]
<1>1. /\ FreeEncoderInputs(ids) /\ turn = NoTurn /\ req_index' = 1
      /\ UNCHANGED <<mm, running, waiting, computed, turn>>
  BY Zenon DEF EndPass
<1> HIDE DEF ids
<1>2. /\ Accounted' /\ cached' = cached /\ refs' \in [Hash -> SUBSET Req]
      /\ request_cached_ids' \in [Req -> SUBSET Nat]
      /\ npu_cache' = npu_cache /\ cpu_cache' = cpu_cache
  BY <1>1, FreeBooks, Zenon
<1>3. Typed'
  BY <1>1, <1>2 DEF Typed
<1> QED BY <1>1, <1>2, <1>3, NoTurnPlans, Zenon

\* A finished request releases everything and is forgotten.
LEMMA FinishInv ==
    ASSUME IInv, BetweenPasses, NEW v \in Req, Finish(v)
    PROVE  IInv'
<1> USE DEF IInv
<1>1. /\ Free(v) /\ mm' = [mm EXCEPT ![v] = <<>>] /\ pass = "none"
      /\ computed' = [computed EXCEPT ![v] = 0]
      /\ UNCHANGED <<turn, req_index>>
  BY Zenon DEF Finish, Forget, Idle, passVars
<1>6. turn' = NoTurn
  BY <1>1, Zenon DEF BetweenPasses
<1>2. /\ Accounted' /\ cached' = cached /\ refs' \in [Hash -> SUBSET Req]
      /\ request_cached_ids' \in [Req -> SUBSET Nat]
      /\ npu_cache' = npu_cache /\ cpu_cache' = cpu_cache
      /\ mm' \in [Req -> Seq(Hash)]
  BY <1>1, ReleaseBooks, Zenon
<1>3. running' \in Seq(Req) /\ waiting' \subseteq Req
  <2>1. running \in Seq(Req) /\ waiting \subseteq Req
    BY Zenon DEF Typed
  <2>2. \A p \in 1 .. Len(running) : Without(running, p) \in Seq(Req)
    BY <2>1, WithoutType, Zenon
  <2> QED BY <2>1, <2>2, Zenon DEF Finish
<1>4. computed' \in [Req -> Nat]
  BY <1>1, Zenon DEF Typed
<1>5. Typed'
  BY <1>1, <1>2, <1>3, <1>4, Zenon DEF Typed
<1> QED BY <1>2, <1>5, <1>6, NoTurnPlans, Zenon

\* reset leaves empty books.
LEMMA ResetInv ==
    ASSUME IInv, BetweenPasses, Reset
    PROVE  IInv'
<1> USE DEF IInv
<1>1. /\ cached' = {} /\ refs' = [h \in Hash |-> {}] /\ request_cached_ids' = NoInputs
      /\ npu_cache' = {} /\ cpu_cache' = {} /\ npu_freeable' = {} /\ cpu_freeable' = {}
      /\ UNCHANGED <<mm, running, waiting, computed, req_index, turn>>
      /\ pass = "none"
  BY Zenon DEF Reset, Idle, requestVars, passVars
<1>2. turn' = NoTurn
  BY <1>1, Zenon DEF BetweenPasses
<1>3. Typed'
  BY <1>1, Zenon DEF Typed, NoInputs
<1>4. Accounted'
  BY <1>1, Zenon DEF Accounted, NoInputs, HashesOf
<1> QED BY <1>2, <1>3, <1>4, NoTurnPlans, Zenon

\* The books are empty at first.
LEMMA InitInv == Init => IInv /\ BetweenPasses
<1> SUFFICES ASSUME Init PROVE IInv /\ BetweenPasses
  BY Zenon
<1>1. Typed
  <2>1. NoTurn \in TurnType
    BY DEF NoTurn, TurnType
  <2>2. <<>> \in Seq(Hash) /\ <<>> \in Seq(Req)
    OBVIOUS
  <2> QED BY <2>1, <2>2 DEF Init, Typed, NoInputs
<1>2. Accounted
  BY Zenon DEF Init, Accounted, NoInputs, HashesOf
<1>3. Planned /\ BetweenPasses
  BY Zenon DEF Init, Planned, NoTurn, BetweenPasses
<1> QED BY <1>1, <1>2, <1>3, Zenon DEF IInv

\* A turn is under way only within a pass.
LEMMA BetweenInv == BetweenPasses /\ [Next]_vars => BetweenPasses'
<1> SUFFICES ASSUME BetweenPasses, [Next]_vars PROVE BetweenPasses'
  BY Zenon
<1>1. NoTurn.req = NoReq
  BY Zenon DEF NoTurn
<1>2. CASE \/ \E r \in Req : Arrive(r) \/ Finish(r)
           \/ Reset \/ Execute \/ ResetWorker \/ UNCHANGED vars
  BY <1>2, Zenon DEF BetweenPasses, Arrive, Finish, Reset, Execute, ResetWorker, passVars, vars
<1>3. CASE BeginPass \/ VisitRunning \/ VisitWaiting
  BY <1>3, Zenon DEF BetweenPasses, BeginPass, VisitRunning, VisitWaiting
<1>4. CASE TryInput
  BY <1>1, <1>4, Zenon DEF BetweenPasses, TryInput
<1>5. CASE NoNewTokens \/ Scheduled \/ NoVictim \/ NoBlocks \/ EndPass
  BY <1>5, Zenon DEF BetweenPasses, NoNewTokens, Scheduled, NoVictim, NoBlocks, EndPass
<1>6. CASE PreemptOne
  BY <1>6, Zenon DEF BetweenPasses, PreemptOne
<1> QED BY <1>2, <1>3, <1>4, <1>5, <1>6, Zenon DEF Next

\* Every step keeps the books.
LEMMA NextInv == IInv /\ BetweenPasses /\ [Next]_vars => IInv'
<1> SUFFICES ASSUME IInv, BetweenPasses, [Next]_vars PROVE IInv'
  BY Zenon
<1>1. CASE UNCHANGED vars
  <2>1. /\ UNCHANGED <<managerVars, mm, running, waiting, computed, turn, req_index>>
    BY <1>1, Zenon DEF vars, requestVars, passVars
  <2>2. UNCHANGED bookVars
    BY <2>1, Zenon DEF bookVars, managerVars, refVars, npuVars, cpuVars
  <2>3. Typed'
    BY <2>1, <2>2, Zenon DEF IInv, Typed, bookVars
  <2>4. Planned'
    BY <2>1, <2>2 DEF IInv, Planned, HashesOf, bookVars
  <2> QED BY <2>2, <2>3, <2>4, BooksUnchanged, Zenon DEF IInv
<1>2. CASE Next
  BY <1>2, ArriveInv, FinishInv, IdleInv, VisitInv, TryInputInv, ScheduledInv,
     PreemptOneInv, NoBlocksInv, EndPassInv, ResetInv, Zenon DEF Next
<1> QED BY <1>1, <1>2, Zenon

\* Every step keeps the counters, and what can_allocate cleared stays free until
\* the turn allocates it or ends.
LEMMA NextCounts ==
    ASSUME IInv, IInv', BetweenPasses, Counted, AllocateFits, [Next]_vars
    PROVE  Counted' /\ AllocateFits'
<1> USE DEF IInv
<1>1. NoTurn.req = NoReq /\ (turn' = NoTurn => AllocateFits')
  BY DEF NoTurn, AllocateFits
<1>2. CASE \/ BeginPass \/ NoNewTokens \/ NoVictim \/ Execute \/ ResetWorker \/ UNCHANGED vars
  <2>1. UNCHANGED <<npuVars, cpuVars, mm>> /\ (turn' = turn \/ turn' = NoTurn)
    BY <1>2, Zenon DEF BeginPass, NoNewTokens, NoVictim, Execute, ResetWorker, managerVars, requestVars, passVars, vars
  <2>2. turn' = turn => AllocateFits'
    BY <2>1, Zenon DEF AllocateFits, HashesOf, cpuVars
  <2> QED BY <1>1, <2>1, <2>2, CountsUnchanged, Zenon
<1>3. CASE VisitRunning \/ VisitWaiting
  <2>1. UNCHANGED <<npuVars, cpuVars, mm>>
    BY <1>3, Zenon DEF VisitRunning, VisitWaiting, managerVars, requestVars
  <2>2. turn' = turn \/ turn'.todo = {}
    <3>1. \A r, n : Turn(r, n).todo = {}
      BY Zenon DEF Turn
    <3> QED BY <1>3, <3>1, Zenon DEF VisitRunning, VisitWaiting
  <2>3. turn' = turn => AllocateFits'
    BY <2>1, Zenon DEF AllocateFits, HashesOf, cpuVars
  <2>4. turn'.todo = {} => AllocateFits'
    <3>1. \A r : HashesOf(r, {})' = {}
      BY Zenon DEF HashesOf
    <3>2. 0 =< cpu_num_free_slots'
      BY <2>1 DEF cpuVars, Counted
    <3> QED BY <3>1, <3>2, SlotsOfFew, Zenon DEF AllocateFits
  <2> QED BY <2>1, <2>2, <2>3, <2>4, CountsUnchanged, Zenon
<1>4. ASSUME NEW r \in Req, Arrive(r) PROVE Counted' /\ AllocateFits'
  <2>1. UNCHANGED <<npuVars, cpuVars, turn>> /\ pass = "none"
    BY <1>4, Zenon DEF Arrive, Idle, managerVars, passVars
  <2>2. turn' = NoTurn
    BY <2>1, Zenon DEF BetweenPasses
  <2> QED BY <1>1, <2>1, <2>2, CountsUnchanged, Zenon
<1>5. CASE TryInput
  <2>1. PICK r, i, h : r = turn.req /\ i = turn.input /\ h = mm[r][i]
    BY Zenon
  <2>2. /\ r # NoReq /\ i =< Len(mm[r]) /\ mm' = mm
        /\ \/ h \in HashesOf(r, turn.todo) /\ turn' = [turn EXCEPT !.input = i + 1, !.dups = @ \cup {i}] /\ UNCHANGED managerVars
           \/ CheckAndUpdateCache(r, i) /\ turn' = [turn EXCEPT !.input = i + 1]
           \/ /\ h \notin HashesOf(r, turn.todo) /\ CanAllocate(h, Slots[HashesOf(r, turn.todo)])
              /\ turn' = [turn EXCEPT !.input = i + 1, !.todo = @ \cup {i}]
    BY <1>5, <2>1, Zenon DEF TryInput, requestVars
  <2>3. r \in Req /\ i \in DOMAIN mm[r] /\ h \in Hash /\ turn \in TurnType
    BY <2>1, <2>2 DEF Typed, TurnType
  <2>4. turn'.req = r
    <3>1. \/ turn' = [turn EXCEPT !.input = i + 1, !.dups = turn.dups \cup {i}]
          \/ turn' = [turn EXCEPT !.input = i + 1]
          \/ turn' = [turn EXCEPT !.input = i + 1, !.todo = turn.todo \cup {i}]
      BY <2>2, Zenon
    <3>2. /\ [turn EXCEPT !.input = i + 1, !.dups = turn.dups \cup {i}].req = turn.req
          /\ [turn EXCEPT !.input = i + 1].req = turn.req
          /\ [turn EXCEPT !.input = i + 1, !.todo = turn.todo \cup {i}].req = turn.req
      BY <2>3, Zenon DEF TurnType
    <3> QED BY <2>1, <3>1, <3>2, Zenon
  <2>5. HashesOf(turn.req, turn.todo)' = HashesOf(r, turn'.todo)
    BY <2>2, <2>4, Zenon DEF HashesOf
  <2>6. HashesOf(r, turn.todo) \in SUBSET Hash /\ Slots[HashesOf(r, turn.todo)] =< cpu_num_free_slots
    <3>1. turn.todo \subseteq DOMAIN mm[r]
      BY <2>1, <2>2, Zenon DEF Planned
    <3>2. HashesOf(r, turn.todo) \in SUBSET Hash
      BY <2>3, <3>1 DEF HashesOf, Typed
    <3> QED BY <2>1, <2>2, <3>2, Zenon DEF AllocateFits
  <2>7. CASE turn' = [turn EXCEPT !.input = i + 1, !.dups = @ \cup {i}] /\ UNCHANGED managerVars
    <3>1. turn'.todo = turn.todo
      BY <2>3, <2>7, Zenon DEF TurnType
    <3>2. UNCHANGED <<npuVars, cpuVars>>
      BY <2>7, Zenon DEF managerVars
    <3>3. AllocateFits'
      BY <2>5, <2>6, <3>1, <3>2, Zenon DEF AllocateFits, cpuVars
    <3> QED BY <3>2, <3>3, CountsUnchanged, Zenon
  <2>8. CASE CheckAndUpdateCache(r, i) /\ turn' = [turn EXCEPT !.input = i + 1]
    <3>1. turn'.todo = turn.todo
      BY <2>3, <2>8, Zenon DEF TurnType
    <3>2. Counted' /\ cpu_num_free_slots' = cpu_num_free_slots
      BY <2>3, <2>8, HitCounts, Zenon
    <3> QED BY <2>5, <2>6, <3>1, <3>2, Zenon DEF AllocateFits
  <2>9. CASE /\ h \notin HashesOf(r, turn.todo) /\ CanAllocate(h, Slots[HashesOf(r, turn.todo)])
             /\ turn' = [turn EXCEPT !.input = i + 1, !.todo = @ \cup {i}]
    <3>1. turn'.todo = turn.todo \cup {i}
      BY <2>3, <2>9, Zenon DEF TurnType
    <3>2. Slots[HashesOf(r, turn.todo)] \in Nat
      BY <2>6, SlotsAre, Zenon
    <3>3. Counted' /\ Size[h] + Slots[HashesOf(r, turn.todo)] =< cpu_num_free_slots'
      BY <2>3, <2>9, <3>2, EvictCounts, Zenon
    <3>4. HashesOf(r, turn.todo \cup {i}) = HashesOf(r, turn.todo) \cup {h}
      BY <2>1, Zenon DEF HashesOf
    <3>5. Slots[HashesOf(r, turn.todo) \cup {h}] = Slots[HashesOf(r, turn.todo)] + Slots[{h}]
      BY <2>3, <2>6, <2>9, SlotsAdd, Zenon
    <3>6. Slots[{h}] = Size[h] /\ Size[h] \in Nat \ {0} /\ cpu_num_free_slots' \in Nat
      BY <2>3, <3>3, SlotsOfFew, SizeAssumption, Zenon DEF Counted
    <3>7. Slots[HashesOf(r, turn.todo) \cup {h}] =< cpu_num_free_slots'
      BY <3>2, <3>3, <3>5, <3>6
    <3> QED BY <2>5, <3>1, <3>3, <3>4, <3>7, Zenon DEF AllocateFits
  <2> QED BY <2>2, <2>7, <2>8, <2>9, Zenon
<1>6. CASE Scheduled
  <2>1. turn.req # NoReq /\ Allocate(turn.req, turn.todo, turn.dups) /\ turn' = NoTurn
    BY <1>6, Zenon DEF Scheduled
  <2>2. turn.req \in Req
    BY <2>1, Zenon DEF Typed, TurnType
  <2>3. /\ turn.todo \subseteq DOMAIN mm[turn.req] /\ HashesOf(turn.req, turn.todo) \cap cached = {}
        /\ Slots[HashesOf(turn.req, turn.todo)] =< cpu_num_free_slots
    BY <2>1, Zenon DEF Planned, AllocateFits
  <2> QED BY <1>1, <2>1, <2>2, <2>3, AllocateCounts, Zenon
<1>7. CASE PreemptOne
  <2>1. PICK p \in 1 .. Len(running) :
           /\ Free(running[p])
           /\ mm' = mm \/ mm' = [mm EXCEPT ![running[p]] = <<>>]
           /\ turn' = IF running[p] = turn.req THEN NoTurn ELSE [turn EXCEPT !.closed = TRUE]
    BY <1>7, Zenon DEF PreemptOne, Forget
  <2>2. Counted' /\ cpu_num_free_slots' = cpu_num_free_slots
    BY <2>1, FreeCounts, Zenon DEF Free
  <2>3. CASE running[p] = turn.req
    BY <1>1, <2>1, <2>2, <2>3, Zenon
  <2>4. CASE running[p] # turn.req
    <3>1. turn'.req = turn.req /\ turn'.todo = turn.todo
      BY <2>1, <2>4, Zenon DEF Typed, TurnType
    <3>2. turn.req # NoReq => mm'[turn.req] = mm[turn.req]
      <4>1. turn.req \in Req \cup {NoReq} /\ mm \in [Req -> Seq(Hash)]
        BY Zenon DEF Typed, TurnType
      <4> QED BY <2>1, <2>4, <4>1, Zenon
    <3> QED BY <2>2, <3>1, <3>2, Zenon DEF AllocateFits, HashesOf
  <2> QED BY <2>3, <2>4, Zenon
<1>8. CASE NoBlocks
  BY <1>1, <1>8, FreeCounts, Zenon DEF NoBlocks, Free
<1>9. CASE EndPass
  BY <1>1, <1>9, FreeCounts, Zenon DEF EndPass
<1>10. ASSUME NEW r \in Req, Finish(r) PROVE Counted' /\ AllocateFits'
  <2>1. turn' = NoTurn /\ Free(r)
    BY <1>10, Zenon DEF Finish, Idle, passVars, BetweenPasses
  <2> QED BY <1>1, <2>1, FreeCounts, Zenon DEF Free
<1>11. CASE Reset
  <2>1. /\ turn' = NoTurn
        /\ npu_cache' = {} /\ cpu_cache' = {} /\ npu_freeable' = {} /\ cpu_freeable' = {}
        /\ npu_num_free_slots' = CacheSize /\ npu_num_freeable_slots' = CacheSize
        /\ cpu_num_free_slots' = CpuCacheSize /\ cpu_num_freeable_slots' = CpuCacheSize
    BY <1>11, Zenon DEF Reset, Idle, passVars, BetweenPasses
  <2> QED BY <1>1, <2>1, SlotsOfFew, SizeAssumption DEF Counted, CheckInvariant
<1> HIDE DEF IInv
<1> QED BY <1>2, <1>3, <1>4, <1>5, <1>6, <1>7, <1>8, <1>9, <1>10, <1>11, Zenon DEF Next

\* The books and the counters together.
LEMMA CountsInvariant == Spec => [](IInv /\ BetweenPasses /\ Counted /\ AllocateFits)
<1>1. Init => IInv /\ BetweenPasses /\ Counted /\ AllocateFits
  <2> SUFFICES ASSUME Init PROVE Counted /\ AllocateFits
    BY InitInv, Zenon
  <2>1. Counted
    BY SlotsOfFew, SizeAssumption DEF Init, Counted, CheckInvariant
  <2>2. AllocateFits
    BY Zenon DEF Init, AllocateFits, NoTurn
  <2> QED BY <2>1, <2>2, Zenon
<1>2. IInv /\ BetweenPasses /\ Counted /\ AllocateFits /\ [Next]_vars =>
         IInv' /\ BetweenPasses' /\ Counted' /\ AllocateFits'
  BY BetweenInv, NextInv, NextCounts, Zenon
<1> QED BY <1>1, <1>2, PTL DEF Spec

-----------------------------------------------------------------------------
(* Theorems *)

\* check_and_update_cache, can_allocate, allocate, free_encoder_input and reset
\* keep the manager's books in balance: in every reachable state an entry is
\* reclaimable exactly when it is in a tier and no request holds it, and every
\* entry a request holds is in a tier.
THEOREM BooksBalance == Spec => []Accounted
<1>1. IInv => Accounted
  BY Zenon DEF IInv
<1> QED BY <1>1, InitInv, BetweenInv, NextInv, PTL DEF Spec

\* _check_invariant never fails, whatever the sizes of the outputs.
THEOREM CountersAgree == Spec => []CheckInvariant
<1>1. IInv /\ BetweenPasses /\ Counted /\ AllocateFits => CheckInvariant
  BY Zenon DEF Counted
<1> QED BY <1>1, CountsInvariant, PTL

\* The assertion of allocate that the slots are there never fails: what
\* can_allocate cleared for the earlier inputs of a request is still free,
\* whatever is hit, promoted and preempted before the last one is allocated.
THEOREM AllocationsFit == Spec => []AllocateFits
  BY CountsInvariant, PTL

\* The assertion of allocate that the entry is not in the CPU tier yet never
\* fails.
THEOREM NothingAllocatedTwice == Spec => []AllocatesNew
<1>1. IInv => AllocatesNew
  BY Zenon DEF IInv, Planned, AllocatesNew
<1> QED BY <1>1, InitInv, BetweenInv, NextInv, PTL DEF Spec

=============================================================================
