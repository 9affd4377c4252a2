----------------------------- MODULE EncoderCache -----------------------------
(***************************************************************************)
(* The two-tier encoder cache: its manager in the scheduler process, the   *)
(* encoder part of a scheduling pass, and the tensors of the worker.       *)
(*                                                                         *)
(* The manager decides, without seeing a tensor, which encoder outputs are *)
(* held in CPU memory and which of them also on the NPU.  It counts        *)
(* references of requests, evicts what nobody references, and hands four   *)
(* lists to the worker with every step: what to drop from the NPU and from *)
(* the CPU, what to promote to the NPU, and what to copy there for a while.*)
(* The worker applies the lists some steps later, encodes what the pass    *)
(* scheduled, and looks up every output that the requests of the step need.*)
(*                                                                         *)
(* An encoder output is its mm_hash; equal hashes have equal sizes.        *)
(***************************************************************************)
EXTENDS Integers, Sequences, FiniteSets, FiniteSetsExt

CONSTANTS
    Hash,         \* mm_hashes
    Size,         \* number of embeddings of a hash
    Req,          \* request ids
    Features,     \* the lists of hashes a request may carry
    CacheSize,    \* cache_size: slots of the NPU tier
    CpuCacheSize, \* cpu_cache_slots
    Watermark,    \* ceiling of cache_size * watermark
    Policies,     \* subset of {"fcfs", "priority"}
    FineGrainedTP, \* o_proj or MLP tensor parallelism: no way back to P
    PrefixCaching, \* enable_prefix_caching, or a connector with a hit
    Lag,          \* steps in flight while the scheduler goes on: 0 is synchronous scheduling
    NoReq

ASSUME SizeAssumption ==
    /\ Size \in [Hash -> Nat \ {0}] /\ IsFiniteSet(Hash)
    /\ CacheSize \in Nat /\ CpuCacheSize \in Nat /\ Watermark \in 0 .. CacheSize
    /\ \A h \in Hash : Size[h] =< CpuCacheSize
ASSUME NameAssumption ==
    /\ Features \subseteq Seq(Hash) \ {<<>>} /\ NoReq \notin Req
    /\ Policies \subseteq {"fcfs", "priority"} /\ FineGrainedTP \in BOOLEAN
    /\ PrefixCaching \in BOOLEAN /\ Lag \in Nat

VARIABLES
    \* ScoreEncoderCacheManager
    cached,              \* keys of cached
    refs,                \* cached: the requests that reference a hash
    request_cached_ids,
    npu_cache, cpu_cache, npu_freeable, cpu_freeable,
    npu_num_free_slots, npu_num_freeable_slots,
    cpu_num_free_slots, cpu_num_freeable_slots,
    promoting, cpu_get, npu_freed, cpu_freed,
    \* RecomputeScheduler
    policy, mm,          \* hashes of the inputs of a request
    running, waiting,
    computed,            \* number of inputs all of whose tokens are computed
    sent,                \* requests the worker knows or is about to know
    finished,            \* finished_req_ids
    \* the pass under way
    pass, req_index, preempted,
    turn,                \* the request being scheduled
    scheduled,           \* inputs to encode, per request
    gathered,            \* inputs the step of a request reads
    \* worker
    inbox,
    encoder_cache, tmp_encoder_cache, cpu_encoder_cache,
    tmp_refs,            \* the worker's cached
    missed               \* hashes looked up in vain

npuVars == <<npu_cache, npu_freeable, npu_num_free_slots, npu_num_freeable_slots>>
cpuVars == <<cpu_cache, cpu_freeable, cpu_num_free_slots, cpu_num_freeable_slots>>
listVars == <<promoting, cpu_get, npu_freed, cpu_freed>>
refVars == <<cached, refs, request_cached_ids>>
managerVars == <<refVars, npuVars, cpuVars, listVars>>
requestVars == <<policy, mm, running, waiting, computed, sent, finished>>
passVars == <<pass, req_index, preempted, turn, scheduled, gathered>>
workerVars == <<inbox, encoder_cache, tmp_encoder_cache, cpu_encoder_cache, tmp_refs, missed>>
vars == <<managerVars, requestVars, passVars, workerVars>>

\* The sequence s without its p-th element.
Without(s, p) == SubSeq(s, 1, p - 1) \o SubSeq(s, p + 1, Len(s))

\* The number of embeddings of a set of hashes: an embedding is a pair of a hash
\* and a position.
Embeddings(S) == UNION {{h} \X (1 .. Size[h]) : h \in S}
Slots == [S \in SUBSET Hash |-> Cardinality(Embeddings(S))]

NoTurn == [req |-> NoReq, first |-> 1, input |-> 1, todo |-> {}, dups |-> {}, closed |-> FALSE]
NoInputs == [r \in Req |-> {}]

\* The hashes of a set of inputs of request r.
HashesOf(r, ids) == {mm[r][i] : i \in ids}

\* The hashes of several requests' inputs.
AllHashes(f) == UNION {HashesOf(r, f[r]) : r \in Req}

Init ==
    /\ cached = {} /\ refs = [h \in Hash |-> {}] /\ request_cached_ids = NoInputs
    /\ npu_cache = {} /\ cpu_cache = {} /\ npu_freeable = {} /\ cpu_freeable = {}
    /\ npu_num_free_slots = CacheSize /\ npu_num_freeable_slots = CacheSize
    /\ cpu_num_free_slots = CpuCacheSize /\ cpu_num_freeable_slots = CpuCacheSize
    /\ promoting = {} /\ cpu_get = {} /\ npu_freed = {} /\ cpu_freed = {}
    /\ policy \in Policies /\ mm = [r \in Req |-> <<>>]
    /\ running = <<>> /\ waiting = {} /\ computed = [r \in Req |-> 0]
    /\ sent = {} /\ finished = {}
    /\ pass = "none" /\ req_index = 1 /\ preempted = FALSE
    /\ turn = NoTurn /\ scheduled = NoInputs /\ gathered = NoInputs
    /\ inbox = <<>>
    /\ encoder_cache = {} /\ tmp_encoder_cache = {} /\ cpu_encoder_cache = {}
    /\ tmp_refs = [h \in Hash |-> {}] /\ missed = {}

-----------------------------------------------------------------------------
(* Manager *)

\* Some order of the freeable entries, popped until `needed` slots are won.
\* The order (scores on the NPU, age on the CPU) is a matter of policy.
Evictions(freeable, needed) ==
    {E \in SUBSET freeable :
        /\ Slots[E] >= needed
        /\ E # {} => \E last \in E : Slots[E \ {last}] < needed}

\* should_promote answers TRUE after evicting E.  With enough free slots nothing
\* is evicted.  Otherwise the scores decide; the slots the entry lacks are won,
\* and more when the watermark asks for more and the entries can give it.
ShouldPromote(h, E) ==
    /\ Size[h] =< npu_num_freeable_slots
    /\ IF Size[h] =< npu_num_free_slots
       THEN E = {}
       ELSE E \in Evictions(npu_freeable,
                    Max({Size[h] - npu_num_free_slots,
                         Min({Watermark - npu_num_free_slots, Slots[npu_freeable]})}))

\* The branch of check_and_update_cache that promotes h to the NPU, with
\* evict_from_npu for every entry of E.
Promote(h, E) ==
    /\ npu_cache' = (npu_cache \ E) \cup {h}
    /\ npu_freeable' = npu_freeable \ E
    /\ npu_num_free_slots' = npu_num_free_slots + Slots[E] - Size[h]
    /\ npu_num_freeable_slots' = npu_num_freeable_slots - Size[h]
    /\ cached' = cached \ (E \ cpu_cache)
    /\ promoting' = promoting \cup {h}
    /\ npu_freed' = npu_freed \cup E
    /\ UNCHANGED cpu_get

\* The branch that leaves h on the CPU and has the worker copy it.
CpuGet(h) ==
    /\ Size[h] > npu_num_free_slots
    /\ cpu_get' = cpu_get \cup {h}
    /\ UNCHANGED <<cached, npuVars, promoting, npu_freed>>

\* Mutant of NpuHit: the slots of the entry still count as reclaimable.
NpuHitKeepsCount(h) ==
    /\ npu_freeable' = npu_freeable \ {h}
    /\ UNCHANGED <<cached, npu_cache, npu_num_free_slots, npu_num_freeable_slots,
                   promoting, npu_freed, cpu_get>>

\* The branch for an entry on the NPU; it is not freeable from now on.
NpuHit(h) ==
    /\ npu_freeable' = npu_freeable \ {h}
    /\ npu_num_freeable_slots' =
          npu_num_freeable_slots - (IF h \in npu_freeable THEN Size[h] ELSE 0)
    /\ UNCHANGED <<cached, npu_cache, npu_num_free_slots, promoting, npu_freed, cpu_get>>

\* check_and_update_cache answers TRUE.
CheckAndUpdateCache(r, i) ==
    LET h == mm[r][i] IN
    /\ h \in cached
    /\ request_cached_ids' = [request_cached_ids EXCEPT ![r] = @ \cup {i}]
    /\ refs' = [refs EXCEPT ![h] = @ \cup {r}]
    /\ UNCHANGED <<cpu_cache, cpu_num_free_slots, cpu_freed>>
    /\ \/ /\ r \in refs[h]
          /\ UNCHANGED <<cached, npuVars, promoting, cpu_get, npu_freed,
                         cpu_freeable, cpu_num_freeable_slots>>
       \/ /\ r \notin refs[h]
          /\ cpu_freeable' = cpu_freeable \ {h}
          /\ cpu_num_freeable_slots' =
                cpu_num_freeable_slots - (IF h \in cpu_freeable THEN Size[h] ELSE 0)
          /\ \/ h \in npu_cache /\ NpuHit(h)
             \/ h \notin npu_cache /\ \E E \in SUBSET npu_freeable :
                                         ShouldPromote(h, E) /\ Promote(h, E)
             \/ h \notin npu_cache /\ CpuGet(h)

\* Mutant of CanAllocate: the slots planned for earlier inputs are not added.
CanAllocateAlone(h, pending) ==
    /\ Size[h] =< cpu_num_freeable_slots
    /\ \E E \in Evictions(cpu_freeable, Size[h] - cpu_num_free_slots) :
          /\ cpu_cache' = cpu_cache \ E
          /\ cpu_freeable' = cpu_freeable \ E
          /\ cpu_num_free_slots' = cpu_num_free_slots + Slots[E]
          /\ cached' = cached \ (E \ npu_cache)
          /\ cpu_freed' = cpu_freed \cup E
    /\ UNCHANGED <<refs, request_cached_ids, cpu_num_freeable_slots, npuVars,
                   promoting, cpu_get, npu_freed>>

\* can_allocate answers TRUE for h, `pending` slots being spoken for by earlier
\* inputs of the request.  Entries are evicted from the CPU until all fit.
CanAllocate(h, pending) ==
    /\ Size[h] + pending =< cpu_num_freeable_slots
    /\ \E E \in Evictions(cpu_freeable, Size[h] + pending - cpu_num_free_slots) :
          /\ cpu_cache' = cpu_cache \ E
          /\ cpu_freeable' = cpu_freeable \ E
          /\ cpu_num_free_slots' = cpu_num_free_slots + Slots[E]
          /\ cached' = cached \ (E \ npu_cache)
          /\ cpu_freed' = cpu_freed \cup E
    /\ UNCHANGED <<refs, request_cached_ids, cpu_num_freeable_slots, npuVars,
                   promoting, cpu_get, npu_freed>>

\* allocate for every input of ids, and one more reference for every input of
\* dups, whose hash is that of an allocated input (_allocate_encoder_inputs).
Allocate(r, ids, dups) ==
    LET H == HashesOf(r, ids) IN
    /\ cached' = cached \cup H
    /\ refs' = [h \in Hash |-> IF h \in H THEN refs[h] \cup {r} ELSE refs[h]]
    /\ request_cached_ids' = [request_cached_ids EXCEPT ![r] = @ \cup ids \cup dups]
    /\ cpu_cache' = cpu_cache \cup H
    /\ cpu_num_free_slots' = cpu_num_free_slots - Slots[H]
    /\ cpu_num_freeable_slots' = cpu_num_freeable_slots - Slots[H]
    /\ UNCHANGED <<cpu_freeable, npuVars, listVars>>

\* Mutant of FreeEncoderInputs: the first input freed takes the reference along
\* that a second input with the same hash still needs.
FreeEncoderInputsFirst(ids) ==
    LET released(r) == HashesOf(r, request_cached_ids[r] \cap ids[r])
        left(h) == {r \in refs[h] : h \notin released(r)}
        freed == {h \in Hash : refs[h] # {} /\ left(h) = {}}
        cpu == (freed \cap cpu_cache) \ cpu_freeable
        npu == (freed \cap npu_cache) \ npu_freeable
    IN  /\ request_cached_ids' = [r \in Req |-> request_cached_ids[r] \ ids[r]]
        /\ refs' = [h \in Hash |-> left(h)]
        /\ cpu_freeable' = cpu_freeable \cup cpu
        /\ cpu_num_freeable_slots' = cpu_num_freeable_slots + Slots[cpu]
        /\ npu_freeable' = npu_freeable \cup npu
        /\ npu_num_freeable_slots' = npu_num_freeable_slots + Slots[npu]
        /\ UNCHANGED <<cached, npu_cache, cpu_cache, npu_num_free_slots, cpu_num_free_slots>>

\* free_encoder_input for the inputs ids[r] of every request r.  A hash stays
\* referenced by r as long as another input of r has it.
FreeEncoderInputs(ids) ==
    LET kept(r) == request_cached_ids[r] \ ids[r]
        released(r) == HashesOf(r, request_cached_ids[r] \cap ids[r]) \ HashesOf(r, kept(r))
        left(h) == {r \in refs[h] : h \notin released(r)}
        freed == {h \in Hash : refs[h] # {} /\ left(h) = {}}
        cpu == (freed \cap cpu_cache) \ cpu_freeable
        npu == (freed \cap npu_cache) \ npu_freeable
    IN  /\ request_cached_ids' = [r \in Req |-> kept(r)]
        /\ refs' = [h \in Hash |-> left(h)]
        /\ cpu_freeable' = cpu_freeable \cup cpu
        /\ cpu_num_freeable_slots' = cpu_num_freeable_slots + Slots[cpu]
        /\ npu_freeable' = npu_freeable \cup npu
        /\ npu_num_freeable_slots' = npu_num_freeable_slots + Slots[npu]
        /\ UNCHANGED <<cached, npu_cache, cpu_cache, npu_num_free_slots, cpu_num_free_slots>>

\* free: every input of one request.
Free(r) ==
    /\ FreeEncoderInputs([NoInputs EXCEPT ![r] = request_cached_ids[r]])
    /\ UNCHANGED listVars

-----------------------------------------------------------------------------
(* A scheduling pass *)

\* The engine core, one thread, looks at its input queue and schedules between
\* two passes, with at most Lag steps not yet executed.
Idle == pass = "none" /\ Len(inbox) =< Lag

\* The proxy sends a request under an id that is not in use.
Arrive(r) ==
    /\ Idle
    /\ mm[r] = <<>> /\ r \notin finished \cup sent
    /\ \E f \in Features : mm' = [mm EXCEPT ![r] = f]
    /\ waiting' = waiting \cup {r}
    /\ UNCHANGED <<managerVars, policy, running, computed, sent, finished, passVars, workerVars>>

\* schedule() begins.
BeginPass ==
    /\ Idle
    /\ pass' = "running"
    /\ UNCHANGED <<managerVars, requestVars, req_index, preempted, turn, scheduled, gathered,
                   workerVars>>

\* Request r is looked at, n of whose inputs are computed.
Turn(r, n) ==
    [req |-> r, first |-> n + 1, input |-> n + 1, todo |-> {}, dups |-> {}, closed |-> FALSE]

\* The next running request is looked at, or passed over for lack of tokens,
\* of a step of distance or of transferred inputs.
VisitRunning ==
    /\ pass = "running" /\ turn = NoTurn /\ req_index =< Len(running)
    /\ \/ turn' = Turn(running[req_index], computed[running[req_index]]) /\ UNCHANGED req_index
       \/ req_index' = req_index + 1 /\ UNCHANGED turn
    /\ UNCHANGED <<managerVars, requestVars, pass, preempted, scheduled, gathered, workerVars>>

\* A waiting request is looked at, once the running ones are through and when
\* none was preempted.  How much of it is computed depends on what the prefix
\* cache or a connector holds.
VisitWaiting ==
    /\ \/ pass = "waiting"
       \/ pass = "running" /\ req_index > Len(running) /\ ~preempted
    /\ turn = NoTurn
    /\ pass' = "waiting"
    /\ \E r \in waiting : \E n \in 0 .. (IF PrefixCaching THEN Len(mm[r]) ELSE 0) : turn' = Turn(r, n)
    /\ UNCHANGED <<managerVars, requestVars, req_index, preempted, scheduled, gathered,
                   workerVars>>

\* Mutant of TryInput: an input is encoded again unless it is on the NPU.
TryInputNpuOnly ==
    LET r == turn.req
        i == turn.input
        h == mm[r][i]
        planned == HashesOf(r, turn.todo)
    IN  /\ r # NoReq /\ ~turn.closed /\ i =< Len(mm[r])
        /\ \/ /\ h \in planned
              /\ turn' = [turn EXCEPT !.input = i + 1, !.dups = @ \cup {i}]
              /\ UNCHANGED managerVars
           \/ /\ h \notin planned
              /\ CheckAndUpdateCache(r, i)
              /\ turn' = [turn EXCEPT !.input = i + 1]
           \/ /\ h \notin planned /\ h \notin npu_cache
              /\ CanAllocate(h, Slots[planned])
              /\ turn' = [turn EXCEPT !.input = i + 1, !.todo = @ \cup {i}]
        /\ UNCHANGED <<requestVars, pass, req_index, preempted, scheduled, gathered, workerVars>>

\* _try_schedule_encoder_inputs looks at the next input of the request.  The
\* chunk may end before any input: for lack of tokens, of compute budget, or
\* because can_allocate answers FALSE.
TryInput ==
    LET r == turn.req
        i == turn.input
        h == mm[r][i]
        planned == HashesOf(r, turn.todo)
    IN  /\ r # NoReq /\ ~turn.closed /\ i =< Len(mm[r])
        /\ \/ /\ h \in planned
              /\ turn' = [turn EXCEPT !.input = i + 1, !.dups = @ \cup {i}]
              /\ UNCHANGED managerVars
           \/ /\ h \notin planned
              /\ CheckAndUpdateCache(r, i)
              /\ turn' = [turn EXCEPT !.input = i + 1]
           \/ /\ h \notin planned /\ h \notin cached
              /\ CanAllocate(h, Slots[planned])
              /\ turn' = [turn EXCEPT !.input = i + 1, !.todo = @ \cup {i}]
        /\ UNCHANGED <<requestVars, pass, req_index, preempted, scheduled, gathered, workerVars>>

\* No token of the request fits: a running one is passed over, a waiting one
\* ends the pass.  References taken so far stay.
NoNewTokens ==
    /\ turn.req # NoReq /\ ~turn.closed
    /\ turn' = NoTurn
    /\ IF pass = "running" THEN req_index' = req_index + 1 /\ UNCHANGED pass
                           ELSE pass' = "closing" /\ UNCHANGED req_index
    /\ UNCHANGED <<managerVars, requestVars, preempted, scheduled, gathered, workerVars>>

\* The blocks are there: the request is scheduled and its inputs allocated.  The
\* step reads the inputs of the chunk; the last one may continue in the next.
Scheduled ==
    LET r == turn.req
        last == turn.input - 1
    IN  /\ r # NoReq
        /\ Allocate(r, turn.todo, turn.dups)
        /\ scheduled' = [scheduled EXCEPT ![r] = turn.todo]
        /\ gathered' = [gathered EXCEPT ![r] = turn.first .. last]
        /\ \E n \in {last, last - 1} :
              n >= turn.first - 1 /\ computed' = [computed EXCEPT ![r] = n]
        /\ turn' = NoTurn
        /\ IF pass = "running"
           THEN req_index' = req_index + 1 /\ UNCHANGED <<running, waiting>>
           ELSE /\ running' = Append(running, r)
                /\ waiting' = waiting \ {r}
                /\ UNCHANGED req_index
        /\ UNCHANGED <<policy, mm, sent, finished, pass, preempted, workerVars>>

\* A request leaves the scheduler: aborted, or finished.
Forget(r) ==
    /\ finished' = finished \cup {r}
    /\ mm' = [mm EXCEPT ![r] = <<>>]

\* What becomes of a preempted request: its KV is offloaded and it waits again,
\* or it goes back to P, or is aborted (_preempt_or_recompute).
Fates == {"waits", IF FineGrainedTP THEN "aborted" ELSE "returned"}

\* The blocks are missing and a running request makes room: the last one, or
\* under the priority policy any.  What it was to do in this step is withdrawn.
\* A request that was itself the victim ends the loop, except that under the
\* priority policy the requests after it go on.
PreemptOne ==
    LET r == turn.req IN
    /\ r # NoReq /\ pass = "running"
    /\ \E p \in 1 .. Len(running), fate \in Fates :
          LET v == running[p] IN
          /\ policy = "fcfs" => p = Len(running)
          /\ running' = Without(running, p)
          /\ Free(v)
          /\ scheduled' = [scheduled EXCEPT ![v] = {}]
          /\ gathered' = [gathered EXCEPT ![v] = {}]
          /\ computed' = [computed EXCEPT ![v] = 0]
          /\ preempted' = (preempted \/ fate # "aborted")
          /\ IF fate = "waits"
             THEN waiting' = waiting \cup {v} /\ UNCHANGED <<mm, finished>>
             ELSE Forget(v) /\ UNCHANGED waiting
          /\ turn' = IF v = r THEN NoTurn ELSE [turn EXCEPT !.closed = TRUE]
          /\ req_index' = IF v # r THEN req_index - (IF p < req_index THEN 1 ELSE 0)
                          ELSE IF policy = "priority" /\ fate = "waits" THEN req_index
                          ELSE Len(running)
    /\ UNCHANGED <<policy, sent, pass, workerVars>>

\* The blocks are missing and the victim's would not be free at once, or a
\* connector will free some: the loop over the running requests ends.
NoVictim ==
    /\ turn.req # NoReq /\ pass = "running"
    /\ turn' = NoTurn
    /\ req_index' = Len(running) + 1
    /\ UNCHANGED <<managerVars, requestVars, pass, preempted, scheduled, gathered, workerVars>>

\* The blocks are missing for a waiting request: its references are given back
\* and the pass ends.
NoBlocks ==
    /\ turn.req # NoReq /\ pass = "waiting"
    /\ Free(turn.req)
    /\ turn' = NoTurn
    /\ pass' = "closing"
    /\ UNCHANGED <<requestVars, req_index, preempted, scheduled, gathered, workerVars>>

Members == {running[p] : p \in 1 .. Len(running)}

\* The step for the worker, with the lists of get_manager_metadata.
Step ==
    [kind |-> "step", npu_freed |-> npu_freed, cpu_freed |-> cpu_freed,
     promoting |-> promoting, cpu_get |-> cpu_get,
     encode |-> AllHashes(scheduled), gather |-> AllHashes(gathered),
     finished |-> finished,
     new |-> [h \in Hash |-> {r \in Members \ sent : h \in HashesOf(r, 1 .. Len(mm[r]))}]]

\* schedule() ends: the lists leave with the step, and inputs whose tokens are
\* all scheduled lose their reference (_update_after_schedule).
EndPass ==
    /\ pass # "none" /\ turn = NoTurn
    /\ inbox' = Append(inbox, Step)
    /\ FreeEncoderInputs([r \in Req |-> IF r \in Members THEN 1 .. computed[r] ELSE {}])
    /\ promoting' = {} /\ cpu_get' = {} /\ npu_freed' = {} /\ cpu_freed' = {}
    /\ sent' = sent \cup Members \cup finished
    /\ finished' = {}
    /\ pass' = "none" /\ req_index' = 1 /\ preempted' = FALSE
    /\ scheduled' = NoInputs /\ gathered' = NoInputs
    /\ UNCHANGED <<policy, mm, running, waiting, computed, turn,
                   encoder_cache, tmp_encoder_cache, cpu_encoder_cache, tmp_refs, missed>>

\* A request finishes or is aborted between two passes.
Finish(r) ==
    /\ Idle
    /\ \/ \E p \in 1 .. Len(running) :
             running[p] = r /\ running' = Without(running, p) /\ UNCHANGED waiting
       \/ r \in waiting /\ waiting' = waiting \ {r} /\ UNCHANGED running
    /\ Free(r)
    /\ Forget(r)
    /\ computed' = [computed EXCEPT ![r] = 0]
    /\ UNCHANGED <<policy, sent, passVars, workerVars>>

\* reset: new weights invalidate every output.  The worker clears its tiers
\* when the call reaches it, after the steps sent before.
Reset ==
    /\ Idle
    /\ cached' = {} /\ refs' = [h \in Hash |-> {}] /\ request_cached_ids' = NoInputs
    /\ npu_cache' = {} /\ cpu_cache' = {} /\ npu_freeable' = {} /\ cpu_freeable' = {}
    /\ npu_num_free_slots' = CacheSize /\ npu_num_freeable_slots' = CacheSize
    /\ cpu_num_free_slots' = CpuCacheSize /\ cpu_num_freeable_slots' = CpuCacheSize
    /\ promoting' = {} /\ cpu_get' = {} /\ npu_freed' = {} /\ cpu_freed' = {}
    /\ inbox' = Append(inbox, [kind |-> "reset"])
    /\ UNCHANGED <<requestVars, passVars, encoder_cache, tmp_encoder_cache,
                   cpu_encoder_cache, tmp_refs, missed>>

-----------------------------------------------------------------------------
(* Worker *)

\* Mutant of Execute: outputs leave the CPU after the step's were cached.
ExecuteFreesLast ==
    LET o == Head(inbox)
        orphans == {h \in Hash : tmp_refs[h] # {} /\ tmp_refs[h] \subseteq o.finished}
        cpu == cpu_encoder_cache
        npu == (encoder_cache \ o.npu_freed) \cup (o.promoting \cap cpu)
        tmp == (tmp_encoder_cache \ orphans) \cup ((o.cpu_get \cap cpu) \ npu)
        toNpu == (o.encode \cap o.promoting) \ o.npu_freed
        npu2 == npu \cup toNpu
        tmp2 == tmp \cup (o.encode \ toNpu)
        cpu2 == (cpu \cup o.encode) \ o.cpu_freed
    IN  /\ inbox # <<>> /\ o.kind = "step"
        /\ encoder_cache' = npu2
        /\ cpu_encoder_cache' = cpu2
        /\ tmp_encoder_cache' = tmp2 \cup ((o.gather \cap cpu2) \ npu2)
        /\ missed' = missed \cup (o.gather \ (npu2 \cup tmp2 \cup cpu2))
        /\ tmp_refs' = [h \in Hash |-> (tmp_refs[h] \ o.finished) \cup o.new[h]]
        /\ inbox' = Tail(inbox)
        /\ sent' = sent \ o.finished
        /\ UNCHANGED <<managerVars, policy, mm, running, waiting, computed, finished, passVars>>

\* Mutant of Execute: npu_freed is not applied.
ExecuteKeepsNpu ==
    LET o == Head(inbox)
        orphans == {h \in Hash : tmp_refs[h] # {} /\ tmp_refs[h] \subseteq o.finished}
        cpu == cpu_encoder_cache \ o.cpu_freed
        npu == encoder_cache \cup (o.promoting \cap cpu)
        tmp == (tmp_encoder_cache \ orphans) \cup ((o.cpu_get \cap cpu) \ npu)
        toNpu == (o.encode \cap o.promoting) \ o.npu_freed
        npu2 == npu \cup toNpu
        tmp2 == tmp \cup (o.encode \ toNpu)
        cpu2 == cpu \cup o.encode
    IN  /\ inbox # <<>> /\ o.kind = "step"
        /\ encoder_cache' = npu2
        /\ cpu_encoder_cache' = cpu2
        /\ tmp_encoder_cache' = tmp2 \cup ((o.gather \cap cpu2) \ npu2)
        /\ missed' = missed \cup (o.gather \ (npu2 \cup tmp2 \cup cpu2))
        /\ tmp_refs' = [h \in Hash |-> (tmp_refs[h] \ o.finished) \cup o.new[h]]
        /\ inbox' = Tail(inbox)
        /\ sent' = sent \ o.finished
        /\ UNCHANGED <<managerVars, policy, mm, running, waiting, computed, finished, passVars>>

\* One step of the worker: the states of finished requests go, with temporary
\* copies nobody references; the lists are applied in this order; new requests
\* are tracked; the scheduled inputs are encoded and cached; every input of the
\* step is looked up on the NPU, among the copies, and on the CPU.
Execute ==
    LET o == Head(inbox)
        orphans == {h \in Hash : tmp_refs[h] # {} /\ tmp_refs[h] \subseteq o.finished}
        cpu == cpu_encoder_cache \ o.cpu_freed
        npu == (encoder_cache \ o.npu_freed) \cup (o.promoting \cap cpu)
        tmp == (tmp_encoder_cache \ orphans) \cup ((o.cpu_get \cap cpu) \ npu)
        toNpu == (o.encode \cap o.promoting) \ o.npu_freed
        npu2 == npu \cup toNpu
        tmp2 == tmp \cup (o.encode \ toNpu)
        cpu2 == cpu \cup o.encode
    IN  /\ inbox # <<>> /\ o.kind = "step"
        /\ encoder_cache' = npu2
        /\ cpu_encoder_cache' = cpu2
        /\ tmp_encoder_cache' = tmp2 \cup ((o.gather \cap cpu2) \ npu2)
        /\ missed' = missed \cup (o.gather \ (npu2 \cup tmp2 \cup cpu2))
        /\ tmp_refs' = [h \in Hash |-> (tmp_refs[h] \ o.finished) \cup o.new[h]]
        /\ inbox' = Tail(inbox)
        /\ sent' = sent \ o.finished
        /\ UNCHANGED <<managerVars, policy, mm, running, waiting, computed, finished, passVars>>

\* reset_encoder_cache of the model runner.
ResetWorker ==
    /\ inbox # <<>> /\ Head(inbox).kind = "reset"
    /\ encoder_cache' = {} /\ tmp_encoder_cache' = {} /\ cpu_encoder_cache' = {}
    /\ tmp_refs' = [h \in Hash |-> {}]
    /\ inbox' = Tail(inbox)
    /\ UNCHANGED <<managerVars, requestVars, passVars, missed>>

\* A lookup in vain is an assertion failure that ends the engine.
Next ==
    /\ missed = {}
    /\ \/ \E r \in Req : Arrive(r) \/ Finish(r)
       \/ BeginPass \/ VisitRunning \/ VisitWaiting
       \/ TryInput \/ NoNewTokens \/ Scheduled
       \/ PreemptOne \/ NoVictim \/ NoBlocks \/ EndPass \/ Reset
       \/ Execute \/ ResetWorker

Spec == Init /\ [][Next]_vars

-----------------------------------------------------------------------------
(* Properties *)

\* The type of every variable.  A counter of free or of reclaimable slots stays
\* between zero and the size of its tier.
TypeOK ==
    /\ npu_num_free_slots \in 0 .. CacheSize /\ npu_num_freeable_slots \in 0 .. CacheSize
    /\ cpu_num_free_slots \in 0 .. CpuCacheSize /\ cpu_num_freeable_slots \in 0 .. CpuCacheSize
    /\ cached \subseteq Hash /\ refs \in [Hash -> SUBSET Req]
    /\ request_cached_ids \in [Req -> SUBSET Nat]
    /\ npu_cache \subseteq Hash /\ cpu_cache \subseteq Hash
    /\ npu_freeable \subseteq Hash /\ cpu_freeable \subseteq Hash
    /\ promoting \subseteq Hash /\ cpu_get \subseteq Hash
    /\ npu_freed \subseteq Hash /\ cpu_freed \subseteq Hash
    /\ policy \in Policies /\ mm \in [Req -> Seq(Hash)]
    /\ running \in Seq(Req) /\ waiting \subseteq Req /\ computed \in [Req -> Nat]
    /\ sent \subseteq Req /\ finished \subseteq Req
    /\ pass \in {"none", "running", "waiting", "closing"}
    /\ req_index \in Nat /\ preempted \in BOOLEAN
    /\ scheduled \in [Req -> SUBSET Nat] /\ gathered \in [Req -> SUBSET Nat]
    /\ turn.req \in Req \cup {NoReq} /\ turn.first \in Nat /\ turn.input \in Nat
    /\ turn.todo \subseteq Nat /\ turn.dups \subseteq Nat /\ turn.closed \in BOOLEAN
    /\ encoder_cache \subseteq Hash /\ tmp_encoder_cache \subseteq Hash
    /\ cpu_encoder_cache \subseteq Hash /\ tmp_refs \in [Hash -> SUBSET Req]
    /\ missed \subseteq Hash

\* _check_invariant, the test the manager makes of itself: in either tier the
\* counters of free and of reclaimable slots agree with the entries.
CheckInvariant ==
    /\ Slots[cpu_cache] + cpu_num_free_slots = CpuCacheSize
    /\ cpu_num_freeable_slots = cpu_num_free_slots + Slots[cpu_freeable]
    /\ Slots[npu_cache] + npu_num_free_slots = CacheSize
    /\ npu_num_freeable_slots = npu_num_free_slots + Slots[npu_freeable]

\* The manager's books: an entry is known exactly while it is in a tier; the
\* requests recorded for a hash are those that hold an input with it; such a
\* hash is in a tier; and what check_and_update_cache, free_encoder_input and
\* the evictions leave reclaimable is exactly what no request holds.
Accounted ==
    /\ cached = npu_cache \cup cpu_cache
    /\ \A r \in Req : request_cached_ids[r] \subseteq DOMAIN mm[r]
    /\ \A h \in Hash : refs[h] = {r \in Req : h \in HashesOf(r, request_cached_ids[r])}
    /\ \A h \in Hash : refs[h] # {} => h \in cached
    /\ npu_freeable = {h \in npu_cache : refs[h] = {}}
    /\ cpu_freeable = {h \in cpu_cache : refs[h] = {}}

\* allocate asserts that the entry is not in the CPU tier yet: what a pass
\* found missing is still missing when the request's blocks have been found,
\* whatever was hit, evicted and preempted in between.
AllocatesNew ==
    turn.req # NoReq => HashesOf(turn.req, turn.todo) \cap cached = {}

\* allocate asserts that the slots are there: those can_allocate cleared for the
\* inputs of a request are still free when all of them are allocated.
AllocateFits ==
    turn.req # NoReq => Slots[HashesOf(turn.req, turn.todo)] =< cpu_num_free_slots

\* No pass is under way and the worker has executed every step.
Quiet == pass = "none" /\ inbox = <<>>

\* Under FCFS the worker holds in CPU memory exactly what the manager believes
\* is there, although it only ever hears of differences, steps later.
CpuTiersAgree == policy = "fcfs" /\ Quiet => cpu_encoder_cache = cpu_cache

\* Under FCFS, without fine-grained tensor parallelism, the worker keeps no
\* output on the NPU that the manager does not count, so the tier stays within
\* cache_size.
NpuBounded == policy = "fcfs" /\ Quiet => encoder_cache \subseteq npu_cache

\* "True indicates a cache hit and no need to recompute the encoder output":
\* what the manager reports as a hit is found by the worker in one of its tiers.
HitServed == missed = {}
=============================================================================
